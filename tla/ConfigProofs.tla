---------------------------- MODULE ConfigProofs ----------------------------
(***************************************************************************)
(* What AppConfig::validate accepts, every part of the service accepts: no *)
(* start and no request fails on a limit that was not refused with the     *)
(* configuration, with two exceptions that are assumptions here.           *)
(***************************************************************************)
EXTENDS Config, TLAPS

\* The limits that hold when a configuration names none.
THEOREM DefaultsValid ==
  DefaultLimits \in LimitsConfig /\ LimitsValid(DefaultLimits)
BY DEF DefaultLimits, LimitsConfig, LimitsValid, Bounded, KiB, MiB, GiB

\* StatefulQueryService::new and StatefulContextService::new cannot fail on
\* accepted limits: the executors and both stores take them.
THEOREM ServicesStart ==
  ASSUME NEW l \in LimitsConfig, LimitsValid(l)
  PROVE  /\ ExecutorAccepts(l.max_concurrent_scans)
         /\ StoreAccepts(l.cursor_capacity, l.cursor_ttl_seconds)
         /\ StoreAccepts(l.match_reference_capacity, l.match_reference_ttl_seconds)
BY DEF LimitsConfig, LimitsValid, Bounded, ExecutorAccepts, StoreAccepts

\* A quotient times its divisor does not exceed the dividend.
LEMMA Quotient ==
  ASSUME NEW a \in Nat, NEW b \in Nat \ {0}
  PROVE  a \div b \in Nat /\ (a \div b) * b <= a
OBVIOUS

\* As many lines as chunk_result_limit allows fit into the content budget of a
\* scan even when every byte of each becomes a replacement character of three:
\* no line of a chunk is dropped for its size.
THEOREM ChunkFits ==
  ASSUME NEW m \in Nat, Bounded(m, MiB)
  PROVE  /\ ChunkResultLimit(m) \in 1..200
         /\ ChunkResultLimit(m) * (3 * m) <= 16 * MiB
<1> DEFINE line == 3 * m
           q == (16 * MiB) \div line
<1>1. m >= 1 /\ m <= 1048576 /\ 16 * MiB = 16777216 /\ 16 * MiB \in Nat
  BY DEF Bounded, MiB, KiB
<1>2. line \in Nat \ {0} /\ line <= 3145728 /\ Larger(3 * m, 1) = line
  BY <1>1 DEF Larger
<1>3. q \in Nat /\ q * line <= 16 * MiB
  BY <1>1, <1>2, Quotient
<1>4. ChunkResultLimit(m) = Smaller(Larger(q, 1), 200)
  BY <1>2 DEF ChunkResultLimit
<1> DEFINE n == Smaller(Larger(q, 1), 200)
<1>5. n \in 1..200 /\ (n <= q \/ n = 1)
  BY <1>3 DEF Smaller, Larger
<1>6. CASE n = 1
  BY <1>1, <1>2, <1>4, <1>6
<1>7. CASE n <= q
  <2>1. n * line <= q * line
    <3> HIDE DEF line, q, n
    <3> QED BY <1>2, <1>3, <1>5, <1>7
  <2>2. n * line <= 16 * MiB
    <3> HIDE DEF line, q, n
    <3> QED BY <2>1, <1>1, <1>2, <1>3, <1>5
  <2> QED BY <2>2, <1>4, <1>5
<1> QED BY <1>5, <1>6, <1>7

\* The budget of a scan never exceeds what ScanRequest::validate allows, and
\* leaves room for the byte that shows the end of the file, unless the rest of
\* the snapshot is 64 GiB or more.
THEOREM ScanBudgetRoom ==
  ASSUME NEW l \in LimitsConfig, LimitsValid(l),
         NEW snapshot \in Nat \ {0}, NEW left \in 1..l.max_scan_bytes_per_page
  PROVE  LET budget == ScanBudget(snapshot, left) IN
         /\ Bounded(budget, 64 * GiB)
         /\ budget <= left + 1
         /\ (snapshot <= left /\ snapshot < 64 * GiB) => budget = snapshot + 1
BY DEF LimitsConfig, LimitsValid, Bounded, ScanBudget, Smaller, GiB, MiB, KiB

\* Every scan a page asks for is one ScanRequest::validate accepts, provided the
\* keyword is no longer than a line preview.  query_binding does not check that:
\* such a search is refused only when its first file is scanned.
THEOREM ScansAccepted ==
  ASSUME NEW l \in LimitsConfig, LimitsValid(l),
         NEW b \in QueryBinding, RequestAccepted(b, l),
         b.keyword.bytes <= l.max_line_bytes,
         NEW snapshot \in Nat \ {0}, NEW left \in 1..l.max_scan_bytes_per_page
  PROVE  ScanAccepts(b.keyword, ScanLimits(l, ScanBudget(snapshot, left)))
<1> DEFINE s == ScanLimits(l, ScanBudget(snapshot, left))
<1>1. Bounded(s.max_scan_bytes, 64 * GiB)
  BY ScanBudgetRoom DEF ScanLimits
<1>2. l.max_line_bytes \in Nat /\ Bounded(l.max_line_bytes, MiB)
  BY DEF LimitsConfig, LimitsValid
<1>3. s.max_results = ChunkResultLimit(l.max_line_bytes) /\ s.max_line_bytes = l.max_line_bytes
  BY DEF ScanLimits
<1>4. Bounded(s.max_results, 200)
  BY <1>2, <1>3, ChunkFits DEF Bounded
<1>5. b.keyword.chars \in 1..256 /\ b.keyword.has \cap {"newline", "return"} = {}
  BY DEF RequestAccepted, BindingValid
<1>6. /\ Bounded(s.max_returned_content_bytes, 16 * MiB)
      /\ Bounded(s.read_buffer_bytes, MiB)
  BY DEF ScanLimits, Bounded, MiB, KiB
<1> QED BY <1>1, <1>2, <1>3, <1>4, <1>5, <1>6 DEF ScanAccepts

\* The limits a context is read under are accepted whenever its request was.
THEOREM ContextReadsAccepted ==
  ASSUME NEW l \in LimitsConfig, LimitsValid(l),
         NEW before \in Nat, NEW after \in Nat, ContextRequestAccepted(before, after, l)
  PROVE  ContextAccepts(ContextReadLimits(l), before, after)
BY DEF LimitsConfig, LimitsValid, Bounded, ContextRequestAccepted, ContextAccepts,
       ContextReadLimits, Smaller, Larger, MiB, KiB, GiB

\* A path the configuration accepts SafeRoot opens: it has no component that
\* leads elsewhere.
LEMMA FilePathsAccepted ==
  ASSUME NEW p \in PathText, FilePathValid(p)
  PROVE  FilePathAccepted(p)
<1>1. p.pieces # <<>> /\ p.pieces \in Seq(Piece) /\ 1 \in DOMAIN p.pieces
  BY DEF PathText
<1>2. \A i \in DOMAIN p.pieces : p.pieces[i] = "name"
  BY DEF FilePathValid
<1>3. \A i \in DOMAIN p.pieces : Component(p, i) = "Normal"
  BY <1>2 DEF Component
<1> QED BY <1>1, <1>3 DEF FilePathAccepted

LEMMA DirectoryPathsAccepted ==
  ASSUME NEW p \in PathText, DirectoryPathValid(p)
  PROVE  DirectoryPathAccepted(p)
<1>1. CASE p.pieces = <<"dot">>
  <2>1. DOMAIN p.pieces = {1} /\ p.pieces[1] = "dot"
    BY <1>1
  <2>2. Component(p, 1) = "CurDir"
    BY <2>1 DEF Component
  <2> QED BY <2>1, <2>2 DEF DirectoryPathAccepted, IsSingleDot
<1>2. CASE FilePathValid(p)
  BY <1>2, FilePathsAccepted DEF DirectoryPathAccepted
<1> QED BY <1>1, <1>2 DEF DirectoryPathValid

\* from_config of the registry compiles what the configuration accepted, if its
\* suffixes are short in bytes: the configuration counts their characters,
\* discovery their bytes.
THEOREM RulesCompile ==
  ASSUME NEW r \in DirectoryRule, DirectoryRuleValid(r),
         \A i \in DOMAIN r.include_suffixes : r.include_suffixes[i].bytes <= 128
  PROVE  DiscoveryAccepts(r)
<1>1. r.path \in PathText /\ r.include_suffixes \in Seq(Text)
  BY DEF DirectoryRule
<1>2. DirectoryPathAccepted(r.path)
  BY <1>1, DirectoryPathsAccepted DEF DirectoryRuleValid
<1>3. ASSUME NEW i \in DOMAIN r.include_suffixes
      PROVE  r.include_suffixes[i].bytes \in 1..128
  <2> DEFINE t == r.include_suffixes[i]
  <2>1. t \in Text
    BY <1>1, <1>3
  <2>2. SuffixValid(t) /\ t.bytes <= 128
    BY <1>3 DEF DirectoryRuleValid
  <2>3. t.chars \in Nat /\ t.bytes \in Nat /\ t.chars <= t.bytes
    BY <2>1 DEF Text
  <2> QED BY <2>2, <2>3 DEF SuffixValid
<1> QED BY <1>2, <1>3 DEF DirectoryRuleValid, SuffixValid, DiscoveryAccepts

\* Without that assumption it need not: 128 characters of two bytes are a valid
\* suffix of the configuration, and the service does not start with it.
THEOREM SuffixesCountDifferently ==
  \E t \in Text : SuffixValid(t) /\ ~(t.bytes \in 1..128)
<1> DEFINE t == [value |-> 0, chars |-> 128, bytes |-> 255, has |-> {}, dot |-> TRUE]
<1>1. t \in [value : Nat, chars : Nat, bytes : Nat,
              has : SUBSET {"nul", "slash", "return", "newline"}, dot : BOOLEAN]
  <2>1. {} \in SUBSET {"nul", "slash", "return", "newline"}
    OBVIOUS
  <2> QED BY <2>1
<1>2. t.chars <= t.bytes /\ t.bytes <= 4 * t.chars
  OBVIOUS
<1>3. t \in Text
  BY <1>1, <1>2 DEF Text
<1>4. SuffixValid(t) /\ ~(t.bytes \in 1..128)
  BY DEF SuffixValid
<1> QED BY <1>3, <1>4

\* An accepted source can be registered: its explicit files can be opened, its
\* rules compiled (with suffixes short in bytes), its timestamps parsed.
THEOREM SourcesRegister ==
  ASSUME NEW s \in LogSourceConfig, SourceValid(s),
         \A i \in DOMAIN s.directories :
           LET suffixes == s.directories[i].include_suffixes
           IN  \A j \in DOMAIN suffixes : suffixes[j].bytes <= 128
  PROVE  /\ \A i \in DOMAIN s.files : FilePathAccepted(s.files[i])
         /\ \A i \in DOMAIN s.directories : DiscoveryAccepts(s.directories[i])
         /\ \A r \in s.timestamp_rule : TimestampAccepts(r)
<1>1. /\ s.files \in Seq(PathText) /\ s.directories \in Seq(DirectoryRule)
      /\ s.timestamp_rule \subseteq TimestampRule
  BY DEF LogSourceConfig
<1>2. ASSUME NEW i \in DOMAIN s.files PROVE FilePathAccepted(s.files[i])
  <2>1. s.files[i] \in PathText
    BY <1>1, <1>2
  <2>2. FilePathValid(s.files[i])
    BY <1>2 DEF SourceValid
  <2> QED BY <2>1, <2>2, FilePathsAccepted
<1>3. ASSUME NEW i \in DOMAIN s.directories PROVE DiscoveryAccepts(s.directories[i])
  BY <1>1, <1>3, RulesCompile DEF SourceValid
<1>4. ASSUME NEW r \in s.timestamp_rule PROVE TimestampAccepts(r)
  <2>1. TimestampRuleValid(r) /\ r \in TimestampRule
    BY <1>1, <1>4 DEF SourceValid
  <2>2. \A f \in r.format : f \in Text /\ NonEmptyText(f, 128)
    BY <2>1 DEF TimestampRuleValid, TimestampRule
  <2>3. \A f \in r.format : f.chars \in 1..128
    BY <2>2 DEF NonEmptyText, OptionalText, Text
  <2>4. \A o \in r.default_offset_seconds : o \in Int /\ -86400 < o /\ o < 86400
    BY <2>1 DEF TimestampRuleValid, TimestampRule
  <2> QED BY <2>1, <2>3, <2>4 DEF TimestampRuleValid, TimestampAccepts
<1> QED BY <1>2, <1>3, <1>4

\* The same of a whole configuration: SourceRegistry::from_config and the new of
\* both services fail on nothing that the validation could have told, the length
\* of suffixes in bytes apart.
THEOREM ConfigurationsStart ==
  ASSUME NEW c \in AppConfig, ConfigValid(c),
         NEW i \in DOMAIN c.sources,
         \A d \in DOMAIN c.sources[i].directories :
           LET suffixes == c.sources[i].directories[d].include_suffixes
           IN  \A j \in DOMAIN suffixes : suffixes[j].bytes <= 128
  PROVE  /\ ExecutorAccepts(c.limits.max_concurrent_scans)
         /\ StoreAccepts(c.limits.cursor_capacity, c.limits.cursor_ttl_seconds)
         /\ \A f \in DOMAIN c.sources[i].files : FilePathAccepted(c.sources[i].files[f])
         /\ \A d \in DOMAIN c.sources[i].directories :
              DiscoveryAccepts(c.sources[i].directories[d])
<1>1. c.limits \in LimitsConfig /\ LimitsValid(c.limits)
  BY DEF AppConfig, ConfigValid
<1>2. c.sources[i] \in LogSourceConfig /\ SourceValid(c.sources[i])
  BY DEF AppConfig, ConfigValid
<1> QED BY <1>1, <1>2, ServicesStart, SourcesRegister
=============================================================================
