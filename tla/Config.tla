------------------------------- MODULE Config -------------------------------
(***************************************************************************)
(* What AppConfig::validate of src/src/config.rs accepts, and what the     *)
(* parts of the service check again of what they are given: the scanner,   *)
(* the context reader, the stores, the executors, discovery, safe_fs.rs    *)
(* and the time filter each have limits of their own.                      *)
(*                                                                         *)
(* All of it is pure: a validation is the predicate that it answers Ok.    *)
(* ConfigProofs shows that what the configuration accepts the parts accept.*)
(***************************************************************************)
EXTENDS Integers, Sequences, FiniteSets

KiB == 1024
MiB == 1024 * KiB
GiB == 1024 * MiB

\* A text is known by what is checked of it: characters, bytes of UTF-8, and
\* which special ones are in it ("nul", "slash", "return", "newline") or in
\* front ("dot").
Text == {t \in [value : Nat, chars : Nat, bytes : Nat,
                has : SUBSET {"nul", "slash", "return", "newline"}, dot : BOOLEAN] :
           t.chars <= t.bytes /\ t.bytes <= 4 * t.chars}

\* A path is the text and its pieces between slashes: nothing at all, one dot,
\* two dots, or a name.
Piece == {"nothing", "dot", "dots", "name"}
PathText == [text : Text, pieces : Seq(Piece) \ {<<>>}]

Distinct(s) == \A i, j \in DOMAIN s : i # j => s[i] # s[j]

-----------------------------------------------------------------------------
(***************************************************************************)
(* The configuration: limits.                                              *)
(***************************************************************************)

LimitsConfig ==
  [max_sources_per_query : Nat, max_scan_files_per_query : Nat,
   max_scan_bytes_per_page : Nat, query_timeout_millis : Nat,
   default_results_per_page : Nat, max_results_per_page : Nat,
   max_line_bytes : Nat, max_returned_content_bytes : Nat, max_response_bytes : Nat,
   max_context_lines_per_side : Nat, max_concurrent_scans : Nat,
   match_reference_capacity : Nat, match_reference_ttl_seconds : Nat,
   cursor_capacity : Nat, cursor_ttl_seconds : Nat]

\* LimitsConfig::default
DefaultLimits ==
  [max_sources_per_query |-> 10, max_scan_files_per_query |-> 500,
   max_scan_bytes_per_page |-> 512 * MiB, query_timeout_millis |-> 10000,
   default_results_per_page |-> 50, max_results_per_page |-> 200,
   max_line_bytes |-> 16 * KiB, max_returned_content_bytes |-> 512 * KiB,
   max_response_bytes |-> MiB, max_context_lines_per_side |-> 50,
   max_concurrent_scans |-> 4, match_reference_capacity |-> 10000,
   match_reference_ttl_seconds |-> 600, cursor_capacity |-> 1000,
   cursor_ttl_seconds |-> 300]

Bounded(value, maximum) == value # 0 /\ value <= maximum

LimitsValid(l) ==
  /\ Bounded(l.max_sources_per_query, 10)
  /\ Bounded(l.max_scan_files_per_query, 10000)
  /\ Bounded(l.max_scan_bytes_per_page, 64 * GiB)
  /\ Bounded(l.query_timeout_millis, 10 * 60 * 1000)
  /\ Bounded(l.default_results_per_page, 200)
  /\ Bounded(l.max_results_per_page, 200)
  /\ Bounded(l.max_line_bytes, MiB)
  /\ Bounded(l.max_returned_content_bytes, 16 * MiB)
  /\ Bounded(l.max_response_bytes, 64 * MiB)
  /\ Bounded(l.max_context_lines_per_side, 50)
  /\ Bounded(l.max_concurrent_scans, 64)
  /\ Bounded(l.match_reference_capacity, 1000000)
  /\ Bounded(l.match_reference_ttl_seconds, 24 * 60 * 60)
  /\ Bounded(l.cursor_capacity, 1000000)
  /\ Bounded(l.cursor_ttl_seconds, 24 * 60 * 60)
  /\ l.default_results_per_page <= l.max_results_per_page
  /\ l.max_line_bytes <= l.max_returned_content_bytes
  /\ l.max_returned_content_bytes < l.max_response_bytes

-----------------------------------------------------------------------------
(***************************************************************************)
(* The configuration: sources.                                             *)
(***************************************************************************)

OptionalText(t, max) == t.chars <= max /\ "nul" \notin t.has
NonEmptyText(t, max) == t.chars # 0 /\ OptionalText(t, max)

\* is_normal_relative_path, without and with the single dot allowed
FilePathValid(p) ==
  /\ OptionalText(p.text, 4096)
  /\ \A i \in DOMAIN p.pieces : p.pieces[i] = "name"
DirectoryPathValid(p) == p.pieces = <<"dot">> \/ FilePathValid(p)

\* is_valid_suffix
SuffixValid(t) ==
  /\ t.chars \in 1..128
  /\ t.dot
  /\ t.has = {}

\* DirectoryRule::validate
DirectoryRuleValid(r) ==
  /\ DirectoryPathValid(r.path)
  /\ Len(r.include_suffixes) \in 1..32
  /\ \A i \in DOMAIN r.include_suffixes : SuffixValid(r.include_suffixes[i])
  /\ Distinct(r.include_suffixes)

\* TimestampRule::validate; a custom rule has a format and may have a default
\* offset, a rule for RFC 3339 has neither.
TimestampRuleValid(r) ==
  /\ Bounded(r.prefix_bytes, 256)
  /\ \A f \in r.format : NonEmptyText(f, 128)
  /\ \A s \in r.default_offset_seconds : -86399 <= s /\ s <= 86399

\* LogSourceConfig::validate, without the descriptive texts that nothing else of
\* the service looks at; a source has no, or one, timestamp rule.
SourceValid(s) ==
  /\ s.files # <<>> \/ s.directories # <<>>
  /\ Len(s.files) <= 10000
  /\ \A i \in DOMAIN s.files : FilePathValid(s.files[i])
  /\ Distinct(s.files)
  /\ Len(s.directories) <= 64
  /\ \A i \in DOMAIN s.directories : DirectoryRuleValid(s.directories[i])
  /\ \A i, j \in DOMAIN s.directories :
       i # j => s.directories[i].path # s.directories[j].path
  /\ \A r \in s.timestamp_rule : TimestampRuleValid(r)

\* AppConfig::validate
ConfigValid(c) ==
  /\ c.version = 1
  /\ Len(c.sources) \in 1..100
  /\ \A i \in DOMAIN c.sources : SourceValid(c.sources[i])
  /\ \A i, j \in DOMAIN c.sources : i # j => c.sources[i].source_id # c.sources[j].source_id
  /\ LimitsValid(c.limits)

DirectoryRule == [path : PathText, recursive : BOOLEAN, include_suffixes : Seq(Text)]
TimestampRule ==
  [prefix_bytes : Nat, format : SUBSET Text, default_offset_seconds : SUBSET Int]
LogSourceConfig ==
  [source_id : STRING, files : Seq(PathText), directories : Seq(DirectoryRule),
   timestamp_rule : SUBSET TimestampRule]
AppConfig == [version : Nat, sources : Seq(LogSourceConfig), limits : LimitsConfig]

-----------------------------------------------------------------------------
(***************************************************************************)
(* What the parts check when they are given it.                            *)
(***************************************************************************)

\* ScanExecutor::new and ContextExecutor::new
ExecutorAccepts(concurrent) == Bounded(concurrent, 64)

\* validate_store_config
StoreAccepts(capacity, ttl) == capacity # 0 /\ ttl # 0

\* What Path::components makes of a piece: repeated slashes and inner dots go.
Component(p, i) ==
  CASE p.pieces[i] = "dots" -> "ParentDir"
    [] p.pieces[i] = "nothing" -> IF i = 1 /\ Len(p.pieces) > 1 THEN "RootDir" ELSE "skipped"
    [] p.pieces[i] = "dot" -> IF i = 1 THEN "CurDir" ELSE "skipped"
    [] p.pieces[i] = "name" -> "Normal"

\* Path equality goes by components.
IsSingleDot(p) ==
  /\ Component(p, 1) = "CurDir"
  /\ \A i \in DOMAIN p.pieces \ {1} : Component(p, i) = "skipped"

\* validate_file_path and validate_directory_path of safe_fs.rs
FilePathAccepted(p) ==
  /\ \A i \in DOMAIN p.pieces : Component(p, i) \in {"Normal", "skipped"}
  /\ \E i \in DOMAIN p.pieces : Component(p, i) = "Normal"
DirectoryPathAccepted(p) == IsSingleDot(p) \/ FilePathAccepted(p)

\* DirectoryDiscoveryRule::from_config: lengths are bytes here.
DiscoveryAccepts(r) ==
  /\ DirectoryPathAccepted(r.path)
  /\ Len(r.include_suffixes) \in 1..32
  /\ \A i \in DOMAIN r.include_suffixes :
       /\ r.include_suffixes[i].bytes \in 1..128
       /\ r.include_suffixes[i].dot
       /\ r.include_suffixes[i].has = {}
  /\ Distinct(r.include_suffixes)

\* validate_rule of time_filter.rs; FixedOffset::east_opt takes less than a day.
TimestampAccepts(r) ==
  /\ Bounded(r.prefix_bytes, 256)
  /\ \A f \in r.format : f.chars \in 1..128
  /\ \A s \in r.default_offset_seconds : -86400 < s /\ s < 86400

-----------------------------------------------------------------------------
(***************************************************************************)
(* A request under the limits, the scans and the reads it leads to.        *)
(***************************************************************************)

\* query_binding; QueryBinding::validate comes last.  Times are instants.
BindingValid(b) ==
  /\ Len(b.source_ids) \in 1..10
  /\ \A i \in DOMAIN b.source_ids : b.source_ids[i].chars \in 1..128 /\ "nul" \notin b.source_ids[i].has
  /\ Distinct(b.source_ids)
  /\ b.keyword.chars \in 1..256
  /\ b.keyword.has \cap {"newline", "return", "nul"} = {}
  /\ b.max_results \in 1..200
  /\ \A s \in b.start_time, e \in b.end_time : s <= e

RequestAccepted(b, l) ==
  /\ b.source_ids # <<>> /\ Len(b.source_ids) <= l.max_sources_per_query
  /\ Distinct(b.source_ids)
  /\ b.max_results # 0 /\ b.max_results <= l.max_results_per_page
  /\ BindingValid(b)

QueryBinding ==
  [source_ids : Seq(Text), keyword : Text, max_results : Nat,
   start_time : SUBSET Int, end_time : SUBSET Int]

Smaller(a, b) == IF a <= b THEN a ELSE b
Larger(a, b) == IF a >= b THEN a ELSE b

\* chunk_result_limit
ChunkResultLimit(maxLineBytes) ==
  Smaller(Larger((16 * MiB) \div Larger(3 * maxLineBytes, 1), 1), 200)

\* The budget of a scan of scan_page: one byte more than is left of the
\* snapshot shows the end of the file.
ScanBudget(snapshotRemaining, pageRemaining) ==
  IF snapshotRemaining <= pageRemaining THEN Smaller(snapshotRemaining + 1, 64 * GiB)
  ELSE pageRemaining

ScanLimits(l, budget) ==
  [max_scan_bytes |-> budget, max_results |-> ChunkResultLimit(l.max_line_bytes),
   max_line_bytes |-> l.max_line_bytes, max_returned_content_bytes |-> 16 * MiB,
   read_buffer_bytes |-> 64 * KiB]

\* ScanRequest::validate
ScanAccepts(keyword, s) ==
  /\ keyword.chars \in 1..256
  /\ keyword.has \cap {"newline", "return"} = {}
  /\ Bounded(s.max_scan_bytes, 64 * GiB)
  /\ Bounded(s.max_results, 200)
  /\ Bounded(s.max_line_bytes, MiB)
  /\ keyword.bytes <= s.max_line_bytes
  /\ Bounded(s.max_returned_content_bytes, 16 * MiB)
  /\ Bounded(s.read_buffer_bytes, MiB)

\* ContextReadLimits::from_service_limits
ContextReadLimits(l) ==
  LET scan == Smaller(Larger(l.max_scan_bytes_per_page, 1), 4 * MiB)
  IN  [max_lines_per_side |-> l.max_context_lines_per_side, max_line_bytes |-> l.max_line_bytes,
       max_returned_content_bytes |-> l.max_returned_content_bytes,
       max_before_scan_bytes |-> scan, max_forward_scan_bytes |-> scan,
       read_buffer_bytes |-> 64 * KiB]

\* ContextReadLimits::validate
ContextAccepts(c, before, after) ==
  /\ c.max_lines_per_side # 0
  /\ before <= c.max_lines_per_side /\ after <= c.max_lines_per_side
  /\ c.max_line_bytes # 0 /\ c.max_returned_content_bytes >= c.max_line_bytes
  /\ Bounded(c.max_before_scan_bytes, 64 * MiB)
  /\ Bounded(c.max_forward_scan_bytes, 64 * MiB)
  /\ Bounded(c.read_buffer_bytes, MiB)

\* validate_request of stateful_context.rs: the lines asked for.
ContextRequestAccepted(before, after, l) ==
  before <= l.max_context_lines_per_side /\ after <= l.max_context_lines_per_side
=============================================================================
