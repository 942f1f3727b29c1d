-------------------------- MODULE QueryPageProofs --------------------------
(***************************************************************************)
(* The pages of a search, for all files, limits and disturbances.          *)
(*                                                                         *)
(* QInv bounds a page: it reads no more than its budget and its heap holds *)
(* no more results than it may return.  OInv adds the order of the results *)
(* and the watermark, MInv that results come from the snapshot, but for    *)
(* those of candidates cut off in place, and LInv that, while none is, the *)
(* heap has the earliest of exactly the results scanned so far: the pages  *)
(* then are a beginning of the one sorted list.  PInv allows for the new   *)
(* snapshot of a first page that is tried again.                           *)
(***************************************************************************)
EXTENDS QueryPage, FiniteSetTheorems, WellFoundedInduction, TLAPS

-----------------------------------------------------------------------------
(***************************************************************************)
(* Least and greatest members.  Both come from the strict subset order,    *)
(* which is well-founded on finite sets.                                   *)
(***************************************************************************)

LEMMA LeastNatural ==
  ASSUME NEW S \in SUBSET Nat, S # {}
  PROVE  Min(S) \in S /\ \A y \in S : Min(S) <= y
<1> DEFINE Below(n) == {i \in S : i < n}
           F == {Below(n) : n \in S}
<1>0. \A n \in S : n \in Nat
  OBVIOUS
<1>1. F \subseteq FiniteSubsetsOf(S) /\ F # {}
  <2>1. ASSUME NEW n \in S PROVE Below(n) \in SUBSET S /\ IsFiniteSet(Below(n))
    <3>1. n \in Nat /\ \A i \in Below(n) : i \in Nat /\ i < n
      BY <1>0
    <3>2. \A i, k \in Nat : i < k => i <= k
      OBVIOUS
    <3>3. Below(n) \in SUBSET Nat /\ \A i \in Below(n) : i <= n
      BY <3>1, <3>2
    <3>4. Below(n) \in SUBSET S
      OBVIOUS
    <3> HIDE DEF Below
    <3> QED BY <3>1, <3>3, <3>4, FS_BoundedSetOfNaturals
  <2> QED BY <2>1 DEF FiniteSubsetsOf
<1>2. PICK x \in F : \A y \in F : ~(<<y, x>> \in StrictSubsetOrdering(S))
  BY <1>1, FS_StrictSubsetOrderingWellFounded, WFMin
<1>3. PICK n \in S : x = Below(n)
  BY <1>2
<1>4. ASSUME NEW m \in S, m < n PROVE FALSE
  <2>1. Below(m) \subseteq Below(n) /\ m \in Below(n) /\ m \notin Below(m)
    <3>1. m \in Nat /\ n \in Nat
      BY <1>0
    <3>2. \A i \in Nat : (i < m => i < n) /\ ~(m < m)
      BY <1>4, <3>1
    <3> QED BY <1>0, <1>4, <3>1, <3>2
  <2>2. <<Below(m), Below(n)>> \in StrictSubsetOrdering(S)
    BY <2>1 DEF StrictSubsetOrdering
  <2> QED BY <1>2, <1>3, <2>2
<1>5. n \in S /\ \A y \in S : n <= y
  BY <1>4
<1> QED BY <1>5 DEF Min

LEMMA MinOfTwo ==
  ASSUME NEW a \in Int, NEW b \in Int
  PROVE  Min({a, b}) \in {a, b} /\ Min({a, b}) <= a /\ Min({a, b}) <= b
<1>1. \E x \in {a, b} : \A y \in {a, b} : x <= y
  OBVIOUS
<1> QED BY <1>1 DEF Min

LEMMA MaxOfTwo ==
  ASSUME NEW a \in Int, NEW b \in Int
  PROVE  Max({a, b}) \in {a, b} /\ Max({a, b}) >= a /\ Max({a, b}) >= b
<1>1. \E x \in {a, b} : \A y \in {a, b} : x >= y
  OBVIOUS
<1> QED BY <1>1 DEF Max

-----------------------------------------------------------------------------
(***************************************************************************)
(* The order of results.                                                   *)
(***************************************************************************)

\* One result per line of a file.
OnePerLine(S) == \A j, k \in S : j.file = k.file /\ j.line = k.line => j = k

LEMMA BeforeTotal ==
  ASSUME NEW S \in SUBSET Keys, OnePerLine(S), NEW j \in S, NEW k \in S, j # k
  PROVE  Before(j, k) \/ Before(k, j)
BY DEF OnePerLine, Keys, Before

LEMMA BeforeTransitive ==
  ASSUME NEW i \in Keys, NEW j \in Keys, NEW k \in Keys, Before(i, j), Before(j, k)
  PROVE  Before(i, k)
BY DEF Keys, Before

LEMMA BeforeIrreflexive == ASSUME NEW k \in Keys PROVE ~Before(k, k)
BY DEF Keys, Before

\* A heap that pops its greatest member keeps at most MaxResults.
LEMMA KeepEarliestBounded ==
  ASSUME NEW S \in SUBSET Keys, IsFiniteSet(S), OnePerLine(S)
  PROVE  /\ KeepEarliest(S) \subseteq S /\ IsFiniteSet(KeepEarliest(S))
         /\ Cardinality(KeepEarliest(S)) <= MaxResults
<1> DEFINE K == KeepEarliest(S)
           Later(k) == {j \in K : Before(k, j)}
           F == {Later(k) : k \in K}
<1>0. MaxResults \in Nat /\ MaxResults > 0
  BY LimitAssumption
<1>1. K \subseteq S /\ IsFiniteSet(K)
  BY FS_Subset DEF KeepEarliest
<1>2. Cardinality(K) \in Nat
  BY <1>1, FS_CardinalityType
<1>3. CASE K = {}
  BY <1>0, <1>1, <1>3, FS_EmptySet
<1>4. CASE K # {}
  <2>1. F \subseteq FiniteSubsetsOf(K) /\ F # {}
    <3>1. ASSUME NEW k \in K PROVE Later(k) \in SUBSET K /\ IsFiniteSet(Later(k))
      BY <1>1, FS_Subset
    <3> HIDE DEF K
    <3> QED BY <1>4, <3>1 DEF FiniteSubsetsOf
  <2>2. PICK x \in F : \A y \in F : ~(<<y, x>> \in StrictSubsetOrdering(K))
    BY <2>1, FS_StrictSubsetOrderingWellFounded, WFMin
  <2>3. PICK k \in K : x = Later(k)
    BY <2>2
  <2>4. ASSUME NEW j \in K, Before(k, j) PROVE FALSE
    <3>1. j \in Keys /\ k \in Keys /\ \A i \in K : i \in Keys
      BY <1>1
    <3> HIDE DEF K
    <3>2. Later(j) \subseteq Later(k)
      BY <2>4, <3>1, BeforeTransitive
    <3>3. j \in Later(k) /\ j \notin Later(j)
      BY <2>4, <3>1, BeforeIrreflexive
    <3>4. <<Later(j), Later(k)>> \in StrictSubsetOrdering(K)
      BY <3>2, <3>3 DEF StrictSubsetOrdering
    <3> QED BY <2>2, <2>3, <3>4
  <2> DEFINE E == {j \in S : Before(j, k)}
  <2>5. K \ {k} \subseteq E
    <3>1. ASSUME NEW j \in K, j # k PROVE Before(j, k)
      <4>1. j \in S /\ k \in S
        BY <1>1, <2>3
      <4> QED BY <2>4, <3>1, <4>1, BeforeTotal
    <3> QED BY <1>1, <3>1
  <2>6. IsFiniteSet(E) /\ Cardinality(E) \in Nat /\ Cardinality(E) < MaxResults
    <3>1. IsFiniteSet(E)
      BY FS_Subset
    <3>2. Cardinality(E) < MaxResults
      BY <2>3 DEF KeepEarliest
    <3> QED BY <3>1, <3>2, FS_CardinalityType
  <2>7. Cardinality(K \ {k}) <= Cardinality(E)
    BY <2>5, <2>6, FS_Subset
  <2>8. Cardinality(K \ {k}) = Cardinality(K) - 1
    BY <1>1, <2>3, FS_RemoveElement
  <2> QED BY <1>0, <1>1, <1>2, <2>6, <2>7, <2>8
<1> QED BY <1>3, <1>4

-----------------------------------------------------------------------------
(***************************************************************************)
(* The inductive invariant.  The heap stays small only because no result   *)
(* is put into it twice: what is still to be filtered lies behind what has *)
(* been, and the heap has nothing else.                                    *)
(***************************************************************************)

FilesExist == \A f \in Candidates : Len(disk[f]) > 0

\* The handle of a chunk, and that of its timestamps, are of a file there is.
OpenedExists ==
  /\ pc = "opened" => /\ file \in Candidates /\ opened \in 1..Len(disk[file])
                      /\ position < SnapshotSize(file)
  /\ pc = "filter" /\ file \in Timed /\ outcome.hits # {} => opened \in 1..Len(disk[file])

\* Matches of different lines.
OneMatchPerLine(H) == \A m, o \in H : m.line = o.line => m = o

\* What the scan of a chunk returned fits into the candidate and the budget.
OutcomeOK ==
  pc \in {"scanned", "filter"} =>
    /\ file \in Candidates
    /\ outcome.scanned \in 0..(PageBudget - used)
    /\ position + outcome.scanned <= SnapshotSize(file)
    /\ outcome \in [hits : SUBSET [line : Nat, size : Nat \ {0}], scanned : Nat,
                   stop : {"Complete", "ResultLimit", "ScanByteLimit"}]
    /\ IsFiniteSet(outcome.hits) /\ OneMatchPerLine(outcome.hits)
    /\ \A m \in outcome.hits : position < m.line /\ m.line <= position + outcome.scanned

\* The page is done with the line of k: it is before the chunk, or it is in the
\* chunk and not among the matches that are still to be filtered.
Passed(k) ==
  \/ k.file < file
  \/ /\ k.file = file
     /\ \/ k.line <= position
        \/ /\ pc = "filter" /\ k.line <= NewPosition
           /\ \A m \in outcome.hits : m.line # k.line

HeapOK ==
  /\ earliest \subseteq Keys /\ IsFiniteSet(earliest) /\ OnePerLine(earliest)
  /\ \A k \in earliest : Passed(k)

PagesWithinLimit == pages \in 0..(IF pc = "over" THEN MaxPages + 1 ELSE MaxPages)

HeapBounded == Cardinality(earliest) <= MaxResults

QInv ==
  /\ TypeOK
  /\ FilesExist
  /\ OpenedExists
  /\ OutcomeOK
  /\ HeapOK
  /\ PagesWithinLimit
  /\ HeapBounded

\* A new page, or a first one, has an empty heap.
LEMMA EmptyHeap ==
  /\ IsFiniteSet({}) /\ OnePerLine({}) /\ Cardinality({}) <= MaxResults
BY FS_EmptySet, LimitAssumption DEF OnePerLine

LEMMA InitQInv == Init => QInv
<1> SUFFICES ASSUME Init PROVE QInv
  OBVIOUS
<1>1. PICK c \in InitialFiles : disk = [f \in DOMAIN c |-> <<c[f]>>]
  BY DEF Init
<1>2. c \in Seq(Seq(Lines)) /\ DOMAIN c = 1..Len(c) /\ Len(c) \in Nat
  BY FilesAssumption
<1>3. /\ DOMAIN disk = 1..Len(c)
      /\ \A f \in DOMAIN disk : disk[f] = <<c[f]>> /\ c[f] \in Seq(Lines)
  BY <1>1, <1>2
<1>4. \A f \in DOMAIN disk : disk[f] \in Seq(Seq(Lines)) /\ Len(disk[f]) = 1 /\ disk[f][1] = c[f]
  <2>1. \A l \in Seq(Lines) : <<l>> \in Seq(Seq(Lines)) /\ Len(<<l>>) = 1 /\ <<l>>[1] = l
    <3> DEFINE T == Seq(Lines)
    <3> SUFFICES ASSUME NEW l \in T
                 PROVE  <<l>> \in Seq(T) /\ Len(<<l>>) = 1 /\ <<l>>[1] = l
      OBVIOUS
    <3> HIDE DEF T
    <3> QED OBVIOUS
  <2> QED BY <1>3, <2>1
<1>5. disk \in Seq(Seq(Seq(Lines))) /\ Len(disk) = Len(c)
  BY <1>1, <1>2, <1>4
<1>6. snapshot \in [Candidates -> [file : Nat \ {0}, lines : Seq(Lines)]]
  BY <1>3, <1>4 DEF Init, Candidates
<1>7. TypeOK
  BY <1>2, <1>5, <1>6, LimitAssumption DEF Init, TypeOK, page
<1>8. FilesExist /\ OpenedExists /\ OutcomeOK
  BY <1>4 DEF Init, FilesExist, Candidates, OpenedExists, OutcomeOK
<1>9. HeapOK /\ PagesWithinLimit /\ HeapBounded
  BY EmptyHeap, LimitAssumption DEF Init, HeapOK, PagesWithinLimit, HeapBounded
<1> QED BY <1>7, <1>8, <1>9 DEF QInv

\* A page that fails, and an interrupt, leave everything but the place alone.
LEMMA GivenUpQInv ==
  ASSUME QInv, pc' = "ready", pc \notin {"filter", "over"},
         UNCHANGED <<disk, snapshot, pages, page>>
  PROVE  QInv'
<1> USE DEF QInv, page
<1>1. TypeOK' /\ FilesExist'
  BY DEF TypeOK, FilesExist, Candidates
<1>2. OpenedExists' /\ OutcomeOK'
  BY DEF OpenedExists, OutcomeOK
<1>3. HeapOK' /\ PagesWithinLimit' /\ HeapBounded'
  BY DEF HeapOK, Passed, PagesWithinLimit, HeapBounded
<1> QED BY <1>1, <1>2, <1>3

LEMMA StartPageQInv ==
  ASSUME QInv, StartPage
  PROVE  QInv'
<1>1. /\ disk' = disk /\ pages' = pages /\ pc = "ready" /\ pc' = "scan"
      /\ file' = 1 /\ position' = 0 /\ used' = 0 /\ earliest' = {}
  BY DEF StartPage
<1>2. TypeOK /\ FilesExist /\ PagesWithinLimit /\ HeapBounded
  BY DEF QInv
<1>3. snapshot' \in [Candidates -> [file : Nat \ {0}, lines : Seq(Lines)]]
  <2>1. CASE after # None
    BY <1>2, <2>1 DEF StartPage, TypeOK
  <2>2. CASE after = None
    <3>1. snapshot' = [f \in Candidates |-> [file |-> Len(disk[f]), lines |-> Last(disk[f])]]
      BY <2>2 DEF StartPage
    <3>2. ASSUME NEW f \in Candidates PROVE Len(disk[f]) \in Nat \ {0} /\ Last(disk[f]) \in Seq(Lines)
      <4>1. disk[f] \in Seq(Seq(Lines)) /\ Len(disk[f]) > 0
        BY <1>2, <3>2 DEF TypeOK, FilesExist, Candidates
      <4> DEFINE T == Seq(Lines)
      <4>2. disk[f] \in Seq(T)
        BY <4>1
      <4> HIDE DEF T
      <4>3. Len(disk[f]) \in Nat \ {0} /\ disk[f][Len(disk[f])] \in T
        BY <4>1, <4>2
      <4> QED BY <4>3 DEF T, Last
    <3> QED BY <3>1, <3>2
  <2> QED BY <2>1, <2>2
<1>4. TypeOK'
  BY <1>1, <1>2, <1>3, LimitAssumption DEF TypeOK, Candidates
<1>5. FilesExist' /\ OpenedExists' /\ OutcomeOK' /\ HeapOK'
  BY <1>1, <1>2, EmptyHeap DEF FilesExist, Candidates, OpenedExists, OutcomeOK, HeapOK
<1>6. PagesWithinLimit' /\ HeapBounded'
  BY <1>1, <1>2, EmptyHeap DEF PagesWithinLimit, HeapBounded
<1> QED BY <1>4, <1>5, <1>6 DEF QInv

LEMMA NextCandidateQInv ==
  ASSUME QInv, NextCandidate
  PROVE  QInv'
<1>1. /\ pc = "scan" /\ pc' = pc /\ file \in Candidates /\ file' = file + 1 /\ position' = 0
      /\ UNCHANGED <<disk, snapshot, pages, used, earliest>>
  BY DEF NextCandidate
<1>2. TypeOK /\ FilesExist /\ HeapOK /\ PagesWithinLimit /\ HeapBounded
  BY DEF QInv
<1>3. file \in 1..Len(disk) /\ Len(disk) \in Nat
  BY <1>1, <1>2 DEF TypeOK, Candidates
<1>4. TypeOK'
  BY <1>1, <1>2, <1>3 DEF TypeOK, Candidates
<1>5. HeapOK'
  <2>1. \A k \in earliest : k.file \in Nat
    BY <1>2 DEF HeapOK, Keys
  <2> QED BY <1>1, <1>2, <1>3, <2>1 DEF HeapOK, Passed
<1>6. FilesExist' /\ OpenedExists' /\ OutcomeOK'
  BY <1>1, <1>2 DEF FilesExist, Candidates, OpenedExists, OutcomeOK
<1>7. PagesWithinLimit' /\ HeapBounded'
  BY <1>1, <1>2 DEF PagesWithinLimit, HeapBounded
<1> QED BY <1>4, <1>5, <1>6, <1>7 DEF QInv

LEMMA OpenChunkQInv ==
  ASSUME QInv, OpenChunk
  PROVE  QInv'
<1>1. pc = "scan" /\ file \in Candidates /\ position < SnapshotSize(file)
  BY DEF OpenChunk
<1>2. CASE FailPage
  BY <1>1, <1>2, GivenUpQInv DEF FailPage
<1>3. CASE ~FailPage
  <2>1. /\ UNCHANGED <<disk, snapshot, pages, file, position, used, earliest>>
        /\ \/ pc' = "finish"
           \/ pc' = "opened" /\ opened' = Len(disk[file])
    BY <1>3 DEF OpenChunk
  <2>2. TypeOK /\ FilesExist /\ HeapOK /\ PagesWithinLimit /\ HeapBounded
    BY DEF QInv
  <2>3. TypeOK'
    BY <2>1, <2>2 DEF TypeOK, Candidates
  <2>4. Len(disk[file]) \in 1..Len(disk[file])
    <3>1. disk[file] \in Seq(Seq(Lines)) /\ Len(disk[file]) > 0
      BY <1>1, <2>2 DEF TypeOK, FilesExist, Candidates
    <3>2. Len(disk[file]) \in Nat
      BY <3>1
    <3> QED BY <3>1, <3>2
  <2>5. OpenedExists' /\ OutcomeOK' /\ FilesExist'
    BY <1>1, <2>1, <2>2, <2>4 DEF OpenedExists, OutcomeOK, FilesExist, Candidates, SnapshotSize
  <2>6. HeapOK' /\ PagesWithinLimit' /\ HeapBounded'
    BY <1>1, <2>1, <2>2 DEF HeapOK, Passed, PagesWithinLimit, HeapBounded
  <2> QED BY <2>3, <2>5, <2>6 DEF QInv
<1> QED BY <1>2, <1>3

\* The results of a set of lines of one file: one per line.
LEMMA KeysOfLines ==
  ASSUME NEW f \in Nat, NEW lines \in Seq(Lines), NEW N \in SUBSET (1..Len(lines)),
         NEW H, \A k : k \in H <=> \E n \in N : k = Key(f, Match(n, lines), lines)
  PROVE  /\ H \subseteq Keys /\ IsFiniteSet(H) /\ OnePerLine(H)
         /\ \A k \in H : k.file = f /\ k.line \in N
<1>1. Len(lines) \in Nat /\ \A n \in N : n \in Nat /\ n \in 1..Len(lines)
  OBVIOUS
<1>2. ASSUME NEW n \in N PROVE Key(f, Match(n, lines), lines) \in Keys
  <2>1. lines[n] \in [hit : BOOLEAN, time : Nat \cup {None}, size : Nat \ {0}]
    BY <1>1, LinesAssumption
  <2> QED BY <1>1, <2>1 DEF Key, Match, TimeAt, Keys
<1>3. \A n \in N : Key(f, Match(n, lines), lines).file = f /\ Key(f, Match(n, lines), lines).line = n
  BY DEF Key, Match
<1>4. OnePerLine(H) /\ \A k \in H : k.file = f /\ k.line \in N
  BY <1>3 DEF OnePerLine
<1>5. IsFiniteSet(H)
  <2> DEFINE g == [n \in N |-> Key(f, Match(n, lines), lines)]
  <2>1. g \in Surjection(N, H)
    BY DEF Surjection
  <2>2. IsFiniteSet(N)
    <3>1. IsFiniteSet(1..Len(lines))
      BY <1>1, FS_Interval
    <3> QED BY <3>1, FS_Subset
  <2> QED BY <2>1, <2>2, FS_Surjection
<1> QED BY <1>2, <1>4, <1>5

\* The matches of a set of lines.
LEMMA MatchesOfLines ==
  ASSUME NEW lines \in Seq(Lines), NEW N \in SUBSET (1..Len(lines)),
         NEW H, \A m : m \in H <=> \E n \in N : m = Match(n, lines)
  PROVE  /\ H \subseteq [line : Nat, size : Nat \ {0}] /\ IsFiniteSet(H) /\ OneMatchPerLine(H)
         /\ \A m \in H : m.line \in N
<1>1. Len(lines) \in Nat /\ \A n \in N : n \in Nat /\ n \in 1..Len(lines)
  OBVIOUS
<1>2. ASSUME NEW n \in N PROVE Match(n, lines) \in [line : Nat, size : Nat \ {0}]
  <2>1. lines[n] \in [hit : BOOLEAN, time : Nat \cup {None}, size : Nat \ {0}]
    BY <1>1, LinesAssumption
  <2> QED BY <1>1, <2>1 DEF Match
<1>3. \A n \in N : Match(n, lines).line = n
  BY DEF Match
<1>4. OneMatchPerLine(H) /\ \A m \in H : m.line \in N
  BY <1>3 DEF OneMatchPerLine
<1>5. IsFiniteSet(H)
  <2> DEFINE g == [n \in N |-> Match(n, lines)]
  <2>1. g \in Surjection(N, H)
    BY DEF Surjection
  <2>2. IsFiniteSet(N)
    <3>1. IsFiniteSet(1..Len(lines))
      BY <1>1, FS_Interval
    <3> QED BY <3>1, FS_Subset
  <2> QED BY <2>1, <2>2, FS_Surjection
<1> QED BY <1>2, <1>4, <1>5

LEMMA ScanChunkQInv ==
  ASSUME QInv, ScanChunk
  PROVE  QInv'
<1> DEFINE rest == SnapshotSize(file) - position
           toRead == Min({rest, PageBudget - used})
           lines == disk[file][opened]
           end == Min({position + toRead, Len(lines)})
           hits == {n \in (position + 1)..end : lines[n].hit}
           full == {n \in hits : Cardinality({m \in hits : m <= n}) = ChunkResults}
           last == IF full = {} THEN end ELSE Min(full)
           N == {m \in hits : m <= last}
<1>1. /\ pc = "opened" /\ pc' = "scanned"
      /\ UNCHANGED <<disk, snapshot, pages, file, opened, position, used, earliest>>
      /\ outcome'.hits = {Match(n, lines) : n \in N}
      /\ outcome'.scanned = Max({last - position, 0})
      /\ outcome' = [hits |-> outcome'.hits, scanned |-> outcome'.scanned, stop |-> outcome'.stop]
      /\ outcome'.stop \in {"Complete", "ResultLimit", "ScanByteLimit"}
  BY DEF ScanChunk
<1>2. /\ TypeOK /\ FilesExist /\ HeapOK /\ PagesWithinLimit /\ HeapBounded
      /\ file \in Candidates /\ opened \in 1..Len(disk[file])
      /\ position < SnapshotSize(file)
  BY <1>1 DEF QInv, OpenedExists
<1>3. /\ file \in Nat /\ position \in Nat /\ used \in 0..PageBudget /\ PageBudget \in Nat
      /\ lines \in Seq(Lines)
  <2>1. disk[file] \in Seq(Seq(Lines))
    BY <1>2 DEF TypeOK, Candidates
  <2> DEFINE T == Seq(Lines)
  <2>2. disk[file] \in Seq(T)
    BY <2>1
  <2> HIDE DEF T
  <2>3. disk[file][opened] \in T
    BY <1>2, <2>2
  <2> QED BY <1>2, <2>3, LimitAssumption DEF T, TypeOK, Candidates
<1>4. SnapshotSize(file) \in Nat
  BY <1>2 DEF TypeOK, SnapshotSize
<1> HIDE DEF lines
<1>5. toRead \in Int /\ toRead <= rest /\ toRead <= PageBudget - used
  <2>1. rest \in Int /\ PageBudget - used \in Int
    BY <1>3, <1>4
  <2> HIDE DEF rest
  <2> QED BY <2>1, MinOfTwo
<1> HIDE DEF toRead
<1>6. end \in Int /\ end <= position + toRead /\ end <= Len(lines)
  <2> DEFINE a == position + toRead
             b == Len(lines)
  <2>1. a \in Int /\ b \in Int
    BY <1>3, <1>5
  <2> HIDE DEF a, b
  <2>2. Min({a, b}) \in {a, b} /\ Min({a, b}) <= a /\ Min({a, b}) <= b
    BY <2>1, MinOfTwo
  <2>3. Min({a, b}) \in Int
    BY <2>1, <2>2
  <2> QED BY <2>2, <2>3 DEF a, b
<1> HIDE DEF end
<1>7. hits \subseteq (position + 1)..end
  OBVIOUS
<1>8. last \in Int /\ last <= end
  <2>1. CASE full = {}
    BY <1>6, <2>1
  <2>2. CASE full # {}
    <3>1. full \in SUBSET Nat /\ full \subseteq (position + 1)..end
      <4>1. \A n \in (position + 1)..end : n \in Nat
        BY <1>3, <1>6
      <4> QED BY <1>7, <4>1
    <3> HIDE DEF full
    <3>2. last \in full
      BY <2>2, <3>1, LeastNatural
    <3> HIDE DEF last
    <3>3. last \in (position + 1)..end /\ position \in Int
      BY <1>3, <3>1, <3>2
    <3> QED BY <1>6, <3>3
  <2> QED BY <2>1, <2>2
<1> HIDE DEF last
<1>9. N \in SUBSET (1..Len(lines)) /\ \A n \in N : position < n /\ n <= last
  <2>1. \A n \in N : n \in (position + 1)..end /\ n <= last
    BY <1>7
  <2> HIDE DEF N
  <2>2. Len(lines) \in Nat
    BY <1>3
  <2> QED BY <1>3, <1>6, <2>1, <2>2
<1> HIDE DEF N
<1>10. /\ outcome'.scanned \in Nat /\ outcome'.scanned >= last - position
       /\ outcome'.scanned \in {last - position, 0}
  <2>1. last - position \in Int
    BY <1>3, <1>8
  <2> DEFINE d == last - position
  <2>2. outcome'.scanned = Max({d, 0}) /\ d \in Int
    BY <1>1, <2>1
  <2> HIDE DEF d
  <2>3. outcome'.scanned \in {d, 0} /\ outcome'.scanned >= d /\ outcome'.scanned >= 0
    BY <2>2, MaxOfTwo
  <2> QED BY <2>2, <2>3 DEF d
<1>11. /\ outcome'.scanned <= PageBudget - used
       /\ outcome'.scanned <= rest
       /\ N # {} => outcome'.scanned = last - position
  <2>1. /\ rest \in Int /\ rest > 0 /\ PageBudget - used \in Int /\ PageBudget - used >= 0
        /\ position \in Int
    BY <1>2, <1>3, <1>4
  <2> DEFINE budget == PageBudget - used
             scanned == outcome'.scanned
  <2>2. scanned = 0 \/ (scanned = last - position /\ scanned >= 0)
    BY <1>10
  <2>3. N # {} => last - position > 0
    <3>1. ASSUME NEW n \in N PROVE last - position > 0
      <4>1. n \in Int /\ position < n /\ n <= last
        BY <1>9
      <4> QED BY <1>8, <2>1, <4>1
    <3> QED BY <3>1
  <2> HIDE DEF rest, budget, scanned
  <2>4. last - position <= rest /\ last - position <= budget
    BY <1>5, <1>6, <1>8, <2>1 DEF budget
  <2>5. scanned <= budget /\ scanned <= rest
    BY <1>8, <2>1, <2>2, <2>4 DEF budget
  <2>6. N # {} => scanned = last - position
    BY <1>8, <1>10, <2>1, <2>2, <2>3 DEF scanned
  <2> QED BY <2>5, <2>6 DEF budget, scanned
<1>12. OutcomeOK'
  <2> DEFINE H == outcome'.hits
             scanned == outcome'.scanned
  <2>1. /\ H \subseteq [line : Nat, size : Nat \ {0}] /\ IsFiniteSet(H) /\ OneMatchPerLine(H)
        /\ \A k \in H : k.line \in N
    <3> HIDE DEF H
    <3>1. \A k : k \in H <=> \E n \in N : k = Match(n, lines)
      BY <1>1 DEF H
    <3> QED BY <1>3, <1>9, <3>1, MatchesOfLines
  <2> HIDE DEF H, scanned
  <2>2. ASSUME NEW k \in H PROVE position < k.line /\ k.line <= position + scanned
    <3>1. scanned = last - position /\ position < k.line /\ k.line <= last
      BY <1>9, <1>11, <2>1 DEF scanned
    <3> QED BY <1>3, <1>8, <3>1
  <2>3. position + scanned <= SnapshotSize(file)
    <3>1. scanned \in Nat /\ scanned <= SnapshotSize(file) - position
      BY <1>10, <1>11 DEF scanned
    <3> QED BY <1>3, <1>4, <3>1
  <2>4. scanned \in 0..(PageBudget - used)
    BY <1>3, <1>10, <1>11 DEF scanned
  <2>5. outcome' \in [hits : SUBSET [line : Nat, size : Nat \ {0}], scanned : Nat,
                      stop : {"Complete", "ResultLimit", "ScanByteLimit"}]
    <3>1. PICK h, n, x : h = H /\ n = scanned /\ x = outcome'.stop
      OBVIOUS
    <3>2. outcome' = [hits |-> h, scanned |-> n, stop |-> x]
      BY <1>1, <3>1 DEF H, scanned
    <3>3. h \in SUBSET [line : Nat, size : Nat \ {0}]
      BY <2>1, <3>1
    <3>4. n \in Nat /\ x \in {"Complete", "ResultLimit", "ScanByteLimit"}
      BY <1>1, <1>10, <3>1 DEF scanned
    <3> QED BY ONLY <3>2, <3>3, <3>4
  <2> USE DEF H, scanned
  <2> QED BY <1>1, <1>2, <2>1, <2>2, <2>3, <2>4, <2>5 DEF OutcomeOK, Candidates, SnapshotSize
<1>13. TypeOK' /\ FilesExist' /\ OpenedExists'
  BY <1>1, <1>2 DEF TypeOK, FilesExist, Candidates, OpenedExists
<1>14. HeapOK' /\ PagesWithinLimit' /\ HeapBounded'
  BY <1>1, <1>2 DEF HeapOK, Passed, PagesWithinLimit, HeapBounded
<1> QED BY <1>12, <1>13, <1>14 DEF QInv

\* What the page scans next lies within the candidate.
LEMMA NewPositionRight ==
  ASSUME QInv, pc \in {"scanned", "filter"}
  PROVE  /\ file \in Nat /\ position \in Nat /\ used \in Nat /\ PageBudget \in Nat
         /\ outcome.scanned \in Nat /\ used + outcome.scanned <= PageBudget
         /\ NewPosition \in Nat /\ position + outcome.scanned <= NewPosition
         /\ position <= NewPosition
<1>1. /\ file \in Candidates /\ file \in Nat /\ position \in Nat
      /\ used \in 0..PageBudget /\ PageBudget \in Nat
      /\ outcome.scanned \in 0..(PageBudget - used)
      /\ position + outcome.scanned <= SnapshotSize(file)
  BY LimitAssumption DEF QInv, TypeOK, OutcomeOK, Candidates
<1>2. SnapshotSize(file) \in Nat
  BY <1>1 DEF QInv, TypeOK, SnapshotSize
<1>3. PICK z, o : z = SnapshotSize(file) /\ o = outcome.scanned
  OBVIOUS
<1>4. NewPosition = z \/ NewPosition = position + o
  BY <1>3 DEF NewPosition
<1> QED BY <1>1, <1>2, <1>3, <1>4

\* Another handle, and no change to what was found.
LEMMA ReopenFileQInv ==
  ASSUME QInv, ReopenFile
  PROVE  QInv'
<1>1. pc = "scanned"
  BY DEF ReopenFile
<1>2. CASE FailPage
  BY <1>1, <1>2, GivenUpQInv DEF FailPage
<1>3. CASE ~FailPage
  <2>1. /\ pc' = "filter"
        /\ opened' = IF file \in Timed /\ outcome.hits # {} THEN Len(disk[file]) ELSE 0
        /\ UNCHANGED <<disk, snapshot, pages, file, position, used, outcome, earliest>>
    BY <1>3 DEF ReopenFile
  <2>2. /\ TypeOK /\ FilesExist /\ OutcomeOK /\ HeapOK /\ PagesWithinLimit /\ HeapBounded
        /\ file \in Candidates
    BY <1>1 DEF QInv, OutcomeOK
  <2>3. Len(disk[file]) \in 1..Len(disk[file])
    <3>1. disk[file] \in Seq(Seq(Lines)) /\ Len(disk[file]) > 0
      BY <2>2 DEF TypeOK, FilesExist, Candidates
    <3>2. Len(disk[file]) \in Nat
      BY <3>1
    <3> QED BY <3>1, <3>2
  <2>4. TypeOK' /\ FilesExist' /\ OpenedExists'
    BY <2>1, <2>2, <2>3 DEF TypeOK, FilesExist, Candidates, OpenedExists
  <2>5. OutcomeOK'
    BY <1>1, <2>1, <2>2 DEF OutcomeOK, Candidates, SnapshotSize
  <2>6. HeapOK'
    BY <1>1, <2>1, <2>2 DEF HeapOK, Passed
  <2>7. PagesWithinLimit' /\ HeapBounded'
    BY <1>1, <2>1, <2>2 DEF PagesWithinLimit, HeapBounded
  <2> QED BY <2>4, <2>5, <2>6, <2>7 DEF QInv
<1> QED BY <1>2, <1>3

\* The key of a match, whatever the file has where its timestamp is read.
LEMMA KeyOfMatch ==
  ASSUME QInv, pc = "filter", NEW m \in outcome.hits
  PROVE  /\ Key(file, m, disk[file][opened]) \in Keys
         /\ Key(file, m, disk[file][opened]).file = file
         /\ Key(file, m, disk[file][opened]).line = m.line
<1>1. /\ file \in Candidates /\ file \in Nat /\ m \in [line : Nat, size : Nat \ {0}]
      /\ file \in Timed => opened \in 1..Len(disk[file])
  BY DEF QInv, TypeOK, OutcomeOK, OpenedExists, Candidates
<1>2. PICK lines : lines = disk[file][opened]
  OBVIOUS
<1>3. TimeAt(file, m.line, lines) \in Nat \cup {None}
  <2>1. CASE file \in Timed /\ m.line \in DOMAIN lines
    <3> DEFINE T == Seq(Lines)
    <3>1. disk[file] \in Seq(T)
      BY <1>1 DEF QInv, TypeOK, Candidates
    <3>2. lines \in T
      <4> HIDE DEF T
      <4> QED BY <1>1, <1>2, <2>1, <3>1
    <3>3. lines[m.line] \in Lines
      BY <2>1, <3>2
    <3>4. lines[m.line] \in [hit : BOOLEAN, time : Nat \cup {None}, size : Nat \ {0}]
      BY <3>3, LinesAssumption
    <3> QED BY <2>1, <3>4 DEF TimeAt
  <2>2. CASE ~(file \in Timed /\ m.line \in DOMAIN lines)
    BY <2>2 DEF TimeAt
  <2> QED BY <2>1, <2>2
<1> QED BY <1>1, <1>2, <1>3 DEF Key, Keys

\* A match joins the heap: no result of its line is in it already.
LEMMA FilterMatchQInv ==
  ASSUME QInv, NEW m \in outcome.hits, FilterMatch(m)
  PROVE  QInv'
<1>1. PICK k : k = Key(file, m, disk[file][opened])
  OBVIOUS
<1>2. PICK kept : kept = IF InTimeRange(k) /\ Behind(k) THEN {k} ELSE {}
  OBVIOUS
<1>3. /\ pc = "filter" /\ pc' = "filter" /\ earliest' = KeepEarliest(earliest \cup kept)
      /\ outcome' = [outcome EXCEPT !.hits = outcome.hits \ {m}]
      /\ UNCHANGED <<disk, snapshot, pages, file, opened, position, used>>
  BY <1>1, <1>2 DEF FilterMatch
<1>4. k \in Keys /\ k.file = file /\ k.line = m.line
  BY <1>1, <1>3, KeyOfMatch
<1>5. /\ TypeOK /\ FilesExist /\ OpenedExists /\ OutcomeOK /\ HeapOK /\ PagesWithinLimit
      /\ file \in Candidates /\ file \in Nat /\ position \in Nat /\ m.line \in Nat
      /\ position < m.line /\ m.line <= position + outcome.scanned
  BY <1>3 DEF QInv, TypeOK, OutcomeOK, Candidates
<1>6. /\ outcome'.hits = outcome.hits \ {m} /\ outcome'.scanned = outcome.scanned
      /\ outcome'.stop = outcome.stop
      /\ outcome' \in [hits : SUBSET [line : Nat, size : Nat \ {0}], scanned : Nat,
                       stop : {"Complete", "ResultLimit", "ScanByteLimit"}]
  BY <1>3, <1>5 DEF OutcomeOK
<1>7. NewPosition' = NewPosition
  BY <1>3, <1>6 DEF NewPosition, SnapshotSize
<1>8. m.line <= NewPosition
  <2>1. NewPosition \in Nat /\ position + outcome.scanned <= NewPosition /\ outcome.scanned \in Nat
    BY <1>3, NewPositionRight
  <2> QED BY <1>5, <2>1
<1>9. PICK S : S = earliest \cup kept
  OBVIOUS
<1>10. S \in SUBSET Keys /\ IsFiniteSet(S)
  <2>1. kept \subseteq Keys /\ IsFiniteSet(kept)
    BY <1>2, <1>4, FS_EmptySet, FS_Singleton
  <2> QED BY <1>5, <1>9, <2>1, FS_Union DEF HeapOK
<1>11. ASSUME NEW j \in earliest PROVE Passed(j)' /\ ~(j.file = file /\ j.line = m.line)
  <2>1. Passed(j) /\ j.line \in Nat /\ j.file \in Nat
    BY <1>5 DEF HeapOK, Keys
  <2>2. Passed(j)'
    BY <1>3, <1>6, <1>7, <2>1 DEF Passed
  <2>3. ~(j.file = file /\ j.line = m.line)
    BY <1>5, <2>1 DEF Passed
  <2> QED BY <2>2, <2>3
<1>12. Passed(k)'
  <2>1. \A o \in outcome.hits \ {m} : o.line # m.line
    BY <1>3, <1>5 DEF OutcomeOK, OneMatchPerLine
  <2> QED BY <1>3, <1>4, <1>6, <1>7, <1>8, <2>1 DEF Passed
<1>13. OnePerLine(S) /\ \A j \in S : Passed(j)'
  <2>1. OnePerLine(earliest)
    BY <1>5 DEF HeapOK
  <2>2. \A j \in S : j \in earliest \/ j = k
    BY <1>2, <1>9
  <2> QED BY <1>4, <1>11, <1>12, <2>1, <2>2 DEF OnePerLine
<1>14. earliest' \subseteq S /\ IsFiniteSet(earliest') /\ Cardinality(earliest') <= MaxResults
  BY <1>3, <1>9, <1>10, <1>13, KeepEarliestBounded
<1>15. HeapOK'
  <2>1. OnePerLine(earliest')
    BY <1>13, <1>14 DEF OnePerLine
  <2> QED BY <1>10, <1>13, <1>14, <2>1 DEF HeapOK, OnePerLine
<1>16. OutcomeOK'
  <2>1. IsFiniteSet(outcome.hits \ {m}) /\ OneMatchPerLine(outcome.hits \ {m})
    BY <1>3, <1>5, FS_Subset DEF OutcomeOK, OneMatchPerLine
  <2> QED BY <1>3, <1>5, <1>6, <2>1 DEF OutcomeOK, OneMatchPerLine, Candidates, SnapshotSize
<1>17. TypeOK' /\ FilesExist' /\ OpenedExists'
  BY <1>3, <1>5, <1>6 DEF TypeOK, FilesExist, OpenedExists, Candidates
<1>18. PagesWithinLimit' /\ HeapBounded'
  BY <1>3, <1>5, <1>14 DEF PagesWithinLimit, HeapBounded
<1> QED BY <1>15, <1>16, <1>17, <1>18 DEF QInv

\* Without a match left, the page is done with the whole chunk.
LEMMA EndChunkQInv ==
  ASSUME QInv, EndChunk
  PROVE  QInv'
<1>1. /\ pc = "filter" /\ outcome.hits = {} /\ pc' \in {"finish", "scan"}
      /\ used' = used + outcome.scanned /\ position' = NewPosition
      /\ UNCHANGED <<disk, snapshot, pages, file, earliest>>
  BY DEF EndChunk
<1>2. /\ TypeOK /\ FilesExist /\ OutcomeOK /\ HeapOK /\ PagesWithinLimit /\ HeapBounded
  BY DEF QInv
<1>3. /\ position \in Nat /\ used \in Nat /\ PageBudget \in Nat /\ outcome.scanned \in Nat
      /\ used + outcome.scanned <= PageBudget /\ NewPosition \in Nat /\ position <= NewPosition
  BY <1>1, NewPositionRight
<1>4. TypeOK'
  <2>1. used' \in 0..PageBudget /\ position' \in Nat
    BY <1>1, <1>3
  <2> QED BY <1>1, <1>2, <2>1 DEF TypeOK, Candidates
<1>5. HeapOK'
  <2>1. ASSUME NEW k \in earliest PROVE Passed(k)'
    <3>1. Passed(k) /\ k.line \in Nat
      BY <1>2 DEF HeapOK, Keys
    <3>2. k.file = file /\ ~(k.file < file) => k.line <= NewPosition
      BY <1>3, <3>1 DEF Passed
    <3> QED BY <1>1, <3>1, <3>2 DEF Passed
  <2> QED BY <1>1, <1>2, <2>1 DEF HeapOK
<1>6. FilesExist' /\ OpenedExists' /\ OutcomeOK'
  BY <1>1, <1>2 DEF FilesExist, Candidates, OpenedExists, OutcomeOK
<1>7. PagesWithinLimit' /\ HeapBounded'
  BY <1>1, <1>2 DEF PagesWithinLimit, HeapBounded
<1> QED BY <1>4, <1>5, <1>6, <1>7 DEF QInv

LEMMA FinishPageQInv ==
  ASSUME QInv, FinishPage
  PROVE  QInv'
<1>1. pc \in {"finish", "scan"}
  BY DEF FinishPage
<1>2. CASE FailPage
  BY <1>1, <1>2, GivenUpQInv DEF FailPage
<1>3. CASE ~FailPage
  <2>1. /\ pages' = pages + 1 /\ UNCHANGED <<disk, snapshot, page>>
        /\ \/ pc' = "ready" /\ pages + 1 <= MaxPages
           \/ pc' = "over"
    BY <1>3 DEF FinishPage, WithinCumulativeLimit
  <2>2. TypeOK /\ FilesExist /\ HeapOK /\ PagesWithinLimit /\ HeapBounded
    BY DEF QInv
  <2>3. TypeOK' /\ FilesExist' /\ OpenedExists' /\ OutcomeOK' /\ HeapOK'
    BY <1>1, <2>1, <2>2 DEF TypeOK, Candidates, page, FilesExist, OpenedExists, OutcomeOK, HeapOK,
       Passed
  <2>4. pages \in 0..MaxPages /\ MaxPages \in Nat
    BY <1>1, <2>2, LimitAssumption DEF PagesWithinLimit
  <2>5. PagesWithinLimit' /\ HeapBounded'
    BY <2>1, <2>2, <2>4 DEF PagesWithinLimit, HeapBounded, page
  <2> QED BY <2>3, <2>5 DEF QInv
<1> QED BY <1>2, <1>3

-----------------------------------------------------------------------------
\* What other programs do to the files touches neither the page nor the number
\* of candidates, and files are never forgotten.
LEMMA DisturbedQInv ==
  ASSUME QInv, UNCHANGED <<snapshot, pc, pages, page>>,
         NEW f \in Candidates, NEW s \in Seq(Seq(Lines)), Len(s) >= Len(disk[f]),
         disk' = [disk EXCEPT ![f] = s]
  PROVE  QInv'
<1>1. /\ TypeOK /\ FilesExist /\ OpenedExists /\ OutcomeOK /\ HeapOK /\ PagesWithinLimit
      /\ HeapBounded
  BY DEF QInv
<1> DEFINE T == Seq(Seq(Lines))
<1>2. disk \in Seq(T) /\ s \in T
  BY <1>1 DEF TypeOK
<1>3. \A x \in Candidates : disk[x] \in Seq(Seq(Lines)) /\ Len(disk[x]) \in Nat
  BY <1>1 DEF TypeOK, Candidates
<1>4. disk' \in Seq(T) /\ Len(disk') = Len(disk) /\ Candidates' = Candidates
  <2> HIDE DEF T
  <2> QED BY <1>2 DEF Candidates
<1>5. \A x \in Candidates : Len(disk'[x]) \in Nat /\ Len(disk'[x]) >= Len(disk[x])
  BY <1>3 DEF Candidates
<1>6. TypeOK'
  BY <1>1, <1>4 DEF TypeOK, page
<1>7. FilesExist' /\ OpenedExists'
  <2>1. \A x \in Candidates : Len(disk'[x]) > 0
    BY <1>1, <1>3, <1>5 DEF FilesExist
  <2>2. \A x \in Candidates : 1..Len(disk[x]) \subseteq 1..Len(disk'[x])
    BY <1>3, <1>5
  <2>3. /\ pc' = pc /\ file' = file /\ opened' = opened /\ outcome' = outcome
        /\ position' = position /\ snapshot' = snapshot
    BY DEF page
  <2>4. FilesExist'
    BY <1>4, <2>1 DEF FilesExist
  <2>5. pc' = "opened" => /\ file' \in Candidates' /\ opened' \in 1..Len(disk'[file'])
                          /\ (position < SnapshotSize(file))'
    BY ONLY <1>1, <1>4, <2>2, <2>3 DEF OpenedExists, SnapshotSize
  <2>6. pc' = "filter" /\ file' \in Timed /\ outcome'.hits # {} =>
          opened' \in 1..Len(disk'[file'])
    BY ONLY <1>1, <1>4, <2>2, <2>3 DEF OpenedExists, OutcomeOK
  <2> QED BY ONLY <2>4, <2>5, <2>6 DEF OpenedExists
<1>8. OutcomeOK' /\ PagesWithinLimit' /\ HeapBounded'
  BY <1>1, <1>4 DEF OutcomeOK, PagesWithinLimit, HeapBounded, page, SnapshotSize
<1>9. HeapOK'
  BY <1>1 DEF HeapOK, Passed, NewPosition, page, SnapshotSize
<1> QED BY <1>6, <1>7, <1>8, <1>9 DEF QInv

\* Replacing a member of a sequence.
LEMMA ReplacedInSequence ==
  ASSUME NEW T, NEW q \in Seq(T), NEW i, NEW x \in T
  PROVE  [q EXCEPT ![i] = x] \in Seq(T) /\ Len([q EXCEPT ![i] = x]) = Len(q)
<1> DEFINE s == [q EXCEPT ![i] = x]
<1>1. q \in [1..Len(q) -> T] /\ Len(q) \in Nat
  OBVIOUS
<1>2. s \in [1..Len(q) -> T]
  BY <1>1
<1> HIDE DEF s
<1>3. s \in Seq(T) /\ DOMAIN s = 1..Len(q)
  BY <1>1, <1>2
<1>4. Len(s) = Len(q)
  BY <1>1, <1>3
<1> QED BY <1>3, <1>4 DEF s

LEMMA RewrittenQInv ==
  ASSUME QInv, UNCHANGED <<snapshot, pc, pages, page>>,
         NEW f \in Candidates, NEW x \in Seq(Lines),
         disk' = [disk EXCEPT ![f][Len(disk[f])] = x]
  PROVE  QInv'
<1> DEFINE T == Seq(Lines)
           s == [disk[f] EXCEPT ![Len(disk[f])] = x]
<1>1. disk[f] \in Seq(T) /\ x \in T /\ Len(disk[f]) \in Nat
  BY DEF QInv, TypeOK, Candidates
<1>2. s \in Seq(T) /\ Len(s) = Len(disk[f])
  <2> DEFINE q == disk[f]
  <2>1. q \in Seq(T)
    BY <1>1
  <2> HIDE DEF T, q
  <2>2. [q EXCEPT ![Len(q)] = x] \in Seq(T) /\ Len([q EXCEPT ![Len(q)] = x]) = Len(q)
    BY ONLY <1>1, <2>1, ReplacedInSequence
  <2> QED BY <2>2 DEF q
<1>3. disk' = [disk EXCEPT ![f] = s]
  OBVIOUS
<1>4. s \in Seq(Seq(Lines)) /\ Len(s) >= Len(disk[f])
  BY <1>1, <1>2
<1> HIDE DEF s
<1> QED BY <1>3, <1>4, DisturbedQInv

LEMMA WriteQInv ==
  ASSUME QInv, NEW f \in Candidates, NEW l \in Appended, Write(f, l)
  PROVE  QInv'
<1> DEFINE T == Seq(Lines)
           x == Append(disk[f][Len(disk[f])], l)
<1>1. disk[f] \in Seq(T) /\ Len(disk[f]) > 0
  BY DEF QInv, TypeOK, FilesExist, Candidates
<1>2. disk[f][Len(disk[f])] \in T
  <2> HIDE DEF T
  <2> QED BY <1>1
<1>3. x \in Seq(Lines)
  BY <1>2, EnvironmentAssumption
<1>4. disk' = [disk EXCEPT ![f][Len(disk[f])] = x]
  BY DEF Write, Current
<1>5. UNCHANGED <<snapshot, pc, pages, page>>
  BY DEF Write, Event
<1> HIDE DEF x
<1> QED BY <1>3, <1>4, <1>5, RewrittenQInv

LEMMA TruncateQInv ==
  ASSUME QInv, NEW f \in Candidates, Truncate(f)
  PROVE  QInv'
<1>1. <<>> \in Seq(Lines)
  OBVIOUS
<1>2. disk' = [disk EXCEPT ![f][Len(disk[f])] = <<>>]
  BY DEF Truncate, Current
<1>3. UNCHANGED <<snapshot, pc, pages, page>>
  BY DEF Truncate, Event
<1> QED BY <1>1, <1>2, <1>3, RewrittenQInv

LEMMA RotateQInv ==
  ASSUME QInv, NEW f \in Candidates, Rotate(f)
  PROVE  QInv'
<1> DEFINE T == Seq(Lines)
           s == Append(disk[f], <<>>)
<1>1. disk[f] \in Seq(T) /\ Len(disk[f]) \in Nat /\ <<>> \in T
  BY DEF QInv, TypeOK, Candidates
<1>2. s \in Seq(T) /\ Len(s) = Len(disk[f]) + 1
  <2> HIDE DEF T
  <2> QED BY <1>1
<1>3. s \in Seq(Seq(Lines)) /\ Len(s) >= Len(disk[f])
  BY <1>1, <1>2
<1>4. disk' = [disk EXCEPT ![f] = s]
  BY DEF Rotate
<1>5. UNCHANGED <<snapshot, pc, pages, page>>
  BY DEF Rotate, Event
<1> HIDE DEF s
<1> QED BY <1>3, <1>4, <1>5, DisturbedQInv

LEMMA StepQInv == QInv /\ [Next]_vars => QInv'
<1> SUFFICES ASSUME QInv, [Next]_vars PROVE QInv'
  OBVIOUS
<1>1. CASE UNCHANGED vars
  BY <1>1 DEF vars, page, QInv, TypeOK, Candidates, FilesExist, OpenedExists, OutcomeOK, HeapOK,
              Passed, NewPosition, PagesWithinLimit, HeapBounded, SnapshotSize
<1>2. CASE Proceed
  BY <1>2, StartPageQInv, NextCandidateQInv, OpenChunkQInv, ScanChunkQInv, ReopenFileQInv,
     FilterMatchQInv, EndChunkQInv, FinishPageQInv DEF Proceed
<1>3. CASE Interrupt
  BY <1>3, GivenUpQInv DEF Interrupt
<1>4. CASE \E f \in Candidates : (\E l \in Appended : Write(f, l)) \/ Rotate(f) \/ Truncate(f)
  BY <1>4, WriteQInv, RotateQInv, TruncateQInv
<1> QED BY <1>1, <1>2, <1>3, <1>4 DEF Next

LEMMA SpecQInv == Spec => []QInv
BY InitQInv, StepQInv, PTL DEF Spec

\* Files, snapshot and the place in them are well typed, and no page scans more
\* than max_scan_bytes_per_page (scan_page, src/src/stateful_query.rs).
THEOREM PageTypeCorrect == Spec => []TypeOK
<1>1. QInv => TypeOK
  BY DEF QInv
<1> QED BY <1>1, SpecQInv, PTL

\* However many results the files have and however often a page is scanned
\* anew, the heap of a page stays within max_results, for no result is put into
\* it twice; and at most one page is returned beyond the limit on pages.
THEOREM HeapAndPagesBounded ==
  Spec => [](Cardinality(earliest) <= MaxResults /\ pages <= MaxPages + 1)
<1>1. QInv => Cardinality(earliest) <= MaxResults /\ pages <= MaxPages + 1
  <2> SUFFICES ASSUME QInv PROVE Cardinality(earliest) <= MaxResults /\ pages <= MaxPages + 1
    OBVIOUS
  <2>1. Cardinality(earliest) <= MaxResults
    BY DEF QInv, HeapBounded
  <2>2. pages \in 0..(IF pc = "over" THEN MaxPages + 1 ELSE MaxPages) /\ MaxPages \in Nat
    BY LimitAssumption DEF QInv, PagesWithinLimit
  <2> QED BY <2>1, <2>2
<1> QED BY <1>1, SpecQInv, PTL

-----------------------------------------------------------------------------
(***************************************************************************)
(* Ranks.  As results of different lines are comparable, the number of     *)
(* results before one is its place in the sorted list, and the heap keeps  *)
(* those of the lowest ranks.                                              *)
(***************************************************************************)

\* Sequences are equal when their members are.
LEMMA SameSequence ==
  ASSUME NEW T, NEW p \in Seq(T), NEW q \in Seq(T), Len(p) = Len(q),
         \A i \in 1..Len(q) : p[i] = q[i]
  PROVE  p = q
OBVIOUS

LEMMA CountToN == ASSUME NEW n \in Nat PROVE IsFiniteSet(1..n) /\ Cardinality(1..n) = n
BY FS_Interval

\* How many of the results S are before k.
Rank(S, k) == Cardinality({j \in S : Before(j, k)})

\* A finite set of results, no two of the same line.
Distinct(S) == S \subseteq Keys /\ IsFiniteSet(S) /\ OnePerLine(S)

\* Who is before another has the lower rank.
LEMMA RankGrows ==
  ASSUME NEW S, Distinct(S), NEW j \in S, NEW k \in S, Before(j, k)
  PROVE  Rank(S, j) \in Nat /\ Rank(S, k) \in Nat /\ Rank(S, j) < Rank(S, k)
<1> DEFINE J == {i \in S : Before(i, j)}
           K == {i \in S : Before(i, k)}
<1>1. IsFiniteSet(J) /\ IsFiniteSet(K) /\ J \subseteq S /\ K \subseteq S
  BY FS_Subset DEF Distinct
<1>2. J \subseteq K /\ j \in K /\ j \notin J
  BY BeforeTransitive, BeforeIrreflexive DEF Distinct
<1> HIDE DEF J, K
<1>3. J \in SUBSET K /\ J # K
  BY <1>2
<1>4. Cardinality(J) \in Nat /\ Cardinality(K) \in Nat
  BY <1>1, FS_CardinalityType
<1>5. Cardinality(J) <= Cardinality(K) /\ Cardinality(J) # Cardinality(K)
  BY <1>1, <1>3, FS_Subset
<1>6. Cardinality(J) < Cardinality(K)
  BY <1>4, <1>5
<1> QED BY <1>4, <1>6 DEF J, K, Rank

\* A rank is below the number of results.
LEMMA RankBelow ==
  ASSUME NEW S, Distinct(S), NEW k \in S
  PROVE  Rank(S, k) \in Nat /\ Rank(S, k) < Cardinality(S)
<1> DEFINE K == {i \in S : Before(i, k)}
<1>1. K \subseteq S /\ k \notin K /\ IsFiniteSet(S)
  BY BeforeIrreflexive DEF Distinct
<1> HIDE DEF K
<1>2. IsFiniteSet(K) /\ Cardinality(K) <= Cardinality(S) /\ Cardinality(K) # Cardinality(S)
  BY <1>1, FS_Subset
<1>3. Cardinality(K) \in Nat /\ Cardinality(S) \in Nat
  BY <1>1, <1>2, FS_CardinalityType
<1>4. Cardinality(K) < Cardinality(S)
  BY <1>2, <1>3
<1> QED BY <1>3, <1>4 DEF K, Rank

\* No two results have the same rank.
LEMMA RankTells ==
  ASSUME NEW S, Distinct(S), NEW j \in S, NEW k \in S
  PROVE  /\ Rank(S, j) = Rank(S, k) => j = k
         /\ Rank(S, j) < Rank(S, k) => Before(j, k)
<1>1. j = k \/ Before(j, k) \/ Before(k, j)
  BY BeforeTotal DEF Distinct
<1>2. Rank(S, j) \in Nat /\ Rank(S, k) \in Nat
  BY RankBelow
<1>3. Before(j, k) => Rank(S, j) < Rank(S, k)
  BY RankGrows
<1>4. Before(k, j) => Rank(S, k) < Rank(S, j)
  BY RankGrows
<1> QED BY <1>1, <1>2, <1>3, <1>4

\* As many ranks as results: there is one of every rank.
LEMMA EveryRank ==
  ASSUME NEW S, Distinct(S), NEW n \in 1..Cardinality(S)
  PROVE  \E k \in S : Rank(S, k) = n - 1
<1> DEFINE T == 0..(Cardinality(S) - 1)
           f == [k \in S |-> Rank(S, k)]
<1>1. Cardinality(S) \in Nat /\ IsFiniteSet(S)
  BY FS_CardinalityType DEF Distinct
<1>2. ASSUME NEW k \in S PROVE Rank(S, k) \in T
  BY <1>1, RankBelow
<1>3. \A j, k \in S : Rank(S, j) = Rank(S, k) => j = k
  BY RankTells
<1>4. IsFiniteSet(T) /\ Cardinality(T) = Cardinality(S)
  <2> DEFINE c == Cardinality(S) - 1
  <2>1. c \in Int /\ ~(0 > c) /\ c - 0 + 1 = Cardinality(S)
    BY <1>1
  <2> HIDE DEF c
  <2>2. IsFiniteSet(0..c) /\ Cardinality(0..c) = c - 0 + 1
    BY <2>1, FS_Interval
  <2> QED BY <2>1, <2>2 DEF c
<1>5. n - 1 \in T
  BY <1>1
<1> HIDE DEF T
<1>6. f \in Injection(S, T)
  BY <1>2, <1>3 DEF Injection, IsInjective
<1>7. f \in Surjection(S, T)
  <2> HIDE DEF f
  <2> QED BY <1>4, <1>6, FS_Injection
<1> QED BY <1>5, <1>7 DEF Surjection

\* Ranked is the sorted list of all results.
LEMMA RankedSorts ==
  ASSUME NEW S, Distinct(S)
  PROVE  /\ Ranked(S) \in Seq(S) /\ Len(Ranked(S)) = Cardinality(S) /\ Cardinality(S) \in Nat
         /\ \A i \in 1..Cardinality(S) : Ranked(S)[i] \in S /\ Rank(S, Ranked(S)[i]) = i - 1
         /\ \A i, j \in 1..Cardinality(S) : i < j => Before(Ranked(S)[i], Ranked(S)[j])
         /\ \A k \in S : \E i \in 1..Cardinality(S) : Ranked(S)[i] = k
<1> DEFINE R == Ranked(S)
           c == Cardinality(S)
<1>1. c \in Nat
  BY FS_CardinalityType DEF Distinct
<1>2. R = [n \in 1..c |-> CHOOSE k \in S : Rank(S, k) = n - 1]
  BY DEF Ranked, Rank
<1>3. ASSUME NEW i \in 1..c PROVE R[i] \in S /\ Rank(S, R[i]) = i - 1
  <2>1. R[i] = CHOOSE k \in S : Rank(S, k) = i - 1
    BY <1>2
  <2>2. \E k \in S : Rank(S, k) = i - 1
    BY EveryRank
  <2> HIDE DEF R
  <2> QED BY <2>1, <2>2
<1> HIDE DEF R
<1>4. R \in Seq(S) /\ Len(R) = c
  BY <1>1, <1>2, <1>3
<1>5. ASSUME NEW i \in 1..c, NEW j \in 1..c, i < j PROVE Before(R[i], R[j])
  <2>1. Rank(S, R[i]) < Rank(S, R[j])
    BY <1>1, <1>3, <1>5
  <2> QED BY <1>3, <2>1, RankTells
<1>6. ASSUME NEW k \in S PROVE \E i \in 1..c : R[i] = k
  <2>1. Rank(S, k) \in Nat /\ Rank(S, k) < c
    BY RankBelow
  <2> DEFINE i == Rank(S, k) + 1
  <2>2. i \in 1..c /\ i - 1 = Rank(S, k)
    BY <1>1, <2>1
  <2> HIDE DEF i
  <2>3. R[i] \in S /\ Rank(S, R[i]) = Rank(S, k)
    BY <1>3, <2>2
  <2> QED BY <2>2, <2>3, RankTells
<1> QED BY <1>1, <1>3, <1>4, <1>5, <1>6 DEF R

\* A sequence in order that has exactly the results S is the one that Ranked gives.
LEMMA SortedIsRanked ==
  ASSUME NEW S, Distinct(S), NEW q \in Seq(S),
         \A k \in S : \E i \in 1..Len(q) : q[i] = k,
         \A i, j \in 1..Len(q) : i < j => Before(q[i], q[j])
  PROVE  Ranked(S) = q /\ Cardinality(S) = Len(q)
<1>1. Len(q) \in Nat /\ \A i \in 1..Len(q) : q[i] \in S /\ q[i] \in Keys
  BY DEF Distinct
<1>2. \A i, j \in 1..Len(q) : q[i] = q[j] => i = j
  <2>1. ASSUME NEW i \in 1..Len(q), NEW j \in 1..Len(q), q[i] = q[j], i # j PROVE FALSE
    <3>1. i < j \/ j < i
      BY <1>1, <2>1
    <3>2. Before(q[i], q[i])
      BY <2>1, <3>1
    <3> QED BY <1>1, <3>2, BeforeIrreflexive
  <2> QED BY <2>1
<1>3. Cardinality(S) = Len(q)
  <2> DEFINE I == 1..Len(q)
             f == [i \in I |-> q[i]]
  <2>1. IsFiniteSet(I) /\ Cardinality(I) = Len(q)
    BY <1>1, FS_Interval
  <2>2. f \in Bijection(I, S)
    <3> HIDE DEF I
    <3> QED BY <1>1, <1>2 DEF I, Bijection, Injection, Surjection, IsInjective
  <2>3. ExistsBijection(I, S)
    BY <2>2 DEF ExistsBijection
  <2> QED BY <2>1, <2>3, FS_Bijection
<1>4. ASSUME NEW i \in 1..Len(q) PROVE Rank(S, q[i]) = i - 1
  <2> DEFINE P == {j \in S : Before(j, q[i])}
             I == 1..(i - 1)
             f == [m \in I |-> q[m]]
  <2>1. i \in Nat /\ i > 0 /\ i <= Len(q)
    BY <1>1
  <2>2. I \subseteq 1..Len(q) /\ IsFiniteSet(I) /\ Cardinality(I) = i - 1
    <3> DEFINE b == i - 1
    <3>1. b \in Nat
      BY <2>1
    <3>2. 1..b \subseteq 1..Len(q)
      BY <1>1, <2>1
    <3> HIDE DEF b
    <3>3. IsFiniteSet(1..b) /\ Cardinality(1..b) = b
      BY <3>1, CountToN
    <3> QED BY <3>2, <3>3 DEF b
  <2>3. \A m \in I : q[m] \in P
    <3>1. ASSUME NEW m \in I PROVE m \in 1..Len(q) /\ m < i
      BY <1>1, <2>1
    <3> HIDE DEF I
    <3> QED BY <1>1, <3>1
  <2>4. \A k \in P : \E m \in I : q[m] = k
    <3>1. ASSUME NEW k \in P PROVE \E m \in I : q[m] = k
      <4>1. PICK m \in 1..Len(q) : q[m] = k
        OBVIOUS
      <4>2. Before(q[m], q[i])
        BY <4>1
      <4>3. ~(m = i) /\ ~(i < m)
        <5>1. m # i
          BY <1>1, <4>2, BeforeIrreflexive
        <5>2. i < m => Before(q[i], q[m])
          OBVIOUS
        <5>3. ~(Before(q[i], q[m]) /\ Before(q[m], q[i]))
          BY <1>1, BeforeIrreflexive, BeforeTransitive
        <5> QED BY <4>2, <5>1, <5>2, <5>3
      <4>4. m \in I
        BY <1>1, <2>1, <4>3
      <4> QED BY <4>1, <4>4
    <3> QED BY <3>1
  <2> HIDE DEF P, I
  <2>5. f \in Bijection(I, P)
    BY <1>2, <2>2, <2>3, <2>4 DEF Bijection, Injection, Surjection, IsInjective
  <2>6. ExistsBijection(I, P)
    BY <2>5 DEF ExistsBijection
  <2>7. Cardinality(P) = i - 1
    BY <2>2, <2>6, FS_Bijection
  <2> QED BY <2>7 DEF P, Rank
<1>5. /\ Ranked(S) \in Seq(S) /\ Len(Ranked(S)) = Len(q)
      /\ \A i \in 1..Len(q) : Ranked(S)[i] \in S /\ Rank(S, Ranked(S)[i]) = i - 1
  BY <1>3, RankedSorts
<1> DEFINE R == Ranked(S)
<1> HIDE DEF R
<1>6. ASSUME NEW i \in 1..Len(q) PROVE R[i] = q[i]
  <2>1. R[i] \in S /\ q[i] \in S /\ Rank(S, R[i]) = Rank(S, q[i])
    BY <1>1, <1>4, <1>5 DEF R
  <2> QED BY <2>1, RankTells
<1>7. R \in Seq(S) /\ Len(R) = Len(q)
  BY <1>5 DEF R
<1>8. R = q
  BY <1>6, <1>7, SameSequence
<1> QED BY <1>3, <1>8 DEF R

\* The heap keeps the first results of the sorted list.
LEMMA KeptAreFirst ==
  ASSUME NEW S, Distinct(S), NEW n, n = (IF Cardinality(S) <= MaxResults THEN Cardinality(S) ELSE MaxResults)
  PROVE  /\ n \in 0..Len(Ranked(S)) /\ Len(Ranked(S)) \in Nat
         /\ KeepEarliest(S) = {Ranked(S)[i] : i \in 1..n}
         /\ Ranked(KeepEarliest(S)) = SubSeq(Ranked(S), 1, n)
         /\ Cardinality(KeepEarliest(S)) = n
<1> DEFINE R == Ranked(S)
           K == KeepEarliest(S)
           c == Cardinality(S)
           q == SubSeq(R, 1, n)
<1>1. /\ R \in Seq(S) /\ Len(R) = c /\ c \in Nat
      /\ \A i \in 1..c : R[i] \in S /\ Rank(S, R[i]) = i - 1
      /\ \A i, j \in 1..c : i < j => Before(R[i], R[j])
      /\ \A k \in S : \E i \in 1..c : R[i] = k
  BY RankedSorts
<1>2. K = {k \in S : Rank(S, k) < MaxResults}
  BY DEF KeepEarliest, Rank
<1>3. MaxResults \in Nat /\ MaxResults > 0
  BY LimitAssumption
<1> HIDE DEF R, K
<1>4. n \in 0..c /\ n \in Nat /\ \A i \in 1..c : i - 1 < MaxResults <=> i <= n
  <2> HIDE DEF c
  <2> QED BY <1>1, <1>3 DEF c
<1>5. K = {R[i] : i \in 1..n}
  <2>1. \A i \in 1..n : R[i] \in K
    <3>1. ASSUME NEW i \in 1..n PROVE i \in 1..c /\ i - 1 < MaxResults
      BY <1>1, <1>4
    <3> HIDE DEF c
    <3> QED BY <1>1, <1>2, <3>1
  <2>2. ASSUME NEW k \in K PROVE \E i \in 1..n : R[i] = k
    <3>1. PICK i \in 1..c : R[i] = k
      BY <1>1, <1>2
    <3>2. i - 1 < MaxResults
      BY <1>1, <1>2, <3>1
    <3>3. i \in 1..n
      BY <1>1, <1>4, <3>2
    <3> QED BY <3>1, <3>3
  <2> HIDE DEF c
  <2> QED BY <2>1, <2>2
<1>6. Distinct(K)
  <2>1. K \in SUBSET S
    BY <1>2
  <2> QED BY <2>1, FS_Subset DEF Distinct, OnePerLine
<1>7. q \in Seq(K) /\ Len(q) = n /\ \A i \in 1..n : q[i] = R[i]
  <2>1. Len(q) = n /\ \A i \in 1..n : q[i] = R[i]
    BY <1>1, <1>4
  <2>2. \A i \in 1..n : q[i] \in K
    BY <1>5, <2>1
  <2>3. q \in Seq(S)
    BY <1>1, <1>4
  <2> HIDE DEF q, R, K
  <2>4. q \in Seq(K)
    BY <1>4, <2>1, <2>2, <2>3
  <2> QED BY <2>1, <2>4
<1> HIDE DEF q
<1>8. \A i, j \in 1..n : i < j => Before(q[i], q[j])
  <2>1. 1..n \subseteq 1..c
    BY <1>1, <1>4
  <2> HIDE DEF c
  <2> QED BY <1>1, <1>7, <2>1
<1>9. \A k \in K : \E i \in 1..n : q[i] = k
  BY <1>5, <1>7
<1>10. Ranked(K) = q /\ Cardinality(K) = n
  BY <1>6, <1>7, <1>8, <1>9, SortedIsRanked
<1> QED BY <1>1, <1>4, <1>5, <1>10 DEF R, K, q

\* What a heap has dropped would not have been kept beside later results either.
LEMMA KeepEarliestAgain ==
  ASSUME NEW A, NEW B, Distinct(A \cup B)
  PROVE  KeepEarliest(KeepEarliest(A) \cup B) = KeepEarliest(A \cup B)
<1> DEFINE U == A \cup B
           M == KeepEarliest(A)
           V == M \cup B
<1>0. MaxResults \in Nat
  BY LimitAssumption
<1>1. /\ \A S, k : k \in KeepEarliest(S) <=> k \in S /\ Rank(S, k) < MaxResults
  BY DEF KeepEarliest, Rank
<1>2. Distinct(A) /\ Distinct(U) /\ Distinct(V) /\ M \subseteq A /\ V \subseteq U
  <2>1. \A S \in SUBSET U : Distinct(S)
    BY FS_Subset DEF Distinct, OnePerLine
  <2>2. M \subseteq A
    BY <1>1
  <2> HIDE DEF M
  <2> QED BY <2>1, <2>2
<1>3. \A S, T, k : Distinct(T) /\ S \subseteq T =>
         Rank(S, k) \in Nat /\ Rank(T, k) \in Nat /\ Rank(S, k) <= Rank(T, k)
  <2>1. ASSUME NEW S, NEW T, NEW k, Distinct(T), S \subseteq T
        PROVE Rank(S, k) \in Nat /\ Rank(T, k) \in Nat /\ Rank(S, k) <= Rank(T, k)
    <3> DEFINE P == {j \in S : Before(j, k)}
               Q == {j \in T : Before(j, k)}
    <3>1. P \in SUBSET Q /\ IsFiniteSet(Q)
      BY <2>1, FS_Subset DEF Distinct
    <3> HIDE DEF P, Q
    <3>2. IsFiniteSet(P) /\ Cardinality(P) <= Cardinality(Q)
      BY <3>1, FS_Subset
    <3>3. Cardinality(P) \in Nat /\ Cardinality(Q) \in Nat
      BY <3>1, <3>2, FS_CardinalityType
    <3> QED BY <3>2, <3>3 DEF P, Q, Rank
  <2> QED BY <2>1
<1> HIDE DEF U, V, M
<1>4. ASSUME NEW k \in KeepEarliest(U) PROVE k \in KeepEarliest(V)
  <2>1. k \in U /\ Rank(U, k) < MaxResults
    BY <1>1
  <2>2. Rank(V, k) <= Rank(U, k) /\ Rank(A, k) <= Rank(U, k) /\ Rank(V, k) \in Nat
        /\ Rank(A, k) \in Nat /\ Rank(U, k) \in Nat
    <3>1. A \subseteq U
      BY DEF U
    <3> QED BY <1>2, <1>3, <3>1
  <2>3. k \in V
    <3>1. k \in A => k \in M
      BY <1>0, <1>1, <2>1, <2>2 DEF M
    <3> QED BY <2>1, <3>1 DEF U, V
  <2>4. Rank(V, k) < MaxResults
    BY <1>0, <2>1, <2>2
  <2> QED BY <1>1, <2>3, <2>4
<1>5. ASSUME NEW k \in KeepEarliest(V) PROVE k \in KeepEarliest(U)
  <2>1. k \in V /\ k \in U /\ Rank(V, k) < MaxResults
    BY <1>1, <1>2
  <2>2. SUFFICES ASSUME ~(Rank(U, k) < MaxResults) PROVE FALSE
    BY <1>1, <2>1
  <2>3. PICK j \in U : j \notin V /\ Before(j, k)
    <3>1. CASE \A j \in U : Before(j, k) => j \in V
      <4>1. {j \in U : Before(j, k)} = {j \in V : Before(j, k)}
        BY <1>2, <3>1
      <4> QED BY <2>1, <2>2, <4>1 DEF Rank
    <3> QED BY <3>1
  <2>4. j \in A /\ ~(Rank(A, j) < MaxResults)
    BY <1>1, <2>3 DEF U, V, M
  <2>5. Rank(A, j) \in Nat /\ Rank(A, j) < Cardinality(A) /\ Cardinality(A) \in Nat
    BY <1>2, <2>4, RankBelow, FS_CardinalityType DEF Distinct
  <2>6. Cardinality(M) = MaxResults
    <3>1. ~(Cardinality(A) <= MaxResults)
      BY <1>0, <2>4, <2>5
    <3> QED BY <1>2, <3>1, KeptAreFirst DEF M
  <2>7. ASSUME NEW i \in M PROVE i \in V /\ Before(i, k)
    <3>1. i \in A /\ Rank(A, i) < MaxResults
      BY <1>1 DEF M
    <3>2. Rank(A, i) \in Nat
      BY <1>2, <3>1, RankBelow
    <3>3. Rank(A, i) < Rank(A, j)
      BY <1>0, <2>4, <2>5, <3>1, <3>2
    <3>4. Before(i, j)
      BY <1>2, <2>4, <3>1, <3>3, RankTells
    <3>5. i \in Keys /\ j \in Keys /\ k \in Keys
      BY <1>2, <2>1, <2>4, <3>1 DEF Distinct
    <3> QED BY <2>3, <3>4, <3>5, BeforeTransitive DEF V
  <2> DEFINE P == {i \in V : Before(i, k)}
  <2>8. M \in SUBSET P /\ IsFiniteSet(P)
    BY <1>2, <2>7, FS_Subset DEF Distinct
  <2> HIDE DEF P
  <2>9. Cardinality(M) <= Cardinality(P) /\ Cardinality(P) \in Nat
    BY <2>8, FS_Subset, FS_CardinalityType
  <2>10. Cardinality(P) < MaxResults
    BY <2>1 DEF P, Rank
  <2> QED BY <1>0, <2>6, <2>9, <2>10
<1> QED BY <1>4, <1>5 DEF U, V, M

-----------------------------------------------------------------------------
(***************************************************************************)
(* What a page has room for.                                               *)
(***************************************************************************)

\* The greatest of some numbers up to n is one of them.
LEMMA GreatestNatural ==
  ASSUME NEW n \in Nat, NEW S \in SUBSET (0..n), S # {}
  PROVE  Max(S) \in S /\ \A y \in S : y <= Max(S)
<1> DEFINE D == {n - i : i \in S}
<1>1. D \in SUBSET Nat /\ D # {}
  <2>1. ASSUME NEW i \in S PROVE n - i \in Nat
    <3>1. i \in 0..n
      OBVIOUS
    <3> QED BY <3>1
  <2> QED BY <2>1
<1>2. PICK d \in D : \A y \in D : d <= y
  <2> HIDE DEF D
  <2> QED BY <1>1, LeastNatural
<1>3. PICK x \in S : d = n - x
  BY <1>2
<1>4. \A y \in S : x >= y
  <2>1. ASSUME NEW y \in S PROVE x >= y
    <3>1. n - y \in D /\ n - x <= n - y
      BY <1>2, <1>3
    <3>2. x \in Nat /\ y \in Nat
      OBVIOUS
    <3> QED BY <3>1, <3>2
  <2> QED BY <2>1
<1>5. Max(S) \in S /\ \A y \in S : Max(S) >= y
  BY <1>4 DEF Max
<1>6. \A y \in S : y \in Nat
  OBVIOUS
<1> QED BY <1>5, <1>6

LEMMA SizeOfMember ==
  ASSUME NEW q \in Seq(Keys), NEW i \in 1..Len(q)
  PROVE  q[i].size \in Nat /\ q[i].size > 0
<1>1. q[i] \in Keys
  OBVIOUS
<1>2. \A k \in Keys : k.size \in Nat /\ k.size > 0
  BY DEF Keys
<1> QED BY <1>1, <1>2

\* f is a function on 0..k that adds up the sizes of the first k results.
Sums(f, k, q) ==
  f[0] = 0 /\ \A i \in 1..k : f[i] = f[i - 1] + q[i].size /\ f[i - 1] \in Nat /\ f[i] \in Nat

\* SumOfSizes adds up the sizes of the first results.
LEMMA SumsRight ==
  ASSUME NEW q \in Seq(Keys)
  PROVE  Sums(SumOfSizes(q), Len(q), q)
<1>1. PICK l \in Nat : l = Len(q)
  OBVIOUS
<1>0. ASSUME NEW i \in 1..l PROVE q[i].size \in Nat
  BY <1>1, SizeOfMember
<1> DEFINE Eq(f) == f = [n \in 0..l |-> IF n = 0 THEN 0 ELSE f[n - 1] + q[n].size]
<1>2. SumOfSizes(q) = CHOOSE f : Eq(f)
  BY <1>1 DEF SumOfSizes
<1> DEFINE Has(k) == \E g : DOMAIN g = 0..k /\ g = [i \in 0..k |-> g[i]] /\ Sums(g, k, q)
           Lacking == {k \in 0..l : ~Has(k)}
<1>3. ASSUME Lacking # {} PROVE FALSE
  <2>1. PICK k \in Lacking : \A y \in Lacking : k <= y
    <3>1. Lacking \in SUBSET Nat
      OBVIOUS
    <3> HIDE DEF Lacking
    <3> QED BY <1>3, <3>1, LeastNatural
  <2>2. k \in 0..l /\ ~Has(k)
    OBVIOUS
  <2>3. k # 0
    <3>1. Has(0)
      <4>1. PICK g : g = [i \in 0..0 |-> 0]
        OBVIOUS
      <4>2. DOMAIN g = 0..0 /\ g = [i \in 0..0 |-> g[i]] /\ Sums(g, 0, q)
        BY <4>1 DEF Sums
      <4> QED BY <4>2
    <3> QED BY <2>2, <3>1
  <2>4. k - 1 \in 0..l /\ k - 1 < k /\ k \in 1..l
    BY <2>2, <2>3
  <2>5. Has(k - 1)
    <3>1. k - 1 \notin Lacking
      <4> HIDE DEF Lacking
      <4> QED BY <2>1, <2>2, <2>4
    <3> QED BY <2>4, <3>1
  <2>6. PICK g : DOMAIN g = 0..(k - 1) /\ Sums(g, k - 1, q)
    BY <2>5
  <2>7. PICK h : h = [i \in 0..k |-> IF i = k THEN g[k - 1] + q[k].size ELSE g[i]]
    OBVIOUS
  <2>8. h[0] = 0 /\ g[k - 1] \in Nat
    <3>1. g[0] = 0 /\ (k - 1 = 0 \/ k - 1 \in 1..(k - 1))
      BY <2>4, <2>6 DEF Sums
    <3>2. g[k - 1] \in Nat
      BY <2>6, <3>1 DEF Sums
    <3> QED BY <2>2, <2>3, <2>7, <3>1, <3>2
  <2>9. ASSUME NEW i \in 1..k
        PROVE  h[i] = h[i - 1] + q[i].size /\ h[i - 1] \in Nat /\ h[i] \in Nat
    <3>1. i - 1 \in 0..k /\ i - 1 # k /\ i \in 0..k /\ h[i - 1] = g[i - 1]
      BY <2>2, <2>7
    <3>2. CASE i = k
      BY <1>0, <2>4, <2>7, <2>8, <3>1, <3>2
    <3>3. CASE i # k
      <4>1. i \in 1..(k - 1)
        BY <2>2, <3>3
      <4>2. h[i] = g[i]
        BY <2>7, <3>1, <3>3
      <4> QED BY <2>6, <3>1, <4>1, <4>2 DEF Sums
    <3> QED BY <3>2, <3>3
  <2>10. Has(k)
    <3>1. DOMAIN h = 0..k /\ h = [i \in 0..k |-> h[i]] /\ Sums(h, k, q)
      BY <2>7, <2>8, <2>9 DEF Sums
    <3> QED BY <3>1
  <2> QED BY <2>2, <2>10
<1>4. Has(l)
  BY <1>3
<1>5. \E f : Eq(f)
  <2>1. PICK g : DOMAIN g = 0..l /\ g = [i \in 0..l |-> g[i]] /\ Sums(g, l, q)
    BY <1>4
  <2>2. ASSUME NEW n \in 0..l PROVE g[n] = IF n = 0 THEN 0 ELSE g[n - 1] + q[n].size
    <3>1. n = 0 \/ n \in 1..l
      OBVIOUS
    <3> QED BY <2>1, <3>1 DEF Sums
  <2> QED BY <2>1, <2>2
<1>6. PICK f : f = (CHOOSE h : Eq(h)) /\ Eq(f)
  <2> HIDE DEF Eq
  <2> QED BY <1>5
<1>7. f[0] = 0 /\ \A i \in 1..l : f[i] = f[i - 1] + q[i].size
  <2>1. \A n \in 0..l : f[n] = IF n = 0 THEN 0 ELSE f[n - 1] + q[n].size
    BY <1>6
  <2>2. 0 \in 0..l /\ \A i \in 1..l : i \in 0..l /\ i # 0
    OBVIOUS
  <2> QED BY <2>1, <2>2
<1> DEFINE Bad == {k \in 0..l : f[k] \notin Nat}
<1> HIDE DEF Eq
<1>8. ASSUME Bad # {} PROVE FALSE
  <2>1. PICK k \in Bad : \A y \in Bad : k <= y
    <3>1. Bad \in SUBSET Nat
      OBVIOUS
    <3> HIDE DEF Bad
    <3> QED BY <1>8, <3>1, LeastNatural
  <2>2. k \in 1..l /\ f[k] \notin Nat
    BY <1>7
  <2>3. k - 1 \in 0..l /\ k - 1 \notin Bad
    <3>1. k - 1 \in 0..l /\ ~(k <= k - 1)
      BY <2>2
    <3> HIDE DEF Bad
    <3> QED BY <2>1, <3>1
  <2>4. f[k - 1] \in Nat
    BY <2>3
  <2> QED BY <1>0, <1>7, <2>2, <2>4
<1>9. \A i \in 1..l : f[i - 1] \in Nat /\ f[i] \in Nat
  <2>1. \A i \in 1..l : i \in 0..l /\ i - 1 \in 0..l
    OBVIOUS
  <2> QED BY <1>8, <2>1
<1> QED BY <1>1, <1>2, <1>6, <1>7, <1>9 DEF Sums

\* A page returns a beginning of the ranked results, and all of them when their
\* content is within the limit, because none is empty.
LEMMA FittingIsBeginning ==
  ASSUME NEW q \in Seq(Keys)
  PROVE  \E m \in 0..Len(q) :
           /\ Fitting(q) = SubSeq(q, 1, m)
           /\ SumOfSizes(q)[Len(q)] <= MaxContent => m = Len(q)
<1> DEFINE s == SumOfSizes(q)
           room == {n \in DOMAIN q : s[n - 1] < MaxContent}
           S == {0} \cup room
           m == Max(S)
<1>1. PICK l \in Nat : l = Len(q) /\ DOMAIN q = 1..l
  OBVIOUS
<1>2. Fitting(q) = SubSeq(q, 1, m)
  BY DEF Fitting
<1>3. Sums(s, l, q)
  BY <1>1, SumsRight
<1>4. S \in SUBSET (0..l) /\ S # {}
  BY <1>1
<1> HIDE DEF S
<1>5. m \in S /\ \A y \in S : y <= m
  BY <1>4, GreatestNatural
<1> HIDE DEF m
<1>6. m \in 0..l
  BY <1>4, <1>5
<1>7. ASSUME s[l] <= MaxContent PROVE m = l
  <2>1. CASE l = 0
    BY <1>6, <2>1
  <2>2. CASE l # 0
    <3>1. l \in 1..l
      BY <2>2
    <3>2. s[l] = s[l - 1] + q[l].size /\ s[l - 1] \in Nat /\ s[l] \in Nat
      <4> HIDE DEF s
      <4> QED BY <1>3, <3>1 DEF Sums
    <3>3. q[l].size \in Nat /\ q[l].size > 0
      BY <1>1, <3>1, SizeOfMember
    <3>4. MaxContent \in Nat
      BY LimitAssumption
    <3>5. s[l - 1] < MaxContent
      <4> HIDE DEF s
      <4> QED BY <1>7, <3>2, <3>3, <3>4
    <3>6. l \in S
      BY <1>1, <3>1, <3>5 DEF S
    <3>7. l <= m
      BY <1>5, <3>6
    <3> QED BY <1>6, <3>7
  <2> QED BY <2>1, <2>2
<1> QED BY <1>1, <1>2, <1>6, <1>7

-----------------------------------------------------------------------------
(***************************************************************************)
(* Results are returned in order, for the watermark is the last of them.   *)
(***************************************************************************)

\* Only results behind the watermark are kept.
HeapBehind ==
  pc \in {"scan", "opened", "scanned", "filter", "finish"} => \A k \in earliest : Behind(k)

\* What has been returned is in order.
DeliveredOK == delivered \in Seq(Keys) /\ InOrder(delivered)

\* The watermark of the cursor is the last result so far.
WatermarkOK ==
  pc # "over" => IF after = None THEN delivered = <<>>
                 ELSE delivered # <<>> /\ after = delivered[Len(delivered)]

OInv ==
  /\ QInv
  /\ HeapBehind
  /\ DeliveredOK
  /\ WatermarkOK

LEMMA InitOInv == Init => OInv
<1> SUFFICES ASSUME Init PROVE OInv
  OBVIOUS
<1>1. /\ QInv /\ pc = "ready" /\ after = None /\ delivered = <<>>
  BY InitQInv DEF Init
<1>2. <<>> \in Seq(Keys) /\ InOrder(<<>>)
  <2>1. \A i : i \notin 1..(0 - 1)
    OBVIOUS
  <2> QED BY <2>1 DEF InOrder
<1> QED BY <1>1, <1>2 DEF OInv, HeapBehind, DeliveredOK, WatermarkOK

\* One list after the other.
LEMMA InOrderJoined ==
  ASSUME NEW d \in Seq(Keys), NEW t \in Seq(Keys), InOrder(d), InOrder(t),
         d # <<>> /\ t # <<>> => Before(d[Len(d)], t[1])
  PROVE  d \o t \in Seq(Keys) /\ InOrder(d \o t)
<1> DEFINE u == d \o t
<1>1. /\ u \in Seq(Keys) /\ Len(d) \in Nat /\ Len(t) \in Nat /\ Len(u) = Len(d) + Len(t)
      /\ \A i \in 1..Len(u) : u[i] = IF i <= Len(d) THEN d[i] ELSE t[i - Len(d)]
  OBVIOUS
<1> HIDE DEF u
<1>2. ASSUME NEW i \in 1..(Len(u) - 1) PROVE Before(u[i], u[i + 1])
  <2>1. i \in 1..Len(u) /\ i + 1 \in 1..Len(u) /\ i \in Nat
    BY <1>1
  <2>2. CASE i < Len(d)
    <3>1. u[i] = d[i] /\ u[i + 1] = d[i + 1] /\ i \in 1..(Len(d) - 1)
      BY <1>1, <2>1, <2>2
    <3> QED BY <3>1 DEF InOrder
  <2>3. CASE i = Len(d)
    <3>1. u[i] = d[Len(d)] /\ u[i + 1] = t[1]
      BY <1>1, <2>1, <2>3
    <3>2. d # <<>> /\ t # <<>>
      BY <1>1, <2>1, <2>3
    <3> QED BY <3>1, <3>2
  <2>4. CASE i > Len(d)
    <3> DEFINE j == i - Len(d)
    <3>1. u[i] = t[j] /\ u[i + 1] = t[j + 1] /\ j \in 1..(Len(t) - 1)
      BY <1>1, <2>1, <2>4
    <3> HIDE DEF j
    <3> QED BY <3>1 DEF InOrder
  <2> QED BY <1>1, <2>1, <2>2, <2>3, <2>4
<1> QED BY <1>1, <1>2 DEF u, InOrder

\* What a page returns: the first of its results, in order.
LEMMA ResultsOfPage ==
  ASSUME QInv
  PROVE  \E m \in 0..Len(Ranked(earliest)) :
           /\ Fitting(Ranked(earliest)) = SubSeq(Ranked(earliest), 1, m)
           /\ SumOfSizes(Ranked(earliest))[Cardinality(earliest)] <= MaxContent =>
                m = Cardinality(earliest)
           /\ Fitting(Ranked(earliest)) \in Seq(earliest)
           /\ Fitting(Ranked(earliest)) \in Seq(Keys)
           /\ Len(Fitting(Ranked(earliest))) = m
           /\ InOrder(Fitting(Ranked(earliest)))
<1>1. PICK e : e = earliest /\ Distinct(e)
  BY DEF QInv, HeapOK, Distinct
<1>2. PICK R \in Seq(e) : /\ R = Ranked(e) /\ Len(R) = Cardinality(e)
                         /\ \A i, j \in 1..Len(R) : i < j => Before(R[i], R[j])
  BY <1>1, RankedSorts
<1>3. R \in Seq(Keys)
  BY <1>1, <1>2 DEF Distinct
<1>4. PICK m \in 0..Len(R) : /\ Fitting(R) = SubSeq(R, 1, m)
                             /\ SumOfSizes(R)[Len(R)] <= MaxContent => m = Len(R)
  BY <1>3, FittingIsBeginning
<1>5. PICK q : q = SubSeq(R, 1, m)
  OBVIOUS
<1>6. q \in Seq(e) /\ q \in Seq(Keys) /\ Len(q) = m /\ \A i \in 1..m : q[i] = R[i]
  BY <1>2, <1>3, <1>4, <1>5
<1>7. InOrder(q)
  <2>1. ASSUME NEW i \in 1..(m - 1) PROVE Before(q[i], q[i + 1])
    <3>1. i \in 1..m /\ i + 1 \in 1..m /\ i \in 1..Len(R) /\ i + 1 \in 1..Len(R) /\ i < i + 1
      BY <1>4
    <3> QED BY <1>2, <1>6, <3>1
  <2> QED BY <1>6, <2>1 DEF InOrder
<1> QED BY <1>1, <1>2, <1>4, <1>5, <1>6, <1>7

\* A page that fails or starts anew keeps nothing.
LEMMA GivenUpOInv ==
  ASSUME OInv, QInv', pc' = "ready", pc # "over", UNCHANGED <<after, delivered>>
  PROVE  OInv'
BY DEF OInv, HeapBehind, DeliveredOK, WatermarkOK

\* A step that delivers nothing and puts only results behind the watermark into
\* the heap.
LEMMA WorkingOInv ==
  ASSUME OInv, QInv', UNCHANGED <<after, delivered>>, pc # "over",
         pc' \in {"scan", "opened", "scanned", "filter", "finish"},
         \A k \in earliest' : Behind(k)
  PROVE  OInv'
BY DEF OInv, HeapBehind, DeliveredOK, WatermarkOK, Behind

\* The steps that only scan.
LEMMA PageOInv ==
  ASSUME OInv, QInv',
         StartPage \/ NextCandidate \/ OpenChunk \/ ScanChunk \/ ReopenFile \/ EndChunk
  PROVE  OInv'
<1>1. CASE StartPage
  BY <1>1, WorkingOInv DEF StartPage
<1>2. ASSUME pc \in {"scan", "opened", "scanned", "filter"}, UNCHANGED <<after, delivered, earliest>>,
             pc' \in {"scan", "opened", "scanned", "filter", "finish"}
      PROVE  OInv'
  BY <1>2, WorkingOInv DEF OInv, HeapBehind
<1>3. CASE NextCandidate
  BY <1>2, <1>3 DEF NextCandidate
<1>4. CASE OpenChunk
  BY <1>2, <1>4, GivenUpOInv DEF OpenChunk, FailPage
<1>5. CASE ScanChunk
  BY <1>2, <1>5 DEF ScanChunk
<1>6. CASE ReopenFile
  BY <1>2, <1>6, GivenUpOInv DEF ReopenFile, FailPage
<1>7. CASE EndChunk
  BY <1>2, <1>7 DEF EndChunk
<1> QED BY <1>1, <1>3, <1>4, <1>5, <1>6, <1>7

LEMMA FilterMatchOInv ==
  ASSUME OInv, QInv', NEW m \in outcome.hits, FilterMatch(m)
  PROVE  OInv'
<1>1. PICK k : k = Key(file, m, disk[file][opened])
  OBVIOUS
<1>2. PICK kept : kept = IF InTimeRange(k) /\ Behind(k) THEN {k} ELSE {}
  OBVIOUS
<1>3. /\ earliest' = KeepEarliest(earliest \cup kept)
      /\ pc = "filter" /\ pc' = "filter" /\ UNCHANGED <<after, delivered>>
  BY <1>1, <1>2 DEF FilterMatch
<1>4. \A j \in earliest : Behind(j)
  BY <1>3 DEF OInv, HeapBehind
<1>5. \A j \in kept : Behind(j)
  BY <1>2
<1>6. \A j \in earliest' : Behind(j)
  BY <1>3, <1>4, <1>5 DEF KeepEarliest
<1> QED BY <1>3, <1>6, WorkingOInv

\* All results of the page are behind the watermark, that is behind the list so
\* far.
LEMMA FinishPageOInv ==
  ASSUME OInv, QInv', FinishPage
  PROVE  OInv'
<1>1. pc \in {"finish", "scan"}
  BY DEF FinishPage
<1>2. CASE FailPage
  BY <1>1, <1>2, GivenUpOInv DEF FailPage
<1>3. CASE ~FailPage
  <2>1. PICK t : t = Fitting(Ranked(earliest))
    OBVIOUS
  <2>2. /\ delivered' = delivered \o t
        /\ \/ pc' = "ready" /\ t # <<>> /\ after' = t[Len(t)]
           \/ pc' = "over"
    BY <1>3, <2>1 DEF FinishPage, Last
  <2>3. t \in Seq(earliest) /\ t \in Seq(Keys) /\ InOrder(t)
    BY <2>1, ResultsOfPage DEF OInv
  <2>4. PICK d \in Seq(Keys) : d = delivered /\ InOrder(d)
    BY DEF OInv, DeliveredOK
  <2>5. ASSUME d # <<>>, t # <<>> PROVE Before(d[Len(d)], t[1])
    <3>1. t[1] \in earliest
      BY <2>3, <2>5
    <3>2. Behind(t[1])
      BY <1>1, <3>1 DEF OInv, HeapBehind
    <3>3. after # None /\ after = d[Len(d)]
      BY <1>1, <2>4, <2>5 DEF OInv, WatermarkOK
    <3> QED BY <3>2, <3>3 DEF Behind
  <2>6. d \o t \in Seq(Keys) /\ InOrder(d \o t)
    BY <2>3, <2>4, <2>5, InOrderJoined
  <2>7. DeliveredOK'
    BY <2>2, <2>4, <2>6 DEF DeliveredOK, InOrder
  <2>8. WatermarkOK'
    <3>1. ASSUME t # <<>>, after' = t[Len(t)]
          PROVE after' # None /\ d \o t # <<>> /\ after' = (d \o t)[Len(d \o t)]
      <4>1. Len(t) > 0 /\ Len(t) \in Nat /\ Len(d) \in Nat
        BY <2>3, <3>1
      <4>2. t[Len(t)] \in Keys
        BY <2>3, <4>1
      <4>3. Len(d \o t) = Len(d) + Len(t) /\ (d \o t)[Len(d) + Len(t)] = t[Len(t)]
        BY <2>3, <4>1
      <4> QED BY <3>1, <4>1, <4>2, <4>3, NoneAssumption
    <3> QED BY <2>2, <2>4, <3>1 DEF WatermarkOK
  <2>9. HeapBehind'
    BY <2>2 DEF HeapBehind
  <2> QED BY <2>7, <2>8, <2>9 DEF OInv
<1> QED BY <1>2, <1>3

LEMMA StepOInv == OInv /\ [Next]_vars => OInv'
<1> SUFFICES ASSUME OInv, [Next]_vars PROVE OInv'
  OBVIOUS
<1>0. QInv'
  BY StepQInv DEF OInv
<1>1. ASSUME UNCHANGED <<pc, after, earliest, delivered>> PROVE OInv'
  BY <1>0, <1>1 DEF OInv, HeapBehind, DeliveredOK, WatermarkOK, Behind
<1>2. CASE UNCHANGED vars
  BY <1>1, <1>2 DEF vars, page
<1>3. CASE Proceed
  BY <1>0, <1>3, PageOInv, FilterMatchOInv, FinishPageOInv DEF Proceed
<1>4. CASE Interrupt
  BY <1>0, <1>4, GivenUpOInv DEF Interrupt
<1>5. CASE \E f \in Candidates : (\E l \in Appended : Write(f, l)) \/ Rotate(f) \/ Truncate(f)
  BY <1>1, <1>5 DEF Write, Rotate, Truncate, Event, page
<1> QED BY <1>2, <1>3, <1>4, <1>5 DEF Next

LEMMA SpecOInv == Spec => []OInv
BY InitOInv, StepOInv, PTL DEF Spec

-----------------------------------------------------------------------------
(***************************************************************************)
(* Results come from the snapshot, but for those of candidates that have   *)
(* been cut off.                                                           *)
(***************************************************************************)

\* The files d of a candidate still have the lines of its snapshot s.
Kept(s, d) ==
  /\ s.file \in 1..Len(d) /\ Len(s.lines) <= Len(d[s.file])
  /\ \A n \in 1..Len(s.lines) : d[s.file][n] = s.lines[n]

\* The files of the snapshot are those of the disk, with lines added behind.
SnapshotKept == \A f \in Candidates : f \notin cut => Kept(snapshot[f], disk[f])

\* A chunk is scanned in the file of the snapshot, and its timestamps are read
\* from it.
HandleOfSnapshot ==
  /\ pc = "opened" => opened = snapshot[file].file
  /\ pc = "filter" /\ file \in Timed /\ outcome.hits # {} => opened = snapshot[file].file

\* The matches a candidate has in the snapshot.
MatchesOf(f) ==
  {Match(n, snapshot[f].lines) :
     n \in {i \in DOMAIN snapshot[f].lines : snapshot[f].lines[i].hit}}

\* The matches of a chunk, the heap and all pages have results of the snapshot
\* only.
FoundInSnapshot ==
  pc \in {"scanned", "filter"} /\ file \notin cut => outcome.hits \subseteq MatchesOf(file)

HeapFromSnapshot == \A k \in earliest : k.file \notin cut => k \in Results

DeliveredFromSnapshot ==
  \A i \in 1..Len(delivered) : delivered[i].file \notin cut => delivered[i] \in Results

MInv ==
  /\ OInv
  /\ SnapshotKept
  /\ HandleOfSnapshot
  /\ FoundInSnapshot
  /\ HeapFromSnapshot
  /\ DeliveredFromSnapshot

\* A snapshot just taken.
LEMMA TakenIsKept ==
  ASSUME NEW d \in Seq(Seq(Lines)), Len(d) > 0,
         NEW s, s = [file |-> Len(d), lines |-> d[Len(d)]]
  PROVE  Kept(s, d)
<1> DEFINE T == Seq(Lines)
<1>1. d \in Seq(T) /\ Len(d) \in Nat
  OBVIOUS
<1> HIDE DEF T
<1>2. d[Len(d)] \in T /\ Len(d) \in 1..Len(d)
  BY <1>1
<1>3. d[Len(d)] \in Seq(Lines)
  BY <1>2 DEF T
<1>4. Len(d[Len(d)]) <= Len(d[Len(d)])
  BY <1>3
<1> QED BY <1>2, <1>4 DEF Kept

LEMMA InitMInv == Init => MInv
<1> SUFFICES ASSUME Init PROVE MInv
  OBVIOUS
<1>1. /\ OInv /\ pc = "ready" /\ delivered = <<>> /\ earliest = {}
  BY InitOInv DEF Init
<1>2. SnapshotKept
  <2>1. PICK c \in InitialFiles : disk = [f \in DOMAIN c |-> <<c[f]>>]
    BY DEF Init
  <2>2. ASSUME NEW f \in Candidates PROVE Kept(snapshot[f], disk[f])
    <3>1. disk[f] = <<c[f]>> /\ snapshot[f] = [file |-> 1, lines |-> disk[f][1]]
      BY <2>1 DEF Init, Candidates
    <3>2. disk[f] \in Seq(Seq(Lines))
      BY <1>1 DEF OInv, QInv, TypeOK, Candidates
    <3>3. PICK d \in Seq(Seq(Lines)) : d = disk[f]
      BY <3>2
    <3>4. Len(d) = 1
      BY <3>1, <3>3
    <3>5. snapshot[f] = [file |-> Len(d), lines |-> d[Len(d)]]
      BY <3>1, <3>3, <3>4
    <3>6. Len(d) > 0
      BY <3>4
    <3>7. Kept(snapshot[f], d)
      BY <3>5, <3>6, TakenIsKept
    <3> QED BY <3>3, <3>7
  <2> QED BY <2>2 DEF SnapshotKept
<1>3. DeliveredFromSnapshot
  <2>1. \A i : i \notin 1..0
    OBVIOUS
  <2> QED BY <1>1, <2>1 DEF DeliveredFromSnapshot
<1> QED BY <1>1, <1>2, <1>3 DEF MInv, HandleOfSnapshot, FoundInSnapshot, HeapFromSnapshot

\* Who finds an unchanged candidate has its snapshot open; a first page takes it.
LEMMA StartPageMInv ==
  ASSUME MInv, OInv', StartPage
  PROVE  MInv'
<1>1. /\ disk' = disk /\ pc = "ready" /\ pc' = "scan" /\ earliest' = {}
      /\ UNCHANGED <<delivered, after>>
  BY DEF StartPage
<1>2. CASE after # None
  <2>1. snapshot' = snapshot /\ cut' = cut
    BY <1>2 DEF StartPage
  <2> QED BY <1>1, <2>1 DEF MInv, SnapshotKept, HandleOfSnapshot, FoundInSnapshot,
             HeapFromSnapshot, DeliveredFromSnapshot, Candidates, Results, HitsOf
<1>3. CASE after = None
  <2>1. delivered = <<>>
    BY <1>1, <1>3 DEF MInv, OInv, WatermarkOK
  <2>2. ASSUME NEW f \in Candidates PROVE Kept(snapshot'[f], disk[f])
    <3>1. PICK d \in Seq(Seq(Lines)) : d = disk[f] /\ Len(d) > 0
      BY DEF MInv, OInv, QInv, TypeOK, FilesExist, Candidates
    <3>2. snapshot'[f] = [file |-> Len(d), lines |-> d[Len(d)]]
      BY <1>3, <3>1 DEF StartPage, Last
    <3> QED BY <3>1, <3>2, TakenIsKept
  <2>3. SnapshotKept'
    BY <1>1, <2>2 DEF MInv, SnapshotKept, Candidates
  <2>4. DeliveredFromSnapshot'
    <3>1. \A i : i \notin 1..0
      OBVIOUS
    <3> QED BY <1>1, <2>1, <3>1 DEF DeliveredFromSnapshot
  <2> QED BY <1>1, <2>3, <2>4 DEF MInv, HandleOfSnapshot, FoundInSnapshot, HeapFromSnapshot
<1> QED BY <1>2, <1>3

\* A step that changes neither the files nor what is known about them.
LEMMA QuietMInv ==
  ASSUME MInv, OInv', UNCHANGED <<disk, snapshot, cut, earliest, delivered>>,
         pc' \notin {"opened", "scanned", "filter"}
  PROVE  MInv'
BY DEF MInv, SnapshotKept, HandleOfSnapshot, FoundInSnapshot, HeapFromSnapshot,
       DeliveredFromSnapshot, Candidates, Results, HitsOf

\* The file that is opened is the one of the snapshot.
LEMMA OpenChunkMInv ==
  ASSUME MInv, OInv', OpenChunk
  PROVE  MInv'
<1>1. CASE pc' = "opened"
  <2>1. /\ UNCHANGED <<disk, snapshot, cut, earliest, delivered, file>> /\ Unchanged(file)
        /\ opened' = Len(disk[file])
    BY <1>1 DEF OpenChunk, FailPage
  <2> QED BY <1>1, <2>1 DEF Unchanged, MInv, SnapshotKept, HandleOfSnapshot, FoundInSnapshot,
             HeapFromSnapshot, DeliveredFromSnapshot, Candidates, Results, HitsOf
<1>2. CASE pc' # "opened"
  <2>1. UNCHANGED <<disk, snapshot, cut, earliest, delivered>> /\ pc' \in {"ready", "finish"}
    BY <1>2 DEF OpenChunk, FailPage, page
  <2> QED BY <2>1, QuietMInv
<1> QED BY <1>1, <1>2

\* So it is when it is opened again for the timestamps.
LEMMA ReopenFileMInv ==
  ASSUME MInv, OInv', ReopenFile
  PROVE  MInv'
<1>1. CASE FailPage
  BY <1>1, QuietMInv DEF FailPage, page
<1>2. CASE ~FailPage
  <2>1. /\ UNCHANGED <<disk, snapshot, cut, earliest, delivered, file, outcome>>
        /\ pc = "scanned" /\ pc' = "filter"
        /\ file \in Timed /\ outcome.hits # {} => Unchanged(file) /\ opened' = Len(disk[file])
    BY <1>2 DEF ReopenFile
  <2>2. HandleOfSnapshot'
    BY <2>1 DEF HandleOfSnapshot, Unchanged
  <2>3. FoundInSnapshot'
    BY <2>1 DEF MInv, FoundInSnapshot, MatchesOf
  <2> QED BY <2>1, <2>2, <2>3 DEF MInv, SnapshotKept, HeapFromSnapshot,
             DeliveredFromSnapshot, Candidates, Results, HitsOf
<1> QED BY <1>1, <1>2

\* What the scan of a chunk finds in a file that has the lines of the snapshot.
LEMMA ChunkFound ==
  ASSUME MInv, ScanChunk
  PROVE  file \notin cut =>
           /\ outcome'.hits = {m \in MatchesOf(file) : position < m.line /\ m.line <= NewPosition'}
           /\ position <= NewPosition' /\ NewPosition' <= SnapshotSize(file)
           /\ NewPosition' \in Nat
<1> SUFFICES ASSUME file \notin cut
             PROVE  /\ outcome'.hits = {m \in MatchesOf(file) :
                                          position < m.line /\ m.line <= NewPosition'}
                    /\ position <= NewPosition' /\ NewPosition' <= SnapshotSize(file)
                    /\ NewPosition' \in Nat
  OBVIOUS
<1> DEFINE lines == disk[file][opened]
           shot == snapshot[file].lines
           size == SnapshotSize(file)
           rest == size - position
           toRead == Min({rest, PageBudget - used})
           end == Min({position + toRead, Len(lines)})
           hits == {n \in (position + 1)..end : lines[n].hit}
           full == {n \in hits : Cardinality({m \in hits : m <= n}) = ChunkResults}
           last == IF full = {} THEN end ELSE Min(full)
           N == {m \in hits : m <= last}
<1>1. /\ pc = "opened"
      /\ outcome'.hits = {Match(n, lines) : n \in N}
      /\ outcome'.scanned = Max({last - position, 0})
      /\ outcome'.stop = IF full # {} THEN "ResultLimit"
                     ELSE IF toRead = rest \/ end < position + toRead THEN "Complete"
                     ELSE "ScanByteLimit"
      /\ UNCHANGED <<disk, snapshot, file, position>>
  BY DEF ScanChunk
<1>2. /\ file \in Candidates /\ position < size /\ TypeOK
      /\ Kept(snapshot[file], disk[file])
      /\ opened = snapshot[file].file
  BY <1>1 DEF MInv, OInv, QInv, OpenedExists, SnapshotKept, HandleOfSnapshot
<1>3. /\ file \in Nat /\ position \in Nat /\ used \in 0..PageBudget /\ PageBudget \in Nat
      /\ lines \in Seq(Lines) /\ shot \in Seq(Lines) /\ size = Len(shot)
  <2>1. disk[file] \in Seq(Seq(Lines)) /\ opened \in 1..Len(disk[file])
    BY <1>2 DEF TypeOK, Candidates, Kept
  <2> DEFINE T == Seq(Lines)
  <2>2. disk[file] \in Seq(T)
    BY <2>1
  <2> HIDE DEF T
  <2>3. disk[file][opened] \in T
    BY <2>1, <2>2
  <2>4. lines \in Seq(Lines)
    BY <2>3 DEF T
  <2>5. shot \in Seq(Lines)
    BY <1>2 DEF TypeOK
  <2>6. file \in Nat /\ position \in Nat /\ used \in 0..PageBudget /\ PageBudget \in Nat
    BY <1>2, LimitAssumption DEF TypeOK
  <2> QED BY <2>4, <2>5, <2>6 DEF SnapshotSize
<1>4. /\ \A n \in 1..Len(shot) : lines[n] = shot[n]
      /\ Len(shot) <= Len(lines)
  BY <1>2 DEF Kept
<1>5. NewPosition' = IF outcome'.stop = "Complete" THEN size ELSE position + outcome'.scanned
  BY <1>1 DEF NewPosition, SnapshotSize
<1>6. \A k : k \in MatchesOf(file) <=> \E n \in 1..Len(shot) : shot[n].hit /\ k = Match(n, shot)
  <2>1. DOMAIN shot = 1..Len(shot)
    BY <1>3
  <2> QED BY ONLY <2>1 DEF MatchesOf
<1>7. size \in Nat /\ Len(lines) \in Nat
  BY <1>3
<1> HIDE DEF lines, shot, size
<1>8. /\ toRead \in Int /\ toRead <= rest /\ 0 <= toRead
      /\ toRead # rest => toRead = PageBudget - used
  <2>1. rest \in Int /\ PageBudget - used \in Int /\ 0 <= rest /\ 0 <= PageBudget - used
    BY <1>2, <1>3, <1>7
  <2> DEFINE b == PageBudget - used
  <2> HIDE DEF rest, b
  <2>2. Min({rest, b}) \in {rest, b} /\ Min({rest, b}) <= rest
    BY <2>1, MinOfTwo DEF b
  <2> QED BY <2>1, <2>2 DEF b
<1> HIDE DEF toRead
<1>9. end \in Int /\ end <= position + toRead /\ end <= Len(lines)
      /\ (position + toRead <= Len(lines) => end = position + toRead)
  <2> DEFINE a == position + toRead
             b == Len(lines)
  <2>1. a \in Int /\ b \in Int
    BY <1>3, <1>7, <1>8
  <2> HIDE DEF a, b
  <2>2. Min({a, b}) \in {a, b} /\ Min({a, b}) <= a /\ Min({a, b}) <= b
    BY <2>1, MinOfTwo
  <2>3. Min({a, b}) \in Int /\ (a <= b => Min({a, b}) = a)
    BY <2>1, <2>2
  <2> QED BY <2>2, <2>3 DEF a, b
<1> HIDE DEF end
<1>10. end <= size
  BY <1>3, <1>7, <1>8, <1>9
<1>11. last \in Int /\ last <= end /\ (full # {} => position < last) /\ (full = {} => last = end)
  <2>1. CASE full = {}
    <3> HIDE DEF full
    <3> QED BY <1>9, <2>1
  <2>2. CASE full # {}
    <3>1. full \in SUBSET Nat /\ full \subseteq (position + 1)..end
      <4>1. \A n \in (position + 1)..end : n \in Nat
        BY <1>3, <1>9
      <4> QED BY <4>1
    <3> HIDE DEF full
    <3>2. last \in full
      BY <2>2, <3>1, LeastNatural
    <3> HIDE DEF last
    <3>3. last \in (position + 1)..end /\ position \in Int
      BY <1>3, <3>1, <3>2
    <3> QED BY <1>9, <2>2, <3>3
  <2> HIDE DEF full, last
  <2> QED BY <2>1, <2>2
<1> DEFINE noFull == full = {}
<1>12. /\ outcome'.stop = IF ~noFull THEN "ResultLimit"
                     ELSE IF toRead = rest \/ end < position + toRead THEN "Complete"
                     ELSE "ScanByteLimit"
       /\ (~noFull => position < last) /\ (noFull => last = end)
  BY <1>1, <1>11
<1> HIDE DEF last, noFull
<1>13. /\ \A n \in N : n \in 1..Len(shot) /\ lines[n] = shot[n] /\ position < n /\ n <= last /\ lines[n].hit
       /\ \A n \in 1..Len(shot) : position < n /\ n <= last /\ shot[n].hit => n \in N
  <2>1. ASSUME NEW n \in N PROVE n \in 1..Len(shot) /\ lines[n] = shot[n] /\ position < n /\ n <= last /\ lines[n].hit
    <3>1. n \in (position + 1)..end /\ n <= last /\ lines[n].hit
      OBVIOUS
    <3> HIDE DEF N
    <3>2. n \in 1..Len(shot) /\ n <= Len(lines) /\ position < n
      BY <1>3, <1>7, <1>9, <1>10, <3>1
    <3> QED BY <1>4, <3>1, <3>2
  <2>2. ASSUME NEW n \in 1..Len(shot), position < n, n <= last, shot[n].hit PROVE n \in N
    <3>1. n \in (position + 1)..end /\ n <= Len(lines)
      BY <1>3, <1>7, <1>9, <1>11, <2>2
    <3>2. lines[n].hit
      BY <1>4, <2>2, <3>1
    <3> QED BY <2>2, <3>1, <3>2
  <2> QED BY <2>1, <2>2
<1> HIDE DEF N
<1>14. \A n \in N : Match(n, lines) = Match(n, shot) /\ Match(n, shot).line = n
  BY <1>13 DEF Match
<1>15. outcome'.hits = {k \in MatchesOf(file) : position < k.line /\ k.line <= last}
  <2>1. ASSUME NEW k \in outcome'.hits
        PROVE  k \in MatchesOf(file) /\ position < k.line /\ k.line <= last
    <3>1. PICK n \in N : k = Match(n, lines)
      BY <1>1
    <3>2. k = Match(n, shot) /\ k.line = n /\ shot[n].hit /\ n \in 1..Len(shot)
      BY <1>13, <1>14, <3>1
    <3> QED BY <1>6, <1>13, <3>2
  <2>2. ASSUME NEW k \in MatchesOf(file), position < k.line, k.line <= last PROVE k \in outcome'.hits
    <3>1. PICK n \in 1..Len(shot) : shot[n].hit /\ k = Match(n, shot)
      BY <1>6
    <3>2. k.line = n
      BY <3>1 DEF Match
    <3>3. n \in N
      BY <1>13, <2>2, <3>1, <3>2
    <3> QED BY <1>1, <1>14, <3>1, <3>3
  <2> QED BY <2>1, <2>2
<1>16. last = NewPosition' /\ position <= last /\ last <= size /\ last \in Nat
  <2>1. Len(lines) >= size
    BY <1>3, <1>4
  <2>2. end = position + toRead
    BY <1>3, <1>7, <1>8, <1>9, <2>1
  <2>3. position <= last /\ last <= size /\ last \in Nat
    BY <1>3, <1>7, <1>8, <1>9, <1>10, <1>11, <1>12, <2>2
  <2>4. outcome'.scanned = last - position
    <3> DEFINE e == last - position
    <3>1. e \in Int /\ e >= 0 /\ outcome'.scanned = Max({e, 0})
      BY <1>1, <1>3, <2>3
    <3> HIDE DEF e
    <3>2. Max({e, 0}) \in {e, 0} /\ Max({e, 0}) >= e
      BY <3>1, MaxOfTwo
    <3>3. outcome'.scanned = e
      BY <3>1, <3>2
    <3> QED BY <3>3 DEF e
  <2>5. outcome'.stop = "Complete" => last = size
    BY <1>3, <1>7, <1>8, <1>9, <1>12, <2>2
  <2>6. NewPosition' = last
    BY <1>3, <1>5, <2>3, <2>4, <2>5
  <2> QED BY <2>3, <2>6
<1> QED BY <1>15, <1>16 DEF size

LEMMA ScanChunkMInv ==
  ASSUME MInv, OInv', ScanChunk
  PROVE  MInv'
<1>1. /\ UNCHANGED <<disk, snapshot, cut, earliest, delivered, file>> /\ pc' = "scanned"
  BY DEF ScanChunk
<1>2. file \notin cut => outcome'.hits \subseteq MatchesOf(file)
  BY ChunkFound
<1>3. FoundInSnapshot'
  BY <1>1, <1>2 DEF FoundInSnapshot, MatchesOf
<1> QED BY <1>1, <1>3 DEF MInv, SnapshotKept, HandleOfSnapshot, HeapFromSnapshot,
           DeliveredFromSnapshot, Candidates, Results, HitsOf

\* The key of a match of a candidate that has not been cut off is that of the
\* snapshot, its timestamp included.
LEMMA KeyInSnapshot ==
  ASSUME MInv, pc = "filter", file \notin cut, NEW m \in outcome.hits
  PROVE  /\ file \in Candidates /\ m \in MatchesOf(file) /\ m.line \in DOMAIN snapshot[file].lines
         /\ m = Match(m.line, snapshot[file].lines)
         /\ Key(file, m, disk[file][opened]) = Key(file, m, snapshot[file].lines)
         /\ Key(file, m, disk[file][opened]) \in HitsOf(file)
<1>1. PICK shot, lines : shot = snapshot[file].lines /\ lines = disk[file][opened]
  OBVIOUS
<1>2. file \in Candidates /\ Kept(snapshot[file], disk[file]) /\ m \in MatchesOf(file)
  BY DEF MInv, OInv, QInv, OutcomeOK, SnapshotKept, FoundInSnapshot
<1>3. PICK n \in DOMAIN shot : shot[n].hit /\ m = Match(n, shot)
  BY <1>1, <1>2 DEF MatchesOf
<1>4. m.line = n
  BY <1>3 DEF Match
<1>5. shot \in Seq(Lines)
  BY <1>1, <1>2 DEF MInv, OInv, QInv, TypeOK
<1>6. TimeAt(file, n, lines) = TimeAt(file, n, shot)
  <2>1. CASE file \in Timed
    <3>1. opened = snapshot[file].file
      BY <2>1 DEF MInv, HandleOfSnapshot
    <3>2. lines \in Seq(Lines)
      <4>1. disk[file] \in Seq(Seq(Lines)) /\ opened \in 1..Len(disk[file])
        BY <1>2, <3>1 DEF MInv, OInv, QInv, TypeOK, Candidates, Kept
      <4> DEFINE T == Seq(Lines)
      <4>2. disk[file] \in Seq(T)
        BY <4>1
      <4> HIDE DEF T
      <4>3. lines \in T
        BY <1>1, <4>1, <4>2
      <4> QED BY <4>3 DEF T
    <3>3. n \in 1..Len(shot) /\ Len(shot) <= Len(lines) /\ lines[n] = shot[n]
      BY <1>1, <1>2, <1>3, <1>5, <3>1 DEF Kept
    <3>4. n \in DOMAIN lines
      BY <1>5, <3>2, <3>3
    <3> QED BY <1>3, <3>3, <3>4 DEF TimeAt
  <2>2. CASE file \notin Timed
    BY <2>2 DEF TimeAt
  <2> QED BY <2>1, <2>2
<1>7. Key(file, m, lines) = Key(file, m, shot)
  BY <1>4, <1>6 DEF Key
<1>8. Key(file, m, shot) \in HitsOf(file)
  BY <1>1, <1>3 DEF HitsOf
<1> QED BY <1>1, <1>2, <1>3, <1>4, <1>7, <1>8

LEMMA FilterMatchMInv ==
  ASSUME MInv, OInv', NEW m \in outcome.hits, FilterMatch(m)
  PROVE  MInv'
<1>1. PICK k : k = Key(file, m, disk[file][opened])
  OBVIOUS
<1>2. PICK kept : kept = IF InTimeRange(k) /\ Behind(k) THEN {k} ELSE {}
  OBVIOUS
<1>3. /\ UNCHANGED <<disk, snapshot, cut, delivered, file, opened>> /\ pc = "filter" /\ pc' = "filter"
      /\ earliest' = KeepEarliest(earliest \cup kept)
      /\ outcome' = [outcome EXCEPT !.hits = outcome.hits \ {m}]
  BY <1>1, <1>2 DEF FilterMatch
<1>4. outcome'.hits = outcome.hits \ {m}
  BY <1>3 DEF MInv, OInv, QInv, OutcomeOK
<1>5. \A j \in kept : j.file \notin cut => j \in Results
  <2>1. ASSUME k \in kept, k.file \notin cut PROVE k \in Results
    <3>1. k.file = file
      BY <1>1, <1>3, KeyOfMatch DEF MInv, OInv
    <3>2. file \in Candidates /\ k \in HitsOf(file)
      BY <1>1, <1>3, <2>1, <3>1, KeyInSnapshot
    <3>3. InTimeRange(k)
      BY <1>2, <2>1
    <3> QED BY <3>2, <3>3 DEF Results
  <2> QED BY <1>2, <2>1
<1>6. \A j \in earliest : j.file \notin cut => j \in Results
  BY DEF MInv, HeapFromSnapshot
<1>7. \A j \in earliest' : j.file \notin cut => j \in Results
  BY <1>3, <1>5, <1>6 DEF KeepEarliest
<1>8. Results' = Results
  BY <1>3 DEF Results, HitsOf, Candidates
<1>9. HeapFromSnapshot' /\ DeliveredFromSnapshot'
  BY <1>3, <1>7, <1>8 DEF MInv, HeapFromSnapshot, DeliveredFromSnapshot
<1>10. FoundInSnapshot' /\ HandleOfSnapshot'
  BY <1>3, <1>4 DEF MInv, FoundInSnapshot, HandleOfSnapshot, MatchesOf
<1> QED BY <1>3, <1>9, <1>10 DEF MInv, SnapshotKept, Candidates

LEMMA FinishPageMInv ==
  ASSUME MInv, OInv', FinishPage
  PROVE  MInv'
<1>1. CASE FailPage
  BY <1>1, QuietMInv DEF FailPage, page
<1>2. CASE ~FailPage
  <2>1. PICK t : t = Fitting(Ranked(earliest))
    OBVIOUS
  <2>2. /\ UNCHANGED <<disk, snapshot, cut, earliest>> /\ delivered' = delivered \o t
        /\ pc' \in {"ready", "over"}
    BY <1>2, <2>1 DEF FinishPage, page
  <2>3. Results' = Results
    BY <2>2 DEF Results, HitsOf, Candidates
  <2> DEFINE Good(k) == k.file \notin cut => k \in Results
  <2>4. t \in Seq(earliest) /\ \A k \in earliest : Good(k)
    BY <2>1, ResultsOfPage DEF MInv, OInv, HeapFromSnapshot
  <2>5. PICK d \in Seq(Keys) : d = delivered /\ \A i \in 1..Len(d) : Good(d[i])
    BY DEF MInv, OInv, DeliveredOK, DeliveredFromSnapshot
  <2> HIDE DEF Good
  <2>6. ASSUME NEW i \in 1..Len(d \o t) PROVE Good((d \o t)[i])
    <3>1. Len(d) \in Nat /\ Len(t) \in Nat /\ \A j \in 1..Len(t) : Good(t[j])
      BY <2>4
    <3>2. (d \o t)[i] = IF i <= Len(d) THEN d[i] ELSE t[i - Len(d)]
      BY <2>4
    <3>3. Len(d \o t) = Len(d) + Len(t)
      BY <2>4
    <3>4. i <= Len(d) => i \in 1..Len(d)
      BY <3>1, <3>3
    <3>5. ~(i <= Len(d)) => i - Len(d) \in 1..Len(t)
      BY <3>1, <3>3
    <3> QED BY <2>5, <3>1, <3>2, <3>4, <3>5
  <2>7. DeliveredFromSnapshot'
    BY <2>2, <2>3, <2>5, <2>6 DEF DeliveredFromSnapshot, Good
  <2> QED BY <2>2, <2>3, <2>7 DEF MInv, SnapshotKept, HandleOfSnapshot, FoundInSnapshot,
             HeapFromSnapshot, Candidates
<1> QED BY <1>1, <1>2

\* What other programs do to the files d of a candidate keeps its snapshot s, or
\* they have cut it off.
LEMMA DisturbedMInv ==
  ASSUME MInv, OInv', UNCHANGED <<snapshot, pc, page, delivered>>,
         NEW f \in Candidates, NEW e, disk' = [disk EXCEPT ![f] = e],
         cut \subseteq cut', f \notin cut' => Kept(snapshot[f], e)
  PROVE  MInv'
<1>1. Candidates' = Candidates /\ \A x \in Candidates : disk'[x] = IF x = f THEN e ELSE disk[x]
  BY DEF Candidates
<1>2. SnapshotKept'
  BY <1>1 DEF MInv, SnapshotKept
<1>3. Results' = Results
  BY <1>1 DEF Results, HitsOf
<1> QED BY <1>2, <1>3 DEF MInv, HandleOfSnapshot, FoundInSnapshot, HeapFromSnapshot,
           DeliveredFromSnapshot, MatchesOf, page

\* A line appended, a file rotated or cut off.
LEMMA EventMInv ==
  ASSUME MInv, OInv', NEW f \in Candidates,
         (\E l \in Appended : Write(f, l)) \/ Rotate(f) \/ Truncate(f)
  PROVE  MInv'
<1> DEFINE s == snapshot[f]
<1>1. PICK d \in Seq(Seq(Lines)) : d = disk[f] /\ Len(d) > 0
  BY DEF MInv, OInv, QInv, TypeOK, FilesExist, Candidates
<1>2. (f \notin cut => Kept(s, d)) /\ s.lines \in Seq(Lines)
  BY <1>1 DEF MInv, OInv, QInv, TypeOK, SnapshotKept
<1>3. UNCHANGED <<snapshot, pc, page, delivered>>
  BY DEF Write, Rotate, Truncate, Event
<1> DEFINE T == Seq(Lines)
<1>4. d \in Seq(T) /\ Len(d) \in Nat
  BY <1>1
<1>5. Len(s.lines) \in Nat
  BY <1>2
<1>6. PICK m \in T : m = d[Len(d)]
  <2> HIDE DEF T
  <2> QED BY <1>1, <1>4
<1>7. ASSUME f \notin cut PROVE s.file \in 1..Len(d) /\ (s.file = Len(d) => d[s.file] = m)
  BY <1>2, <1>6, <1>7 DEF Kept
<1>8. ASSUME NEW l \in Appended, Write(f, l) PROVE MInv'
  <2>1. PICK n : n = Append(m, l)
    OBVIOUS
  <2>2. Len(m) \in Nat /\ Len(n) = Len(m) + 1 /\ \A i \in 1..Len(m) : n[i] = m[i]
    <3>1. l \in Lines
      BY EnvironmentAssumption
    <3> QED BY <1>6, <2>1, <3>1
  <2>3. PICK e : e = [d EXCEPT ![Len(d)] = n]
    OBVIOUS
  <2>4. disk' = [disk EXCEPT ![f] = e] /\ cut' = cut
    BY <1>1, <1>6, <1>8, <2>1, <2>3 DEF Write, Current
  <2>5. Len(e) = Len(d) /\ \A i \in 1..Len(d) : e[i] = IF i = Len(d) THEN n ELSE d[i]
    <3> HIDE DEF T
    <3> QED BY <1>1, <1>4, <2>3
  <2>6. ASSUME f \notin cut PROVE Kept(s, e)
    <3>0. Kept(s, d)
      BY <1>2, <2>6
    <3>1. CASE s.file = Len(d)
      <4>1. e[s.file] = n /\ d[s.file] = m /\ Len(s.lines) <= Len(m)
        BY <1>7, <2>5, <2>6, <3>0, <3>1 DEF Kept
      <4>2. \A i \in 1..Len(s.lines) : m[i] = s.lines[i] /\ i \in 1..Len(m)
        BY <1>5, <2>2, <3>0, <4>1 DEF Kept
      <4>3. Len(s.lines) <= Len(n)
        BY <1>5, <2>2, <4>1
      <4> HIDE DEF s
      <4> QED BY <1>7, <2>2, <2>5, <2>6, <4>1, <4>2, <4>3 DEF Kept
    <3>2. CASE s.file # Len(d)
      <4>1. e[s.file] = d[s.file]
        BY <1>7, <2>5, <2>6, <3>2
      <4> QED BY <2>5, <3>0, <4>1 DEF Kept
    <3> QED BY <3>1, <3>2
  <2> QED BY <1>3, <2>4, <2>6, DisturbedMInv
<1>9. CASE Rotate(f)
  <2>1. PICK e : e = Append(d, <<>>)
    OBVIOUS
  <2>2. disk' = [disk EXCEPT ![f] = e] /\ cut' = cut
    BY <1>1, <1>9, <2>1 DEF Rotate
  <2>3. Len(e) = Len(d) + 1 /\ \A i \in 1..Len(d) : e[i] = d[i]
    <3>1. <<>> \in T
      OBVIOUS
    <3> HIDE DEF T
    <3> QED BY <1>4, <2>1, <3>1
  <2>4. ASSUME f \notin cut PROVE Kept(s, e)
    <3>1. s.file \in 1..Len(e) /\ e[s.file] = d[s.file]
      BY <1>4, <1>7, <2>3, <2>4
    <3> QED BY <1>2, <2>4, <3>1 DEF Kept
  <2> QED BY <1>3, <2>2, <2>4, DisturbedMInv
<1>10. CASE Truncate(f)
  <2>1. PICK e : e = [d EXCEPT ![Len(d)] = <<>>]
    OBVIOUS
  <2>2. disk' = [disk EXCEPT ![f] = e] /\ cut' = cut \cup {f}
    BY <1>1, <1>10, <2>1 DEF Truncate, Current
  <2> QED BY <1>3, <2>2, DisturbedMInv
<1> QED BY <1>8, <1>9, <1>10

LEMMA StepMInv == MInv /\ [Next]_vars => MInv'
<1> SUFFICES ASSUME MInv, [Next]_vars PROVE MInv'
  OBVIOUS
<1>0. OInv'
  BY StepOInv DEF MInv
<1>1. CASE UNCHANGED vars
  BY <1>0, <1>1 DEF vars, page, MInv, SnapshotKept, HandleOfSnapshot, FoundInSnapshot, MatchesOf,
        HeapFromSnapshot, DeliveredFromSnapshot, Candidates, Results, HitsOf
<1>2. CASE Proceed
  <2>1. CASE NextCandidate
    BY <1>0, <2>1, QuietMInv DEF NextCandidate
  <2>2. CASE EndChunk
    BY <1>0, <2>2, QuietMInv DEF EndChunk
  <2> QED BY <1>0, <1>2, <2>1, <2>2, StartPageMInv, OpenChunkMInv, ScanChunkMInv, ReopenFileMInv,
          FilterMatchMInv, FinishPageMInv DEF Proceed
<1>3. CASE Interrupt
  BY <1>0, <1>3, QuietMInv DEF Interrupt, page
<1>4. CASE \E f \in Candidates : (\E l \in Appended : Write(f, l)) \/ Rotate(f) \/ Truncate(f)
  BY <1>0, <1>4, EventMInv
<1> QED BY <1>1, <1>2, <1>3, <1>4 DEF Next

LEMMA SpecMInv == Spec => []MInv
BY InitMInv, StepMInv, PTL DEF Spec

\* The results of a search: finitely many, one per line of a candidate.
LEMMA ResultsDistinct ==
  ASSUME TypeOK
  PROVE  /\ Distinct(Results)
         /\ \A f \in Candidates : \A k \in HitsOf(f) :
              k.file = f /\ k.line \in 1..SnapshotSize(f)
         /\ \A k \in Results : k.file \in Candidates /\ k \in HitsOf(k.file)
<1> DEFINE All == UNION {HitsOf(f) : f \in Candidates}
<1>1. Len(disk) \in Nat /\ Candidates = 1..Len(disk)
  BY DEF TypeOK, Candidates
<1>2. ASSUME NEW f \in Candidates
      PROVE  /\ HitsOf(f) \subseteq Keys /\ IsFiniteSet(HitsOf(f)) /\ OnePerLine(HitsOf(f))
             /\ \A k \in HitsOf(f) : k.file = f /\ k.line \in 1..SnapshotSize(f)
  <2>1. PICK l \in Seq(Lines) : l = snapshot[f].lines
    BY DEF TypeOK
  <2> DEFINE N == {m \in 1..Len(l) : l[m].hit}
             H == HitsOf(f)
  <2>2. \A k : k \in H <=> \E n \in N : k = Key(f, Match(n, l), l)
    BY <2>1 DEF HitsOf
  <2>3. N \in SUBSET (1..Len(l)) /\ f \in Nat
    BY <1>1
  <2>4. \A n \in N : n \in 1..SnapshotSize(f)
    BY <2>1 DEF SnapshotSize
  <2> HIDE DEF N, H
  <2>5. /\ H \subseteq Keys /\ IsFiniteSet(H) /\ OnePerLine(H)
        /\ \A k \in H : k.file = f /\ k.line \in N
    BY <2>2, <2>3, KeysOfLines
  <2> QED BY <2>4, <2>5 DEF H
<1>3. IsFiniteSet(All)
  <2> DEFINE F == {HitsOf(f) : f \in Candidates}
             g == [f \in Candidates |-> HitsOf(f)]
  <2>1. g \in Surjection(Candidates, F)
    BY DEF Surjection
  <2>2. IsFiniteSet(Candidates)
    BY <1>1, FS_Interval
  <2>3. IsFiniteSet(F)
    <3> HIDE DEF F, g
    <3> QED BY <2>1, <2>2, FS_Surjection
  <2>4. \A T \in F : IsFiniteSet(T)
    BY <1>2
  <2> HIDE DEF F
  <2>5. IsFiniteSet(UNION F)
    BY <2>3, <2>4, FS_UNION
  <2> QED BY <2>5 DEF F
<1>4. \A k \in All : k \in Keys /\ k.file \in Candidates /\ k \in HitsOf(k.file)
  BY <1>2
<1>5. \A j, k \in All : j.file = k.file /\ j.line = k.line => j = k
  BY <1>2, <1>4 DEF OnePerLine
<1>6. Results \in SUBSET All
  BY DEF Results
<1> HIDE DEF All
<1>7. IsFiniteSet(Results)
  BY <1>3, <1>6, FS_Subset
<1> QED BY <1>2, <1>4, <1>5, <1>6, <1>7 DEF Distinct, OnePerLine

LEMMA NextResultsDistinct == TypeOK' => Distinct(Results)'
<1>1. TypeOK => Distinct(Results)
  BY ResultsDistinct
<1> QED BY <1>1, PTL

\* What has been returned is sorted, and of the snapshot.
LEMMA MInvSortedAndOnce == MInv => SortedAndOnce
<1> SUFFICES ASSUME MInv PROVE SortedAndOnce
  OBVIOUS
<1>1. DOMAIN delivered = 1..Len(delivered)
  BY DEF MInv, OInv, DeliveredOK
<1>2. \A k \in ToSet(delivered) : k.file \notin cut => k \in Results
  BY <1>1 DEF MInv, DeliveredFromSnapshot, ToSet
<1> QED BY <1>2 DEF MInv, OInv, DeliveredOK, SortedAndOnce

-----------------------------------------------------------------------------
(***************************************************************************)
(* The pages are one list.  While no file is cut off, a scan finds all     *)
(* matches of its stretch of lines, and the heap has the earliest of all   *)
(* results behind the watermark whose lines the page is done with.         *)
(***************************************************************************)

\* The results that the page has found.
Seen == {k \in Results : Behind(k) /\ Passed(k)}

\* The scan of a chunk has found all matches up to the place where the next one
\* starts.
ChunkExact ==
  pc = "scanned" =>
    outcome.hits = {m \in MatchesOf(file) : position < m.line /\ m.line <= NewPosition}

\* The heap has the earliest of the results seen, and all of them are counted.
HeapExact ==
  pc \in {"scan", "opened", "scanned", "filter"} =>
    ~limited /\ earliest = KeepEarliest(Seen) /\ eligible = Cardinality(Seen)

\* Only a page without scan budget ends before its last candidate.
FinishLimited == pc = "finish" => limited

\* The pages are the first n results of the list, and a complete one is the
\* last.
ListOK ==
  IF pc = "over" /\ reason = "ScanByteLimit" THEN TRUE
  ELSE \E n \in 0..Len(Expected) :
         /\ delivered = SubSeq(Expected, 1, n)
         /\ reason = "Complete" => n = Len(Expected) /\ pc = "over"

LInv ==
  /\ cut = {}
  /\ MInv
  /\ ChunkExact
  /\ HeapExact
  /\ FinishLimited
  /\ ListOK

\* A search ends with the page that calls itself complete.
CompleteEnds == reason = "Complete" => pc = "over"

\* A first page that is tried again takes a new snapshot: the candidates that
\* were cut off before do not count for it.
PInv ==
  /\ MInv
  /\ CompleteEnds
  /\ cut = {} => LInv

\* What of S lies behind the n-th result of the list R.
Rest(S, R, n) == {k \in S : n = 0 \/ Before(R[n], k)}

\* What lies behind the n-th result of a sorted list is the rest of the list.
LEMMA RestOfList ==
  ASSUME NEW S, Distinct(S), NEW R, R = Ranked(S), NEW n \in 0..Len(R),
         NEW B, B = Rest(S, R, n)
  PROVE  /\ Distinct(B) /\ Ranked(B) = SubSeq(R, n + 1, Len(R))
         /\ Cardinality(B) = Len(R) - n
<1> USE DEF Rest
<1>1. /\ R \in Seq(S) /\ Len(R) = Cardinality(S) /\ Len(R) \in Nat
      /\ \A i, j \in 1..Len(R) : i < j => Before(R[i], R[j])
      /\ \A k \in S : \E i \in 1..Len(R) : R[i] = k
  BY RankedSorts
<1>2. Distinct(B)
  <2>1. B \in SUBSET S
    OBVIOUS
  <2> QED BY <2>1, FS_Subset DEF Distinct, OnePerLine
<1>3. ASSUME NEW i \in 1..Len(R) PROVE R[i] \in B <=> n < i
  <2>1. R[i] \in S /\ i \in Nat /\ n \in Nat
    BY <1>1
  <2>2. CASE n = 0
    BY <2>1, <2>2
  <2>3. CASE n # 0
    <3>1. n \in 1..Len(R) /\ R[n] \in S
      BY <1>1, <2>3
    <3>2. R[n] \in Keys /\ R[i] \in Keys
      BY <2>1, <3>1 DEF Distinct
    <3>3. n < i => Before(R[n], R[i])
      BY <1>1, <3>1
    <3>4. i < n => ~Before(R[n], R[i])
      BY <1>1, <3>1, <3>2, BeforeTransitive, BeforeIrreflexive
    <3>5. i = n => ~Before(R[n], R[i])
      BY <3>2, BeforeIrreflexive
    <3> QED BY <2>1, <2>3, <3>1, <3>3, <3>4, <3>5
  <2> QED BY <2>2, <2>3
<1>4. PICK q : q = SubSeq(R, n + 1, Len(R))
  OBVIOUS
<1>5. /\ q \in Seq(S) /\ Len(q) = Len(R) - n /\ Len(q) \in Nat
      /\ \A i \in 1..Len(q) : q[i] = R[n + i] /\ n + i \in 1..Len(R) /\ n < n + i
  BY <1>1, <1>4
<1>6. q \in Seq(B)
  <2>1. \A i \in 1..Len(q) : q[i] \in B
    BY <1>3, <1>5
  <2> QED BY <1>5, <2>1
<1>7. \A k \in B : \E i \in 1..Len(q) : q[i] = k
  <2>1. ASSUME NEW k \in B PROVE \E i \in 1..Len(q) : q[i] = k
    <3>1. PICK j \in 1..Len(R) : R[j] = k
      BY <1>1
    <3>2. n < j
      BY <1>3, <3>1
    <3>3. j - n \in 1..Len(q) /\ n + (j - n) = j
      BY <1>1, <1>5, <3>2
    <3> QED BY <1>5, <3>1, <3>3
  <2> QED BY <2>1
<1>8. \A i, j \in 1..Len(q) : i < j => Before(q[i], q[j])
  <2>1. ASSUME NEW i \in 1..Len(q), NEW j \in 1..Len(q), i < j PROVE Before(q[i], q[j])
    <3>1. n + i < n + j
      BY <1>1, <1>5, <2>1
    <3> QED BY <1>1, <1>5, <3>1
  <2> QED BY <2>1
<1>9. Ranked(B) = q /\ Cardinality(B) = Len(q)
  BY <1>2, <1>6, <1>7, <1>8, SortedIsRanked
<1> QED BY <1>2, <1>4, <1>5, <1>9

LEMMA JoinedSequence ==
  ASSUME NEW T, NEW a \in Seq(T), NEW d \in Seq(T)
  PROVE  /\ a \o d \in Seq(T) /\ Len(a \o d) = Len(a) + Len(d)
         /\ \A i \in 1..(Len(a) + Len(d)) :
              (a \o d)[i] = IF i <= Len(a) THEN a[i] ELSE d[i - Len(a)]
OBVIOUS

\* The page that continues a list and keeps the first of the rest of it.
LEMMA BeginningsJoin ==
  ASSUME NEW T, NEW R \in Seq(T), NEW n \in 0..Len(R), NEW p \in 0..(Len(R) - n),
         NEW m \in 0..p
  PROVE  /\ n + m \in 0..Len(R)
         /\ SubSeq(R, 1, n) \o SubSeq(SubSeq(SubSeq(R, n + 1, Len(R)), 1, p), 1, m)
              = SubSeq(R, 1, n + m)
<1>1. Len(R) \in Nat /\ n + m \in 0..Len(R)
  OBVIOUS
<1>2. PICK a : a = SubSeq(R, 1, n)
  OBVIOUS
<1>3. PICK b : b = SubSeq(R, n + 1, Len(R))
  OBVIOUS
<1>4. PICK c : c = SubSeq(b, 1, p)
  OBVIOUS
<1>5. PICK d : d = SubSeq(c, 1, m)
  OBVIOUS
<1>6. a \in Seq(T) /\ Len(a) = n /\ \A i \in 1..n : a[i] = R[i]
  BY <1>1, <1>2
<1>7. b \in Seq(T) /\ Len(b) = Len(R) - n /\ \A i \in 1..Len(b) : b[i] = R[n + i]
  BY <1>1, <1>3
<1>8. c \in Seq(T) /\ Len(c) = p /\ \A i \in 1..p : c[i] = R[n + i]
  BY <1>1, <1>4, <1>7
<1>9. d \in Seq(T) /\ Len(d) = m /\ \A i \in 1..m : d[i] = R[n + i]
  BY <1>1, <1>5, <1>8
<1>10. PICK u : u = a \o d
  OBVIOUS
<1>11. PICK v : v = SubSeq(R, 1, n + m)
  OBVIOUS
<1>12. v \in Seq(T) /\ Len(v) = n + m /\ \A i \in 1..(n + m) : v[i] = R[i]
  BY <1>1, <1>11
<1>13. u \in Seq(T) /\ Len(u) = n + m
       /\ \A i \in 1..(n + m) : u[i] = IF i <= n THEN a[i] ELSE d[i - n]
  <2>0. a \in Seq(T) /\ d \in Seq(T)
    BY <1>6, <1>9
  <2>1. u \in Seq(T) /\ Len(u) = Len(a) + Len(d)
    BY ONLY <1>10, <2>0, JoinedSequence
  <2>2. \A i \in 1..(Len(a) + Len(d)) : u[i] = IF i <= Len(a) THEN a[i] ELSE d[i - Len(a)]
    BY ONLY <1>10, <2>0, JoinedSequence
  <2> QED BY <1>6, <1>9, <2>1, <2>2
<1>14. ASSUME NEW i \in 1..(n + m) PROVE u[i] = R[i]
  <2>1. CASE i <= n
    BY <1>6, <1>13, <2>1
  <2>2. CASE ~(i <= n)
    <3>1. i - n \in 1..m /\ n + (i - n) = i
      BY <2>2
    <3> QED BY <1>9, <1>13, <2>2, <3>1
  <2> QED BY <2>1, <2>2
<1>15. u = v
  BY <1>12, <1>13, <1>14, SameSequence
<1> QED BY <1>1, <1>2, <1>3, <1>4, <1>5, <1>10, <1>11, <1>15

LEMMA InitPInv == Init => PInv
<1> SUFFICES ASSUME Init PROVE PInv
  OBVIOUS
<1>1. MInv /\ pc = "ready" /\ delivered = <<>> /\ reason = None /\ cut = {}
  BY InitMInv DEF Init
<1>2. Len(Expected) \in Nat
  BY <1>1, ResultsDistinct, RankedSorts DEF MInv, OInv, QInv, Expected
<1>3. delivered = SubSeq(Expected, 1, 0)
  BY <1>1
<1>4. reason # "Complete"
  BY <1>1, NoneAssumption DEF StopReasons
<1>5. ListOK
  BY <1>1, <1>2, <1>3, <1>4 DEF ListOK
<1> QED BY <1>1, <1>4, <1>5 DEF PInv, CompleteEnds, LInv, ChunkExact, HeapExact, FinishLimited

\* A step that returns no page and leaves the snapshot alone.
LEMMA SameListOK ==
  ASSUME ListOK, UNCHANGED <<delivered, reason>>, Results' = Results, pc # "over", pc' # "over"
  PROVE  ListOK'
<1>1. PICK S : S = Results /\ S = Results'
  OBVIOUS
<1>2. PICK R : R = Ranked(S)
  OBVIOUS
<1>3. Expected = R
  BY <1>1, <1>2 DEF Expected
<1>4. Expected' = R
  BY <1>1, <1>2 DEF Expected, Ranked, Before
<1> QED BY <1>3, <1>4 DEF ListOK

\* A page that failed leaves only the list.
LEMMA GivenUpLInv ==
  ASSUME LInv, MInv', cut' = {}, pc' = "ready", pc # "over", UNCHANGED <<delivered, reason>>,
         Results' = Results
  PROVE  LInv'
<1>1. ListOK'
  BY SameListOK DEF LInv
<1> QED BY <1>1 DEF LInv, ChunkExact, HeapExact, FinishLimited

LEMMA SameResults ==
  ASSUME UNCHANGED snapshot, Candidates' = Candidates
  PROVE  Results' = Results /\ \A f : HitsOf(f)' = HitsOf(f)
BY DEF Results, HitsOf

\* A line has one result.
LEMMA HitOfMatch ==
  ASSUME TypeOK, NEW f \in Candidates, NEW k \in HitsOf(f)
  PROVE  \E m \in MatchesOf(f) : m.line = k.line /\ k = Key(f, m, snapshot[f].lines)
<1>1. PICK n \in DOMAIN snapshot[f].lines :
        snapshot[f].lines[n].hit /\ k = Key(f, Match(n, snapshot[f].lines), snapshot[f].lines)
  BY DEF HitsOf
<1>2. Match(n, snapshot[f].lines) \in MatchesOf(f)
  BY <1>1 DEF MatchesOf
<1>3. k.line = Match(n, snapshot[f].lines).line
  BY <1>1 DEF Key
<1> QED BY <1>1, <1>2, <1>3

LEMMA OneHitPerLine ==
  ASSUME TypeOK, NEW f \in Candidates, NEW j \in HitsOf(f), NEW k \in HitsOf(f), j.line = k.line
  PROVE  j = k
<1>1. \A m \in MatchesOf(f) : m = Match(m.line, snapshot[f].lines)
  BY DEF MatchesOf, Match
<1> QED BY <1>1, HitOfMatch

LEMMA EmptySeen ==
  KeepEarliest({}) = {} /\ Cardinality({}) = 0
BY FS_EmptySet DEF KeepEarliest

\* A page starts with nothing seen; the first one takes the snapshot.
LEMMA StartPageLInv ==
  ASSUME PInv, MInv', cut' = {}, StartPage
  PROVE  LInv'
<1>1. /\ pc = "ready" /\ pc' = "scan" /\ earliest' = {} /\ eligible' = 0 /\ limited' = FALSE
      /\ file' = 1 /\ position' = 0 /\ UNCHANGED <<disk, after, delivered, reason>>
  BY DEF StartPage
<1>2. Seen' = {}
  <2>1. ASSUME NEW k \in Results' PROVE k.file \in Nat /\ k.file >= 1 /\ k.line \in Nat /\ k.line >= 1
    <3>1. Candidates' \subseteq Nat \ {0}
      BY DEF MInv, OInv, QInv, TypeOK, Candidates
    <3>2. PICK f \in Candidates' : k \in HitsOf(f)'
      BY DEF Results
    <3>3. PICK n \in DOMAIN snapshot'[f].lines :
            k = Key(f, Match(n, snapshot'[f].lines), snapshot'[f].lines)
      BY <3>2 DEF HitsOf
    <3>4. snapshot'[f].lines \in Seq(Lines)
      BY <3>2 DEF MInv, OInv, QInv, TypeOK
    <3>5. n \in Nat \ {0}
      BY <3>4
    <3>6. k.file = f /\ k.line = n
      BY <3>3 DEF Key, Match
    <3> QED BY <3>1, <3>2, <3>5, <3>6
  <2>2. \A k \in Results' : ~(k.file < 1) /\ ~(k.line <= 0)
    BY <2>1
  <2> QED BY <1>1, <2>2 DEF Seen, Passed
<1>3. HeapExact'
  BY <1>1, <1>2, EmptySeen DEF HeapExact, KeepEarliest, Before
<1>4. ListOK'
  <2>1. CASE after # None
    <3>1. UNCHANGED snapshot /\ Candidates' = Candidates
      BY <1>1, <2>1 DEF StartPage, Candidates
    <3>2. Results' = Results
      BY <3>1, SameResults
    <3>3. LInv
      BY <2>1 DEF PInv, StartPage
    <3> QED BY <1>1, <3>2, <3>3, SameListOK DEF LInv
  <2>2. CASE after = None
    <3>1. delivered = <<>>
      BY <1>1, <2>2 DEF PInv, MInv, OInv, WatermarkOK
    <3>2. reason # "Complete"
      BY <1>1 DEF PInv, CompleteEnds
    <3>3. PICK S : S = Results' /\ Distinct(S)
      <4>1. Distinct(Results)'
        BY NextResultsDistinct DEF MInv, OInv, QInv
      <4> QED BY <4>1 DEF Distinct, OnePerLine
    <3>4. PICK R : R = Ranked(S) /\ Len(R) \in Nat /\ SubSeq(R, 1, 0) = <<>>
      BY <3>3, RankedSorts
    <3>5. Expected' = R
      BY <3>3, <3>4 DEF Expected, Ranked, Before
    <3> QED BY <1>1, <3>1, <3>2, <3>4, <3>5 DEF ListOK
  <2> QED BY <2>1, <2>2
<1> QED BY <1>1, <1>3, <1>4 DEF LInv, ChunkExact, FinishLimited

\* Nothing that counts for the heap has changed.
LEMMA SameHeapExact ==
  ASSUME LInv, pc \in {"scan", "opened", "scanned", "filter"}, Results' = Results, Seen' = Seen,
         UNCHANGED <<limited, earliest, eligible>>
  PROVE  HeapExact'
BY DEF LInv, HeapExact, KeepEarliest, Before

\* Behind the last line of a candidate nothing more is seen of it.
LEMMA NextCandidateLInv ==
  ASSUME LInv, MInv', cut' = {}, NextCandidate
  PROVE  LInv'
<1>1. /\ pc = "scan" /\ pc' = pc /\ file \in Candidates /\ file' = file + 1 /\ position' = 0
      /\ position >= SnapshotSize(file)
      /\ UNCHANGED <<disk, snapshot, after, earliest, eligible, limited, delivered, reason>>
  BY DEF NextCandidate
<1>2. Results' = Results
  BY <1>1, SameResults DEF Candidates
<1>3. TypeOK /\ file \in Nat /\ position \in Nat /\ Candidates \subseteq Nat
      /\ SnapshotSize(file) \in Nat
  BY <1>1 DEF LInv, MInv, OInv, QInv, TypeOK, Candidates, SnapshotSize
<1>4. Seen' = Seen
  <2>1. ASSUME NEW k \in Results
        PROVE  (k.file < file \/ (k.file = file /\ k.line <= position)) <=>
               (k.file < file + 1 \/ (k.file = file + 1 /\ k.line <= 0))
    <3>1. k.file \in Candidates /\ k.line \in 1..SnapshotSize(k.file)
      BY <1>3, ResultsDistinct
    <3>2. PICK n \in Nat : n = SnapshotSize(k.file)
      BY <1>3, <3>1 DEF TypeOK, SnapshotSize
    <3>3. k.file \in Nat /\ k.line \in Nat /\ k.line > 0
      <4>1. k.line \in 1..n
        BY <3>1, <3>2
      <4>2. k.file \in Nat
        BY <1>3, <3>1
      <4> QED BY <4>1, <4>2
    <3>4. k.file = file => k.line <= position
      BY <1>1, <1>3, <3>1, <3>3
    <3> QED BY <1>3, <3>3, <3>4
  <2> QED BY <1>1, <1>2, <2>1 DEF Seen, Passed, Behind, Before
<1>5. HeapExact'
  BY <1>1, <1>2, <1>4, SameHeapExact
<1>6. ListOK'
  BY <1>1, <1>2, SameListOK DEF LInv
<1> QED BY <1>1, <1>5, <1>6 DEF LInv, ChunkExact, FinishLimited

LEMMA OpenChunkLInv ==
  ASSUME LInv, MInv', cut' = {}, OpenChunk
  PROVE  LInv'
<1>1. /\ pc = "scan" /\ UNCHANGED <<disk, snapshot, after, file, position, earliest, eligible,
                                    delivered, reason>>
  BY DEF OpenChunk, FailPage, page
<1>2. Results' = Results
  BY <1>1, SameResults DEF Candidates
<1>3. CASE FailPage
  BY <1>1, <1>2, <1>3, GivenUpLInv DEF FailPage
<1>4. CASE ~FailPage
  <2>1. \/ limited' = TRUE /\ pc' = "finish"
        \/ limited' = limited /\ pc' = "opened"
    BY <1>4 DEF OpenChunk
  <2>2. Seen' = Seen
    BY <1>1, <1>2, <2>1 DEF Seen, Passed, Behind, Before
  <2>3. HeapExact'
    BY <1>1, <1>2, <2>1, <2>2, SameHeapExact DEF HeapExact
  <2>4. ListOK'
    BY <1>1, <1>2, <2>1, SameListOK DEF LInv
  <2> QED BY <2>1, <2>3, <2>4 DEF LInv, ChunkExact, FinishLimited
<1> QED BY <1>3, <1>4

\* The scanned file has all lines of the snapshot.
LEMMA ScanChunkLInv ==
  ASSUME LInv, MInv', cut' = {}, ScanChunk
  PROVE  LInv'
<1>1. /\ pc = "opened" /\ pc' = "scanned"
      /\ UNCHANGED <<disk, snapshot, after, file, position, earliest, eligible, limited,
                     delivered, reason>>
  BY DEF ScanChunk
<1>2. Results' = Results
  BY <1>1, SameResults DEF Candidates
<1>3. Seen' = Seen
  BY <1>1, <1>2 DEF Seen, Passed, Behind, Before
<1>4. HeapExact'
  BY <1>1, <1>2, <1>3, SameHeapExact
<1>5. ChunkExact'
  BY <1>1, ChunkFound DEF LInv, ChunkExact, MatchesOf
<1>6. ListOK'
  BY <1>1, <1>2, SameListOK DEF LInv
<1> QED BY <1>1, <1>4, <1>5, <1>6 DEF LInv, FinishLimited

\* Every result of the chunk has a match that is to be filtered.
LEMMA ReopenFileLInv ==
  ASSUME LInv, MInv', cut' = {}, ReopenFile
  PROVE  LInv'
<1>1. pc = "scanned" /\ UNCHANGED <<disk, snapshot, after, delivered, reason>>
  BY DEF ReopenFile, FailPage
<1>2. Results' = Results
  BY <1>1, SameResults DEF Candidates
<1>3. CASE FailPage
  BY <1>1, <1>2, <1>3, GivenUpLInv DEF FailPage
<1>4. CASE ~FailPage
  <2>1. pc' = "filter" /\ UNCHANGED <<file, position, outcome, earliest, eligible, limited>>
    BY <1>4 DEF ReopenFile
  <2>2. /\ TypeOK /\ file \in Candidates
        /\ outcome.hits = {m \in MatchesOf(file) : position < m.line /\ m.line <= NewPosition}
        /\ NewPosition' = NewPosition /\ position \in Nat
    BY <1>1, <2>1 DEF LInv, ChunkExact, MInv, OInv, QInv, OutcomeOK, TypeOK, NewPosition, SnapshotSize
  <2>3. ASSUME NEW k \in Results PROVE Passed(k)' <=> Passed(k)
    <3>1. ASSUME k.file = file, ~(k.line <= position), k.line <= NewPosition
          PROVE  \E m \in outcome.hits : m.line = k.line
      <4>1. k \in HitsOf(file) /\ k.line \in Nat
        BY <2>2, <3>1, ResultsDistinct DEF Distinct, Keys
      <4>2. PICK m \in MatchesOf(file) : m.line = k.line
        BY <2>2, <4>1, HitOfMatch
      <4>3. position < m.line
        BY <2>2, <3>1, <4>1, <4>2
      <4> QED BY <2>2, <3>1, <4>2, <4>3
    <3> QED BY <1>1, <2>1, <2>2, <3>1 DEF Passed
  <2>4. Seen' = Seen
    BY <1>1, <1>2, <2>3 DEF Seen, Behind, Before
  <2>5. HeapExact'
    BY <1>1, <1>2, <2>1, <2>4, SameHeapExact
  <2>6. ListOK'
    BY <1>1, <1>2, <2>1, SameListOK DEF LInv
  <2> QED BY <2>1, <2>5, <2>6 DEF LInv, ChunkExact, FinishLimited
<1> QED BY <1>3, <1>4

\* Its result is just the one that is seen now and was not before.
LEMMA FilterMatchLInv ==
  ASSUME LInv, MInv', cut' = {}, NEW m \in outcome.hits, FilterMatch(m)
  PROVE  LInv'
<1>1. PICK k : k = Key(file, m, disk[file][opened])
  OBVIOUS
<1>2. PICK kept : kept = IF InTimeRange(k) /\ Behind(k) THEN {k} ELSE {}
  OBVIOUS
<1>3. /\ pc = "filter" /\ pc' = "filter" /\ earliest' = KeepEarliest(earliest \cup kept)
      /\ eligible' = eligible + Cardinality(kept)
      /\ outcome' = [outcome EXCEPT !.hits = outcome.hits \ {m}]
      /\ UNCHANGED <<disk, snapshot, after, file, position, limited, delivered, reason>>
  BY <1>1, <1>2 DEF FilterMatch
<1>4. QInv /\ TypeOK /\ OutcomeOK /\ MInv /\ cut = {} /\ HeapExact /\ ListOK
  BY DEF LInv, MInv, OInv, QInv
<1>5. Results' = Results
  BY <1>3, SameResults DEF Candidates
<1>6. /\ outcome'.hits = outcome.hits \ {m} /\ NewPosition' = NewPosition
  <2>1. /\ outcome'.hits = outcome.hits \ {m} /\ outcome'.scanned = outcome.scanned
        /\ outcome'.stop = outcome.stop
    BY <1>3, <1>4 DEF OutcomeOK
  <2> QED BY <1>3, <2>1 DEF NewPosition, SnapshotSize
<1>7. /\ k \in Keys /\ k.file = file /\ k.line = m.line /\ k \in HitsOf(file) /\ file \in Candidates
      /\ file \in Nat /\ m.line \in Nat /\ position \in Nat /\ position < m.line
      /\ m.line <= NewPosition
  <2>1. k \in Keys /\ k.file = file /\ k.line = m.line
    BY <1>1, <1>3, <1>4, KeyOfMatch
  <2>2. k \in HitsOf(file) /\ file \in Candidates
    BY <1>1, <1>3, <1>4, KeyInSnapshot
  <2>3. /\ m.line \in Nat /\ position < m.line /\ m.line <= position + outcome.scanned
    BY <1>3, <1>4 DEF OutcomeOK
  <2>4. /\ NewPosition \in Nat /\ position + outcome.scanned <= NewPosition
        /\ outcome.scanned \in Nat /\ position \in Nat /\ file \in Nat
    BY <1>3, <1>4, NewPositionRight
  <2>5. m.line <= NewPosition
    BY <2>3, <2>4
  <2> QED BY <2>1, <2>2, <2>3, <2>4, <2>5
<1>8. k \in Results <=> InTimeRange(k)
  BY <1>7 DEF Results
<1>9. ASSUME NEW j \in Results PROVE Passed(j)' <=> Passed(j) \/ j = k
  <2>1. j.file = file /\ j.line = m.line => j = k
    <3>1. j.file = file => j \in HitsOf(file)
      BY <1>4, <1>7, ResultsDistinct
    <3> QED BY <1>4, <1>7, <3>1, OneHitPerLine
  <2>2. \A o \in outcome.hits \ {m} : o.line # m.line
    BY <1>3, <1>4 DEF OutcomeOK, OneMatchPerLine
  <2> QED BY <1>3, <1>6, <1>7, <2>1, <2>2 DEF Passed
<1>10. ~Passed(k)
  BY <1>7 DEF Passed
<1>11. kept \in SUBSET Results /\ IsFiniteSet(kept) /\ Cardinality(kept) \in Nat
  BY <1>2, <1>8, FS_EmptySet, FS_Singleton, FS_CardinalityType
<1>12. Seen' = Seen \cup kept /\ Seen \cap kept = {}
  <2>1. \A j : Behind(j)' <=> Behind(j)
    BY <1>3 DEF Behind, Before
  <2> QED BY <1>2, <1>5, <1>8, <1>9, <1>10, <2>1 DEF Seen
<1>13. PICK S : S = Seen
  OBVIOUS
<1>14. Distinct(S \cup kept) /\ IsFiniteSet(S)
  <2>1. S \in SUBSET Results
    BY <1>13 DEF Seen
  <2>2. Distinct(Results)
    BY <1>4, ResultsDistinct
  <2>3. IsFiniteSet(S) /\ IsFiniteSet(S \cup kept)
    BY <1>11, <2>1, <2>2, FS_Subset, FS_Union DEF Distinct
  <2> QED BY <1>11, <2>1, <2>2, <2>3 DEF Distinct, OnePerLine
<1>15. earliest' = KeepEarliest(S \cup kept)
  <2>1. earliest = KeepEarliest(S)
    BY <1>3, <1>4, <1>13 DEF HeapExact
  <2> QED BY <1>3, <1>14, <2>1, KeepEarliestAgain
<1>16. eligible' = Cardinality(S \cup kept)
  <2>1. Cardinality(S \cup kept) = Cardinality(S) + Cardinality(kept) - Cardinality(S \cap kept)
    BY <1>11, <1>14, FS_Union
  <2>2. Cardinality(S) \in Nat /\ Cardinality(S \cap kept) = 0
    BY <1>12, <1>13, <1>14, FS_CardinalityType, FS_EmptySet
  <2>3. eligible = Cardinality(S)
    BY <1>3, <1>4, <1>13 DEF HeapExact
  <2> QED BY <1>3, <1>11, <2>1, <2>2, <2>3
<1>17. HeapExact'
  <2>1. ~limited'
    BY <1>3, <1>4 DEF HeapExact
  <2>2. Seen' = S \cup kept
    BY <1>12, <1>13
  <2> QED BY <1>3, <1>15, <1>16, <2>1, <2>2 DEF HeapExact, KeepEarliest, Before
<1>18. ListOK'
  BY <1>3, <1>4, <1>5, SameListOK
<1> QED BY <1>3, <1>17, <1>18 DEF LInv, ChunkExact, FinishLimited

\* The page goes on behind what it has seen.
LEMMA EndChunkLInv ==
  ASSUME LInv, MInv', cut' = {}, EndChunk
  PROVE  LInv'
<1>1. /\ pc = "filter" /\ outcome.hits = {} /\ position' = NewPosition
      /\ \/ limited' = TRUE /\ pc' = "finish"
         \/ limited' = FALSE /\ pc' = "scan"
      /\ UNCHANGED <<disk, snapshot, after, file, earliest, eligible, delivered, reason>>
  BY DEF EndChunk
<1>2. Results' = Results
  BY <1>1, SameResults DEF Candidates
<1>3. /\ position \in Nat /\ NewPosition \in Nat /\ position <= NewPosition /\ TypeOK
  BY <1>1, NewPositionRight DEF LInv, MInv, OInv, QInv
<1>4. ASSUME NEW k \in Results PROVE Passed(k)' <=> Passed(k)
  <2>1. k.line \in Nat
    BY <1>3, ResultsDistinct DEF Distinct, Keys
  <2>2. k.line <= position => k.line <= NewPosition
    BY <1>3, <2>1
  <2> QED BY <1>1, <2>2 DEF Passed
<1>5. Seen' = Seen
  BY <1>1, <1>2, <1>4 DEF Seen, Behind, Before
<1>6. HeapExact'
  <2>1. earliest = KeepEarliest(Seen) /\ eligible = Cardinality(Seen)
    BY <1>1 DEF LInv, HeapExact
  <2>2. PICK S : S = Seen /\ S = Seen'
    BY <1>5
  <2> QED BY <1>1, <2>1, <2>2 DEF HeapExact, KeepEarliest, Before
<1>7. ListOK'
  BY <1>1, <1>2, SameListOK DEF LInv
<1> QED BY <1>1, <1>6, <1>7 DEF LInv, ChunkExact, FinishLimited

\* The page that ends the scan of all candidates returns the next results of the
\* list, and if it is complete the last ones.
LEMMA PageContinues ==
  ASSUME LInv, pc = "scan", file \notin Candidates
  PROVE  \E n \in 0..Len(Expected) :
           /\ delivered \o Fitting(Ranked(earliest)) = SubSeq(Expected, 1, n)
           /\ StopReason = "Complete" => n = Len(Expected)
<1>1. /\ TypeOK /\ ~limited /\ earliest = KeepEarliest(Seen) /\ eligible = Cardinality(Seen)
      /\ WatermarkOK /\ QInv /\ DeliveredOK
  BY DEF LInv, HeapExact, MInv, OInv, QInv
<1>2. PICK S : S = Results /\ Distinct(S)
  BY <1>1, ResultsDistinct
<1>3. PICK R \in Seq(S) : R = Ranked(S) /\ R = Expected
  BY <1>2, RankedSorts DEF Expected
<1>4. PICK n \in 0..Len(R) : delivered = SubSeq(R, 1, n)
  BY <1>3 DEF LInv, ListOK
<1>5. Len(R) \in Nat /\ Len(delivered) = n /\ (n # 0 => delivered[n] = R[n])
  BY <1>4
<1>6. \A k : Behind(k) <=> n = 0 \/ Before(R[n], k)
  <2>1. CASE after = None
    <3>1. delivered = <<>>
      BY <1>1, <2>1 DEF WatermarkOK
    <3>2. n = 0
      BY <1>5, <3>1
    <3> QED BY <2>1, <3>2 DEF Behind
  <2>2. CASE after # None
    <3>1. delivered # <<>> /\ after = delivered[Len(delivered)]
      BY <1>1, <2>2 DEF WatermarkOK
    <3>2. n # 0
      <4>1. delivered \in Seq(Keys)
        BY <1>1 DEF DeliveredOK
      <4> QED BY <1>5, <3>1, <4>1
    <3> QED BY <1>5, <2>2, <3>1, <3>2 DEF Behind
  <2> QED BY <2>1, <2>2
<1>7. PICK B : B = Rest(S, R, n)
  OBVIOUS
<1>8. Seen = B
  <2>1. ASSUME NEW k \in Results PROVE k.file < file
    <3>1. k.file \in Candidates
      BY <1>1, ResultsDistinct
    <3>2. Len(disk) \in Nat /\ Candidates = 1..Len(disk) /\ file \in 1..(Len(disk) + 1)
      BY <1>1 DEF TypeOK, Candidates
    <3> QED BY <3>1, <3>2
  <2> QED BY <1>2, <1>6, <1>7, <2>1 DEF Seen, Passed, Rest
<1>9. /\ Distinct(B) /\ Ranked(B) = SubSeq(R, n + 1, Len(R)) /\ Cardinality(B) = Len(R) - n
  <2>1. Distinct(S) /\ R = Ranked(S) /\ n \in 0..Len(R) /\ B = Rest(S, R, n)
    BY <1>2, <1>3, <1>4, <1>7
  <2> QED BY ONLY <2>1, RestOfList
<1>10. PICK p : p = IF Cardinality(B) <= MaxResults THEN Cardinality(B) ELSE MaxResults
  OBVIOUS
<1>11. /\ p \in 0..Len(Ranked(B)) /\ Ranked(KeepEarliest(B)) = SubSeq(Ranked(B), 1, p)
       /\ Cardinality(KeepEarliest(B)) = p /\ Len(Ranked(B)) = Cardinality(B)
  BY <1>9, <1>10, KeptAreFirst, RankedSorts
<1>12. p \in 0..(Len(R) - n)
  BY <1>9, <1>11
<1>13. PICK t : t = Ranked(earliest)
  OBVIOUS
<1>14. /\ t = SubSeq(SubSeq(R, n + 1, Len(R)), 1, p) /\ Cardinality(earliest) = p
       /\ eligible = Cardinality(B)
  BY <1>1, <1>8, <1>9, <1>11, <1>13
<1>15. PICK m \in 0..Len(t) : /\ Fitting(t) = SubSeq(t, 1, m)
                              /\ SumOfSizes(t)[Cardinality(earliest)] <= MaxContent => m = p
  BY <1>1, <1>13, <1>14, ResultsOfPage
<1>16. Len(t) = p
  <2>1. PICK b : b = SubSeq(R, n + 1, Len(R))
    OBVIOUS
  <2>2. b \in Seq(S) /\ Len(b) = Len(R) - n
    BY <1>5, <2>1
  <2>3. t = SubSeq(b, 1, p)
    BY <1>14, <2>1
  <2> QED BY <1>12, <2>2, <2>3
<1>17. m \in 0..p
  BY <1>15, <1>16
<1>18. /\ n + m \in 0..Len(R)
       /\ delivered \o Fitting(t) = SubSeq(R, 1, n + m)
  <2>1. /\ n + m \in 0..Len(R)
        /\ SubSeq(R, 1, n) \o SubSeq(SubSeq(SubSeq(R, n + 1, Len(R)), 1, p), 1, m)
             = SubSeq(R, 1, n + m)
    BY <1>12, <1>17, BeginningsJoin
  <2> QED BY ONLY <1>4, <1>14, <1>15, <2>1
<1>19. ASSUME StopReason = "Complete" PROVE n + m = Len(R)
  <2>1. ~(SumOfSizes(t)[Cardinality(earliest)] > MaxContent) /\ ~(eligible > MaxResults)
    BY <1>1, <1>13, <1>19 DEF StopReason, ContentCut
  <2>2. MaxContent \in Nat /\ MaxResults \in Nat
    BY LimitAssumption
  <2>3. SumOfSizes(t)[Cardinality(earliest)] \in Nat
    <3>1. t \in Seq(Keys)
      <4>1. PICK b : b = SubSeq(R, n + 1, Len(R))
        OBVIOUS
      <4>2. b \in Seq(S) /\ Len(b) = Len(R) - n
        BY <1>5, <4>1
      <4>3. t = SubSeq(b, 1, p)
        BY <1>14, <4>1
      <4>4. t \in Seq(S)
        BY <1>12, <4>2, <4>3
      <4> QED BY <1>2, <4>4 DEF Distinct
    <3>2. Sums(SumOfSizes(t), Len(t), t)
      BY <3>1, SumsRight
    <3>3. p = 0 \/ p \in 1..p
      BY <1>12
    <3> HIDE DEF SumOfSizes
    <3> QED BY <1>14, <1>16, <3>2, <3>3 DEF Sums
  <2>4. m = p
    BY <1>15, <2>1, <2>2, <2>3
  <2>5. Cardinality(B) <= MaxResults
    BY <1>5, <1>9, <1>14, <2>1, <2>2
  <2>6. p = Len(R) - n
    BY <1>9, <1>10, <2>5
  <2> QED BY <1>5, <2>4, <2>6
<1> QED BY <1>3, <1>13, <1>18, <1>19

LEMMA FinishPageLInv ==
  ASSUME LInv, MInv', cut' = {}, FinishPage
  PROVE  LInv'
<1>1. CASE FailPage
  <2>1. Results' = Results
    BY <1>1, SameResults DEF FailPage, Candidates
  <2> QED BY <1>1, <2>1, GivenUpLInv DEF FailPage, FinishPage
<1>2. CASE ~FailPage
  <2>1. PICK t : t = Fitting(Ranked(earliest))
    OBVIOUS
  <2>2. /\ UNCHANGED <<disk, snapshot>> /\ delivered' = delivered \o t /\ reason' = StopReason
        /\ pc' \in {"ready", "over"}
        /\ pc' = "ready" => StopReason \in {"ResultLimit", "ReturnedContentByteLimit"}
    BY <1>2, <2>1 DEF FinishPage
  <2>3. Results' = Results
    BY <2>2, SameResults DEF Candidates
  <2>4. ListOK'
    <3>1. CASE pc = "finish"
      <4>1. StopReason = "ScanByteLimit"
        BY <3>1 DEF LInv, FinishLimited, StopReason
      <4> QED BY <2>2, <4>1 DEF ListOK
    <3>2. CASE pc # "finish"
      <4>1. pc = "scan" /\ file \notin Candidates
        BY <3>2 DEF FinishPage
      <4>2. PICK S : S = Results /\ S = Results'
        BY <2>3
      <4>3. PICK R : R = Ranked(S)
        OBVIOUS
      <4>4. Expected = R
        BY <4>2, <4>3 DEF Expected
      <4>5. Expected' = R
        BY <4>2, <4>3 DEF Expected, Ranked, Before
      <4>6. PICK n \in 0..Len(R) : /\ delivered \o t = SubSeq(R, 1, n)
                                   /\ StopReason = "Complete" => n = Len(R)
        BY <2>1, <4>1, <4>4, PageContinues
      <4> QED BY <2>2, <4>5, <4>6 DEF ListOK
    <3> QED BY <3>1, <3>2
  <2> QED BY <2>2, <2>4 DEF LInv, ChunkExact, HeapExact, FinishLimited
<1> QED BY <1>1, <1>2

LEMMA StepLInv ==
  ASSUME LInv, MInv', cut' = {}, [Next]_vars, ~StartPage
  PROVE  LInv'
<1>1. ASSUME UNCHANGED <<snapshot, pc, after, page, delivered, reason>>, Candidates' = Candidates
      PROVE  LInv'
  <2>1. Results' = Results /\ \A f : HitsOf(f)' = HitsOf(f)
    BY <1>1, SameResults
  <2>2. Seen' = Seen
    BY <1>1, <2>1 DEF Seen, Passed, NewPosition, SnapshotSize, Behind, Before, page
  <2>3. HeapExact'
    BY <1>1, <2>1, <2>2, SameHeapExact DEF HeapExact, page
  <2>4. ChunkExact'
    BY <1>1, <2>1 DEF LInv, ChunkExact, NewPosition, SnapshotSize, MatchesOf, page
  <2>5. ListOK'
    <3>1. PICK S : S = Results /\ S = Results'
      BY <2>1
    <3>2. PICK R : R = Ranked(S)
      OBVIOUS
    <3>3. Expected = R
      BY <3>1, <3>2 DEF Expected
    <3>4. Expected' = R
      BY <3>1, <3>2 DEF Expected, Ranked, Before
    <3> QED BY <1>1, <3>3, <3>4 DEF LInv, ListOK
  <2> QED BY <1>1, <2>3, <2>4, <2>5 DEF LInv, FinishLimited, page
<1>2. CASE UNCHANGED vars
  BY <1>1, <1>2 DEF vars, Candidates
<1>3. CASE Proceed
  BY <1>3, NextCandidateLInv, OpenChunkLInv, ScanChunkLInv, ReopenFileLInv, FilterMatchLInv,
     EndChunkLInv, FinishPageLInv DEF Proceed
<1>4. CASE Interrupt
  <2>1. Results' = Results
    BY <1>4, SameResults DEF Interrupt, Candidates
  <2> QED BY <1>4, <2>1, GivenUpLInv DEF Interrupt
<1>5. CASE \E f \in Candidates : (\E l \in Appended : Write(f, l)) \/ Rotate(f) \/ Truncate(f)
  BY <1>1, <1>5 DEF Write, Rotate, Truncate, Event, Candidates
<1> QED BY <1>2, <1>3, <1>4, <1>5 DEF Next

LEMMA CompleteEndsStep == CompleteEnds /\ [Next]_vars => CompleteEnds'
<1> SUFFICES ASSUME CompleteEnds, [Next]_vars PROVE CompleteEnds'
  OBVIOUS
<1>1. CASE UNCHANGED <<pc, reason>>
  BY <1>1 DEF CompleteEnds
<1>2. CASE UNCHANGED reason /\ pc # "over"
  BY <1>2 DEF CompleteEnds
<1>3. CASE Proceed
  <2>1. CASE FinishPage
    <3>1. \/ UNCHANGED reason /\ pc # "over"
          \/ reason' = StopReason /\ pc' = "over"
          \/ reason' = StopReason /\ StopReason \in {"ResultLimit", "ReturnedContentByteLimit"}
      BY <2>1 DEF FinishPage, FailPage
    <3> QED BY <1>2, <3>1 DEF CompleteEnds
  <2>2. CASE ~FinishPage
    <3>1. UNCHANGED reason /\ pc # "over"
      BY <1>3, <2>2 DEF Proceed, StartPage, NextCandidate, OpenChunk, FailPage, ScanChunk, ReopenFile,
         FilterMatch, EndChunk
    <3> QED BY <1>2, <3>1
  <2> QED BY <2>1, <2>2
<1>4. CASE Interrupt
  BY <1>2, <1>4 DEF Interrupt
<1>5. CASE \E f \in Candidates : (\E l \in Appended : Write(f, l)) \/ Rotate(f) \/ Truncate(f)
  BY <1>1, <1>5 DEF Write, Rotate, Truncate, Event
<1>6. CASE UNCHANGED vars
  BY <1>1, <1>6 DEF vars
<1> QED BY <1>3, <1>4, <1>5, <1>6 DEF Next

\* Only a snapshot makes files count as not cut off again.
LEMMA CutStays ==
  ASSUME [Next]_vars, ~StartPage
  PROVE  cut \subseteq cut'
<1>1. CASE UNCHANGED vars
  BY <1>1 DEF vars
<1>2. CASE Proceed
  BY <1>2 DEF Proceed, NextCandidate, OpenChunk, FailPage, ScanChunk, ReopenFile, FilterMatch,
     EndChunk, FinishPage
<1>3. CASE Interrupt
  BY <1>3 DEF Interrupt
<1>4. CASE \E f \in Candidates : (\E l \in Appended : Write(f, l)) \/ Rotate(f) \/ Truncate(f)
  BY <1>4 DEF Write, Rotate, Truncate
<1> QED BY <1>1, <1>2, <1>3, <1>4 DEF Next

LEMMA StepPInv == PInv /\ [Next]_vars => PInv'
<1> SUFFICES ASSUME PInv, [Next]_vars PROVE PInv'
  OBVIOUS
<1>1. MInv' /\ CompleteEnds'
  BY StepMInv, CompleteEndsStep DEF PInv
<1>2. ASSUME cut' = {} PROVE LInv'
  <2>1. CASE StartPage
    BY <1>1, <1>2, <2>1, StartPageLInv
  <2>2. CASE ~StartPage
    <3>1. cut = {}
      BY <1>2, <2>2, CutStays
    <3>2. LInv
      BY <3>1 DEF PInv
    <3> QED BY <1>1, <1>2, <2>2, <3>2, StepLInv
  <2> QED BY <2>1, <2>2
<1> QED BY <1>1, <1>2 DEF PInv

LEMMA SpecPInv == Spec => []PInv
BY InitPInv, StepPInv, PTL DEF Spec

\* Whatever happens to the files, also between the scan of a chunk and the reading
\* of its timestamps, each result of a search is behind the one returned before
\* it, and those of a candidate that has not been cut off in place are results of
\* its snapshot with their timestamps (process_matches and finish_page,
\* src/src/stateful_query.rs).
THEOREM ResultsOnceInOrder == Spec => []SortedAndOnce
BY SpecMInv, MInvSortedAndOnce, PTL

\* While no candidate has been cut off in place, the pages of a search are a
\* beginning of the sorted list of all its results: none is missing between two
\* pages (the watermark and the heap of process_matches,
\* src/src/stateful_query.rs).  Only a page that ran out of scan budget may have
\* gaps, and no page follows it.
THEOREM PagesAreOneList == Spec => []PagesFormOneList
<1>1. PInv => PagesFormOneList
  <2> SUFFICES ASSUME LInv, ~(reason = "ScanByteLimit" /\ pc = "over") PROVE IsPrefix(delivered, Expected)
    BY DEF PagesFormOneList, PInv
  <2>1. TypeOK
    BY DEF LInv, MInv, OInv, QInv
  <2>2. PICK S : Expected \in Seq(S)
    BY <2>1, ResultsDistinct, RankedSorts DEF Expected
  <2>3. PICK R \in Seq(S) : R = Expected
    BY <2>2
  <2>4. PICK n \in 0..Len(R) : delivered = SubSeq(R, 1, n)
    BY <2>3 DEF LInv, ListOK
  <2>5. PICK d : d = SubSeq(R, 1, n) /\ d = delivered
    BY <2>4
  <2>6. Len(R) \in Nat /\ d \in Seq(S) /\ Len(d) = n
    BY <2>5
  <2>7. SubSeq(d, 1, Len(d)) = d
    BY <2>6
  <2> QED BY <2>3, <2>5, <2>6, <2>7 DEF IsPrefix
<1> QED BY <1>1, SpecPInv, PTL

\* While no candidate has been cut off in place, a page that calls itself complete
\* ends the list of all results (the stop reason of finish_page,
\* src/src/stateful_query.rs).
THEOREM CompleteIsAll == Spec => []CompleteUnlessCut
<1>1. PInv => CompleteUnlessCut
  <2> SUFFICES ASSUME LInv, reason = "Complete" PROVE delivered = Expected
    BY DEF PInv, CompleteUnlessCut, CompleteMeansAll
  <2>1. TypeOK
    BY DEF LInv, MInv, OInv, QInv
  <2>2. PICK S : Expected \in Seq(S)
    BY <2>1, ResultsDistinct, RankedSorts DEF Expected
  <2>3. delivered = SubSeq(Expected, 1, Len(Expected))
    BY DEF LInv, ListOK
  <2> QED BY <2>2, <2>3
<1> QED BY <1>1, SpecPInv, PTL
=============================================================================
