------------------------------ MODULE QueryPage ------------------------------
(***************************************************************************)
(* The pages of one search: scan_page, process_matches and finish_page of  *)
(* src/src/stateful_query.rs, driven by a client that follows next_cursor, *)
(* while other programs write to the log files.                            *)
(*                                                                         *)
(* Every page scans the same snapshot of candidate files again, in chunks, *)
(* keeps the earliest results behind the watermark of the page before, and *)
(* names the last of them as the next watermark.  A file is a sequence of  *)
(* lines; what Scanner says of a scan over bytes is used here over lines.  *)
(*                                                                         *)
(* The store that keeps the cursor between two pages is CursorStore; here  *)
(* the cursor is simply there, also after a page that failed.              *)
(***************************************************************************)
EXTENDS Integers, Sequences, FiniteSets, FiniteSetsExt, SequencesExt

CONSTANTS
  Lines,         \* lines that may be in a file: [hit, time, size]
  InitialFiles,  \* the contents of the candidate files at the first page
  Appended,      \* the lines that other programs append
  Timed,         \* the candidates whose source has a timestamp rule
  InRange,       \* the timestamps the time range of the query contains
  MaxResults,    \* max_results of the query
  MaxContent,    \* max_returned_content_bytes
  PageBudget,    \* max_scan_bytes_per_page, in lines
  ChunkResults,  \* chunk_result_limit
  MaxPages,      \* MAX_CURSOR_PAGES
  MaxEvents,     \* bound on the disturbances by other programs and by interrupts
  InPlace,       \* other programs truncate files in place
  None

ASSUME LinesAssumption ==
  Lines \subseteq [hit : BOOLEAN, time : Nat \cup {None}, size : Nat \ {0}]
ASSUME FilesAssumption == InitialFiles \subseteq Seq(Seq(Lines))
ASSUME LimitAssumption ==
  {MaxResults, MaxContent, PageBudget, ChunkResults, MaxPages} \subseteq Nat \ {0}
ASSUME EnvironmentAssumption == MaxEvents \in Nat /\ InPlace \in BOOLEAN /\ Appended \subseteq Lines

\* What tells a result from any other, and orders it.
Keys == [time : Nat \cup {None}, file : Nat, line : Nat, size : Nat \ {0}]

StopReasons == {"ScanByteLimit", "ReturnedContentByteLimit", "ResultLimit", "Complete"}

ASSUME NoneAssumption == None \notin Keys \cup StopReasons

VARIABLES
  disk,       \* the files that have been at the path of each candidate, the last
              \* of them is there now
  snapshot,   \* which of them each candidate is, and its lines at that time
  events,     \* writes, rotations, truncations and interrupts so far
  cut,        \* history: the candidates cut off in place since the snapshot
  pc,         \* where the search is
  after,      \* the watermark of the cursor, None for a first page
  pages,      \* pages_returned of the cumulative usage
  file,       \* the candidate being scanned
  opened,     \* the file behind the handle of the current chunk: that of the scan,
              \* then that of the timestamps
  position,   \* the lines of it that have been scanned
  used,       \* bytes_scanned of the page, in lines
  outcome,    \* what the scan of the current chunk returned, without the matches
              \* that have been filtered already
  earliest,   \* the heap: the keys of the earliest results so far
  eligible,   \* eligible_matches of the page
  limited,    \* page_scan_limited
  delivered,  \* the keys of all results of the search so far
  reason      \* the stop reason of the last page

page == <<file, opened, position, used, outcome, earliest, eligible, limited>>
vars == <<disk, snapshot, events, cut, pc, after, pages, page, delivered, reason>>

Candidates == DOMAIN disk

SnapshotSize(f) == Len(snapshot[f].lines)

NoOutcome == [hits |-> {}, scanned |-> 0, stop |-> None]

Init ==
  /\ disk \in {[f \in DOMAIN c |-> <<c[f]>>] : c \in InitialFiles}
  /\ snapshot = [f \in DOMAIN disk |-> [file |-> 1, lines |-> disk[f][1]]]
  /\ events = 0
  /\ cut = {}
  /\ pc = "ready"
  /\ after = None
  /\ pages = 0
  /\ file = 1 /\ opened = 0 /\ position = 0 /\ used = 0 /\ outcome = NoOutcome
  /\ earliest = {} /\ eligible = 0 /\ limited = FALSE
  /\ delivered = <<>>
  /\ reason = None

-----------------------------------------------------------------------------
(***************************************************************************)
(* Results and their order.                                                *)
(***************************************************************************)

\* A match of the scanner: a line, and the length of its content.
Match(n, lines) == [line |-> n, size |-> lines[n].size]

\* read_line_prefix and the timestamp parser, without a rule or behind the end of
\* the file there is nothing to parse.
TimeAt(f, n, lines) == IF f \in Timed /\ n \in DOMAIN lines THEN lines[n].time ELSE None

\* The watermark of a result, that is its sort key, and the line it is in.  The
\* match is of the scan, its time of what the file has when it is read for it.
Key(f, m, lines) ==
  [time |-> TimeAt(f, m.line, lines), file |-> f, line |-> m.line, size |-> m.size]

\* ResultWatermark::cmp: by time, results without one last, then by candidate
\* and line.
Before(a, b) ==
  IF a.time # b.time
  THEN a.time # None /\ (b.time = None \/ a.time < b.time)
  ELSE a.file < b.file \/ (a.file = b.file /\ a.line < b.line)

\* TimeRange::classify: without a usable timestamp a result is kept.
InTimeRange(k) == k.time \in InRange \cup {None}

\* What the page may return of the results of the chunk.
Behind(k) == after = None \/ Before(after, k)

\* The heap pops its greatest key as soon as it holds one too many.
KeepEarliest(keys) == {k \in keys : Cardinality({j \in keys : Before(j, k)}) < MaxResults}

\* finish_page sorts them: the n-th has n - 1 of them before it.
Ranked(keys) ==
  [n \in 1..Cardinality(keys) |->
     CHOOSE k \in keys : Cardinality({j \in keys : Before(j, k)}) = n - 1]

\* returned_content_bytes once the first n results are taken whole.
SumOfSizes(ranked) ==
  LET sum[n \in 0..Len(ranked)] == IF n = 0 THEN 0 ELSE sum[n - 1] + ranked[n].size
  IN  sum

\* finish_page: the results that fit, the last of them possibly truncated.
Fitting(ranked) ==
  LET room == {n \in DOMAIN ranked : SumOfSizes(ranked)[n - 1] < MaxContent}
  IN  SubSeq(ranked, 1, Max({0} \cup room))

ContentCut == SumOfSizes(Ranked(earliest))[Cardinality(earliest)] > MaxContent

\* Mutant: the limits on what is returned are looked at before the scan budget.
BudgetLast ==
  IF ContentCut THEN "ReturnedContentByteLimit"
  ELSE IF eligible > MaxResults THEN "ResultLimit"
  ELSE IF limited THEN "ScanByteLimit"
  ELSE "Complete"

\* Mutant: the scan budget is forgotten.
BudgetIgnored ==
  IF ContentCut THEN "ReturnedContentByteLimit"
  ELSE IF eligible > MaxResults THEN "ResultLimit"
  ELSE "Complete"

StopReason ==
  IF limited THEN "ScanByteLimit"
  ELSE IF ContentCut THEN "ReturnedContentByteLimit"
  ELSE IF eligible > MaxResults THEN "ResultLimit"
  ELSE "Complete"

-----------------------------------------------------------------------------
(***************************************************************************)
(* One page.                                                               *)
(***************************************************************************)

\* A call of search: the first one takes the snapshot of the candidates, the
\* others find it in the cursor.
StartPage ==
  /\ pc = "ready"
  /\ pc' = "scan"
  /\ snapshot' = IF after # None THEN snapshot
                 ELSE [f \in Candidates |-> [file |-> Len(disk[f]), lines |-> Last(disk[f])]]
  /\ cut' = IF after # None THEN cut ELSE {}
  /\ file' = 1 /\ opened' = 0 /\ position' = 0 /\ used' = 0 /\ outcome' = NoOutcome
  /\ earliest' = {} /\ eligible' = 0 /\ limited' = FALSE
  /\ UNCHANGED <<disk, events, after, pages, delivered, reason>>

\* The page fails; the cursor is as before.
FailPage ==
  /\ pc' = "ready"
  /\ UNCHANGED <<disk, snapshot, events, cut, after, pages, page, delivered, reason>>

NextCandidate ==
  /\ pc = "scan" /\ file \in Candidates /\ position >= SnapshotSize(file)
  /\ file' = file + 1
  /\ position' = 0
  /\ UNCHANGED <<disk, snapshot, events, cut, pc, after, pages, opened, used, outcome,
                 earliest, eligible, limited, delivered, reason>>

\* Mutant: a file that has grown counts as changed.
SameSize(f) ==
  Len(disk[f]) = snapshot[f].file /\ Len(Last(disk[f])) = SnapshotSize(f)

\* open_snapshot_file: the file is the one of the snapshot and not shorter.
Unchanged(f) ==
  Len(disk[f]) = snapshot[f].file /\ Len(Last(disk[f])) >= SnapshotSize(f)

\* The head of the chunk loop.
OpenChunk ==
  /\ pc = "scan" /\ file \in Candidates /\ position < SnapshotSize(file)
  /\ \/ /\ used >= PageBudget
        /\ limited' = TRUE
        /\ pc' = "finish"
        /\ UNCHANGED <<disk, snapshot, events, cut, after, pages, file, opened, position, used,
                       outcome, earliest, eligible, delivered, reason>>
     \/ used < PageBudget /\ ~Unchanged(file) /\ FailPage
     \/ /\ used < PageBudget /\ Unchanged(file)
        /\ pc' = "opened"
        /\ opened' = Len(disk[file])
        /\ UNCHANGED <<disk, snapshot, events, cut, after, pages, file, position, used,
                       outcome, earliest, eligible, limited, delivered, reason>>

\* The blocking scan of the open file, from position on: it stops behind the
\* line of its last result, at the budget, or at the end of what is there.  All
\* its reads are one step, and of whole lines.  (A file cut off in the middle of
\* them may leave a piece of a line, which the scanner ends at the end of the
\* file: a result of a candidate in cut, which is not told from a whole line.)
ScanChunk ==
  LET rest == SnapshotSize(file) - position
      toRead == Min({rest, PageBudget - used})
      lines == disk[file][opened]
      end == Min({position + toRead, Len(lines)})
      hits == {n \in (position + 1)..end : lines[n].hit}
      full == {n \in hits : Cardinality({m \in hits : m <= n}) = ChunkResults}
      last == IF full = {} THEN end ELSE Min(full)
  IN  /\ pc = "opened"
      /\ pc' = "scanned"
      /\ outcome' =
           [hits |-> {Match(n, lines) : n \in {m \in hits : m <= last}},
            scanned |-> Max({last - position, 0}),
            stop |-> IF full # {} THEN "ResultLimit"
                     ELSE IF toRead = rest \/ end < position + toRead THEN "Complete"
                     ELSE "ScanByteLimit"]
      /\ UNCHANGED <<disk, snapshot, events, cut, after, pages, file, opened, position, used,
                     earliest, eligible, limited, delivered, reason>>

\* Where the candidate is scanned on: behind its end, once it is complete.
NewPosition ==
  IF outcome.stop = "Complete" THEN SnapshotSize(file) ELSE position + outcome.scanned

\* Mutant: the file is opened by its path, whatever is there.
ReopenUnchecked ==
  /\ pc = "scanned"
  /\ pc' = "filter"
  /\ opened' = IF file \in Timed /\ outcome.hits # {} THEN Len(disk[file]) ELSE 0
  /\ UNCHANGED <<disk, snapshot, events, cut, after, pages, file, position, used,
                 outcome, earliest, eligible, limited, delivered, reason>>

\* The head of process_matches: for its timestamps the file is opened once more.
ReopenFile ==
  LET timed == file \in Timed /\ outcome.hits # {}
  IN  /\ pc = "scanned"
      /\ \/ timed /\ ~Unchanged(file) /\ FailPage
         \/ /\ timed => Unchanged(file)
            /\ pc' = "filter"
            /\ opened' = IF timed THEN Len(disk[file]) ELSE 0
            /\ UNCHANGED <<disk, snapshot, events, cut, after, pages, file, position, used,
                           outcome, earliest, eligible, limited, delivered, reason>>

\* Its loop, one match after the other: the timestamp is read from the file as it
\* is now, and what is in the time range and behind the watermark joins the heap.
FilterMatch(m) ==
  LET k == Key(file, m, disk[file][opened])
      kept == IF InTimeRange(k) /\ Behind(k) THEN {k} ELSE {}
  IN  /\ pc = "filter"
      /\ \A other \in outcome.hits : m.line <= other.line
      /\ earliest' = KeepEarliest(earliest \cup kept)
      /\ eligible' = eligible + Cardinality(kept)
      /\ outcome' = [outcome EXCEPT !.hits = @ \ {m}]
      /\ UNCHANGED <<disk, snapshot, events, cut, pc, after, pages, file, opened, position,
                     used, limited, delivered, reason>>

\* The end of the chunk loop, all matches are filtered.
EndChunk ==
  LET spent == used + outcome.scanned
      stuck == /\ outcome.stop = "ScanByteLimit"
               /\ NewPosition < SnapshotSize(file)
               /\ spent >= PageBudget
  IN  /\ pc = "filter" /\ outcome.hits = {}
      /\ used' = spent
      /\ position' = NewPosition
      /\ outcome' = NoOutcome
      /\ opened' = 0
      /\ limited' = stuck
      /\ pc' = IF stuck THEN "finish" ELSE "scan"
      /\ UNCHANGED <<disk, snapshot, events, cut, after, pages, file, earliest, eligible,
                     delivered, reason>>

\* The deadline or the cancellation of the call, between two chunks or during
\* a scan.
Interrupt ==
  /\ pc \in {"scan", "opened"} /\ events < MaxEvents
  /\ events' = events + 1
  /\ pc' = "ready"
  /\ UNCHANGED <<disk, snapshot, cut, after, pages, page, delivered, reason>>

WithinCumulativeLimit(n) == n <= MaxPages

\* finish_page and the end of search: the page is returned, with a cursor if
\* results were held back by its own limits only.  The store refuses a cursor
\* that is not behind the one before, and the page fails.
FinishPage ==
  LET results == Fitting(Ranked(earliest))
      continued == /\ StopReason \in {"ResultLimit", "ReturnedContentByteLimit"}
                   /\ WithinCumulativeLimit(pages + 1)
                   /\ results # <<>>
  IN  /\ \/ pc = "finish"
         \/ pc = "scan" /\ file \notin Candidates
      /\ IF continued /\ ~Behind(Last(results))
         THEN FailPage
         ELSE /\ pages' = pages + 1
              /\ delivered' = delivered \o results
              /\ reason' = StopReason
              /\ after' = IF continued THEN Last(results) ELSE after
              /\ pc' = IF continued THEN "ready" ELSE "over"
              /\ UNCHANGED <<disk, snapshot, events, cut, page>>

-----------------------------------------------------------------------------
(***************************************************************************)
(* The programs that write the logs.                                       *)
(***************************************************************************)

Event ==
  /\ pc # "over" /\ events < MaxEvents
  /\ events' = events + 1
  /\ UNCHANGED <<snapshot, pc, after, pages, page, delivered, reason>>

Current(f) == Len(disk[f])

Write(f, l) ==
  /\ Event
  /\ disk' = [disk EXCEPT ![f][Current(f)] = Append(@, l)]
  /\ UNCHANGED cut

\* By rename: who has the file open keeps it.
Rotate(f) ==
  /\ Event
  /\ disk' = [disk EXCEPT ![f] = Append(@, <<>>)]
  /\ UNCHANGED cut

Truncate(f) ==
  /\ InPlace
  /\ Event
  /\ disk' = [disk EXCEPT ![f][Current(f)] = <<>>]
  /\ cut' = cut \cup {f}

Proceed ==
  \/ StartPage
  \/ NextCandidate
  \/ OpenChunk
  \/ ScanChunk
  \/ ReopenFile
  \/ \E m \in outcome.hits : FilterMatch(m)
  \/ EndChunk
  \/ FinishPage

Next ==
  \/ Proceed
  \/ Interrupt
  \/ \E f \in Candidates :
       \/ \E l \in Appended : Write(f, l)
       \/ Rotate(f)
       \/ Truncate(f)

Spec == Init /\ [][Next]_vars

\* The client calls again and its call is polled; the scan of a chunk returns.
FairSpec == Spec /\ WF_vars(Proceed)

-----------------------------------------------------------------------------
(***************************************************************************)
(* Properties.                                                             *)
(***************************************************************************)

\* The results a candidate has in the snapshot.
HitsOf(f) ==
  LET lines == snapshot[f].lines
  IN  {Key(f, Match(n, lines), lines) : n \in {m \in DOMAIN lines : lines[m].hit}}

\* Every result the search has.
Results == {k \in UNION {HitsOf(f) : f \in Candidates} : InTimeRange(k)}

\* The order in which it should return them.
Expected == Ranked(Results)

\* The files and their snapshot are sequences of lines; a page stays within its
\* candidates and its scan budget.
TypeOK ==
  /\ disk \in Seq(Seq(Seq(Lines)))
  /\ snapshot \in [Candidates -> [file : Nat \ {0}, lines : Seq(Lines)]]
  /\ pc \in {"ready", "scan", "opened", "scanned", "filter", "finish", "over"}
  /\ file \in 1..(Len(disk) + 1)
  /\ position \in Nat
  /\ used \in 0..PageBudget

\* While no candidate is cut off in place, the pages of a search, put together,
\* are a beginning of the sorted list of all its results: no result is missing
\* between two pages, none is returned twice, none is out of order, although
\* every page is scanned anew, in chunks and after failed attempts, from files
\* that grow and rotate.  Only a page that ran out of scan budget may leave gaps;
\* it says so, and it is the last one.
PagesFormOneList ==
  \/ cut # {}
  \/ reason = "ScanByteLimit" /\ pc = "over"
  \/ IsPrefix(delivered, Expected)

\* A page that is not marked truncated ends the list: all results have been
\* returned.
CompleteMeansAll == reason = "Complete" => delivered = Expected

\* So it is while no candidate is cut off in place.
CompleteUnlessCut == cut = {} => CompleteMeansAll

\* Every result is behind the one before it.
InOrder(results) == \A i \in 1..(Len(results) - 1) : Before(results[i], results[i + 1])

\* Whatever happens to the files between two opens, two reads or two pages, every
\* result has a greater key than the one returned before it.  And whatever
\* happens to the other candidates, those of a candidate that is not cut off are
\* results of its snapshot, with the timestamp their line had in it: so each is
\* returned once, also by a page that ran out of scan budget.  (A candidate that
\* is cut off between a scan and the reading of its timestamps returns lines
\* without time, and those of the time range are no longer told from others.)
SortedAndOnce ==
  /\ InOrder(delivered)
  /\ \A k \in ToSet(delivered) : k.file \notin cut => k \in Results

\* A client that follows the cursors and calls again after a failure reaches
\* the end of the search, unless a file of the snapshot has been replaced or
\* cut off: appends, interrupts and a used-up budget do not make it loop.
SearchEnds ==
  \/ <>(pc = "over")
  \/ <>[](\E f \in Candidates :
            Len(disk[f]) > snapshot[f].file \/ Len(Last(disk[f])) < SnapshotSize(f))

\* A search returns at most MaxPages pages, the absolute limit of
\* docs/M2_QUERY_STATE.md.  But the cursor is withheld only when the page that
\* was just scanned is beyond the limit, so the last allowed page has one.
PagesWithinHardLimit == pages <= MaxPages
=============================================================================
