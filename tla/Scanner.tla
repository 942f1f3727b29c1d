------------------------------- MODULE Scanner -------------------------------
(***************************************************************************)
(* scan_reader of src/src/scanner.rs: one pass over the bytes of a file,   *)
(* a literal keyword found by a KMP automaton, one result per line, and    *)
(* for each a preview cut out of the line in bounded memory.               *)
(*                                                                         *)
(* The reader (external) hands out any byte next, ends or fails at any     *)
(* point; `text` is what it has handed out.  A read returns any number of  *)
(* bytes, so the buffer is left out and the checks the code makes between  *)
(* two reads may happen between any two bytes.                             *)
(***************************************************************************)
EXTENDS Integers, Sequences, FiniteSets, FiniteSetsExt, SequencesExt

CONSTANTS
  Bytes,      \* the bytes of the input: newline, some of a, A, b, return, invalid
  Requests,   \* the scan requests that validate() accepts
  Start,      \* [offset, line]: where the caller has placed the reader
  MaxBytes,   \* bound: the reader ends after so many bytes
  None

Newline == "newline"
Return == "return"
Invalid == "invalid"   \* a byte that is not UTF-8: three bytes once replaced

ASSUME BytesAssumption ==
  Newline \in Bytes /\ Bytes \subseteq {"a", "A", "b", Newline, Return, Invalid}
ASSUME StartAssumption == Start \in [offset : Nat, line : Nat \ {0}]
ASSUME RequestsAssumption ==
  \A r \in Requests :
    /\ r.keyword \in Seq(Bytes) /\ r.sensitive \in BOOLEAN /\ r.maxLine \in Nat
    /\ r.keyword # <<>> /\ ToSet(r.keyword) \cap {Newline, Return} = {}
    /\ Len(r.keyword) <= r.maxLine
    /\ {r.maxResults, r.maxContent, r.maxScan} \subseteq Nat \ {0}
ASSUME BoundAssumption == MaxBytes \in Nat

Interrupts == {"Cancelled", "DeadlineExceeded"}
Reasons ==
  Interrupts \cup {"Io", "Complete", "ResultLimit", "ScanByteLimit", "ReturnedContentByteLimit"}
Positions == [offset : Nat, line : Nat]

ASSUME NoneAssumption == None \notin Nat \cup Reasons \cup Positions

VARIABLES
  request,   \* keyword, case_sensitive, max_line_bytes and the other limits
  text,      \* the bytes read: bytes_scanned is their number
  lines,     \* lines_scanned
  line,      \* LineCapture
  results,
  returned,  \* returned_content_bytes
  stop,      \* the stop reason, None while the loop runs
  next       \* next_position of the outcome

vars == <<request, text, lines, line, results, returned, stop, next>>

-----------------------------------------------------------------------------
(***************************************************************************)
(* The matcher.                                                            *)
(***************************************************************************)

Fold(byte, sensitive) == IF ~sensitive /\ byte = "A" THEN "a" ELSE byte

Pattern(r) == [i \in DOMAIN r.keyword |-> Fold(r.keyword[i], r.sensitive)]

\* The longest state from s down the failure links that the byte extends.
FallBack(p, failure, s, byte) ==
  LET down[k \in 0..s] ==
        IF k > 0 /\ p[k + 1] # byte THEN down[failure[k]] ELSE k
  IN  down[s]

\* Mutant: a matcher that starts over on a mismatch.
StartOver(p, failure, s, byte) == IF p[s + 1] = byte THEN s + 1 ELSE 0

Step(p, failure, s, byte) ==
  LET k == FallBack(p, failure, s, byte) IN IF p[k + 1] = byte THEN k + 1 ELSE 0

\* build_failure_table
FailureTable(p) ==
  LET table[i \in DOMAIN p] ==
        IF i = 1 THEN 0 ELSE Step(p, table, table[i - 1], p[i])
  IN  table

-----------------------------------------------------------------------------
(***************************************************************************)
(* LineCapture.                                                            *)
(***************************************************************************)

NoLine(position) ==
  [number |-> position.line, start |-> position.offset, bytes |-> 0, state |-> 0,
   window |-> <<>>, preview |-> <<>>, previewStart |-> 0, match |-> None]

WindowCapacity(r) == ((r.maxLine - Len(r.keyword)) \div 2) + Len(r.keyword)

\* Mutant: the window keeps one byte too many.
SlideWide(r, window, byte) ==
  Append(IF Len(window) > WindowCapacity(r) THEN Tail(window) ELSE window, byte)

Slide(r, window, byte) ==
  Append(IF Len(window) = WindowCapacity(r) THEN Tail(window) ELSE window, byte)

\* push_byte, with absolute_offset the place of the byte in the file.
Push(l, byte, offset) ==
  LET p == Pattern(request)
      window == Slide(request, l.window, byte)
      s == Step(p, FailureTable(p), l.state, Fold(byte, request.sensitive))
      read == [l EXCEPT !.bytes = @ + 1]
  IN  IF l.match # None
      THEN IF Len(l.preview) < request.maxLine
           THEN [read EXCEPT !.preview = Append(@, byte)]
           ELSE read
      ELSE IF s = Len(p)
      THEN [read EXCEPT !.window = window,
                        !.state = FailureTable(p)[s],
                        !.match = offset + 1 - Len(p),
                        !.previewStart = read.bytes - Len(window),
                        !.preview = window]
      ELSE [read EXCEPT !.window = window, !.state = s]

CoversLineEnd(l) == l.previewStart + Len(l.preview) = l.bytes

\* Mutant: the return counts as part of the line.
ContentWithReturn(l) == l.preview

\* take_match drops the return of a line end in the preview.
Content(l) ==
  IF CoversLineEnd(l) /\ l.preview # <<>> /\ Last(l.preview) = Return
  THEN Front(l.preview)
  ELSE l.preview

ScanMatch(l) ==
  [number |-> l.number, start |-> l.start, match |-> l.match, bytes |-> l.bytes,
   content |-> Content(l), truncated |-> l.previewStart > 0 \/ ~CoversLineEnd(l)]

\* The length of the content as a String: an invalid byte is replaced.
Size(content) ==
  Len(content) + 2 * Cardinality({i \in DOMAIN content : content[i] = Invalid})

\* Mutant: a chunk that counts on valid UTF-8.
ChunkOfValidUtf8(maxLine, maxContent, maxScanResults) ==
  Max({1, Min({maxContent \div maxLine, maxScanResults})})

\* chunk_result_limit of the query engines: how many results a scan may return
\* so that its content budget can never stop it.
ChunkResultLimit(maxLine, maxContent, maxScanResults) ==
  Max({1, Min({maxContent \div (3 * maxLine), maxScanResults})})

-----------------------------------------------------------------------------
(***************************************************************************)
(* The loop.                                                               *)
(***************************************************************************)

Init ==
  /\ request \in Requests
  /\ text = <<>>
  /\ lines = 0
  /\ line = NoLine(Start)
  /\ results = <<>>
  /\ returned = 0
  /\ stop = None
  /\ next = None

\* Mutant: the position forgets where the reader was placed.
PositionFromZero(scanned, count) == [offset |-> scanned, line |-> 1 + count]

\* position_after_lines
PositionAfter(scanned, count) ==
  [offset |-> Start.offset + scanned, line |-> Start.line + count]

\* Mutant: a boundary in the middle of a line.
BoundaryAnywhere(scanned, count) == PositionAfter(scanned, count)

\* boundary_position
Boundary(scanned, count) ==
  IF line.bytes > 0 THEN None ELSE PositionAfter(scanned, count)

\* Mutant: the content budget is looked at before the line is added to it.
OverLate(l) == returned > request.maxContent

\* The line does not fit into the content budget any more.
Over(l) == returned + Size(Content(l)) > request.maxContent

\* finish_line: the reason to stop after this line, None to go on.
FinishReason(l) ==
  IF l.match = None THEN None
  ELSE IF Over(l) THEN "ReturnedContentByteLimit"
  ELSE IF Len(results) + 1 >= request.maxResults THEN "ResultLimit"
  ELSE IF returned + Size(Content(l)) >= request.maxContent THEN "ReturnedContentByteLimit"
  ELSE None

FinishLine ==
  IF line.match = None \/ Over(line)
  THEN UNCHANGED <<results, returned>>
  ELSE /\ results' = Append(results, ScanMatch(line))
       /\ returned' = returned + Size(Content(line))

\* The check before a read: the loop reads on, within its byte budget.
Reading == stop = None /\ Len(text) < request.maxScan

\* A byte inside a line.
ReadByte(byte) ==
  /\ Reading /\ byte # Newline
  /\ text' = Append(text, byte)
  /\ line' = Push(line, byte, Start.offset + Len(text))
  /\ UNCHANGED <<request, lines, results, returned, stop, next>>

\* The newline that ends a line.
ReadNewline ==
  /\ Reading
  /\ text' = Append(text, Newline)
  /\ lines' = lines + 1
  /\ FinishLine
  /\ stop' = FinishReason(line)
  /\ LET position == PositionAfter(Len(text'), lines') IN
       IF stop' = None
       THEN line' = NoLine(position) /\ UNCHANGED next
       ELSE next' = position /\ UNCHANGED line
  /\ UNCHANGED request

\* The reader is at its end, which may end a last line without newline.
ReadEnd ==
  /\ Reading
  /\ IF line.bytes = 0
     THEN stop' = "Complete" /\ UNCHANGED <<lines, results, returned>>
     ELSE /\ lines' = lines + 1
          /\ FinishLine
          /\ stop' = IF FinishReason(line) = None THEN "Complete" ELSE FinishReason(line)
  /\ UNCHANGED <<request, text, line, next>>

\* The reader fails: the results are not returned.
ReadFails ==
  /\ Reading
  /\ stop' = "Io"
  /\ results' = <<>>
  /\ UNCHANGED <<request, text, lines, line, returned, next>>

StopWith(reason) ==
  /\ stop = None
  /\ stop' = reason
  /\ next' = Boundary(Len(text), lines)
  /\ UNCHANGED <<request, text, lines, line, results, returned>>

Interrupt == \E reason \in Interrupts : StopWith(reason)

BudgetSpent == Len(text) >= request.maxScan /\ StopWith("ScanByteLimit")

Next ==
  \/ Len(text) < MaxBytes /\ \E byte \in Bytes \ {Newline} : ReadByte(byte)
  \/ Len(text) < MaxBytes /\ ReadNewline
  \/ ReadEnd
  \/ ReadFails
  \/ Interrupt
  \/ BudgetSpent

Spec == Init /\ [][Next]_vars

-----------------------------------------------------------------------------
(***************************************************************************)
(* What the scan should find, said of the whole text at once: an offset    *)
(* into the text stands for the line that starts there.                    *)
(***************************************************************************)

Newlines == {i \in DOMAIN text : text[i] = Newline}

Starts == {0} \cup Newlines

\* The offset at which the line of s ends.
EndOf(s) == Min({i - 1 : i \in {j \in Newlines : j > s}} \cup {Len(text)})

LineOf(s) == SubSeq(text, s + 1, EndOf(s))

\* The offsets at which the keyword occurs in the line of s.
Occurrences(s) ==
  LET p == Pattern(request) IN
    {i \in s..(EndOf(s) - Len(p)) :
       \A j \in DOMAIN p : Fold(text[i + j], request.sensitive) = p[j]}

ReachedEnd ==
  next = None /\ stop \in {"Complete", "ResultLimit", "ReturnedContentByteLimit"}

\* The lines that have been scanned to their end and contain the keyword.
MatchingLines ==
  {s \in Starts : /\ Occurrences(s) # {}
                  /\ EndOf(s) < Len(text) \/ ReachedEnd}

Found == {m.start - Start.offset : m \in ToSet(results)}
InOrder == \A i, j \in DOMAIN results : i < j => results[i].start < results[j].start

-----------------------------------------------------------------------------
(***************************************************************************)
(* Properties.                                                             *)
(***************************************************************************)

TypeOK ==
  /\ request \in Requests
  /\ text \in Seq(Bytes)
  /\ lines \in 0..Len(text)
  /\ line.state \in 0..(Len(request.keyword) - 1)
  /\ Len(line.window) <= WindowCapacity(request)
  /\ returned \in Nat
  /\ stop \in Reasons \cup {None}
  /\ next \in Positions \cup {None}

\* The results are the lines that contain the keyword, each once and in order,
\* whatever the bytes, the reads and the interrupt: the automaton misses no
\* occurrence and carries none over a line end.  One line may be missing at
\* the end, the one that broke the content budget.
ResultsExact ==
  stop # "Io" =>
    /\ InOrder
    /\ \/ Found = MatchingLines
       \/ /\ stop = "ReturnedContentByteLimit"
          /\ \E s \in MatchingLines :
               Found = MatchingLines \ {s} /\ \A other \in Found : other < s

\* A result tells where its line and the first occurrence in it are, counted
\* from the start of the file also when the scan started further on: what a
\* match reference later opens the context with.
PlacesExact ==
  \A m \in ToSet(results) :
    LET s == m.start - Start.offset IN
      /\ m.number = Start.line + Cardinality({i \in Newlines : i <= s})
      /\ m.match = Start.offset + Min(Occurrences(s))
      /\ m.bytes = Len(LineOf(s))

\* The preview of a line is a piece of it that holds the first occurrence and
\* fits max_line_bytes; one that is not called truncated is the whole line but
\* for the return of its end.
PreviewFaithful ==
  \A m \in ToSet(results) :
    LET s == m.start - Start.offset
        first == Min(Occurrences(s)) - s
    IN  /\ Len(m.content) <= request.maxLine
        /\ \E from \in 0..first :
             /\ from + Len(m.content) >= first + Len(request.keyword)
             /\ m.content = SubSeq(LineOf(s), from + 1, from + Len(m.content))
        /\ ~m.truncated =>
             m.content = IF Last(LineOf(s)) = Return THEN Front(LineOf(s)) ELSE LineOf(s)

\* A continuation is given exactly when the scan stopped between two lines with
\* bytes left to read, and it names the line that follows by offset and number.
ContinuationOnLineStart ==
  /\ next # None =>
       /\ next.offset = Start.offset + Len(text)
       /\ Len(text) \in Starts
       /\ next.line = Start.line + Cardinality(Newlines)
  /\ stop \in Interrupts \cup {"ScanByteLimit"} /\ next = None => Len(text) \notin Starts

\* The results and their content stay within the limits of the request.
LimitsRespected ==
  /\ Len(results) <= request.maxResults
  /\ returned <= request.maxContent
  /\ stop # "Io" => returned = FoldSeq(LAMBDA m, sum : Size(m.content) + sum, 0, results)

\* The requests of the query engines: their content budget is always 16 MiB,
\* and the configuration allows lines of 1 MiB at most.
ChunkRequest ==
  /\ 3 * request.maxLine <= request.maxContent
  /\ request.maxResults <=
       ChunkResultLimit(request.maxLine, request.maxContent, request.maxResults)

\* A scan with the result limit of the query engines can be continued without
\* missing a line: whatever matched before the continuation is among the
\* results, for the content budget never stops such a scan.
ChunksLoseNoMatch ==
  ChunkRequest /\ next # None => Found = MatchingLines

=============================================================================
