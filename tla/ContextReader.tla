--------------------------- MODULE ContextReader ---------------------------
(***************************************************************************)
(* read_referenced_context of src/src/context_reader.rs, as get_context of *)
(* src/src/stateful_context.rs runs it for a resolved match reference: the *)
(* lines before the match cut out of one window of bytes that ends at the  *)
(* line of the match, then that line and the ones after it read forward.   *)
(*                                                                         *)
(* The file (external) lives on while it is read: programs append to it,   *)
(* rewrite or truncate it in place, or put another file at its path.  A    *)
(* read returns any number of bytes, so a change may fall between any two. *)
(* The bounded copy of a line is computed from the whole line once it has  *)
(* been read; the interruption every 4 KiB is one at any byte.             *)
(***************************************************************************)
EXTENDS Integers, Sequences, FiniteSets, FiniteSetsExt, SequencesExt

CONSTANTS
  Bytes,        \* the bytes, of which few differ for the properties
  Texts,        \* what the file may hold when it is searched
  Written,      \* the bytes that programs write into it later
  Requests,     \* the keyword of the reference, the lines asked for, the limits
  MaxAppends,   \* bound: bytes appended
  MaxRewrites,  \* bound: bytes rewritten in place and truncations
  None

Newline == "newline"
Return == "return"
Invalid == "invalid"                       \* a byte that is not UTF-8
Replacement == <<"fffd", "cont", "cont">>  \* the character that replaces it
Continuation == "cont"

Errors == {"FileChanged", "SourceRegistry", "MatchLineScanLimit", "MatchOutsideScanBudget",
           "Interrupted"}

ASSUME BoundAssumption == MaxAppends \in Nat /\ MaxRewrites \in Nat

ASSUME TextsAssumption ==
  /\ Texts \subseteq Seq(Bytes) /\ Written \subseteq Bytes
  /\ Bytes \cap ToSet(Replacement) = {}

\* ContextReadLimits::validate, and a keyword that the search accepted.
ASSUME RequestsAssumption ==
  /\ Requests \subseteq
       [keyword : Seq(Bytes \ {Newline, Return, Invalid}) \ {<<>>}, sensitive : BOOLEAN,
        before : Nat, after : Nat, maxLine : Nat, maxContent : Nat,
        maxBefore : Nat \ {0}, maxForward : Nat \ {0}]
  /\ \A r \in Requests : Len(r.keyword) <= r.maxLine /\ r.maxLine <= r.maxContent

ASSUME NoneAssumption == None \notin Errors

VARIABLES
  bytes,     \* the searched file, read by whoever has it open
  rotated,   \* another file, or none, is at its path
  appends, rewrites,
  request,
  ref,       \* MatchReferenceData: line_start_offset, match_byte_offset and so on
  phase,
  opened,    \* history: what the file held when it was opened, and `rewrites`
  window,    \* the bytes read for the lines before the match
  before,    \* BeforeRead
  pos,       \* the offset of the forward read
  raw,       \* the line being read forward
  taken,     \* the match line and the lines after it
  error,     \* the error answered, None if there is none
  result     \* ContextReadOutcome

file == <<bytes, rotated, appends, rewrites>>
reading == <<window, before, pos, raw, taken>>
vars == <<file, request, ref, phase, opened, reading, error, result>>

-----------------------------------------------------------------------------
(***************************************************************************)
(* Lines of a text; a line is named by the offset at which it starts.      *)
(***************************************************************************)

Newlines(t) == {i \in DOMAIN t : t[i] = Newline}

\* No line starts at the end of the text.
Starts(t) == {s \in {0} \cup Newlines(t) : s < Len(t)}

NumberOf(t, s) == 1 + Cardinality({i \in Newlines(t) : i <= s})

EndOf(t, s) == Min({i - 1 : i \in {j \in Newlines(t) : j > s}} \cup {Len(t)})

LineOf(t, s) == SubSeq(t, s + 1, EndOf(t, s))

Fold(byte, sensitive) == IF ~sensitive /\ byte = "M" THEN "m" ELSE byte

\* find_folded_subslice: where the keyword of r occurs in t.
Occurrences(t, r) ==
  {i \in 0..(Len(t) - Len(r.keyword)) :
     \A j \in DOMAIN r.keyword :
       Fold(t[i + j], r.sensitive) = Fold(r.keyword[j], r.sensitive)}

\* The references a search of t for the keyword of r gives out.
References(t, r) ==
  {[start |-> s, match |-> s + Min(Occurrences(LineOf(t, s), r)),
    number |-> NumberOf(t, s), size |-> Len(t)] :
     s \in {u \in Starts(t) : Occurrences(LineOf(t, u), r) # {}}}

-----------------------------------------------------------------------------
(***************************************************************************)
(* How a line is shown.                                                    *)
(***************************************************************************)

\* String::from_utf8_lossy, in bytes.
Convert(piece) ==
  FlattenSeq([i \in DOMAIN piece |->
                IF piece[i] = Invalid THEN Replacement ELSE <<piece[i]>>])

IsBoundary(t, i) == i = Len(t) \/ t[i + 1] # Continuation

\* How far before an occurrence a text of at most maxLine bytes starts.
Lead == (request.maxLine - Len(request.keyword)) \div 2

\* Mutant: the text is cut at its start, wherever the keyword is.
CutFromStart(t, isMatch) == 0

\* Where bounded_text begins to cut: around the keyword in the line of a match.
CutFrom(t, isMatch) ==
  LET hits == Occurrences(t, request) IN
    IF isMatch /\ hits # {} THEN Max({0, Min(hits) - Lead}) ELSE 0

\* bounded_text, on whole characters.  That it holds the keyword needs no second
\* correction of `from`, which the code has.
BoundedText(t, isMatch) ==
  IF Len(t) <= request.maxLine THEN t
  ELSE LET from == Min({i \in CutFrom(t, isMatch)..Len(t) : IsBoundary(t, i)})
           end == Max({i \in from..Min({from + request.maxLine, Len(t)}) : IsBoundary(t, i)})
       IN  SubSeq(t, from + 1, end)

WithoutReturn(line) ==
  IF line # <<>> /\ Last(line) = Return THEN Front(line) ELSE line

\* `ended` is history: a newline ended the line, not the end of the file.
ContextLine(number, line, piece, whole, isMatch, ended) ==
  LET text == Convert(piece)
      content == BoundedText(text, isMatch)
  IN  [number |-> number, content |-> content, truncated |-> ~whole \/ content # text,
       bytes |-> Len(line), isMatch |-> isMatch, ended |-> ended]

\* context_line_from_bytes
BeforeLine(number, line) ==
  LET display == WithoutReturn(line)
      shown == Min({Len(display), request.maxLine})
  IN  ContextLine(number, line, SubSeq(display, 1, shown), shown = Len(display), FALSE, TRUE)

\* RawLine::into_context_line of a preview that read_line has cut.
ForwardLine(number, line, isMatch, ended) ==
  LET from == IF isMatch THEN Max({0, ref.match - ref.start - Lead}) ELSE 0
      preview == SubSeq(line, from + 1, Min({from + request.maxLine, Len(line)}))
      toEnd == from + Len(preview) = Len(line)
  IN  ContextLine(number, line, IF toEnd THEN WithoutReturn(preview) ELSE preview,
                  from = 0 /\ toEnd, isMatch, ended)

-----------------------------------------------------------------------------
(***************************************************************************)
(* The read.                                                               *)
(***************************************************************************)

NoLines == [lines |-> <<>>, truncated |-> FALSE]

NoResult == [lines |-> <<>>, beforeTruncated |-> FALSE, afterTruncated |-> FALSE,
             truncated |-> FALSE]

Init ==
  /\ request \in Requests
  /\ bytes \in Texts
  /\ ref \in References(bytes, request)
  /\ rotated = FALSE /\ appends = 0 /\ rewrites = 0
  /\ phase = "Called" /\ opened = [bytes |-> <<>>, rewrites |-> 0]
  /\ window = <<>> /\ before = NoLines
  /\ pos = ref.start /\ raw = <<>> /\ taken = <<>>
  /\ error = None /\ result = NoResult

Refuse(reason) ==
  /\ error' = reason /\ phase' = "Done"
  /\ UNCHANGED <<before, pos, raw, taken, result>>

\* Mutant: any change of the size is taken for a change of the file.
OtherSize == Len(bytes) # ref.size

Shrunk == Len(bytes) < ref.size

\* read_referenced_context up to the calls that read; a directory without the
\* file, or with one that may not be read, is an error of the source.
Open ==
  /\ phase = "Called"
  /\ opened' = [bytes |-> bytes, rewrites |-> rewrites]
  /\ UNCHANGED <<file, request, ref, window>>
  /\ IF rotated THEN Refuse("FileChanged") \/ Refuse("SourceRegistry")
     ELSE IF Shrunk THEN Refuse("FileChanged")
     ELSE /\ phase' = IF request.before = 0 \/ ref.start = 0 THEN "Forward" ELSE "Before"
          /\ UNCHANGED <<before, pos, raw, taken, error, result>>

WindowStart == ref.start - Min({ref.start, request.maxBefore})

\* The byte before the window is read too, if there is one.
ReadFrom == Max({0, WindowStart - 1})

\* Mutant: the window is taken to start with a line.
AlwaysAligned(w) == TRUE

Aligned(w) == WindowStart = 0 \/ w[1] = Newline

\* Mutant: only an empty window is called truncated.
NoneTruncated(actual) == actual = 0 /\ WindowStart > 0

BeforeTruncated(actual) == actual < request.before /\ WindowStart > 0

\* The bytes of the window, without the one before it.
Block(w) == IF WindowStart = 0 THEN w ELSE Tail(w)

\* Where the first line that starts in the window does.
FirstFull(w) == IF Aligned(w) THEN 0 ELSE Min(Newlines(Block(w)))

Ends(w) == {i \in Newlines(Block(w)) : i > FirstFull(w)}

\* The ends of the lines that are kept, the last ones.
Kept(w) == {i \in Ends(w) : Cardinality({j \in Ends(w) : j >= i}) <= request.before}

KeptLine(w, k) ==
  LET end == CHOOSE e \in Kept(w) : Cardinality({j \in Kept(w) : j <= e}) = k
      start == Max({FirstFull(w)} \cup {j \in Ends(w) : j < end})
  IN  SubSeq(Block(w), start + 1, end - 1)

CutWindow(w) ==
  LET actual == Cardinality(Kept(w)) IN
    IF Last(Block(w)) # Newline \/ ref.number < actual
    THEN Refuse("FileChanged")
    ELSE /\ before' = [lines |-> [k \in 1..actual |->
                                    BeforeLine(ref.number - actual + k - 1, KeptLine(w, k))],
                       truncated |-> BeforeTruncated(actual)]
         /\ phase' = "Forward"
         /\ UNCHANGED <<pos, raw, taken, error, result>>

\* A byte of the window; the last one lets the lines be cut.
ReadBefore ==
  /\ phase = "Before"
  /\ UNCHANGED <<file, request, ref, opened>>
  /\ LET at == ReadFrom + Len(window) + 1 IN
       IF at > Len(bytes)
       THEN Refuse("FileChanged") /\ UNCHANGED window
       ELSE /\ window' = Append(window, bytes[at])
            /\ IF at = ref.start THEN CutWindow(window')
               ELSE UNCHANGED <<phase, before, pos, raw, taken, error, result>>

\* The content of the first lines together, for each number of them.
SizesOf(lines) ==
  LET sum[k \in 0..Len(lines)] ==
        IF k = 0 THEN 0 ELSE sum[k - 1] + Len(lines[k].content)
  IN  sum

SizeOf(lines) == SizesOf(lines)[Len(lines)]

\* How many of the lines, the first ones of the sequence, fit beside `used`.
Fitting(lines, used) ==
  Max({k \in 0..Len(lines) : used + SizesOf(lines)[k] <= request.maxContent})

\* read_context once both reads are done: the match line, the lines before it
\* from the nearest, then the lines after it, as far as the content may go.
Finish(all, spent) ==
  LET kept == Fitting(Reverse(before.lines), SizeOf(<<Head(all)>>))
      head == SubSeq(before.lines, Len(before.lines) - kept + 1, Len(before.lines))
                \o <<Head(all)>>
      more == Fitting(Tail(all), SizeOf(head))
      lines == head \o SubSeq(Tail(all), 1, more)
      noBefore == before.truncated \/ kept < Len(before.lines)
      noAfter == spent \/ more < Len(all) - 1
  IN  /\ result' = [lines |-> lines, beforeTruncated |-> noBefore, afterTruncated |-> noAfter,
                    truncated |-> noBefore \/ noAfter \/ \E l \in ToSet(lines) : l.truncated]
      /\ phase' = "Done"
      /\ UNCHANGED <<before, error>>

InMatchLine == taken = <<>>

Relative == ref.match - ref.start

KeywordSeen == Len(raw) >= Relative + Len(request.keyword)

\* Mutant: a byte more than the budget.
BudgetAndOne == request.maxForward + 1 - (pos - ref.start)

\* remaining_scan_bytes
Budget == request.maxForward - (pos - ref.start)

Forward == phase = "Forward" /\ UNCHANGED <<file, request, ref, opened, window>>

\* read_line returns LineRead::Complete and the next line is read, if one is asked for.
Complete(ended) ==
  LET number == ref.number + Len(taken)
      all == Append(taken, ForwardLine(number, raw, InMatchLine, ended))
  IN  IF InMatchLine /\ ~KeywordSeen
      THEN Refuse("FileChanged")
      ELSE /\ taken' = all /\ raw' = <<>>
           /\ pos' = IF ended THEN pos + 1 ELSE pos
           /\ IF Len(all) = request.after + 1 THEN Finish(all, FALSE)
              ELSE UNCHANGED <<phase, before, error, result>>

\* Mutant: the keyword is not compared.
NoMismatch(byte) == FALSE

\* The byte is one of the keyword's and has another value.
Mismatch(byte) ==
  LET j == Len(raw) - Relative + 1 IN
    /\ InMatchLine /\ j \in DOMAIN request.keyword
    /\ Fold(byte, request.sensitive) # Fold(request.keyword[j], request.sensitive)

ReadByte ==
  /\ Forward /\ Budget > 0 /\ pos < Len(bytes) /\ bytes[pos + 1] # Newline
  /\ IF Mismatch(bytes[pos + 1])
     THEN Refuse("FileChanged")
     ELSE /\ raw' = Append(raw, bytes[pos + 1]) /\ pos' = pos + 1
          /\ UNCHANGED <<phase, before, taken, error, result>>

ReadNewline ==
  /\ Forward /\ Budget > 0 /\ pos < Len(bytes) /\ bytes[pos + 1] = Newline
  /\ Complete(TRUE)

\* fill_buf finds the end of the file: it ends a line that has bytes.
ReadEnd ==
  /\ Forward /\ Budget > 0 /\ pos >= Len(bytes)
  /\ IF raw # <<>> THEN Complete(FALSE)
     ELSE IF InMatchLine THEN Refuse("FileChanged")
     ELSE Finish(taken, FALSE) /\ UNCHANGED <<pos, raw, taken>>

BudgetSpent ==
  /\ Forward /\ Budget = 0
  /\ IF InMatchLine
     THEN Refuse(IF KeywordSeen THEN "MatchLineScanLimit" ELSE "MatchOutsideScanBudget")
     ELSE Finish(taken, TRUE) /\ UNCHANGED <<pos, raw, taken>>

\* check_interrupted, or a read that fails: one error stands for the three.
Interrupt ==
  /\ phase # "Done"
  /\ Refuse("Interrupted")
  /\ UNCHANGED <<file, request, ref, opened, window>>

-----------------------------------------------------------------------------
(***************************************************************************)
(* Programs that write the file, as long as it is of interest.             *)
(***************************************************************************)

Others == phase # "Done" /\ UNCHANGED <<request, ref, phase, opened, reading, error, result>>

AppendByte ==
  /\ Others /\ appends < MaxAppends
  /\ \E b \in Written : bytes' = Append(bytes, b)
  /\ appends' = appends + 1
  /\ UNCHANGED <<rotated, rewrites>>

Rewrite ==
  /\ Others /\ rewrites < MaxRewrites
  /\ \E i \in DOMAIN bytes : \E b \in Written \ {bytes[i]} : bytes' = [bytes EXCEPT ![i] = b]
  /\ rewrites' = rewrites + 1
  /\ UNCHANGED <<rotated, appends>>

Truncate ==
  /\ Others /\ rewrites < MaxRewrites
  /\ \E n \in 0..(Len(bytes) - 1) : bytes' = SubSeq(bytes, 1, n)
  /\ rewrites' = rewrites + 1
  /\ UNCHANGED <<rotated, appends>>

Rotate ==
  /\ Others /\ ~rotated
  /\ rotated' = TRUE
  /\ UNCHANGED <<bytes, appends, rewrites>>

Next ==
  \/ Open
  \/ ReadBefore
  \/ ReadByte
  \/ ReadNewline
  \/ ReadEnd
  \/ BudgetSpent
  \/ Interrupt
  \/ AppendByte
  \/ Rewrite
  \/ Truncate
  \/ Rotate

Spec == Init /\ [][Next]_vars

-----------------------------------------------------------------------------
(***************************************************************************)
(* Properties.                                                             *)
(***************************************************************************)

Answered == phase = "Done" /\ error = None

TypeOK ==
  /\ request \in Requests
  /\ rotated \in BOOLEAN /\ appends \in 0..MaxAppends /\ rewrites \in 0..MaxRewrites
  /\ phase \in {"Called", "Before", "Forward", "Done"}
  /\ error \in Errors \cup {None}
  /\ Len(window) <= request.maxBefore + 1
  /\ Len(before.lines) <= request.before
  /\ pos - ref.start \in 0..request.maxForward
  /\ Len(taken) <= request.after + 1

\* The line l is the line of that number in the file, or a piece of it: the
\* whole if it is not called truncated, but for the return of its end.
ShownAsInFile(l) ==
  \E s \in Starts(bytes) :
    LET line == IF l.ended THEN LineOf(bytes, s) ELSE SubSeq(LineOf(bytes, s), 1, l.bytes)
    IN  /\ NumberOf(bytes, s) = l.number
        /\ l.bytes = Len(line)
        /\ \E i \in 0..(Len(Convert(line)) - Len(l.content)) :
             l.content = SubSeq(Convert(line), i + 1, i + Len(l.content))
        /\ ~l.truncated => l.content = Convert(WithoutReturn(line))

\* A log that is only appended to is shown as it is: every line has the number
\* and the text it has in the file, whatever the window, its alignment and the
\* limits, up to the first line that the end of the file ended: bytes appended
\* to that line while it is read are shown as the line after it.
ContextAsInFile ==
  Answered /\ rewrites = 0 =>
    \A i \in DOMAIN result.lines :
      (\A j \in 1..(i - 1) : result.lines[j].ended) => ShownAsInFile(result.lines[i])

\* Lines are missing before the match exactly when the answer says so, and none
\* is missing after it unless the answer says so.
NothingHidden ==
  Answered /\ appends = 0 /\ rewrites = 0 =>
    /\ result.beforeTruncated <=>
         Head(result.lines).number > Max({1, ref.number - request.before})
    /\ ~result.afterTruncated =>
         Last(result.lines).number =
           Min({ref.number + request.after, Cardinality(Starts(bytes))})

\* Whatever was done to the file, an answer shows the keyword in the line of the
\* match, also after invalid bytes grew when they were replaced, and keeps to
\* the limits of a line and of the whole content.
KeywordVisible ==
  Answered =>
    /\ \E l \in ToSet(result.lines) : l.isMatch /\ Occurrences(l.content, request) # {}
    /\ \A l \in ToSet(result.lines) : Len(l.content) <= request.maxLine
    /\ SizeOf(result.lines) <= request.maxContent

\* A file that was replaced, cut short or rewritten at the keyword before it was
\* opened gives no context; neither does one whose match line does not start
\* after a newline any more, if lines before it are asked for.
StaleRefused ==
  Answered /\ rewrites = opened.rewrites =>
    LET found == opened.bytes IN
      /\ Len(found) >= ref.size
      /\ ref.match - ref.start \in
           Occurrences(SubSeq(found, ref.start + 1, Len(found)), request)
      /\ request.before > 0 /\ ref.start > 0 => found[ref.start] = Newline

\* A log that is only appended to and stays at its path is never called changed.
NoFalseAlarm == error = "FileChanged" => rewrites > 0 \/ rotated

=============================================================================
