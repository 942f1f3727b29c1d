-------------------------- MODULE MCContextReader --------------------------
(* ContextReader on short texts: all texts over Letters of up to MaxText    *)
(* bytes and some odd ones, with wide limits and with each of them tight.   *)
EXTENDS ContextReader

CONSTANTS Letters, MaxText, Lines

ShortTexts == UNION {[1..n -> Letters] : n \in 1..MaxText}

\* Returns, invalid bytes, a keyword in capitals and lines that are too long.
Odd ==
  {<<"x", "return", "newline", "invalid", "M", "return", "newline", "x">>,
   <<"invalid", "invalid", "m", "invalid", "x">>,
   <<"x", "newline", "x", "return", "newline", "m", "newline", "x">>,
   <<"x", "x", "newline", "x", "x", "m", "x", "newline", "x", "x", "return">>}

AllTexts == ShortTexts \cup Odd

Wide ==
  [keyword |-> <<"m">>, sensitive |-> FALSE, before |-> 0, after |-> 0,
   maxLine |-> 4, maxContent |-> 20, maxBefore |-> 10, maxForward |-> 20]

Limits ==
  {Wide,
   [Wide EXCEPT !.maxLine = 1],
   [Wide EXCEPT !.maxLine = 3, !.maxContent = 3],
   [Wide EXCEPT !.maxBefore = 2],
   [Wide EXCEPT !.maxForward = 3],
   [Wide EXCEPT !.maxLine = 2, !.maxContent = 4, !.maxBefore = 1, !.maxForward = 4]}

AllRequests ==
  {[l EXCEPT !.before = n[1], !.after = n[2]] : l \in Limits, n \in Lines}

FewAndMany == {<<0, 1>>, <<2, 0>>, <<2, 2>>}
=============================================================================
