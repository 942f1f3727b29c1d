----------------------------- MODULE MCScanner -----------------------------
(* Scanner on short texts, of two kinds: longer ones over two letters and   *)
(* newline for the matcher, shorter ones with both cases, returns and       *)
(* invalid bytes for previews, limits and continuations.                    *)
EXTENDS Scanner

CONSTANTS MatchText, PreviewText   \* bounds: the bytes of a text of each kind

StartHere == [offset |-> 7, line |-> 3]

RequestFor(keyword, sensitive, slack, maxResults, maxContent, maxScan) ==
  [keyword |-> keyword, sensitive |-> sensitive, maxLine |-> Len(keyword) + slack,
   maxResults |-> maxResults, maxContent |-> maxContent, maxScan |-> maxScan]

Keywords(letters, longest) == UNION {[1..n -> letters] : n \in 1..longest}

MatchRequests ==
  {RequestFor(k, c, s, 2, 20, 7) :
     k \in Keywords({"a", "b"}, 3), c \in BOOLEAN, s \in {0, 2}}

PreviewRequests ==
  {RequestFor(k, c, s, r, b, m) :
     k \in Keywords({"A"}, 2), c \in BOOLEAN, s \in {0, 1, 3},
     r \in {1, 2}, b \in {2, 6}, m \in {4, 9}}

AllRequests == MatchRequests \cup PreviewRequests

\* The texts that are read on, by the kind of the request.
Explored ==
  IF request.maxContent = 20
  THEN ToSet(text) \subseteq {"a", "b", Newline} /\ Len(text) <= MatchText
  ELSE ToSet(text) \subseteq {"a", "A", Newline, Return, Invalid} /\ Len(text) <= PreviewText
=============================================================================
