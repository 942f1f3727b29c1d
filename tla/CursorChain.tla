---------------------------- MODULE CursorChain ----------------------------
(***************************************************************************)
(* What the cursor store promises its callers, without clock, capacity,    *)
(* queue or lock: a cursor is a linear token.  It is issued once, used by  *)
(* one request at a time, spent by at most one of them, and a spent or     *)
(* lost cursor never comes back; the cursor that replaces a spent one      *)
(* stands strictly further on.  Only a cursor nobody uses can be lost.     *)
(***************************************************************************)
EXTENDS Integers

CONSTANTS
  Requests,      \* the requests, which also name the cursors they issue
  MaxWatermark,  \* bound on positions
  None

VARIABLES
  stage,   \* of every cursor
  user,    \* the request that holds it, None unless leased
  mark     \* how far it stands, 0 unless it is live or leased

vars == <<stage, user, mark>>

Stages == {"unissued", "live", "leased", "spent", "lost"}

TypeOK ==
  /\ stage \in [Requests -> Stages]
  /\ user \in [Requests -> Requests \cup {None}]
  /\ mark \in [Requests -> 0..MaxWatermark]

Init ==
  /\ stage = [k \in Requests |-> "unissued"]
  /\ user = [k \in Requests |-> None]
  /\ mark = [k \in Requests |-> 0]

Live == {k \in Requests : stage[k] = "live"}

\* The cursors of lost disappear; those in the domains of s, u and m move on.
Move(lost, s, u, m) ==
  /\ lost \subseteq Live
  /\ stage' = [k \in Requests |-> IF k \in DOMAIN s THEN s[k]
                                  ELSE IF k \in lost THEN "lost" ELSE stage[k]]
  /\ user' = [k \in Requests |-> IF k \in DOMAIN s THEN u[k] ELSE user[k]]
  /\ mark' = [k \in Requests |-> IF k \in DOMAIN s THEN m[k]
                                 ELSE IF k \in lost THEN 0 ELSE mark[k]]

Lose(lost) == Move(lost, <<>>, <<>>, <<>>)

Issue(lost, k, m) ==
  /\ stage[k] = "unissued"
  /\ Move(lost, [x \in {k} |-> "live"], [x \in {k} |-> None], [x \in {k} |-> m])

Lease(lost, k, r) ==
  /\ stage[k] = "live" /\ k \notin lost
  /\ Move(lost, [x \in {k} |-> "leased"], [x \in {k} |-> r], [x \in {k} |-> mark[k]])

\* The request failed: the cursor is as before, or too old to be given back.
GiveBack(k) ==
  /\ stage[k] = "leased"
  /\ \/ Move({}, [x \in {k} |-> "live"], [x \in {k} |-> None], [x \in {k} |-> mark[k]])
     \/ Move({}, [x \in {k} |-> "lost"], [x \in {k} |-> None], [x \in {k} |-> 0])

\* The request returned the last page.
Spend(lost, k) ==
  /\ stage[k] = "leased"
  /\ Move(lost, [x \in {k} |-> "spent"], [x \in {k} |-> None], [x \in {k} |-> 0])

\* The request that holds k returned a page and the cursor it names instead.
Advance(lost, k, m) ==
  /\ stage[k] = "leased" /\ m > mark[k]
  /\ LET n == user[k] IN
       /\ stage[n] = "unissued"
       /\ Move(lost, [x \in {k, n} |-> IF x = k THEN "spent" ELSE "live"],
                     [x \in {k, n} |-> None],
                     [x \in {k, n} |-> IF x = k THEN 0 ELSE m])

Next ==
  \/ \E k \in Requests : GiveBack(k)
  \/ \E lost \in SUBSET Live :
       \/ Lose(lost)
       \/ \E k \in Requests :
            \/ Spend(lost, k)
            \/ \E r \in Requests : Lease(lost, k, r)
            \/ \E m \in 1..MaxWatermark : Issue(lost, k, m) \/ Advance(lost, k, m)

Spec == Init /\ [][Next]_vars
=============================================================================
