---------------------------- MODULE MCMatchStore ----------------------------
(***************************************************************************)
(* MatchStore with a history variable: every reference ever returned, in   *)
(* the order of the locked sections, with its expiry.                      *)
(***************************************************************************)
EXTENDS MatchStore, TLC

VARIABLE stored

Symmetry == Permutations(Calls)

HistoryInit == Init /\ stored = <<>>

HistoryNext ==
  /\ Next
  /\ LET fresh == DOMAIN refs' \ DOMAIN refs IN
       stored' = IF fresh = {} THEN stored
                 ELSE LET k == CHOOSE k \in fresh : TRUE
                      IN  Append(stored, [ref |-> k, expires |-> refs'[k]])

HistorySpec == HistoryInit /\ [][HistoryNext]_<<vars, stored>>

\* The newest Capacity references stay resolvable until their TTL is over,
\* whatever is inserted, evicted and purged around them: the lines of the page
\* a client has just received are never evicted in favour of older ones.
NewestSurvive ==
  \A i \in DOMAIN stored :
    stored[i].expires > now /\ Len(stored) - i < Capacity =>
      stored[i].ref \in DOMAIN refs
=============================================================================
