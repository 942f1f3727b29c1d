---------------------------- MODULE MCSearchBusy ----------------------------
(* SearchService with a history of which refusals a request came after.     *)
EXTENDS SearchService, TLC

VARIABLE earlier  \* of each request: those refused for good when it came

RefusedForGood == {r \in Requests : IF Refused(r) THEN ~Retryable(reply[r].code) ELSE FALSE}

HistoryInit == ServiceInit /\ earlier = [s \in Requests |-> {}]
HistoryNext ==
  /\ ServiceNext
  /\ earlier' = [s \in Requests |-> IF pc[s] = "idle" /\ pc'[s] # "idle"
                                   THEN RefusedForGood ELSE earlier[s]]
HistorySpec == HistoryInit /\ [][HistoryNext]_<<serviceVars, earlier>>

\* A request that comes after the same request was answered with an error that
\* is not retryable does not succeed, as the table of docs/ERROR_MODEL_V1.md
\* defines retryable.
NotRetryableIsFinal ==
  \A s \in Requests : \A r \in earlier[s] :
    (tok[s] # None /\ tok[s] = tok[r] /\ query[s] = query[r]) =>
      out[s] \notin {"last", "continued"}

Symmetry == Permutations(Requests)
=============================================================================
