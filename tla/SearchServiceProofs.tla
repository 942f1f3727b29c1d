------------------------ MODULE SearchServiceProofs ------------------------
(***************************************************************************)
(* What clients of search_logs can rely on, for any number of calls, any   *)
(* capacities and TTL, and whatever scans and responses fail.              *)
(*                                                                         *)
(* First the cursor store: types, capacity, leases that are never lost,    *)
(* chains of pages that never fork, a queue that agrees with the map.      *)
(* These theorems are about the store's own specification;                 *)
(* ServiceUsesStore carries them over to the service.  Then                *)
(* the service: what an error says about trying again is true, and only    *)
(* the limits of stores and responses leave references nobody was given.   *)
(***************************************************************************)
EXTENDS SearchService, FiniteSetTheorems, WellFoundedInduction, TLAPS

(***************************************************************************)
(* The inductive invariant.  LeaseHolderKeepsEntry alone is not inductive: *)
(* one must also know that a lease recorded in the store belongs to a      *)
(* request that holds it, that a stored token is one some finished request *)
(* issued (so that a new cursor never overwrites an old one), and that a   *)
(* token once used up is out of the store for good.                        *)
(***************************************************************************)

AnswerWhenDone == \A r \in Requests : out[r] = "none" <=> pc[r] # "done"

StoredWereIssued == DOMAIN entries \subseteq Issued

LeaseHasHolder ==
  \A k \in DOMAIN entries : entries[k].lease # None =>
    Holding(entries[k].lease) /\ tok[entries[k].lease] = k

ConsumedIsGone ==
  \A r \in Requests : Consumed(r) =>
    tok[r] \in Issued /\ tok[r] \notin DOMAIN entries

\* What a request carries at each point of its code.
LocalsOK ==
  \A r \in Requests :
    /\ pc[r] \in {"beginning", "committing", "releasing"} => tok[r] # None
    /\ pc[r] \in {"idle", "inserting"} => tok[r] = None
    /\ pc[r] \in {"beginning", "scanning", "inserting", "committing"} =>
         query[r] \in Queries
    /\ pc[r] = "inserting" => cont[r] # 0
    /\ Holding(r) => held[r] \in Data

IInv ==
  /\ StoreTypeOK
  /\ AnswerWhenDone
  /\ StoredWereIssued
  /\ LocalsOK
  /\ LeaseHolderKeepsEntry
  /\ LeaseHasHolder
  /\ ConsumedIsGone
  /\ ChainNeverForks
  /\ CapacityRespected

-----------------------------------------------------------------------------
(***************************************************************************)
(* The operators on the locked map.                                        *)
(***************************************************************************)

\* A purge keeps every leased cursor and changes none (purge_expired).
LEMMA PurgeKeepsLeased ==
  ASSUME NEW e, NEW t
  PROVE  LET p == PurgeExpired(e, t) IN
         /\ DOMAIN p \subseteq DOMAIN e
         /\ \A k \in DOMAIN p : p[k] = e[k]
         /\ Leased(p) = Leased(e)
BY DEF PurgeExpired, Leased, Restrict

\* Removing a cursor removes that one and changes no other (remove).
LEMMA RemoveOnlyThat ==
  ASSUME NEW e, NEW t
  PROVE  LET p == Remove(e, t) IN
         /\ DOMAIN p = DOMAIN e \ {t}
         /\ \A k \in DOMAIN p : p[k] = e[k]
BY DEF Remove, Restrict

\* A subset of the requests is finite and no larger than what contains it.
LEMMA SmallerStore ==
  ASSUME NEW S \in SUBSET Requests, NEW T \in SUBSET S, Cardinality(S) <= Capacity
  PROVE  /\ IsFiniteSet(T) /\ IsFiniteSet(S)
         /\ Cardinality(T) \in Nat /\ Cardinality(S) \in Nat
         /\ Cardinality(T) <= Cardinality(S)
         /\ Cardinality(T) <= Capacity
<1>1. IsFiniteSet(S)
  BY RequestsAssumption, FS_Subset
<1>2. IsFiniteSet(T) /\ Cardinality(T) <= Cardinality(S)
  BY <1>1, FS_Subset
<1>3. Cardinality(T) \in Nat /\ Cardinality(S) \in Nat
  BY <1>1, <1>2, FS_CardinalityType
<1> QED
  BY <1>1, <1>2, <1>3, ConfigAssumption

-----------------------------------------------------------------------------

LEMMA InitIInv == Init => IInv
<1> SUFFICES ASSUME Init PROVE IInv
  OBVIOUS
<1>1. DOMAIN entries = {}
  BY DEF Init
<1>2. StoreTypeOK
  BY <1>1, BoundAssumption DEF Init, StoreTypeOK, Phases, Answers
<1>3. AnswerWhenDone /\ StoredWereIssued /\ LocalsOK
  BY <1>1 DEF Init, AnswerWhenDone, StoredWereIssued, LocalsOK, Holding
<1>4. LeaseHolderKeepsEntry /\ LeaseHasHolder
  BY <1>1 DEF Init, LeaseHolderKeepsEntry, LeaseHasHolder, Holding
<1>5. ConsumedIsGone /\ ChainNeverForks
  BY DEF Init, ConsumedIsGone, ChainNeverForks, Consumed
<1>6. CapacityRespected
  BY <1>1, FS_EmptySet, ConfigAssumption DEF CapacityRespected
<1> QED
  BY <1>2, <1>3, <1>4, <1>5, <1>6 DEF IInv

\* A step of a request that leaves the store alone.
LEMMA SearchFirstIInv ==
  ASSUME IInv, NEW r \in Requests, NEW q \in Queries, SearchFirst(r, q)
  PROVE  IInv'
<1> USE DEF IInv, SearchFirst
<1>1. StoreTypeOK'
  BY DEF StoreTypeOK, Phases
<1>2. AnswerWhenDone' /\ StoredWereIssued'
  BY DEF AnswerWhenDone, StoredWereIssued, Issued, StoreTypeOK, Phases
<1>3. LocalsOK'
  BY DEF LocalsOK, StoreTypeOK, Phases, Holding
<1>4. LeaseHolderKeepsEntry' /\ LeaseHasHolder'
  BY DEF LeaseHolderKeepsEntry, LeaseHasHolder, LocalsOK, StoreTypeOK, Phases, Holding
<1>5. ConsumedIsGone' /\ ChainNeverForks' /\ CapacityRespected'
  BY DEF ConsumedIsGone, ChainNeverForks, CapacityRespected, Consumed, Issued
<1> QED
  BY <1>1, <1>2, <1>3, <1>4, <1>5

LEMMA SearchNextIInv ==
  ASSUME IInv, NEW r \in Requests, NEW q \in Queries, NEW t \in Requests,
         SearchNext(r, t, q)
  PROVE  IInv'
<1> USE DEF IInv, SearchNext, Call
<1>1. StoreTypeOK'
  BY DEF StoreTypeOK, Phases
<1>2. AnswerWhenDone' /\ StoredWereIssued'
  BY DEF AnswerWhenDone, StoredWereIssued, Issued, StoreTypeOK, Phases
<1>3. LocalsOK'
  BY NoneAssumption DEF LocalsOK, StoreTypeOK, Phases, Holding
<1>4. LeaseHolderKeepsEntry' /\ LeaseHasHolder'
  BY DEF LeaseHolderKeepsEntry, LeaseHasHolder, LocalsOK, StoreTypeOK, Phases, Holding
<1>5. ConsumedIsGone' /\ ChainNeverForks' /\ CapacityRespected'
  BY DEF ConsumedIsGone, ChainNeverForks, CapacityRespected, Consumed, Issued,
         AnswerWhenDone, StoreTypeOK
<1> QED
  BY <1>1, <1>2, <1>3, <1>4, <1>5

LEMMA TickIInv ==
  ASSUME IInv, Tick
  PROVE  IInv'
<1> USE DEF IInv, Tick
<1>1. StoreTypeOK'
  BY DEF StoreTypeOK
<1>2. AnswerWhenDone' /\ StoredWereIssued' /\ LocalsOK'
  BY DEF AnswerWhenDone, StoredWereIssued, Issued, LocalsOK, Holding
<1>3. LeaseHolderKeepsEntry' /\ LeaseHasHolder'
  BY DEF LeaseHolderKeepsEntry, LeaseHasHolder, Holding
<1>4. ConsumedIsGone' /\ ChainNeverForks' /\ CapacityRespected'
  BY DEF ConsumedIsGone, ChainNeverForks, CapacityRespected, Consumed, Issued
<1> QED
  BY <1>1, <1>2, <1>3, <1>4

LEMMA PurgeOnLenIInv ==
  ASSUME IInv, PurgeOnLen
  PROVE  IInv'
<1> USE DEF IInv, PurgeOnLen
<1>1. /\ DOMAIN entries' \subseteq DOMAIN entries
      /\ \A k \in DOMAIN entries' : entries'[k] = entries[k]
      /\ Leased(entries') = Leased(entries)
  BY PurgeKeepsLeased
<1>2. StoreTypeOK'
  BY <1>1 DEF StoreTypeOK
<1>3. AnswerWhenDone' /\ StoredWereIssued' /\ LocalsOK'
  BY <1>1 DEF AnswerWhenDone, StoredWereIssued, Issued, LocalsOK, Holding
<1>4. LeaseHolderKeepsEntry' /\ LeaseHasHolder'
  BY <1>1, NoneAssumption DEF LeaseHolderKeepsEntry, LeaseHasHolder, Holding, Leased
<1>5. ConsumedIsGone' /\ ChainNeverForks'
  BY <1>1 DEF ConsumedIsGone, ChainNeverForks, Consumed, Issued
<1>6. CapacityRespected'
  BY <1>1, SmallerStore DEF CapacityRespected, StoreTypeOK
<1> QED
  BY <1>2, <1>3, <1>4, <1>5, <1>6

LEMMA FailPageIInv ==
  ASSUME IInv, NEW r \in Requests, FailPage(r)
  PROVE  IInv'
<1> USE DEF IInv, FailPage, Call
<1>1. StoreTypeOK'
  BY DEF StoreTypeOK, Phases, Answers
<1>2. AnswerWhenDone' /\ StoredWereIssued'
  BY DEF AnswerWhenDone, StoredWereIssued, Issued, StoreTypeOK, Phases, Answers
<1>3. LocalsOK'
  BY DEF LocalsOK, StoreTypeOK, Phases, Holding
<1>4. /\ \A s \in Requests : Holding(s)' <=> Holding(s)
      /\ UNCHANGED <<entries, tok, held>>
  BY DEF StoreTypeOK, Phases, Holding
<1>6. LeaseHolderKeepsEntry'
  BY <1>4 DEF LeaseHolderKeepsEntry
<1>7. LeaseHasHolder'
  BY <1>4 DEF LeaseHasHolder, StoreTypeOK, StoredCursor
<1>5. ConsumedIsGone' /\ ChainNeverForks' /\ CapacityRespected'
  BY DEF ConsumedIsGone, ChainNeverForks, CapacityRespected, Consumed, Issued,
         AnswerWhenDone, StoreTypeOK
<1> QED
  BY <1>1, <1>2, <1>3, <1>5, <1>6, <1>7

LEMMA EndPageIInv ==
  ASSUME IInv, NEW r \in Requests, NEW m \in 0..MaxWatermark, EndPage(r, m)
  PROVE  IInv'
<1> USE DEF IInv, EndPage, Call
<1>1. StoreTypeOK'
  BY BoundAssumption DEF StoreTypeOK, Phases, Answers
<1>2. AnswerWhenDone' /\ StoredWereIssued'
  BY DEF AnswerWhenDone, StoredWereIssued, Issued, StoreTypeOK, Phases, Answers
<1>3. LocalsOK'
  BY DEF LocalsOK, StoreTypeOK, Phases, Holding
<1>4. /\ \A s \in Requests : Holding(s)' <=> Holding(s)
      /\ UNCHANGED <<entries, tok, held>>
  BY DEF StoreTypeOK, Phases, Holding
<1>6. LeaseHolderKeepsEntry'
  BY <1>4 DEF LeaseHolderKeepsEntry
<1>7. LeaseHasHolder'
  BY <1>4 DEF LeaseHasHolder, StoreTypeOK, StoredCursor
<1>5. ConsumedIsGone' /\ ChainNeverForks' /\ CapacityRespected'
  BY DEF ConsumedIsGone, ChainNeverForks, CapacityRespected, Consumed, Issued,
         AnswerWhenDone, StoreTypeOK
<1> QED
  BY <1>1, <1>2, <1>3, <1>5, <1>6, <1>7

\* A lease is granted only on an unleased cursor that is in the store, so no
\* other holder is disturbed; a refusal changes the store by the purge alone.
LEMMA BeginIInv ==
  ASSUME IInv, NEW r \in Requests, Begin(r)
  PROVE  IInv'
<1> DEFINE live == PurgeExpired(entries, at[r])
           refusal == BeginRefusal(live, tok[r], query[r])
<1> USE DEF IInv
<1>0. /\ pc[r] = "beginning" /\ tok[r] \in Requests /\ ~Holding(r)
      /\ out[r] = "none" /\ UNCHANGED <<tok, cont, now>>
  BY DEF Begin, LocalsOK, Holding, StoreTypeOK, AnswerWhenDone, Return
<1>1. /\ DOMAIN live \subseteq DOMAIN entries
      /\ \A k \in DOMAIN live : live[k] = entries[k]
      /\ Leased(live) = Leased(entries)
  BY PurgeKeepsLeased
<1>2. Cardinality(DOMAIN live) <= Capacity
  BY <1>1, SmallerStore DEF CapacityRespected, StoreTypeOK
<1>3. CASE refusal = "none"
  <2> DEFINE t == tok[r]
  <2>1. /\ entries' = [live EXCEPT ![t].lease = r]
        /\ held' = [held EXCEPT ![r] = live[t].data]
        /\ pc' = [pc EXCEPT ![r] = "scanning"]
        /\ at' = [at EXCEPT ![r] = 0]
        /\ UNCHANGED <<query, out>>
    BY <1>3 DEF Begin
  <2>2. t \in DOMAIN live /\ live[t].lease = None
    BY <1>3 DEF BeginRefusal
  <2>3. /\ DOMAIN entries' = DOMAIN live
        /\ \A k \in DOMAIN live : k # t => entries'[k] = entries[k]
        /\ entries'[t].lease = r
        /\ entries'[t].data = entries[t].data
        /\ entries'[t] \in StoredCursor
    BY <1>1, <2>1, <2>2 DEF StoreTypeOK, StoredCursor
  <2>4. held'[r] = entries[t].data /\ held'[r] \in Data
    BY <1>1, <2>1, <2>2 DEF StoreTypeOK, StoredCursor
  <2>5. \A s \in Requests : Holding(s)' <=> s = r \/ Holding(s)
    BY <1>0, <2>1, NoneAssumption DEF StoreTypeOK, Holding
  <2>6. StoreTypeOK'
    BY <1>0, <1>1, <2>1, <2>3, <2>4 DEF StoreTypeOK, Phases
  <2>7. AnswerWhenDone' /\ StoredWereIssued'
    BY <1>0, <1>1, <2>1, <2>3 DEF AnswerWhenDone, StoredWereIssued, Issued, StoreTypeOK
  <2>8. LocalsOK'
    BY <1>0, <2>1, <2>4, <2>5 DEF LocalsOK, StoreTypeOK
  <2>9. LeaseHolderKeepsEntry'
    <3> SUFFICES ASSUME NEW s \in Requests, Holding(s)'
                 PROVE  /\ tok[s] \in DOMAIN entries'
                        /\ entries'[tok[s]].lease = s
                        /\ entries'[tok[s]].data = held'[s]
      BY <1>0 DEF LeaseHolderKeepsEntry
    <3>1. CASE s = r
      BY <3>1, <2>2, <2>3, <2>4
    <3>2. CASE s # r
      <4>1. /\ tok[s] \in DOMAIN entries /\ entries[tok[s]].lease = s
            /\ entries[tok[s]].data = held[s]
        BY <3>2, <2>5 DEF LeaseHolderKeepsEntry
      <4>2. tok[s] \in DOMAIN live /\ tok[s] # t
        BY <4>1, <1>1, <2>2, NoneAssumption DEF Leased
      <4> QED
        BY <3>2, <4>1, <4>2, <2>1, <2>3 DEF StoreTypeOK
    <3> QED
      BY <3>1, <3>2
  <2>10. LeaseHasHolder'
    BY <1>0, <1>1, <2>3, <2>5 DEF LeaseHasHolder, StoreTypeOK, StoredCursor
  <2>11. ConsumedIsGone' /\ ChainNeverForks'
    BY <1>0, <1>1, <2>1, <2>3 DEF ConsumedIsGone, ChainNeverForks, Consumed, Issued
  <2>12. CapacityRespected'
    BY <1>2, <2>3 DEF CapacityRespected
  <2> QED
    BY <2>6, <2>7, <2>8, <2>9, <2>10, <2>11, <2>12
<1>4. CASE refusal # "none"
  <2>1. entries' = live /\ Return(r, refusal)
    BY <1>4 DEF Begin
  <2>2. refusal \in {"UnknownOrExpired", "QueryMismatch", "Busy"}
    BY <1>4 DEF BeginRefusal
  <2>3. \A s \in Requests : Holding(s)' <=> Holding(s)
    BY <1>0, <2>1 DEF Return, StoreTypeOK, Holding
  <2>4. StoreTypeOK'
    BY <1>0, <1>1, <2>1, <2>2 DEF StoreTypeOK, Phases, Answers, Return
  <2>5. AnswerWhenDone' /\ StoredWereIssued' /\ LocalsOK'
    BY <1>0, <1>1, <2>1, <2>2, <2>3
       DEF AnswerWhenDone, StoredWereIssued, Issued, StoreTypeOK, Return, LocalsOK
  <2>6. \A s \in Requests : Holding(s) => s # r /\ held'[s] = held[s]
    BY <1>0, <2>1 DEF Return, StoreTypeOK
  <2>7. LeaseHolderKeepsEntry'
    BY <1>0, <1>1, <2>1, <2>3, <2>6, NoneAssumption DEF LeaseHolderKeepsEntry, Leased
  <2>8. LeaseHasHolder'
    BY <1>0, <1>1, <2>1, <2>3 DEF LeaseHasHolder, StoreTypeOK, StoredCursor
  <2>9. ConsumedIsGone' /\ ChainNeverForks'
    BY <1>0, <1>1, <2>1, <2>2
       DEF ConsumedIsGone, ChainNeverForks, Consumed, Issued, Return, StoreTypeOK
  <2>10. CapacityRespected'
    BY <1>2, <2>1 DEF CapacityRespected
  <2> QED
    BY <2>4, <2>5, <2>7, <2>8, <2>9, <2>10
<1> QED
  BY <1>3, <1>4

\* Ending a lease without a page touches the entry of that lease alone.
LEMMA DropLeaseIInv ==
  ASSUME IInv, NEW r \in Requests, DropLease(r)
  PROVE  IInv'
<1> DEFINE t == tok[r]
<1> USE DEF IInv
<1>0. /\ pc[r] = "releasing" /\ Holding(r) /\ out[r] = "none"
      /\ Return(r, "failed") /\ UNCHANGED cont
      /\ t \in DOMAIN entries /\ entries[t].lease = r
  BY DEF DropLease, LocalsOK, Holding, StoreTypeOK, AnswerWhenDone, LeaseHolderKeepsEntry
<1>1. \/ entries' = Remove(entries, t)
      \/ entries' = [entries EXCEPT ![t].lease = None]
  BY <1>0 DEF DropLease, Release
<1>2. /\ DOMAIN entries' \subseteq DOMAIN entries
      /\ DOMAIN entries \ {t} \subseteq DOMAIN entries'
      /\ \A k \in DOMAIN entries' : k # t => entries'[k] = entries[k]
      /\ t \in DOMAIN entries' => entries'[t].lease = None /\ entries'[t] \in StoredCursor
  <2>1. CASE entries' = Remove(entries, t)
    <3>1. /\ DOMAIN entries' = DOMAIN entries \ {t}
          /\ \A k \in DOMAIN entries' : entries'[k] = entries[k]
      BY <2>1, RemoveOnlyThat
    <3> QED
      BY <3>1
  <2>2. CASE entries' = [entries EXCEPT ![t].lease = None]
    <3>1. DOMAIN entries' = DOMAIN entries
      BY <2>2
    <3>2. entries'[t] = [entries[t] EXCEPT !.lease = None]
      BY <1>0, <2>2
    <3>3. entries'[t].lease = None /\ entries'[t] \in StoredCursor
      BY <1>0, <3>2 DEF StoreTypeOK, StoredCursor
    <3> QED
      BY <2>2, <3>1, <3>3
  <2> QED
    BY <1>1, <2>1, <2>2
<1>3. \A s \in Requests : Holding(s)' <=> Holding(s) /\ s # r
  BY <1>0 DEF Return, StoreTypeOK, Holding
<1>4. \A s \in Requests : s # r /\ Holding(s) => tok[s] # t
  BY <1>0 DEF LeaseHolderKeepsEntry
<1>5. StoreTypeOK'
  BY <1>0, <1>2 DEF StoreTypeOK, Phases, Answers, Return
<1>6. AnswerWhenDone' /\ StoredWereIssued' /\ LocalsOK'
  BY <1>0, <1>2, <1>3
     DEF AnswerWhenDone, StoredWereIssued, Issued, StoreTypeOK, Return, LocalsOK
<1>7. LeaseHolderKeepsEntry'
  BY <1>0, <1>2, <1>3, <1>4 DEF LeaseHolderKeepsEntry, Return, StoreTypeOK
<1>8. LeaseHasHolder'
  BY <1>0, <1>2, <1>3 DEF LeaseHasHolder, Return, StoreTypeOK, StoredCursor
<1>9. ConsumedIsGone' /\ ChainNeverForks'
  BY <1>0, <1>2 DEF ConsumedIsGone, ChainNeverForks, Consumed, Issued, Return, StoreTypeOK
<1>10. CapacityRespected'
  BY <1>2, SmallerStore DEF CapacityRespected, StoreTypeOK
<1> QED
  BY <1>5, <1>6, <1>7, <1>8, <1>9, <1>10

\* Storing a new cursor in what is left of the store.  rest keeps every leased
\* cursor except the one r has used up, and has room for one more.
LEMMA StoreNewIInv ==
  ASSUME IInv, NEW r \in Requests, NEW rest, NEW x \in Nat,
         pc[r] \in {"inserting", "committing"},
         cont[r] # 0,
         DOMAIN rest \subseteq DOMAIN entries,
         \A k \in DOMAIN rest : rest[k] = entries[k],
         \A k \in DOMAIN rest : entries[k].lease # r,
         \A s \in Requests : Holding(s) /\ s # r => tok[s] \in DOMAIN rest,
         tok[r] # None => tok[r] \in DOMAIN entries /\ tok[r] \notin DOMAIN rest,
         Cardinality(DOMAIN rest) < Capacity,
         entries' = InsertNew(rest, r, NewData(r), x),
         cont' = [cont EXCEPT ![r] = 0],
         Return(r, "continued")
  PROVE  IInv'
<1> USE DEF IInv
<1>1. out[r] = "none" /\ r \notin Issued /\ r \notin DOMAIN entries
  BY DEF AnswerWhenDone, StoredWereIssued, Issued
<1>2. NewData(r) \in Data
  BY BoundAssumption DEF NewData, Data, Watermarks, LocalsOK, StoreTypeOK
<1>3. /\ DOMAIN entries' = DOMAIN rest \cup {r}
      /\ \A k \in DOMAIN rest : k # r /\ entries'[k] = entries[k]
      /\ entries'[r].lease = None /\ entries'[r] \in StoredCursor
  BY <1>1, <1>2 DEF InsertNew, StoredCursor
<1>4. \A s \in Requests : Holding(s)' <=> Holding(s) /\ s # r
  BY NoneAssumption DEF Return, StoreTypeOK, Holding, LocalsOK
<1>5. StoreTypeOK'
  BY <1>3, BoundAssumption DEF StoreTypeOK, Phases, Answers, Return
<1>6. Issued' = Issued \cup {r}
  BY DEF Issued, Return, StoreTypeOK
<1>7. AnswerWhenDone' /\ StoredWereIssued' /\ LocalsOK'
  BY <1>1, <1>3, <1>4, <1>6
     DEF AnswerWhenDone, StoredWereIssued, StoreTypeOK, Return, LocalsOK
<1>8. LeaseHolderKeepsEntry'
  BY <1>3, <1>4 DEF LeaseHolderKeepsEntry, Return, StoreTypeOK
<1>9. LeaseHasHolder'
  BY <1>3, <1>4 DEF LeaseHasHolder, Return, StoreTypeOK, StoredCursor
<1>10. \A s \in Requests : Consumed(s)' <=> Consumed(s) \/ (s = r /\ tok[r] # None)
  BY <1>1 DEF Consumed, Return, StoreTypeOK
<1>11. ConsumedIsGone'
  BY <1>1, <1>3, <1>6, <1>10 DEF ConsumedIsGone, StoredWereIssued, Return, StoreTypeOK
<1>12. ChainNeverForks'
  BY <1>10 DEF ConsumedIsGone, ChainNeverForks, Return
<1>13. CapacityRespected'
  <2>1. IsFiniteSet(DOMAIN rest) /\ Cardinality(DOMAIN rest) \in Nat
    BY SmallerStore DEF CapacityRespected, StoreTypeOK
  <2>2. r \notin DOMAIN rest
    BY <1>1
  <2>3. Cardinality(DOMAIN rest \cup {r}) = Cardinality(DOMAIN rest) + 1
    BY <2>1, <2>2, FS_AddElement, Zenon
  <2> QED
    BY <1>3, <2>1, <2>3, ConfigAssumption DEF CapacityRespected
<1> QED
  BY <1>5, <1>7, <1>8, <1>9, <1>11, <1>12, <1>13

LEMMA InsertIInv ==
  ASSUME IInv, NEW r \in Requests, Insert(r)
  PROVE  IInv'
<1> DEFINE live == PurgeExpired(entries, at[r])
           queue == Retain(order, live)
<1> USE DEF IInv
<1>0. /\ pc[r] = "inserting" /\ tok[r] = None /\ cont[r] # 0 /\ out[r] = "none"
      /\ ~Holding(r) /\ cont' = [cont EXCEPT ![r] = 0] /\ at[r] + TTL \in Nat
  BY ConfigAssumption DEF Insert, LocalsOK, AnswerWhenDone, Holding, StoreTypeOK
<1>1. /\ DOMAIN live \subseteq DOMAIN entries
      /\ \A k \in DOMAIN live : live[k] = entries[k]
      /\ Leased(live) = Leased(entries)
  BY PurgeKeepsLeased
<1>2. /\ Cardinality(DOMAIN live) <= Capacity
      /\ Cardinality(DOMAIN live) \in Nat
      /\ IsFiniteSet(DOMAIN live)
  BY <1>1, SmallerStore DEF CapacityRespected, StoreTypeOK
<1>3. \A s \in Requests : Holding(s) => tok[s] \in Leased(live)
  BY <1>1, NoneAssumption DEF LeaseHolderKeepsEntry, Leased
<1>4. \A k \in DOMAIN live : entries[k].lease # r
  BY <1>0, <1>1, NoneAssumption DEF LeaseHasHolder
<1>5. CASE /\ ~Full(live)
           /\ entries' = InsertNew(live, r, NewData(r), at[r] + TTL)
           /\ Return(r, "continued")
  <2>1. Cardinality(DOMAIN live) < Capacity
    BY <1>2, <1>5, ConfigAssumption DEF Full
  <2>2. \A s \in Requests : Holding(s) /\ s # r => tok[s] \in DOMAIN live
    BY <1>3 DEF Leased
  <2> QED
    BY <1>0, <1>1, <1>4, <1>5, <2>1, <2>2, StoreNewIInv
<1>6. CASE \E i \in OldestEvictable(live, queue) :
             /\ entries' = InsertNew(Remove(live, queue[i]), r, NewData(r), at[r] + TTL)
             /\ Return(r, "continued")
  <2>1. PICK i \in OldestEvictable(live, queue) :
             /\ entries' = InsertNew(Remove(live, queue[i]), r, NewData(r), at[r] + TTL)
             /\ Return(r, "continued")
    BY <1>6
  <2> DEFINE rest == Remove(live, queue[i])
  <2>2. queue[i] \in DOMAIN live /\ queue[i] \notin Leased(live)
    BY DEF OldestEvictable, Evictable, Unleased, Leased
  <2>3. /\ DOMAIN rest = DOMAIN live \ {queue[i]}
        /\ \A k \in DOMAIN rest : rest[k] = live[k]
    BY RemoveOnlyThat
  <2>4. Cardinality(DOMAIN rest) = Cardinality(DOMAIN live) - 1
    <3> DEFINE S == DOMAIN live
               k == queue[i]
    <3>1. IsFiniteSet(S) /\ k \in S /\ DOMAIN rest = S \ {k}
      BY <1>2, <2>2, <2>3
    <3> HIDE DEF S, k, rest
    <3>2. Cardinality(S \ {k}) = Cardinality(S) - 1
      BY <3>1, FS_RemoveElement
    <3> QED
      BY <3>1, <3>2 DEF S
  <2>5. Cardinality(DOMAIN rest) < Capacity
    BY <1>2, <2>4, ConfigAssumption
  <2>6. \A s \in Requests : Holding(s) /\ s # r => tok[s] \in DOMAIN rest
    BY <1>3, <2>2, <2>3 DEF Leased
  <2>7. /\ DOMAIN rest \subseteq DOMAIN entries
        /\ \A k \in DOMAIN rest : rest[k] = entries[k]
        /\ \A k \in DOMAIN rest : entries[k].lease # r
    BY <1>1, <1>4, <2>3
  <2> HIDE DEF rest
  <2> QED
    BY <1>0, <2>1, <2>5, <2>6, <2>7, StoreNewIInv DEF rest
<1>7. CASE entries' = live /\ Return(r, "CapacityBusy")
  <2>1. \A s \in Requests : Holding(s)' <=> Holding(s)
    BY <1>0, <1>7 DEF Return, StoreTypeOK, Holding
  <2>2. \A s \in Requests : Holding(s) => s # r
    BY <1>0
  <2>3. StoreTypeOK'
    BY <1>0, <1>1, <1>7, BoundAssumption DEF StoreTypeOK, Phases, Answers, Return
  <2>4. AnswerWhenDone' /\ StoredWereIssued' /\ LocalsOK'
    BY <1>0, <1>1, <1>7, <2>1, <2>2
       DEF AnswerWhenDone, StoredWereIssued, Issued, StoreTypeOK, Return, LocalsOK
  <2>5. LeaseHolderKeepsEntry'
    BY <1>1, <1>3, <1>7, <2>1, <2>2
       DEF LeaseHolderKeepsEntry, Return, StoreTypeOK, Leased
  <2>6. LeaseHasHolder'
    BY <1>1, <1>7, <2>1 DEF LeaseHasHolder, Return, StoreTypeOK, StoredCursor
  <2>7. ConsumedIsGone' /\ ChainNeverForks'
    BY <1>0, <1>1, <1>7
       DEF ConsumedIsGone, ChainNeverForks, Consumed, Issued, Return, StoreTypeOK
  <2>8. CapacityRespected'
    BY <1>2, <1>7 DEF CapacityRespected
  <2> QED
    BY <2>3, <2>4, <2>5, <2>6, <2>7, <2>8
<1> QED
  BY <1>5, <1>6, <1>7 DEF Insert

LEMMA CommitIInv ==
  ASSUME IInv, NEW r \in Requests, Commit(r)
  PROVE  IInv'
<1> DEFINE live == PurgeExpired(entries, at[r])
           t == tok[r]
           rest == Remove(live, t)
<1> USE DEF IInv
<1>0. /\ pc[r] = "committing" /\ Holding(r) /\ out[r] = "none" /\ t \in Requests
      /\ cont' = [cont EXCEPT ![r] = 0] /\ at[r] + TTL \in Nat
      /\ t \in DOMAIN entries /\ entries[t].lease = r /\ entries[t].data = held[r]
  BY ConfigAssumption
     DEF Commit, LocalsOK, AnswerWhenDone, Holding, StoreTypeOK, LeaseHolderKeepsEntry
<1>1. /\ DOMAIN live \subseteq DOMAIN entries
      /\ \A k \in DOMAIN live : live[k] = entries[k]
      /\ Leased(live) = Leased(entries)
  BY PurgeKeepsLeased
<1>2. \A s \in Requests : Holding(s) => tok[s] \in DOMAIN live
  BY <1>1, NoneAssumption DEF LeaseHolderKeepsEntry, Leased
<1>3. t \in DOMAIN live /\ live[t].lease = r /\ live[t].data = held[r]
  BY <1>0, <1>1, <1>2
<1>4. /\ DOMAIN rest = DOMAIN live \ {t}
      /\ \A k \in DOMAIN rest : rest[k] = entries[k]
  <2>1. /\ DOMAIN rest = DOMAIN live \ {t}
        /\ \A k \in DOMAIN rest : rest[k] = live[k]
    BY RemoveOnlyThat
  <2> HIDE DEF rest, live
  <2> QED
    BY <1>1, <2>1
<1>5. Cardinality(DOMAIN rest) < Capacity
  <2> DEFINE S == DOMAIN live
  <2>1. IsFiniteSet(S) /\ Cardinality(S) \in Nat /\ Cardinality(S) <= Capacity /\ t \in S
    BY <1>1, <1>3, SmallerStore DEF CapacityRespected, StoreTypeOK
  <2>2. DOMAIN rest = S \ {t}
    BY <1>4
  <2> HIDE DEF S, rest, t
  <2>3. Cardinality(S \ {t}) = Cardinality(S) - 1
    BY <2>1, FS_RemoveElement
  <2> QED
    BY <2>1, <2>2, <2>3, ConfigAssumption
<1>6. \A k \in DOMAIN rest : entries[k].lease # r
  BY <1>0, <1>1, <1>4, NoneAssumption DEF LeaseHasHolder
<1>7. \A s \in Requests : Holding(s) /\ s # r => tok[s] \in DOMAIN rest
  BY <1>0, <1>2, <1>4 DEF LeaseHolderKeepsEntry
<1>8. CASE cont[r] # 0
  <2>1. /\ entries' = InsertNew(rest, r, NewData(r), at[r] + TTL)
        /\ Return(r, "continued")
    BY <1>3, <1>8 DEF Commit
  <2>2. t # None => t \in DOMAIN entries /\ t \notin DOMAIN rest
    BY <1>0, <1>4
  <2>3. DOMAIN rest \subseteq DOMAIN entries
    BY <1>1, <1>4
  <2> HIDE DEF rest
  <2> QED
    BY <1>0, <1>4, <1>5, <1>6, <1>7, <1>8, <2>1, <2>2, <2>3, StoreNewIInv
<1>9. CASE cont[r] = 0
  <2>1. entries' = rest /\ Return(r, "last")
    BY <1>3, <1>9 DEF Commit
  <2>2. \A s \in Requests : Holding(s)' <=> Holding(s) /\ s # r
    BY <1>0, <2>1 DEF Return, StoreTypeOK, Holding
  <2>3. \A s \in Requests : Consumed(s)' <=> Consumed(s) \/ s = r
    BY <1>0, <2>1, NoneAssumption DEF Consumed, Return, StoreTypeOK
  <2>4. Issued' = Issued
    BY <1>0, <2>1 DEF Issued, Return, StoreTypeOK
  <2>5. StoreTypeOK'
    BY <1>0, <1>1, <1>4, <2>1, BoundAssumption DEF StoreTypeOK, Phases, Answers, Return
  <2>6. AnswerWhenDone' /\ StoredWereIssued' /\ LocalsOK'
    BY <1>0, <1>1, <1>4, <2>1, <2>2, <2>4
       DEF AnswerWhenDone, StoredWereIssued, StoreTypeOK, Return, LocalsOK
  <2>7. LeaseHolderKeepsEntry'
    BY <1>4, <1>7, <2>1, <2>2 DEF LeaseHolderKeepsEntry, Return, StoreTypeOK
  <2>8. LeaseHasHolder'
    BY <1>1, <1>4, <1>6, <2>1, <2>2 DEF LeaseHasHolder, Return, StoreTypeOK, StoredCursor
  <2>9. ConsumedIsGone'
    BY <1>0, <1>1, <1>4, <2>1, <2>3, <2>4
       DEF ConsumedIsGone, StoredWereIssued, Return, StoreTypeOK
  <2>10. ChainNeverForks'
    BY <1>0, <2>1, <2>3 DEF ConsumedIsGone, ChainNeverForks, Return
  <2>11. CapacityRespected'
    BY <1>1, <1>4, <2>1, SmallerStore DEF CapacityRespected, StoreTypeOK
  <2> QED
    BY <2>5, <2>6, <2>7, <2>8, <2>9, <2>10, <2>11
<1> QED
  BY <1>8, <1>9

-----------------------------------------------------------------------------

LEMMA StepIInv == IInv /\ [Next]_vars => IInv'
<1> SUFFICES ASSUME IInv, [Next]_vars PROVE IInv'
  OBVIOUS
<1>1. CASE Tick
  BY <1>1, TickIInv
<1>2. CASE PurgeOnLen
  BY <1>2, PurgeOnLenIInv
<1>3. ASSUME NEW r \in Requests, Start(r) PROVE IInv'
  BY <1>3, SearchFirstIInv, SearchNextIInv DEF Start
<1>4. ASSUME NEW r \in Requests, Proceed(r) PROVE IInv'
  BY <1>4, BeginIInv, EndPageIInv, FailPageIInv, InsertIInv, CommitIInv, DropLeaseIInv
     DEF Proceed
<1>5. CASE UNCHANGED vars
  BY <1>5 DEF vars, IInv, StoreTypeOK, AnswerWhenDone, StoredWereIssued, Issued, LocalsOK,
     Holding, LeaseHolderKeepsEntry, LeaseHasHolder, ConsumedIsGone, ChainNeverForks,
     Consumed, CapacityRespected
<1> QED
  BY <1>1, <1>2, <1>3, <1>4, <1>5 DEF Next

LEMMA SpecIInv == Spec => []IInv
BY InitIInv, StepIInv, PTL DEF Spec

\* The map of the store and every request are well typed in every behaviour
\* (SearchCursorStore, src/src/query_state.rs).
THEOREM StoreTypeCorrect == Spec => []StoreTypeOK
<1>1. IInv => StoreTypeOK
  BY DEF IInv
<1> QED
  BY <1>1, SpecIInv, PTL

\* A running page keeps the cursor it leased, so commit never answers
\* LeaseLost and no cursor is ever leased twice at a time.
THEOREM LeaseSafety == Spec => []LeaseHolderKeepsEntry
<1>1. IInv => LeaseHolderKeepsEntry
  BY DEF IInv
<1> QED
  BY <1>1, SpecIInv, PTL

\* A cursor is turned into a page at most once: chains of pages never fork.
THEOREM ChainSafety == Spec => []ChainNeverForks
<1>1. IInv => ChainNeverForks
  BY DEF IInv
<1> QED
  BY <1>1, SpecIInv, PTL

\* No interleaving of inserts, commits, purges and releases takes the store
\* past its capacity.
THEOREM CapacitySafety == Spec => []CapacityRespected
<1>1. IInv => CapacityRespected
  BY DEF IInv
<1> QED
  BY <1>1, SpecIInv, PTL

-----------------------------------------------------------------------------
(***************************************************************************)
(* Action properties.                                                      *)
(***************************************************************************)

\* No request has read a clock that is ahead of the clock.
ReadClockOK == \A r \in Requests : at[r] <= now

LEMMA SpecReadClock == Spec => []ReadClockOK
<1>1. Init => ReadClockOK
  BY DEF Init, ReadClockOK
<1>2. IInv /\ ReadClockOK /\ [Next]_vars => ReadClockOK'
  <2> SUFFICES ASSUME IInv, ReadClockOK, [Next]_vars PROVE ReadClockOK'
    OBVIOUS
  <2> USE DEF IInv, StoreTypeOK, ReadClockOK
  <2>1. CASE Tick
    BY <2>1 DEF Tick
  <2>2. CASE PurgeOnLen \/ UNCHANGED vars
    BY <2>2 DEF PurgeOnLen, vars
  <2>3. ASSUME NEW r \in Requests, Start(r) PROVE ReadClockOK'
    BY <2>3 DEF Start, SearchFirst, SearchNext, Call
  <2>4. ASSUME NEW r \in Requests, Proceed(r) PROVE ReadClockOK'
    <3>1. now' = now /\ \/ at' = [at EXCEPT ![r] = 0]
                        \/ at' = [at EXCEPT ![r] = now]
                        \/ at' = at
      BY <2>4 DEF Proceed, Begin, EndPage, FailPage, Insert, Commit, DropLease, Call, Return
    <3> QED
      BY <3>1
  <2> QED
    BY <2>1, <2>2, <2>3, <2>4 DEF Next
<1> QED
  BY <1>1, <1>2, SpecIInv, PTL DEF Spec

\* Between its clock read and its answer a request waits for the lock, perhaps
\* past the end of a TTL; what it leases was fresh when it read the clock.
THEOREM FreshnessSafety == Spec => ExpiredCursorNeverServed
<1> DEFINE Fresh == \A r \in Requests : pc[r] = "beginning" /\ pc'[r] = "scanning" =>
                      entries[tok[r]].expires > at[r]
<1>1. IInv /\ [Next]_vars => [Fresh]_vars
  <2> SUFFICES ASSUME IInv, Next, NEW r \in Requests,
                      pc[r] = "beginning", pc'[r] = "scanning"
               PROVE  entries[tok[r]].expires > at[r]
    OBVIOUS
  <2> USE DEF IInv, StoreTypeOK
  <2>1. Begin(r)
    <3>1. ~Tick /\ ~PurgeOnLen
      BY DEF Tick, PurgeOnLen
    <3>2. ASSUME NEW s \in Requests, Start(s) PROVE FALSE
      BY <3>2 DEF Start, SearchFirst, SearchNext, Call
    <3>3. ASSUME NEW s \in Requests, Proceed(s) PROVE s = r /\ Begin(s)
      BY <3>3 DEF Proceed, Begin, EndPage, FailPage, Insert, Commit, DropLease, Call, Return
    <3> QED
      BY <3>1, <3>2, <3>3 DEF Next
  <2>2. BeginRefusal(PurgeExpired(entries, at[r]), tok[r], query[r]) = "none"
    BY <2>1 DEF Begin, Return
  <2> QED
    BY <2>2 DEF BeginRefusal, PurgeExpired, Restrict
<1> QED
  BY <1>1, SpecIInv, PTL DEF Spec, ExpiredCursorNeverServed

\* What a purge removes is unleased and past its TTL.
LEMMA PurgeRemovesExpired ==
  ASSUME IInv, ReadClockOK, NEW t \in Nat, t <= now,
         NEW k \in DOMAIN entries, k \notin DOMAIN PurgeExpired(entries, t)
  PROVE  entries[k].expires <= now /\ entries[k].lease = None
<1>1. entries[k].lease = None /\ ~(entries[k].expires > t)
  BY DEF PurgeExpired, Restrict
<1>2. entries[k].expires \in Nat /\ now \in Nat
  BY DEF IInv, StoreTypeOK, StoredCursor
<1> QED
  BY <1>1, <1>2

\* Cursors are lost to their users, to time and to the need for room only.
THEOREM NoSilentLoss == Spec => CursorNeverSilentlyLost
<1> DEFINE UsedUp(k) == \E r \in Requests :
                          tok[r] = k /\ pc[r] = "committing" /\ Consumed(r)'
           TimedOut(k) == /\ entries[k].expires <= now
                          /\ \/ entries[k].lease = None
                             \/ pc[entries[k].lease] = "releasing"
           Evicted(k) == /\ entries[k].lease = None
                         /\ Cardinality(DOMAIN entries) = Capacity
                         /\ \E r \in Requests :
                              pc[r] = "inserting" /\ out'[r] = "continued"
           Accounted ==
             \A k \in DOMAIN entries \ DOMAIN entries' :
               \/ \E r \in Requests :
                    tok[r] = k /\ pc[r] = "committing" /\ Consumed(r)'
               \/ /\ entries[k].expires <= now
                  /\ \/ entries[k].lease = None
                     \/ pc[entries[k].lease] = "releasing"
               \/ /\ entries[k].lease = None
                  /\ Cardinality(DOMAIN entries) = Capacity
                  /\ \E r \in Requests : pc[r] = "inserting" /\ out'[r] = "continued"
<1>1. IInv /\ ReadClockOK /\ [Next]_vars => [Accounted]_vars
  <2> SUFFICES ASSUME IInv, ReadClockOK, Next,
                      NEW k \in DOMAIN entries \ DOMAIN entries'
               PROVE  UsedUp(k) \/ TimedOut(k) \/ Evicted(k)
    OBVIOUS
  <2>0. now \in Nat /\ \A r \in Requests : at[r] \in Nat /\ at[r] <= now
    BY DEF IInv, StoreTypeOK, ReadClockOK
  <2>1. CASE Tick \/ \E r \in Requests : Start(r)
    BY <2>1 DEF Tick, Start, SearchFirst, SearchNext, Call
  <2>2. CASE PurgeOnLen
    BY <2>0, <2>2, PurgeRemovesExpired DEF PurgeOnLen
  <2>3. ASSUME NEW r \in Requests, Proceed(r)
        PROVE  UsedUp(k) \/ TimedOut(k) \/ Evicted(k)
    <3> DEFINE live == PurgeExpired(entries, at[r])
    <3>1. k \in DOMAIN live \/ TimedOut(k)
      BY <2>0, PurgeRemovesExpired
    <3>2. CASE Begin(r)
      <4>1. DOMAIN entries' = DOMAIN live
        BY <3>2 DEF Begin
      <4> QED
        BY <3>1, <4>1
    <3>3. CASE FailPage(r) \/ \E m \in 0..MaxWatermark : EndPage(r, m)
      BY <3>3 DEF FailPage, EndPage, Call
    <3>4. CASE Insert(r)
      <4> DEFINE queue == Retain(order, live)
      <4>1. CASE entries' = live \/ entries' = InsertNew(live, r, NewData(r), at[r] + TTL)
        BY <3>1, <4>1 DEF InsertNew
      <4>2. CASE Full(live) /\ \E i \in OldestEvictable(live, queue) :
                   /\ entries' = InsertNew(Remove(live, queue[i]), r, NewData(r), at[r] + TTL)
                   /\ Return(r, "continued")
        <5>1. PICK i \in OldestEvictable(live, queue) :
                   /\ entries' = InsertNew(Remove(live, queue[i]), r, NewData(r), at[r] + TTL)
                   /\ Return(r, "continued")
          BY <4>2
        <5>2. CASE k \in DOMAIN live
          <6>1. k = queue[i]
            BY <5>1, <5>2 DEF InsertNew, Remove, Restrict
          <6>2. live[k].lease = None /\ live[k] = entries[k]
            BY <6>1, <5>2, PurgeKeepsLeased DEF OldestEvictable, Evictable, Unleased
          <6>3. Cardinality(DOMAIN entries) = Capacity
            <7>1. /\ Cardinality(DOMAIN live) >= Capacity
                  /\ DOMAIN live \subseteq DOMAIN entries
              BY <4>2, PurgeKeepsLeased DEF Full
            <7>2. /\ DOMAIN entries \subseteq Requests
                  /\ Cardinality(DOMAIN entries) <= Capacity
              BY DEF IInv, StoreTypeOK, CapacityRespected
            <7> HIDE DEF live
            <7>3. /\ Cardinality(DOMAIN live) \in Nat /\ Cardinality(DOMAIN entries) \in Nat
                  /\ Cardinality(DOMAIN live) <= Cardinality(DOMAIN entries)
              BY <7>1, <7>2, SmallerStore
            <7> QED
              BY <7>1, <7>2, <7>3, ConfigAssumption
          <6>4. pc[r] = "inserting" /\ out'[r] = "continued"
            BY <3>4, <5>1 DEF Insert, Return, IInv, StoreTypeOK
          <6> QED
            BY <6>2, <6>3, <6>4
        <5> QED
          BY <3>1, <5>2
      <4> QED
        BY <3>4, <4>1, <4>2 DEF Insert
    <3>5. CASE Commit(r)
      <4>1. pc[r] = "committing" /\ tok[r] # None
        BY <3>5 DEF Commit, IInv, LocalsOK
      <4>2. CASE k \in DOMAIN live /\ k # tok[r]
        <5>1. k \in DOMAIN Remove(live, tok[r])
          BY <4>2 DEF Remove, Restrict
        <5> QED
          BY <3>5, <4>2, <5>1 DEF Commit, InsertNew
      <4>3. CASE k \in DOMAIN live /\ k = tok[r]
        <5>1. Return(r, "last") \/ Return(r, "continued")
          BY <3>5, <4>3 DEF Commit
        <5>2. Consumed(r)'
          BY <4>1, <5>1 DEF Consumed, Return, IInv, StoreTypeOK
        <5> QED
          BY <4>1, <4>3, <5>2
      <4> QED
        BY <3>1, <4>2, <4>3
    <3>6. CASE DropLease(r)
      <4>1. /\ pc[r] = "releasing" /\ Holding(r)
            /\ entries' = Release(entries, tok[r], r, at[r])
        BY <3>6 DEF DropLease, IInv, LocalsOK, Holding
      <4>2. tok[r] \in DOMAIN entries /\ entries[tok[r]].lease = r
        BY <4>1 DEF IInv, LeaseHolderKeepsEntry
      <4>3. k = tok[r] /\ entries[k].expires <= at[r]
        BY <4>1, <4>2 DEF Release, Remove, Restrict
      <4>4. entries[k].expires \in Nat
        BY DEF IInv, StoreTypeOK, StoredCursor
      <4> QED
        BY <2>0, <4>1, <4>2, <4>3, <4>4
    <3> QED
      BY <2>3, <3>2, <3>3, <3>4, <3>5, <3>6 DEF Proceed
  <2> QED
    BY <2>1, <2>2, <2>3 DEF Next
<1> QED
  BY <1>1, SpecIInv, SpecReadClock, PTL DEF Spec, CursorNeverSilentlyLost

-----------------------------------------------------------------------------
(***************************************************************************)
(* The queue.  The theorems above do not use it: in them an eviction may   *)
(* take any unleased cursor.  What follows shows that the queue holds each *)
(* cursor of the map once, and hence that a first page is refused for lack *)
(* of room only when every cursor is leased.                               *)
(***************************************************************************)

\* The sequence q holds each element of S once and nothing else.
Holds(q, S) ==
  /\ q \in Seq(S)
  /\ \A k \in S : \E i \in 1..Len(q) : q[i] = k
  /\ \A i, j \in 1..Len(q) : q[i] = q[j] => i = j

LEMMA LeastNatural ==
  ASSUME NEW S \in SUBSET Nat, S # {}
  PROVE  \E n \in S : \A y \in S : n <= y
<1> DEFINE Below(n) == {i \in S : i < n}
           F == {Below(n) : n \in S}
<1>0. \A n \in S : n \in Nat
  OBVIOUS
<1>1. F \subseteq FiniteSubsetsOf(S) /\ F # {}
  <2>1. ASSUME NEW n \in S PROVE Below(n) \in SUBSET S /\ IsFiniteSet(Below(n))
    <3>1. n \in Nat /\ \A i \in Below(n) : i \in Nat /\ i < n
      BY <1>0
    <3>2. \A i, k \in Nat : i < k => i <= k
      OBVIOUS
    <3>3. Below(n) \in SUBSET Nat /\ \A i \in Below(n) : i <= n
      BY <3>1, <3>2
    <3>4. Below(n) \in SUBSET S
      OBVIOUS
    <3> HIDE DEF Below
    <3> QED BY <3>1, <3>3, <3>4, FS_BoundedSetOfNaturals
  <2> QED BY <2>1 DEF FiniteSubsetsOf
<1>2. PICK x \in F : \A y \in F : ~(<<y, x>> \in StrictSubsetOrdering(S))
  BY <1>1, FS_StrictSubsetOrderingWellFounded, WFMin
<1>3. PICK n \in S : x = Below(n)
  BY <1>2
<1>4. ASSUME NEW m \in S, m < n PROVE FALSE
  <2>1. Below(m) \subseteq Below(n) /\ m \in Below(n) /\ m \notin Below(m)
    <3>1. m \in Nat /\ n \in Nat
      BY <1>0
    <3>2. \A i \in Nat : (i < m => i < n) /\ ~(m < m)
      BY <1>4, <3>1
    <3> QED BY <1>0, <1>4, <3>1, <3>2
  <2>2. <<Below(m), Below(n)>> \in StrictSubsetOrdering(S)
    BY <2>1 DEF StrictSubsetOrdering
  <2> QED BY <1>2, <1>3, <2>2
<1> QED BY <1>4

\* One more element at the back (VecDeque::push_back).
LEMMA HoldsOneMore ==
  ASSUME NEW S, NEW q, Holds(q, S), NEW k, k \notin S
  PROVE  Holds(Append(q, k), S \cup {k})
<1>1. PICK n, u : n \in Nat /\ n = Len(q) /\ u = Append(q, k)
  <2>1. Len(q) \in Nat
    BY DEF Holds
  <2> QED BY <2>1
<1> n \in Nat
  BY <1>1
<1>2. u \in Seq(S \cup {k}) /\ Len(u) = n + 1 /\ u[n + 1] = k /\ \A i \in 1..n : u[i] = q[i] /\ q[i] \in S
  BY <1>1 DEF Holds
<1>3. \A i \in 1..(n + 1) : i = n + 1 \/ i \in 1..n
  BY ONLY n \in Nat
<1>4. \A x \in S \cup {k} : \E i \in 1..(n + 1) : u[i] = x
  <2>1. \A i \in 1..n : i \in 1..(n + 1)
    BY ONLY n \in Nat
  <2>2. n + 1 \in 1..(n + 1)
    BY ONLY n \in Nat
  <2> QED BY <1>1, <1>2, <2>1, <2>2 DEF Holds
<1>5. ASSUME NEW i \in 1..(n + 1), NEW j \in 1..(n + 1), u[i] = u[j] PROVE i = j
  BY <1>1, <1>2, <1>3, <1>5 DEF Holds
<1> QED BY <1>1, <1>2, <1>4, <1>5 DEF Holds

\* The element at place n joins those before it.
LEMMA PlacesUpTo ==
  ASSUME NEW n \in Nat, n > 0, NEW o, NEW D
  PROVE  /\ o[n] \in D =>
              {o[i] : i \in 1..n} \cap D = ({o[i] : i \in 1..(n - 1)} \cap D) \cup {o[n]}
         /\ o[n] \notin D =>
              {o[i] : i \in 1..n} \cap D = {o[i] : i \in 1..(n - 1)} \cap D
<1>1. \A i : i \in 1..n <=> i = n \/ i \in 1..(n - 1)
  OBVIOUS
<1> QED BY <1>1

\* f has the kept parts of the beginnings of o, up to length n.
Parts(f, o, D, n) ==
  \A m \in 0..n :
    f[m] = IF m = 0 THEN <<>> ELSE IF o[m] \in D THEN Append(f[m - 1], o[m]) ELSE f[m - 1]

LEMMA PartsExist ==
  ASSUME NEW o, NEW D, NEW l \in Nat
  PROVE  \E g : g = [m \in 0..l |-> g[m]] /\ Parts(g, o, D, l)
<1> DEFINE Has(k) == \E g : g = [m \in 0..k |-> g[m]] /\ Parts(g, o, D, k)
           Lacking == {k \in 0..l : ~Has(k)}
<1>1. ASSUME Lacking # {} PROVE FALSE
  <2>1. PICK k \in Lacking : \A y \in Lacking : k <= y
    <3>1. Lacking \in SUBSET Nat
      OBVIOUS
    <3> HIDE DEF Lacking
    <3> QED BY <1>1, <3>1, LeastNatural
  <2>2. k \in 0..l /\ ~Has(k)
    OBVIOUS
  <2>3. k # 0
    <3>1. Has(0)
      <4>1. PICK g : g = [m \in 0..0 |-> <<>>]
        OBVIOUS
      <4>2. g = [m \in 0..0 |-> g[m]] /\ Parts(g, o, D, 0)
        BY <4>1 DEF Parts
      <4> QED BY <4>2
    <3> QED BY <2>2, <3>1
  <2>4. k - 1 \in 0..l /\ k - 1 < k /\ k \in 1..l
    BY <2>2, <2>3
  <2>5. Has(k - 1)
    <3>1. k - 1 \notin Lacking
      <4> HIDE DEF Lacking
      <4> QED BY <2>1, <2>2, <2>4
    <3> QED BY <2>4, <3>1
  <2>6. PICK g : Parts(g, o, D, k - 1)
    BY <2>5
  <2>7. PICK e : e = IF o[k] \in D THEN Append(g[k - 1], o[k]) ELSE g[k - 1]
    OBVIOUS
  <2>8. PICK h : h = [m \in 0..k |-> IF m = k THEN e ELSE g[m]]
    OBVIOUS
  <2>9. ASSUME NEW m \in 0..k
        PROVE  h[m] = IF m = 0 THEN <<>>
                      ELSE IF o[m] \in D THEN Append(h[m - 1], o[m]) ELSE h[m - 1]
    <3>1. CASE m = k
      <4>1. h[m] = e /\ m # 0 /\ m - 1 \in 0..k /\ m - 1 # k /\ h[m - 1] = g[k - 1]
        BY <2>4, <2>8, <3>1
      <4> QED BY <2>7, <3>1, <4>1
    <3>2. CASE m # k
      <4>1. m \in 0..(k - 1) /\ (m # 0 => m - 1 \in 0..k /\ m - 1 # k)
        BY <2>2, <3>2
      <4>2. h[m] = g[m] /\ (m # 0 => h[m - 1] = g[m - 1])
        BY <2>8, <3>2, <4>1
      <4> QED BY <2>6, <4>1, <4>2 DEF Parts
    <3> QED BY <3>1, <3>2
  <2>10. Has(k)
    <3>1. h = [m \in 0..k |-> h[m]]
      BY <2>8
    <3>2. Parts(h, o, D, k)
      BY <2>9 DEF Parts
    <3> QED BY <3>1, <3>2
  <2> QED BY <2>2, <2>10
<1> QED BY <1>1

LEMMA RetainIs ==
  ASSUME NEW o, NEW e, NEW l \in Nat, l = Len(o)
  PROVE  \E f : Parts(f, o, DOMAIN e, l) /\ Retain(o, e) = f[l]
<1> DEFINE Eq(f) == f = [n \in 0..l |->
             IF n = 0 THEN <<>> ELSE IF o[n] \in DOMAIN e THEN Append(f[n - 1], o[n]) ELSE f[n - 1]]
<1>1. Retain(o, e) = (CHOOSE f : Eq(f))[l]
  BY DEF Retain
<1>2. \E f : Eq(f)
  <2>1. PICK g : g = [m \in 0..l |-> g[m]] /\ Parts(g, o, DOMAIN e, l)
    BY PartsExist
  <2>2. Eq(g)
    BY <2>1 DEF Parts
  <2> QED BY <2>2
<1>3. PICK f : f = (CHOOSE h : Eq(h)) /\ Eq(f)
  <2> HIDE DEF Eq
  <2> QED BY <1>2
<1>4. Parts(f, o, DOMAIN e, l)
  BY <1>3 DEF Parts
<1> QED BY <1>1, <1>3, <1>4

\* What is retained is what the map still has, each once (VecDeque::retain).
LEMMA RetainHolds ==
  ASSUME NEW S, NEW o, Holds(o, S), NEW e
  PROVE  Holds(Retain(o, e), S \cap DOMAIN e)
<1>1. PICK l, D : l \in Nat /\ l = Len(o) /\ D = DOMAIN e
  BY DEF Holds
<1> l \in Nat
  BY <1>1
<1>2. PICK f : Parts(f, o, D, l) /\ Retain(o, e) = f[l]
  BY <1>1, RetainIs
<1> DEFINE In(n) == {o[i] : i \in 1..n} \cap D
           Bad == {n \in 0..l : ~Holds(f[n], In(n))}
<1>3. ASSUME Bad # {} PROVE FALSE
  <2>1. PICK n \in Bad : \A y \in Bad : n <= y
    <3>1. Bad \in SUBSET Nat
      OBVIOUS
    <3> HIDE DEF Bad
    <3> QED BY <1>3, <3>1, LeastNatural
  <2>2. n \in 0..l /\ ~Holds(f[n], In(n))
    OBVIOUS
  <2>3. n # 0
    <3>1. f[0] = <<>> /\ In(0) = {}
      BY <1>2 DEF Parts
    <3>2. Holds(f[0], In(0))
      BY <3>1 DEF Holds
    <3> QED BY <2>2, <3>2
  <2>4. n - 1 \in 0..l /\ n \in 1..l /\ n \in Nat /\ n > 0 /\ ~(n <= n - 1)
    BY <2>2, <2>3
  <2>5. Holds(f[n - 1], In(n - 1))
    <3>1. n - 1 \notin Bad
      <4> HIDE DEF Bad
      <4> QED BY <2>1, <2>4
    <3> QED BY <2>4, <3>1
  <2>6. f[n] = IF o[n] \in D THEN Append(f[n - 1], o[n]) ELSE f[n - 1]
    BY <1>2, <2>2, <2>3 DEF Parts
  <2>7. o[n] \notin In(n - 1)
    <3>1. \A i \in 1..(n - 1) : i \in 1..l /\ i # n
      BY ONLY <2>4, l \in Nat
    <3> QED BY <1>1, <2>4, <3>1 DEF Holds
  <2>8. In(n) = IF o[n] \in D THEN In(n - 1) \cup {o[n]} ELSE In(n - 1)
    BY <2>4, PlacesUpTo
  <2> HIDE DEF In
  <2>9. Holds(Append(f[n - 1], o[n]), In(n - 1) \cup {o[n]})
    BY <2>5, <2>7, HoldsOneMore
  <2> QED BY <2>2, <2>5, <2>6, <2>8, <2>9
<1>4. Holds(f[l], In(l))
  BY <1>3
<1>5. In(l) = S \cap D
  BY <1>1 DEF Holds
<1> QED BY <1>1, <1>2, <1>4, <1>5

Joined(a, b) == a \o b

LEMMA HoldsBoth ==
  ASSUME NEW S, NEW T, S \cap T = {}, NEW a, Holds(a, S), NEW b, Holds(b, T)
  PROVE  Holds(Joined(a, b), S \cup T)
<1>1. PICK m, n, u : m \in Nat /\ n \in Nat /\ m = Len(a) /\ n = Len(b) /\ u = Joined(a, b)
  <2>1. Len(a) \in Nat /\ Len(b) \in Nat
    BY DEF Holds
  <2> QED BY <2>1
<1> m \in Nat /\ n \in Nat
  BY <1>1
<1>2. /\ u \in Seq(S \cup T) /\ Len(u) = m + n
      /\ \A i \in 1..(m + n) : u[i] = IF i <= m THEN a[i] ELSE b[i - m]
  BY <1>1 DEF Holds, Joined
<1>3. \A i \in 1..(m + n) : (i <= m => i \in 1..m) /\ (~(i <= m) => i - m \in 1..n)
  BY ONLY m \in Nat, n \in Nat
<1>4. (\A i \in 1..m : a[i] \in S) /\ (\A i \in 1..n : b[i] \in T)
  BY <1>1 DEF Holds
<1>5. \A x \in S \cup T : \E i \in 1..(m + n) : u[i] = x
  <2>1. ASSUME NEW x \in S PROVE \E i \in 1..(m + n) : u[i] = x
    <3>1. PICK i \in 1..m : a[i] = x
      BY <1>1 DEF Holds
    <3>2. i \in 1..(m + n) /\ i <= m
      BY ONLY <3>1, m \in Nat, n \in Nat, i \in 1..m
    <3> QED BY <1>2, <3>1, <3>2
  <2>2. ASSUME NEW x \in T PROVE \E i \in 1..(m + n) : u[i] = x
    <3>1. PICK i \in 1..n : b[i] = x
      BY <1>1 DEF Holds
    <3>2. m + i \in 1..(m + n) /\ ~(m + i <= m) /\ (m + i) - m = i
      BY ONLY <3>1, m \in Nat, n \in Nat, i \in 1..n
    <3> QED BY <1>2, <3>1, <3>2
  <2> QED BY <2>1, <2>2
<1>6. ASSUME NEW i \in 1..(m + n), NEW j \in 1..(m + n), u[i] = u[j] PROVE i = j
  <2>0. /\ \A x, y \in 1..m : a[x] = a[y] => x = y
        /\ \A x, y \in 1..n : b[x] = b[y] => x = y
    BY <1>1 DEF Holds
  <2>1. CASE i <= m /\ j <= m
    <3>1. i \in 1..m /\ j \in 1..m /\ a[i] = a[j]
      BY <1>2, <1>3, <1>6, <2>1
    <3> QED BY ONLY <2>0, <3>1
  <2>2. CASE ~(i <= m) /\ ~(j <= m)
    <3>1. i - m \in 1..n /\ j - m \in 1..n /\ b[i - m] = b[j - m]
      BY <1>2, <1>3, <1>6, <2>2
    <3>2. i - m = j - m
      BY ONLY <2>0, <3>1
    <3> QED BY ONLY <3>2, m \in Nat, n \in Nat, i \in 1..(m + n), j \in 1..(m + n)
  <2>3. CASE (i <= m) /\ ~(j <= m)
    BY <1>2, <1>3, <1>4, <1>6, <2>3
  <2>4. CASE ~(i <= m) /\ (j <= m)
    BY <1>2, <1>3, <1>4, <1>6, <2>4
  <2> QED BY <2>1, <2>2, <2>3, <2>4
<1> QED BY <1>1, <1>2, <1>5, <1>6 DEF Holds

LEMMA OfThese ==
  ASSUME NEW S, NEW T, NEW u \in Seq(S), \A i \in 1..Len(u) : u[i] \in T
  PROVE  u \in Seq(T)
OBVIOUS

\* A run of places of the queue.
Between(q, a, b) == {q[i] : i \in (a + 1)..b}

LEMMA HoldsPiece ==
  ASSUME NEW S, NEW q, Holds(q, S), NEW n \in Nat, n = Len(q),
         NEW a \in Nat, NEW b \in Nat, a <= b, b <= n
  PROVE  Holds(SubSeq(q, a + 1, b), Between(q, a, b))
<1>1. PICK u : u = SubSeq(q, a + 1, b)
  OBVIOUS
<1>2. Len(u) = b - a /\ b - a \in Nat /\ \A i \in 1..(b - a) : u[i] = q[a + i]
  <2>1. q \in Seq(S)
    BY DEF Holds
  <2> QED BY <1>1, <2>1
<1>3. \A i \in 1..(b - a) : a + i \in (a + 1)..b /\ a + i \in 1..n
  BY ONLY a \in Nat, b \in Nat, n \in Nat, a <= b, b <= n
<1>4. u \in Seq({q[i] : i \in (a + 1)..b})
  <2>1. q \in Seq(S) /\ u \in Seq(S)
    <3>1. q \in Seq(S)
      BY DEF Holds
    <3>2. a + 1 \in 1..(n + 1)
      OBVIOUS
    <3> QED BY <1>1, <3>1, <3>2
  <2>2. \A i \in 1..Len(u) : u[i] \in {q[j] : j \in (a + 1)..b}
    BY <1>2, <1>3
  <2> QED BY ONLY <2>1, <2>2, OfThese
<1>5. ASSUME NEW x \in {q[i] : i \in (a + 1)..b} PROVE \E i \in 1..(b - a) : u[i] = x
  <2>1. PICK i \in (a + 1)..b : x = q[i]
    BY <1>5
  <2>2. i - a \in 1..(b - a) /\ a + (i - a) = i
    OBVIOUS
  <2> QED BY <1>2, <2>1, <2>2
<1>6. ASSUME NEW i \in 1..(b - a), NEW j \in 1..(b - a), u[i] = u[j] PROVE i = j
  <2>1. a + i = a + j
    <3>1. \A x, y \in 1..n : q[x] = q[y] => x = y
      BY DEF Holds
    <3>2. a + i \in 1..n /\ a + j \in 1..n /\ q[a + i] = q[a + j]
      BY <1>2, <1>3, <1>6
    <3> QED BY ONLY <3>1, <3>2
  <2> QED BY <2>1
<1> QED BY <1>1, <1>2, <1>4, <1>5, <1>6 DEF Holds, Between

\* An eviction takes one cursor out of the queue and keeps the others, whatever it
\* rotates to the back on its way (evict_oldest_unleased).
LEMMA RotateHolds ==
  ASSUME NEW e, NEW o, Holds(o, DOMAIN e), NEW i \in 1..Len(o)
  PROVE  Holds(Rotate(o, e, i), DOMAIN e \ {o[i]})
<1>1. PICK n, D : n \in Nat /\ n = Len(o) /\ D = DOMAIN e /\ i \in 1..n
  <2>1. Len(o) \in Nat
    BY DEF Holds
  <2> QED BY <2>1
<1> n \in Nat
  BY <1>1
<1>2. PICK a, b : a = SubSeq(o, i + 1, n) /\ b = SubSeq(o, 1, i - 1)
  OBVIOUS
<1> DEFINE A == Between(o, i, n)
           B == Between(o, 0, i - 1)
<1>3. Holds(a, A)
  <2>1. i \in Nat /\ i <= n
    BY ONLY <1>1, n \in Nat
  <2>2. Holds(o, D)
    BY <1>1
  <2> QED BY ONLY <1>1, <1>2, <2>1, <2>2, n \in Nat, HoldsPiece
<1>4. Holds(b, B)
  <2>1. i - 1 \in Nat /\ 0 <= i - 1 /\ i - 1 <= n /\ 0 + 1 = 1 /\ 0 \in Nat
    BY ONLY <1>1, n \in Nat
  <2>2. Holds(o, D)
    BY <1>1
  <2>3. Holds(SubSeq(o, 0 + 1, i - 1), B)
    BY ONLY <1>1, <2>1, <2>2, n \in Nat, HoldsPiece
  <2> QED BY <1>2, <2>1, <2>3
<1>5. /\ A \cap B = {} /\ B \cap D = B /\ A \cup B = D \ {o[i]}
  <2>1. \A j \in 1..n : (j \in (i + 1)..n \/ j \in 1..(i - 1)) <=> j # i
    BY ONLY <1>1, n \in Nat
  <2>2. (i + 1)..n \subseteq 1..n /\ 1..(i - 1) \subseteq 1..n /\ (i + 1)..n \cap 1..(i - 1) = {}
    BY ONLY <1>1, n \in Nat
  <2>3. /\ \A j \in 1..n : o[j] \in D
        /\ \A k \in D : \E j \in 1..n : o[j] = k
        /\ \A j, k \in 1..n : o[j] = o[k] => j = k
    BY <1>1 DEF Holds
  <2>4. A = {o[j] : j \in (i + 1)..n} /\ B = {o[j] : j \in 1..(i - 1)}
    BY DEF Between
  <2> QED BY ONLY <2>1, <2>2, <2>3, <2>4, <1>1
<1> HIDE DEF A, B
<1>6. Holds(Retain(b, e), B)
  BY <1>1, <1>4, <1>5, RetainHolds
<1>7. Holds(Joined(a, Retain(b, e)), A \cup B)
  BY <1>3, <1>5, <1>6, HoldsBoth
<1>8. Rotate(o, e, i) = Joined(a, Retain(b, e))
  BY <1>1, <1>2 DEF Rotate, Joined
<1> QED BY <1>1, <1>5, <1>7, <1>8

QueueOK == Holds(order, DOMAIN entries)

\* A queue that is filtered by a map with fewer cursors holds those.
LEMMA RetainSmaller ==
  ASSUME QueueOK, NEW e, DOMAIN e \subseteq DOMAIN entries
  PROVE  Holds(Retain(order, e), DOMAIN e)
<1>1. Holds(Retain(order, e), DOMAIN entries \cap DOMAIN e)
  BY RetainHolds DEF QueueOK
<1>2. DOMAIN entries \cap DOMAIN e = DOMAIN e
  OBVIOUS
<1> QED BY <1>1, <1>2

LEMMA NewIsNotStored ==
  ASSUME IInv, NEW r \in Requests, pc[r] # "done"
  PROVE  r \notin DOMAIN entries
<1>1. out[r] = "none"
  BY DEF IInv, AnswerWhenDone
<1>2. r \notin Issued
  BY <1>1 DEF Issued
<1> QED BY <1>2 DEF IInv, StoredWereIssued

\* A new cursor goes to the back of the queue and into the map.
LEMMA StoreNewQueue ==
  ASSUME NEW e, NEW o, Holds(o, DOMAIN e), NEW r, r \notin DOMAIN e, NEW d, NEW x
  PROVE  Holds(Append(o, r), DOMAIN InsertNew(e, r, d, x))
<1>1. DOMAIN InsertNew(e, r, d, x) = DOMAIN e \cup {r}
  BY DEF InsertNew
<1> QED BY <1>1, HoldsOneMore

LEMMA BeginQueue ==
  ASSUME IInv, QueueOK, NEW r \in Requests, Begin(r)
  PROVE  QueueOK'
<1>1. PICK live : live = PurgeExpired(entries, at[r])
  OBVIOUS
<1>2. DOMAIN live \subseteq DOMAIN entries
  BY <1>1, PurgeKeepsLeased
<1>3. order' = Retain(order, live) /\ DOMAIN entries' = DOMAIN live
  BY <1>1 DEF Begin
<1> QED BY <1>2, <1>3, RetainSmaller DEF QueueOK

LEMMA InsertQueue ==
  ASSUME IInv, QueueOK, NEW r \in Requests, Insert(r)
  PROVE  QueueOK'
<1>1. PICK live : live = PurgeExpired(entries, at[r])
  OBVIOUS
<1>2. DOMAIN live \subseteq DOMAIN entries
  BY <1>1, PurgeKeepsLeased
<1>3. PICK queue : queue = Retain(order, live) /\ Holds(queue, DOMAIN live)
  BY <1>2, RetainSmaller
<1>4. r \notin DOMAIN live
  <2>1. pc[r] = "inserting"
    BY DEF Insert
  <2> QED BY <1>2, <2>1, NewIsNotStored
<1>5. PICK d, x : d = NewData(r) /\ x = at[r] + TTL
  OBVIOUS
<1>6. CASE entries' = InsertNew(live, r, d, x) /\ order' = Append(queue, r)
  BY <1>3, <1>4, <1>6, StoreNewQueue DEF QueueOK
<1>7. ASSUME NEW i \in OldestEvictable(live, queue),
             entries' = InsertNew(Remove(live, queue[i]), r, d, x),
             order' = Append(Rotate(queue, live, i), r)
      PROVE  QueueOK'
  <2>1. i \in 1..Len(queue)
    <3>1. i \in DOMAIN queue
      BY DEF OldestEvictable, Evictable
    <3>2. queue \in Seq(DOMAIN live)
      BY <1>3 DEF Holds
    <3> QED BY <3>1, <3>2
  <2>2. PICK e, o : e = Remove(live, queue[i]) /\ o = Rotate(queue, live, i)
    OBVIOUS
  <2>3. DOMAIN e = DOMAIN live \ {queue[i]}
    BY <2>2, RemoveOnlyThat
  <2>4. Holds(o, DOMAIN e)
    BY <1>3, <2>1, <2>2, <2>3, RotateHolds
  <2>5. r \notin DOMAIN e
    BY <1>4, <2>3
  <2> QED BY <1>7, <2>2, <2>4, <2>5, StoreNewQueue DEF QueueOK
<1>8. CASE entries' = live /\ order' = queue
  BY <1>3, <1>8 DEF QueueOK
<1>9. \/ entries' = InsertNew(live, r, d, x) /\ order' = Append(queue, r)
      \/ \E i \in OldestEvictable(live, queue) :
           /\ entries' = InsertNew(Remove(live, queue[i]), r, d, x)
           /\ order' = Append(Rotate(queue, live, i), r)
      \/ entries' = live /\ order' = queue
  BY <1>1, <1>3, <1>5 DEF Insert
<1> QED BY <1>6, <1>7, <1>8, <1>9

LEMMA CommitQueue ==
  ASSUME IInv, QueueOK, NEW r \in Requests, Commit(r)
  PROVE  QueueOK'
<1>1. PICK live : live = PurgeExpired(entries, at[r])
  OBVIOUS
<1>2. DOMAIN live \subseteq DOMAIN entries
  BY <1>1, PurgeKeepsLeased
<1>3. PICK rest : rest = Remove(live, tok[r])
  OBVIOUS
<1>4. DOMAIN rest \subseteq DOMAIN entries
  BY <1>2, <1>3 DEF Remove, Restrict
<1>5. r \notin DOMAIN rest
  <2>1. pc[r] = "committing"
    BY DEF Commit
  <2> QED BY <1>4, <2>1, NewIsNotStored
<1>6. PICK d, x : d = NewData(r) /\ x = at[r] + TTL
  OBVIOUS
<1>7. \/ entries' = live /\ order' = Retain(order, live)
      \/ entries' = rest /\ order' = Retain(order, rest)
      \/ /\ entries' = InsertNew(rest, r, d, x)
         /\ order' = Append(Retain(order, rest), r)
  BY <1>1, <1>3, <1>6 DEF Commit
<1>8. Holds(Retain(order, live), DOMAIN live) /\ Holds(Retain(order, rest), DOMAIN rest)
  BY <1>2, <1>4, RetainSmaller
<1> QED BY <1>5, <1>7, <1>8, StoreNewQueue DEF QueueOK

LEMMA DropLeaseQueue ==
  ASSUME QueueOK, NEW r \in Requests, DropLease(r)
  PROVE  QueueOK'
<1>1. PICK e : e = Release(entries, tok[r], r, at[r])
  OBVIOUS
<1>2. entries' = e /\ order' = Retain(order, e)
  BY <1>1 DEF DropLease
<1>3. DOMAIN e \subseteq DOMAIN entries
  BY <1>1 DEF Release, Remove, Restrict
<1> QED BY <1>2, <1>3, RetainSmaller DEF QueueOK

LEMMA PurgeOnLenQueue ==
  ASSUME QueueOK, PurgeOnLen
  PROVE  QueueOK'
<1>1. PICK e : e = PurgeExpired(entries, now)
  OBVIOUS
<1>2. entries' = e /\ order' = Retain(order, e)
  BY <1>1 DEF PurgeOnLen
<1>3. DOMAIN e \subseteq DOMAIN entries
  BY <1>1, PurgeKeepsLeased
<1> QED BY <1>2, <1>3, RetainSmaller DEF QueueOK

LEMMA StepQueue == IInv /\ QueueOK /\ [Next]_vars => QueueOK'
<1> SUFFICES ASSUME IInv, QueueOK, [Next]_vars PROVE QueueOK'
  OBVIOUS
<1>1. CASE UNCHANGED <<entries, order>>
  BY <1>1 DEF QueueOK
<1>2. CASE Tick \/ UNCHANGED vars \/ \E r \in Requests : Start(r)
  BY <1>1, <1>2 DEF Tick, vars, Start, SearchFirst, SearchNext, Call
<1>3. CASE PurgeOnLen
  BY <1>3, PurgeOnLenQueue
<1>4. ASSUME NEW r \in Requests, Proceed(r) PROVE QueueOK'
  <2>1. CASE FailPage(r) \/ \E m \in 0..MaxWatermark : EndPage(r, m)
    BY <1>1, <2>1 DEF FailPage, EndPage, Call
  <2> QED BY <1>4, <2>1, BeginQueue, InsertQueue, CommitQueue, DropLeaseQueue DEF Proceed
<1> QED BY <1>2, <1>3, <1>4 DEF Next

LEMMA SpecQueue == Spec => []QueueOK
<1>1. Init => QueueOK
  BY DEF Init, QueueOK, Holds
<1> QED BY <1>1, StepQueue, SpecIInv, PTL DEF Spec

\* Through purges, rotating evictions, commits and releases, the queue holds
\* the cursors of the map, each once (CursorStoreState).
THEOREM QueueIsTheMap == Spec => []OrderMatchesEntries
<1>1. QueueOK => OrderMatchesEntries
  <2> SUFFICES ASSUME QueueOK PROVE OrderMatchesEntries
    OBVIOUS
  <2>1. DOMAIN order = 1..Len(order) /\ \A i \in 1..Len(order) : order[i] \in DOMAIN entries
    BY DEF QueueOK, Holds
  <2>2. Range(order) = DOMAIN entries
    <3>1. \A k \in DOMAIN entries : \E i \in 1..Len(order) : order[i] = k
      BY DEF QueueOK, Holds
    <3>2. Range(order) = {order[i] : i \in 1..Len(order)}
      BY <2>1 DEF Range
    <3> QED BY ONLY <2>1, <3>1, <3>2
  <2>3. IsInjective(order)
    BY <2>1 DEF IsInjective, QueueOK, Holds
  <2> QED BY <2>2, <2>3 DEF OrderMatchesEntries
<1> QED BY <1>1, SpecQueue, PTL

\* The store says CAPACITY_BUSY to a first page only when every cursor it holds
\* is leased: the eviction has looked at all of them (insert).
THEOREM BusyMeansLeased == Spec => BusyOnlyWhenAllLeased
<1> DEFINE AllLeased == \A r \in Requests : out'[r] = "CapacityBusy" /\ out[r] = "none" =>
                          Leased(entries') = DOMAIN entries'
<1>1. IInv /\ QueueOK /\ [Next]_vars => [AllLeased]_vars
  <2> SUFFICES ASSUME IInv, QueueOK, Next, NEW r \in Requests,
                      out'[r] = "CapacityBusy", out[r] = "none"
               PROVE  Leased(entries') = DOMAIN entries'
    OBVIOUS
  <2>1. PICK live : live = PurgeExpired(entries, at[r])
    OBVIOUS
  <2>2. PICK queue : queue = Retain(order, live)
    OBVIOUS
  <2>3. Insert(r) /\ entries' = live /\ Evictable(live, queue) = {}
    <3> USE DEF IInv, StoreTypeOK
    <3>1. ~Tick /\ ~PurgeOnLen /\ \A s \in Requests : ~Start(s)
      BY DEF Tick, PurgeOnLen, Start, SearchFirst, SearchNext, Call
    <3>2. PICK s \in Requests : Proceed(s)
      BY <3>1 DEF Next
    <3>3. BeginRefusal(PurgeExpired(entries, at[s]), tok[s], query[s]) # "CapacityBusy"
      BY DEF BeginRefusal
    <3>4. s = r /\ Insert(s)
      BY <3>2, <3>3 DEF Proceed, Begin, EndPage, FailPage, Insert, Commit, DropLease, Call, Return
    <3>5. ~Return(r, "continued")
      BY DEF Return
    <3> QED BY <2>1, <2>2, <3>4, <3>5 DEF Insert
  <2>4. Holds(queue, DOMAIN live)
    BY <2>1, <2>2, PurgeKeepsLeased, RetainSmaller
  <2>5. ASSUME NEW k \in DOMAIN live PROVE live[k].lease # None
    <3>1. PICK i \in 1..Len(queue) : queue[i] = k
      BY <2>4 DEF Holds
    <3>2. i \in DOMAIN queue
      BY <2>4, <3>1 DEF Holds
    <3> QED BY <2>3, <3>1, <3>2 DEF Evictable, Unleased
  <2> QED BY <2>3, <2>5 DEF Leased
<1> QED BY <1>1, SpecIInv, SpecQueue, PTL DEF Spec, BusyOnlyWhenAllLeased

-----------------------------------------------------------------------------
(***************************************************************************)
(* The cursor store implements the linear cursors of CursorChain, for any  *)
(* number of requests, any capacity and TTL: whatever the clock, the       *)
(* purges, the evictions and the order of the locked sections do, to the   *)
(* clients a cursor is issued once, held by one request at a time, spent   *)
(* once and replaced by one that stands further on.                        *)
(***************************************************************************)

(***************************************************************************)
(* What the refinement needs beside IInv: a commit was called with a       *)
(* watermark behind the one of its lease, or with none.                    *)
(***************************************************************************)
Advances ==
  \A r \in Requests :
    pc[r] = "committing" => cont[r] = 0 \/ cont[r] > held[r].after

LEMMA StepAdvances == IInv /\ Advances /\ [Next]_vars => Advances'
<1> SUFFICES ASSUME IInv, Advances, [Next]_vars PROVE Advances'
  OBVIOUS
<1>0. StoreTypeOK
  BY DEF IInv
<1>1. CASE UNCHANGED vars
  BY <1>1 DEF vars, Advances
<1>2. CASE Tick \/ PurgeOnLen
  BY <1>2 DEF Tick, PurgeOnLen, Advances
<1>3. ASSUME NEW r \in Requests, Start(r) PROVE Advances'
  BY <1>0, <1>3 DEF Start, SearchFirst, SearchNext, Call, Advances, StoreTypeOK
<1>4. ASSUME NEW r \in Requests, Proceed(r) PROVE Advances'
  <2>1. CASE Begin(r)
    BY <1>0, <2>1 DEF Begin, Return, Advances, StoreTypeOK
  <2>2. ASSUME NEW m \in 0..MaxWatermark, EndPage(r, m) PROVE Advances'
    BY <1>0, <2>2 DEF EndPage, Call, Advances, StoreTypeOK
  <2>3. CASE FailPage(r)
    BY <1>0, <2>3 DEF FailPage, Call, Advances, StoreTypeOK
  <2>4. CASE Insert(r)
    BY <1>0, <2>4 DEF Insert, Return, Advances, StoreTypeOK
  <2>5. CASE Commit(r)
    BY <1>0, <2>5 DEF Commit, Return, Advances, StoreTypeOK
  <2>6. CASE DropLease(r)
    BY <1>0, <2>6 DEF DropLease, Return, Advances, StoreTypeOK
  <2> QED BY <1>4, <2>1, <2>2, <2>3, <2>4, <2>5, <2>6 DEF Proceed
<1> QED BY <1>1, <1>2, <1>3, <1>4 DEF Next

LEMMA SpecAdvances == Spec => []Advances
<1>1. Init => Advances
  BY DEF Init, Advances
<1> QED BY <1>1, SpecIInv, StepAdvances, PTL DEF Spec

-----------------------------------------------------------------------------
(***************************************************************************)
(* A step of the store as a step of the chain.  What distinguishes the     *)
(* steps is the cursors they touch; of all others a step may only remove   *)
(* unleased ones, by purge or eviction.                                    *)
(***************************************************************************)

\* Of the cursors it does not touch, a step removes only unleased ones.
OthersRemain(touched) ==
  /\ DOMAIN entries' \subseteq DOMAIN entries \cup touched
  /\ \A k \in DOMAIN entries \ touched :
       /\ k \in DOMAIN entries' => entries'[k] = entries[k]
       /\ k \in Leased(entries) => k \in DOMAIN entries'
  /\ \A k \in Requests \ touched :
       /\ k \in Issued' <=> k \in Issued
       /\ Spent(k)' <=> Spent(k)

\* The cursors a step loses.
Lost(touched) == Unleased(entries) \ (DOMAIN entries' \cup touched)

\* A cursor of the store is not spent, for whoever consumes one removes it.
LEMMA StoredNotSpent ==
  ASSUME IInv, NEW k \in DOMAIN entries
  PROVE  k \in Requests /\ k \in Issued /\ ~Spent(k)
BY DEF IInv, StoreTypeOK, StoredWereIssued, ConsumedIsGone, Spent

\* Each cursor that is not touched is lost or stays what it is.
LEMMA OthersMove ==
  ASSUME IInv, NEW touched \in SUBSET Requests, OthersRemain(touched),
         NEW k \in Requests, k \notin touched
  PROVE  /\ UserOf(k)' = UserOf(k)
         /\ k \in Lost(touched) =>
              StageOf(k) = "live" /\ StageOf(k)' = "lost" /\ MarkOf(k)' = 0
         /\ k \notin Lost(touched) => StageOf(k)' = StageOf(k) /\ MarkOf(k)' = MarkOf(k)
<1>1. (k \in Issued' <=> k \in Issued) /\ (Spent(k)' <=> Spent(k))
  BY DEF OthersRemain
<1>2. CASE k \in DOMAIN entries /\ k \in DOMAIN entries'
  <2>1. entries'[k] = entries[k]
    BY <1>2 DEF OthersRemain
  <2> QED BY <1>2, <2>1 DEF UserOf, StageOf, MarkOf, Lost
<1>3. CASE k \in DOMAIN entries /\ k \notin DOMAIN entries'
  <2>1. k \in Unleased(entries) /\ entries[k].lease = None
    BY <1>3 DEF OthersRemain, Leased, Unleased
  <2>2. k \in Issued /\ ~Spent(k)
    BY <1>3, StoredNotSpent
  <2>3. k \in Lost(touched)
    BY <1>3, <2>1 DEF Lost
  <2>4. StageOf(k) = "live" /\ UserOf(k) = None
    BY <1>3, <2>1 DEF StageOf, UserOf
  <2>5. StageOf(k)' = "lost" /\ UserOf(k)' = None /\ MarkOf(k)' = 0
    BY <1>1, <1>3, <2>2 DEF StageOf, UserOf, MarkOf
  <2> QED BY <2>3, <2>4, <2>5
<1>4. CASE k \notin DOMAIN entries
  <2>1. k \notin DOMAIN entries' /\ k \notin Lost(touched)
    BY <1>4 DEF OthersRemain, Lost, Unleased
  <2> QED BY <1>1, <1>4, <2>1 DEF UserOf, StageOf, MarkOf
<1> QED BY <1>2, <1>3, <1>4

LEMMA StepMoves ==
  ASSUME IInv, NEW touched \in SUBSET Requests, OthersRemain(touched),
         NEW s, NEW u, NEW m, DOMAIN s = touched,
         \A k \in touched : StageOf(k)' = s[k] /\ UserOf(k)' = u[k] /\ MarkOf(k)' = m[k]
  PROVE  Lost(touched) \in SUBSET Chain!Live /\ Chain!Move(Lost(touched), s, u, m)
<1>1. Lost(touched) \subseteq DOMAIN entries /\ Lost(touched) \cap touched = {}
  BY DEF Lost, Unleased
<1>2. DOMAIN entries \subseteq Requests
  BY DEF IInv, StoreTypeOK
<1>3. Lost(touched) \subseteq Chain!Live
  BY <1>1, <1>2, OthersMove DEF Chain!Live
<1>4. [k \in Requests |-> StageOf(k)]' =
        [k \in Requests |-> IF k \in DOMAIN s THEN s[k]
                            ELSE IF k \in Lost(touched) THEN "lost"
                            ELSE [x \in Requests |-> StageOf(x)][k]]
  BY OthersMove
<1>5. [k \in Requests |-> UserOf(k)]' =
        [k \in Requests |-> IF k \in DOMAIN s THEN u[k]
                            ELSE [x \in Requests |-> UserOf(x)][k]]
  BY OthersMove
<1>6. [k \in Requests |-> MarkOf(k)]' =
        [k \in Requests |-> IF k \in DOMAIN s THEN m[k]
                            ELSE IF k \in Lost(touched) THEN 0
                            ELSE [x \in Requests |-> MarkOf(x)][k]]
  BY OthersMove
<1> QED BY <1>3, <1>4, <1>5, <1>6 DEF Chain!Move

\* A step that touches no cursor loses some and changes no other.
LEMMA StepLoses ==
  ASSUME IInv, OthersRemain({})
  PROVE  Chain!Next
<1> DEFINE none == <<>>
<1>1. DOMAIN none = {}
  OBVIOUS
<1>2. Lost({}) \in SUBSET Chain!Live /\ Chain!Move(Lost({}), none, none, none)
  BY <1>1, StepMoves
<1>3. Chain!Lose(Lost({}))
  BY <1>2 DEF Chain!Lose
<1> QED BY <1>2, <1>3 DEF Chain!Next

\* A step of a request that gets no page changes neither what was issued nor
\* what was spent.
LEMMA NoPageNoChange ==
  ASSUME IInv, NEW r \in Requests,
         out[r] = "none", out'[r] \notin {"last", "continued"},
         out' = [out EXCEPT ![r] = out'[r]],
         \A x \in Requests \ {r} : tok'[x] = tok[x]
  PROVE  \A k \in Requests : (k \in Issued' <=> k \in Issued) /\ (Spent(k)' <=> Spent(k))
<1>1. out \in [Requests -> Answers]
  BY DEF IInv, StoreTypeOK
<1>2. \A x \in Requests \ {r} : out'[x] = out[x]
  BY <1>1
<1> QED BY <1>1, <1>2 DEF Issued, Spent, Consumed

\* A step that leaves the map alone and gives no page is none of the chain's.
LEMMA StutterSteps ==
  ASSUME IInv, entries' = entries,
         \A k \in Requests : (k \in Issued' <=> k \in Issued) /\ (Spent(k)' <=> Spent(k))
  PROVE  UNCHANGED Chain!vars
<1>1. \A k \in Requests :
        StageOf(k)' = StageOf(k) /\ UserOf(k)' = UserOf(k) /\ MarkOf(k)' = MarkOf(k)
  BY DEF StageOf, UserOf, MarkOf
<1> QED BY <1>1 DEF Chain!vars

LEMMA QuietSteps ==
  ASSUME IInv, NEW r \in Requests,
         \/ \E q \in Queries : SearchFirst(r, q) \/ \E t \in Requests : SearchNext(r, t, q)
         \/ FailPage(r)
         \/ \E m \in 0..MaxWatermark : EndPage(r, m)
  PROVE  UNCHANGED Chain!vars
<1>1. out \in [Requests -> Answers] /\ tok \in [Requests -> Requests \cup {None}]
  BY DEF IInv, StoreTypeOK
<1>2. entries' = entries /\ pc[r] # "done"
  BY DEF SearchFirst, SearchNext, FailPage, EndPage, Call
<1>3. out[r] = "none"
  BY <1>2 DEF IInv, AnswerWhenDone
<1>4. CASE out' = out
  <2>1. \A x \in Requests \ {r} : tok'[x] = tok[x]
    BY <1>1 DEF SearchFirst, SearchNext, FailPage, EndPage, Call
  <2> QED BY <1>1, <1>2, <1>3, <1>4, <2>1, NoPageNoChange, StutterSteps
<1>5. CASE tok[r] = None /\ tok' = tok /\ \E a \in {"last", "failed"} : out' = [out EXCEPT ![r] = a]
  <2>1. \A k \in Requests : (k \in Issued' <=> k \in Issued) /\ (Spent(k)' <=> Spent(k))
    BY <1>1, <1>3, <1>5, NoneAssumption DEF Issued, Spent, Consumed
  <2> QED BY <1>2, <2>1, StutterSteps
<1>6. out' = out \/ (tok[r] = None /\ tok' = tok /\ \E a \in {"last", "failed"} : out' = [out EXCEPT ![r] = a])
  BY DEF SearchFirst, SearchNext, FailPage, EndPage, Call
<1> QED BY <1>4, <1>5, <1>6

\* A purge loses the expired cursors nobody holds.
LEMMA PurgeMoves ==
  ASSUME IInv, PurgeOnLen
  PROVE  Chain!Next
<1>1. /\ DOMAIN entries' \subseteq DOMAIN entries
      /\ \A k \in DOMAIN entries' : entries'[k] = entries[k]
      /\ Leased(entries') = Leased(entries)
  BY PurgeKeepsLeased DEF PurgeOnLen
<1>2. \A k \in Requests : (k \in Issued' <=> k \in Issued) /\ (Spent(k)' <=> Spent(k))
  BY DEF PurgeOnLen, Issued, Spent, Consumed
<1>3. OthersRemain({})
  BY <1>1, <1>2 DEF OthersRemain, Leased
<1> QED BY <1>3, StepLoses

\* begin leases a live cursor, or loses what its purge takes.
LEMMA BeginMoves ==
  ASSUME IInv, NEW r \in Requests, NEW t, t = tok[r], Begin(r)
  PROVE  Chain!Next
<1> DEFINE live == PurgeExpired(entries, at[r])
           refusal == BeginRefusal(live, t, query[r])
<1>1. /\ DOMAIN live \subseteq DOMAIN entries
      /\ \A k \in DOMAIN live : live[k] = entries[k]
      /\ Leased(live) = Leased(entries)
  BY PurgeKeepsLeased
<1>2. pc[r] = "beginning" /\ tok' = tok /\ out[r] = "none" /\ out \in [Requests -> Answers]
  BY DEF Begin, Return, IInv, AnswerWhenDone, StoreTypeOK
<1>3. CASE refusal = "none"
  <2>1. entries' = [live EXCEPT ![t].lease = r] /\ out' = out
    BY <1>3 DEF Begin
  <2>2. t \in DOMAIN live /\ live[t].lease = None
    BY <1>3 DEF BeginRefusal
  <2>3. /\ DOMAIN entries' = DOMAIN live
        /\ \A k \in DOMAIN live \ {t} : entries'[k] = live[k]
        /\ entries'[t] = [live[t] EXCEPT !.lease = r]
    BY <2>1, <2>2
  <2>4. live[t] \in StoredCursor /\ t \in Requests /\ live[t] = entries[t]
    BY <1>1, <2>2 DEF IInv, StoreTypeOK
  <2>5. entries'[t].lease = r /\ entries'[t].data = entries[t].data
    BY <2>3, <2>4 DEF StoredCursor
  <2>6. \A k \in Requests : (k \in Issued' <=> k \in Issued) /\ (Spent(k)' <=> Spent(k))
    BY <1>2, <2>1 DEF Issued, Spent, Consumed
  <2>7. OthersRemain({t})
    BY <1>1, <2>3, <2>6 DEF OthersRemain, Leased
  <2> DEFINE s == [x \in {t} |-> "leased"]
             u == [x \in {t} |-> r]
             m == [x \in {t} |-> MarkOf(t)]
  <2>8. StageOf(t)' = "leased" /\ UserOf(t)' = r /\ MarkOf(t)' = MarkOf(t)
    BY <1>1, <2>2, <2>3, <2>5, NoneAssumption DEF StageOf, UserOf, MarkOf
  <2>9. Lost({t}) \in SUBSET Chain!Live /\ Chain!Move(Lost({t}), s, u, m)
    <3>1. DOMAIN s = {t} /\ {t} \in SUBSET Requests
      BY <2>4
    <3>2. \A k \in {t} : StageOf(k)' = s[k] /\ UserOf(k)' = u[k] /\ MarkOf(k)' = m[k]
      BY <2>8
    <3> HIDE DEF s, u, m
    <3> QED BY <2>7, <3>1, <3>2, StepMoves
  <2>10. StageOf(t) = "live" /\ t \notin Lost({t})
    BY <1>1, <2>2, <2>4 DEF StageOf, Lost
  <2>11. Chain!Lease(Lost({t}), t, r)
    BY <2>4, <2>9, <2>10 DEF Chain!Lease
  <2> QED BY <2>4, <2>9, <2>11 DEF Chain!Next
<1>4. CASE refusal # "none"
  <2>1. entries' = live /\ Return(r, refusal)
    BY <1>4 DEF Begin
  <2>2. refusal \in {"UnknownOrExpired", "QueryMismatch", "Busy"}
    BY <1>4 DEF BeginRefusal
  <2>3. out' = [out EXCEPT ![r] = refusal] /\ out'[r] = refusal
    BY <1>2, <2>1 DEF Return
  <2>4. \A k \in Requests : (k \in Issued' <=> k \in Issued) /\ (Spent(k)' <=> Spent(k))
    BY <1>2, <2>2, <2>3, NoPageNoChange
  <2>5. OthersRemain({})
    BY <1>1, <2>1, <2>4 DEF OthersRemain, Leased
  <2> QED BY <2>5, StepLoses
<1> QED BY <1>3, <1>4

\* The drop of a lease gives its cursor back, or loses it when it is too old.
LEMMA DropMoves ==
  ASSUME IInv, NEW r \in Requests, NEW t, t = tok[r], DropLease(r)
  PROVE  Chain!Next
<1>1. /\ pc[r] = "releasing" /\ tok' = tok /\ out[r] = "none" /\ out \in [Requests -> Answers]
      /\ out' = [out EXCEPT ![r] = "failed"] /\ out'[r] = "failed"
      /\ entries' = Release(entries, t, r, at[r])
  BY DEF DropLease, Return, IInv, AnswerWhenDone, StoreTypeOK
<1>2. Holding(r)
  BY <1>1 DEF IInv, LocalsOK, Holding
<1>3. t \in DOMAIN entries /\ entries[t].lease = r /\ t \in Requests /\ entries[t] \in StoredCursor
  BY <1>2 DEF IInv, LeaseHolderKeepsEntry, StoreTypeOK
<1>4. \A k \in Requests : (k \in Issued' <=> k \in Issued) /\ (Spent(k)' <=> Spent(k))
  BY <1>1, NoPageNoChange
<1>5. StageOf(t) = "leased"
  BY <1>3, NoneAssumption DEF StageOf
<1>6. t \in Issued /\ ~Spent(t)
  BY <1>3, StoredNotSpent
<1>7. Lost({t}) = {} /\ OthersRemain({t})
  <2>1. CASE entries[t].expires <= at[r]
    <3>1. entries' = Remove(entries, t)
      BY <1>1, <1>3, <2>1 DEF Release
    <3>2. DOMAIN entries' = DOMAIN entries \ {t} /\ \A k \in DOMAIN entries' : entries'[k] = entries[k]
      BY <3>1, RemoveOnlyThat
    <3> QED BY <1>4, <3>2 DEF Lost, OthersRemain, Unleased
  <2>2. CASE ~(entries[t].expires <= at[r])
    <3>1. entries' = [entries EXCEPT ![t].lease = None]
      BY <1>1, <1>3, <2>2 DEF Release
    <3>2. /\ DOMAIN entries' = DOMAIN entries
          /\ \A k \in DOMAIN entries \ {t} : entries'[k] = entries[k]
      BY <3>1
    <3> QED BY <1>4, <3>2 DEF Lost, OthersRemain, Unleased
  <2> QED BY <2>1, <2>2
<1>8. CASE entries[t].expires <= at[r]
  <2> DEFINE s == [x \in {t} |-> "lost"]
             u == [x \in {t} |-> None]
             m == [x \in {t} |-> 0]
  <2>1. entries' = Remove(entries, t)
    BY <1>1, <1>3, <1>8 DEF Release
  <2>2. t \notin DOMAIN entries'
    <3>1. t \notin DOMAIN Remove(entries, t)
      BY ONLY RemoveOnlyThat
    <3> QED BY ONLY <2>1, <3>1
  <2>3. StageOf(t)' = "lost" /\ UserOf(t)' = None /\ MarkOf(t)' = 0
    BY <1>3, <1>4, <1>6, <2>2 DEF StageOf, UserOf, MarkOf
  <2>4. Chain!Move({}, s, u, m)
    <3>1. DOMAIN s = {t} /\ {t} \in SUBSET Requests
      BY <1>3
    <3>2. \A k \in {t} : StageOf(k)' = s[k] /\ UserOf(k)' = u[k] /\ MarkOf(k)' = m[k]
      BY <2>3
    <3> HIDE DEF s, u, m
    <3> QED BY <1>7, <3>1, <3>2, StepMoves
  <2> QED BY <1>3, <1>5, <2>4 DEF Chain!GiveBack, Chain!Next
<1>9. CASE ~(entries[t].expires <= at[r])
  <2> DEFINE s == [x \in {t} |-> "live"]
             u == [x \in {t} |-> None]
             m == [x \in {t} |-> MarkOf(t)]
  <2>1. entries' = [entries EXCEPT ![t].lease = None]
    BY <1>1, <1>3, <1>9 DEF Release
  <2>2. t \in DOMAIN entries' /\ entries'[t].lease = None /\ entries'[t].data = entries[t].data
    BY <1>3, <2>1 DEF StoredCursor
  <2>3. StageOf(t)' = "live" /\ UserOf(t)' = None /\ MarkOf(t)' = MarkOf(t)
    BY <1>3, <2>2 DEF StageOf, UserOf, MarkOf
  <2>4. Chain!Move({}, s, u, m)
    <3>1. DOMAIN s = {t} /\ {t} \in SUBSET Requests
      BY <1>3
    <3>2. \A k \in {t} : StageOf(k)' = s[k] /\ UserOf(k)' = u[k] /\ MarkOf(k)' = m[k]
      BY <2>3
    <3> HIDE DEF s, u, m
    <3> QED BY <1>7, <3>1, <3>2, StepMoves
  <2> QED BY <1>3, <1>5, <2>4 DEF Chain!GiveBack, Chain!Next
<1> QED BY <1>8, <1>9

\* A first page with a continuation issues the cursor it stores, or loses what
\* its purge takes; the cursor evicted for it is lost.
LEMMA InsertMoves ==
  ASSUME IInv, NEW r \in Requests, Insert(r)
  PROVE  Chain!Next
<1> DEFINE live == PurgeExpired(entries, at[r])
           queue == Retain(order, live)
           new == NewData(r)
           expires == at[r] + TTL
<1>1. /\ DOMAIN live \subseteq DOMAIN entries
      /\ \A k \in DOMAIN live : live[k] = entries[k]
      /\ Leased(live) = Leased(entries)
  BY PurgeKeepsLeased
<1>2. /\ pc[r] = "inserting" /\ tok' = tok /\ out[r] = "none" /\ out \in [Requests -> Answers]
      /\ tok[r] = None /\ tok \in [Requests -> Requests \cup {None}]
      /\ cont[r] \in 1..MaxWatermark
  BY BoundAssumption DEF Insert, Return, IInv, AnswerWhenDone, StoreTypeOK, LocalsOK
<1>3. CASE out' = [out EXCEPT ![r] = "CapacityBusy"] /\ entries' = live
  <2>1. \A k \in Requests : (k \in Issued' <=> k \in Issued) /\ (Spent(k)' <=> Spent(k))
    BY <1>2, <1>3, NoPageNoChange
  <2>2. OthersRemain({})
    BY <1>1, <1>3, <2>1 DEF OthersRemain, Leased
  <2> QED BY <2>2, StepLoses
<1>4. ASSUME out' = [out EXCEPT ![r] = "continued"],
             NEW kept, entries' = InsertNew(kept, r, new, expires),
             DOMAIN kept \subseteq DOMAIN live, Leased(entries) \subseteq DOMAIN kept,
             \A k \in DOMAIN kept : kept[k] = live[k]
      PROVE  Chain!Next
  <2>1. r \notin DOMAIN entries /\ r \notin Issued
    BY <1>2 DEF IInv, StoredWereIssued, Issued
  <2>2. /\ DOMAIN entries' = DOMAIN kept \cup {r}
        /\ \A k \in DOMAIN kept \ {r} : entries'[k] = kept[k]
        /\ entries'[r] = [data |-> new, expires |-> expires, lease |-> None]
    BY <1>4 DEF InsertNew
  <2>3. \A k \in Requests \ {r} : (k \in Issued' <=> k \in Issued) /\ (Spent(k)' <=> Spent(k))
    BY <1>2, <1>4, NoneAssumption DEF Issued, Spent, Consumed
  <2>4. OthersRemain({r})
    BY <1>1, <1>4, <2>2, <2>3 DEF OthersRemain
  <2>5. StageOf(r) = "unissued"
    BY <2>1 DEF StageOf
  <2>6. StageOf(r)' = "live" /\ UserOf(r)' = None /\ MarkOf(r)' = cont[r]
    BY <2>2 DEF StageOf, UserOf, MarkOf, NewData
  <2> DEFINE s == [x \in {r} |-> "live"]
             u == [x \in {r} |-> None]
             m == [x \in {r} |-> cont[r]]
  <2>7. Lost({r}) \in SUBSET Chain!Live /\ Chain!Move(Lost({r}), s, u, m)
    <3>1. DOMAIN s = {r} /\ {r} \in SUBSET Requests
      OBVIOUS
    <3>2. \A k \in {r} : StageOf(k)' = s[k] /\ UserOf(k)' = u[k] /\ MarkOf(k)' = m[k]
      BY <2>6
    <3> HIDE DEF s, u, m
    <3> QED BY <2>4, <3>1, <3>2, StepMoves
  <2>8. Chain!Issue(Lost({r}), r, cont[r])
    BY <2>5, <2>7 DEF Chain!Issue
  <2> QED BY <1>2, <2>7, <2>8 DEF Chain!Next
<1>5. CASE /\ entries' = InsertNew(live, r, new, expires)
           /\ out' = [out EXCEPT ![r] = "continued"]
  <2>1. Leased(entries) \subseteq DOMAIN live
    BY <1>1 DEF Leased
  <2> HIDE DEF live
  <2> QED BY <1>4, <1>5, <2>1
<1>6. ASSUME NEW i \in OldestEvictable(live, queue),
             entries' = InsertNew(Remove(live, queue[i]), r, new, expires),
             out' = [out EXCEPT ![r] = "continued"]
      PROVE  Chain!Next
  <2>1. queue[i] \notin Leased(entries)
    BY <1>1 DEF OldestEvictable, Evictable, Unleased, Leased
  <2>2. /\ DOMAIN Remove(live, queue[i]) = DOMAIN live \ {queue[i]}
        /\ \A k \in DOMAIN Remove(live, queue[i]) : Remove(live, queue[i])[k] = live[k]
    BY RemoveOnlyThat
  <2>3. Leased(entries) \subseteq DOMAIN live
    BY <1>1 DEF Leased
  <2>4. /\ DOMAIN Remove(live, queue[i]) \subseteq DOMAIN live
        /\ Leased(entries) \subseteq DOMAIN Remove(live, queue[i])
    BY <2>1, <2>2, <2>3
  <2> HIDE DEF live, queue
  <2> QED BY <1>4, <1>6, <2>2, <2>4
<1>7. \/ out' = [out EXCEPT ![r] = "CapacityBusy"] /\ entries' = live
      \/ /\ entries' = InsertNew(live, r, new, expires)
         /\ out' = [out EXCEPT ![r] = "continued"]
      \/ \E i \in OldestEvictable(live, queue) :
           /\ entries' = InsertNew(Remove(live, queue[i]), r, new, expires)
           /\ out' = [out EXCEPT ![r] = "continued"]
  BY DEF Insert, Return
<1> QED BY <1>3, <1>5, <1>6, <1>7

\* A commit spends the cursor of its lease and issues the next one, if there is
\* one, further on; the other cursors it removes had expired.
LEMMA CommitMoves ==
  ASSUME IInv, Advances, NEW r \in Requests, NEW t, t = tok[r], Commit(r)
  PROVE  Chain!Next
<1> DEFINE live == PurgeExpired(entries, at[r])
           rest == Remove(live, t)
           new == NewData(r)
           expires == at[r] + TTL
<1>1. /\ DOMAIN live \subseteq DOMAIN entries
      /\ \A k \in DOMAIN live : live[k] = entries[k]
      /\ Leased(live) = Leased(entries)
  BY PurgeKeepsLeased
<1>2. /\ DOMAIN rest = DOMAIN live \ {t}
      /\ \A k \in DOMAIN rest : rest[k] = live[k]
  BY RemoveOnlyThat
<1>3. /\ pc[r] = "committing" /\ tok' = tok /\ out[r] = "none" /\ out \in [Requests -> Answers]
      /\ t # None /\ tok \in [Requests -> Requests \cup {None}]
      /\ cont[r] \in 0..MaxWatermark
  BY DEF Commit, Return, IInv, AnswerWhenDone, StoreTypeOK, LocalsOK
<1>4. t \in DOMAIN entries /\ entries[t].lease = r /\ t \in Requests /\ entries[t].data = held[r]
  BY <1>3 DEF IInv, LeaseHolderKeepsEntry, StoreTypeOK, Holding
<1>5. t \in DOMAIN live /\ live[t] = entries[t]
  BY <1>1, <1>4, NoneAssumption DEF Leased
<1>6. /\ r \notin DOMAIN entries /\ r \notin Issued /\ r # t /\ t \in Issued
  BY <1>3, <1>4 DEF IInv, StoredWereIssued, Issued
<1>7. StageOf(t) = "leased" /\ UserOf(t) = r /\ MarkOf(t) = held[r].after /\ StageOf(r) = "unissued"
  BY <1>4, <1>6, NoneAssumption DEF StageOf, UserOf, MarkOf
<1>8. ASSUME NEW a \in {"last", "continued"}, out' = [out EXCEPT ![r] = a]
      PROVE  /\ \A k \in Requests \ {r} : k \in Issued' <=> k \in Issued
             /\ \A k \in Requests \ {t} : Spent(k)' <=> Spent(k)
             /\ Spent(t)'
  <2>1. \A x \in Requests : out'[x] = IF x = r THEN a ELSE out[x]
    BY <1>3, <1>8
  <2>2. Consumed(r)'
    BY <1>3, <2>1 DEF Consumed
  <2>3. \A x \in Requests \ {r} : Consumed(x)' <=> Consumed(x)
    BY <1>3, <2>1 DEF Consumed
  <2>4. ~Consumed(r)
    BY <1>3 DEF Consumed
  <2>5. Spent(t)'
    BY <1>3, <2>2 DEF Spent
  <2>6. \A k \in Requests \ {t} : Spent(k)' <=> Spent(k)
    BY <1>3, <2>2, <2>3, <2>4 DEF Spent
  <2>7. \A k \in Requests \ {r} : k \in Issued' <=> k \in Issued
    BY <2>1 DEF Issued
  <2> QED BY <2>5, <2>6, <2>7
<1>9. CASE cont[r] = 0 /\ entries' = rest /\ out' = [out EXCEPT ![r] = "last"]
  <2>0. r \notin Issued'
    BY <1>3, <1>9 DEF Issued
  <2>1. \A k \in Requests : k \in Issued' <=> k \in Issued
    BY <1>6, <1>8, <1>9, <2>0
  <2>2. OthersRemain({t})
    BY <1>1, <1>2, <1>8, <1>9, <2>1 DEF OthersRemain, Leased
  <2>3. t \notin DOMAIN entries' /\ Spent(t)' /\ t \in Issued'
    BY <1>2, <1>4, <1>6, <1>8, <1>9, <2>1
  <2>4. StageOf(t)' = "spent" /\ UserOf(t)' = None /\ MarkOf(t)' = 0
    BY <2>3 DEF StageOf, UserOf, MarkOf
  <2> DEFINE s == [x \in {t} |-> "spent"]
             u == [x \in {t} |-> None]
             m == [x \in {t} |-> 0]
  <2>5. Lost({t}) \in SUBSET Chain!Live /\ Chain!Move(Lost({t}), s, u, m)
    <3>1. DOMAIN s = {t} /\ {t} \in SUBSET Requests
      BY <1>4
    <3>2. \A k \in {t} : StageOf(k)' = s[k] /\ UserOf(k)' = u[k] /\ MarkOf(k)' = m[k]
      BY <2>4
    <3> HIDE DEF s, u, m
    <3> QED BY <2>2, <3>1, <3>2, StepMoves
  <2>6. Chain!Spend(Lost({t}), t)
    BY <1>4, <1>7, <2>5 DEF Chain!Spend
  <2> QED BY <1>4, <2>5, <2>6 DEF Chain!Next
<1>10. CASE /\ cont[r] # 0 /\ entries' = InsertNew(rest, r, new, expires)
            /\ out' = [out EXCEPT ![r] = "continued"]
  <2>1. /\ DOMAIN entries' = (DOMAIN live \ {t}) \cup {r}
        /\ \A k \in DOMAIN live \ {t, r} : entries'[k] = live[k]
        /\ entries'[r] = [data |-> new, expires |-> expires, lease |-> None]
    BY <1>2, <1>10 DEF InsertNew
  <2>2. OthersRemain({t, r})
    BY <1>1, <1>8, <1>10, <2>1 DEF OthersRemain, Leased
  <2>3. t \notin DOMAIN entries' /\ Spent(t)' /\ t \in Issued'
    BY <1>4, <1>6, <1>8, <1>10, <2>1
  <2>4. StageOf(t)' = "spent" /\ UserOf(t)' = None /\ MarkOf(t)' = 0
    BY <2>3 DEF StageOf, UserOf, MarkOf
  <2>5. StageOf(r)' = "live" /\ UserOf(r)' = None /\ MarkOf(r)' = cont[r]
    BY <2>1 DEF StageOf, UserOf, MarkOf, NewData
  <2>6. cont[r] \in 1..MaxWatermark /\ cont[r] > MarkOf(t)
    BY <1>3, <1>7, <1>10, BoundAssumption DEF Advances
  <2> DEFINE s == [x \in {t, r} |-> IF x = t THEN "spent" ELSE "live"]
             u == [x \in {t, r} |-> None]
             m == [x \in {t, r} |-> IF x = t THEN 0 ELSE cont[r]]
  <2>7. Lost({t, r}) \in SUBSET Chain!Live /\ Chain!Move(Lost({t, r}), s, u, m)
    <3>1. DOMAIN s = {t, r} /\ {t, r} \in SUBSET Requests
      BY <1>4
    <3>2. \A k \in {t, r} : StageOf(k)' = s[k] /\ UserOf(k)' = u[k] /\ MarkOf(k)' = m[k]
      BY <1>6, <2>4, <2>5
    <3> HIDE DEF s, u, m
    <3> QED BY <2>2, <3>1, <3>2, StepMoves
  <2>8. Chain!Advance(Lost({t, r}), t, cont[r])
    BY <1>4, <1>7, <2>6, <2>7 DEF Chain!Advance
  <2> QED BY <1>4, <2>6, <2>7, <2>8 DEF Chain!Next
<1>11. \/ cont[r] = 0 /\ entries' = rest /\ out' = [out EXCEPT ![r] = "last"]
       \/ /\ cont[r] # 0 /\ entries' = InsertNew(rest, r, new, expires)
          /\ out' = [out EXCEPT ![r] = "continued"]
  BY <1>4, <1>5 DEF Commit, Return
<1> QED BY <1>9, <1>10, <1>11

-----------------------------------------------------------------------------
\* Every step of the store is a step of the chain or changes none of it.
LEMMA StepImplements ==
  IInv /\ Advances /\ [Next]_vars => [Chain!Next]_(Chain!vars)
<1> SUFFICES ASSUME IInv, Advances, [Next]_vars, UNCHANGED Chain!vars => FALSE
             PROVE  Chain!Next
  OBVIOUS
<1>1. CASE entries' = entries /\ out' = out /\ tok' = tok
  <2>1. \A k \in Requests : (k \in Issued' <=> k \in Issued) /\ (Spent(k)' <=> Spent(k))
    BY <1>1 DEF Issued, Spent, Consumed
  <2> QED BY <1>1, <2>1, StutterSteps
<1>2. CASE UNCHANGED vars \/ Tick
  BY <1>1, <1>2 DEF vars, Tick
<1>3. CASE PurgeOnLen
  BY <1>3, PurgeMoves
<1>4. ASSUME NEW r \in Requests, Start(r) PROVE Chain!Next
  BY <1>4, QuietSteps DEF Start
<1>5. ASSUME NEW r \in Requests, Proceed(r) PROVE Chain!Next
  <2>1. CASE Begin(r)
    BY <2>1, BeginMoves
  <2>2. CASE FailPage(r) \/ \E m \in 0..MaxWatermark : EndPage(r, m)
    BY <2>2, QuietSteps
  <2>3. CASE Insert(r)
    BY <2>3, InsertMoves
  <2>4. CASE Commit(r)
    BY <2>4, CommitMoves
  <2>5. CASE DropLease(r)
    BY <2>5, DropMoves
  <2> QED BY <1>5, <2>1, <2>2, <2>3, <2>4, <2>5 DEF Proceed
<1> QED BY <1>2, <1>3, <1>4, <1>5 DEF Next

LEMMA InitImplements == Init => Chain!Init
<1> SUFFICES ASSUME Init PROVE Chain!Init
  OBVIOUS
<1>1. DOMAIN entries = {} /\ Issued = {}
  BY DEF Init, Issued
<1>2. \A k \in Requests : StageOf(k) = "unissued" /\ UserOf(k) = None /\ MarkOf(k) = 0
  BY <1>1 DEF StageOf, UserOf, MarkOf
<1> QED BY <1>2 DEF Chain!Init

\* Whatever the clock, purges, evictions and races do, a cursor is issued once,
\* leased to one search at a time, spent by at most one of them, replaced by one
\* that stands further on, and never comes back once spent or lost: the store
\* (begin, commit, release_lease, insert) implements linear cursors.
THEOREM ChainImplemented == Spec => ImplementsChain
<1> QED BY InitImplements, StepImplements, SpecIInv, SpecAdvances, PTL
        DEF Spec, ImplementsChain, Chain!Spec

-----------------------------------------------------------------------------
(***************************************************************************)
(* The service.                                                            *)
(***************************************************************************)

\* What one call does is a step of its request on the cursor store, or leaves
\* the store alone.
LEMMA ServiceActor ==
  ASSUME NEW r \in Requests, Receive(r) \/ Handle(r)
  PROVE  Start(r) \/ Proceed(r) \/ UNCHANGED vars
<1>1. CASE EndOfPage(r)
  <2>1. PICK m \in Continuations(r) : EndPage(r, m)
    BY <1>1 DEF EndOfPage
  <2>2. m \in 0..MaxWatermark
    BY BoundAssumption DEF Continuations, Watermarks
  <2> QED BY <2>1, <2>2 DEF Proceed
<1>2. CASE ~EndOfPage(r)
  BY <1>2 DEF Receive, Handle, Lease, Fail, PageScanned, Register, StoreCursor, GiveBack,
              Proceed
<1> QED BY <1>1, <1>2

\* Every step of the service is one of the cursor store, or leaves it alone.
LEMMA ServiceStepsStore == [ServiceNext]_serviceVars => [Next]_vars
<1> SUFFICES ASSUME [ServiceNext]_serviceVars PROVE [Next]_vars
  OBVIOUS
<1>1. CASE UNCHANGED serviceVars
  BY <1>1 DEF serviceVars
<1>2. ASSUME NEW r \in Requests, Receive(r) \/ Handle(r) PROVE [Next]_vars
  BY <1>2, ServiceActor DEF Next
<1>3. CASE Tick \/ PurgeOnLen
  BY <1>3 DEF Next
<1> QED BY <1>1, <1>2, <1>3 DEF ServiceNext

\* The calls of search_logs use the cursor store as CursorStore says, so all
\* that is proved of it holds of the whole service.
THEOREM ServiceUsesStore == ServiceSpec => Spec
<1>1. ServiceInit => Init
  BY DEF ServiceInit
<1> QED BY <1>1, ServiceStepsStore, PTL DEF ServiceSpec, Spec

(***************************************************************************)
(* The inductive invariant, beside that of the store.  Two parts carry the *)
(* properties: a page that was scanned is not dropped before it is         *)
(* answered, so that whoever has registered references answers with a page *)
(* or has no room for its cursor; and a final answer is final, for the     *)
(* cursor it was about is gone for good, or was made for another query.    *)
(***************************************************************************)

HasPage(r) ==
  lines[r] # None => pc[r] \in {"scanning", "inserting", "committing"}

ReferencesHavePage(r) ==
  r \in Range(refs) =>
    \/ lines[r] # None \/ out[r] \in {"last", "continued"}
    \/ out[r] = "CapacityBusy" /\ tok[r] = None

LeasedForQuery(r) == Holding(r) => query[r] = held[r].query

KnownCursor(r) == tok[r] \notin {None, r} => out[tok[r]] # "none"

UselessCursor(r) ==
  tok[r] # None /\ out[r] \notin {"none", "failed", "Busy"} =>
    /\ out[tok[r]] # "none"
    /\ tok[r] \in DOMAIN entries => entries[tok[r]].data.query # reply[r].query

ReplyOK(r) ==
  IF out[r] = "none" THEN reply[r] = None
  ELSE reply[r] \in [code : Codes(out[r]), query : Queries]

CallOK(r) ==
  /\ ReplyOK(r)
  /\ HasPage(r)
  /\ ReferencesHavePage(r)
  /\ LeasedForQuery(r)
  /\ KnownCursor(r)
  /\ UselessCursor(r)

PageTypeOK ==
  /\ lines \in [Requests -> 0..PageLines \cup {None}]
  /\ registered \in [Requests -> 0..PageLines]
  /\ reply \in [Requests -> {None} \cup
                  [code : Failures \cup {"PAGE", "RESOURCE_LIMIT", "CURSOR_INVALID"},
                   query : Queries]]
  /\ refs \in Seq(Requests) /\ Len(refs) <= RefCapacity

SInv ==
  /\ IInv
  /\ PageTypeOK
  /\ \A r \in Requests : CallOK(r)

LEMMA InitSInv == ServiceInit => SInv
<1> SUFFICES ASSUME ServiceInit PROVE SInv
  OBVIOUS
<1>1. IInv
  BY InitIInv DEF ServiceInit
<1>2. PageTypeOK
  BY PageAssumption DEF PageTypeOK, ServiceInit
<1>3. ASSUME NEW r \in Requests PROVE CallOK(r)
  <2>1. r \notin Range(refs)
    BY DEF ServiceInit, Range
  <2> QED
    BY <2>1 DEF ServiceInit, Init, CallOK, ReplyOK, HasPage, ReferencesHavePage,
                LeasedForQuery, Holding, KnownCursor, UselessCursor
<1> QED BY <1>1, <1>2, <1>3 DEF SInv

-----------------------------------------------------------------------------
(***************************************************************************)
(* What a step of the store leaves alone.                                  *)
(***************************************************************************)

\* A step of one request changes no local value of another.
SameCall(x) ==
  /\ pc'[x] = pc[x] /\ tok'[x] = tok[x] /\ query'[x] = query[x]
  /\ held'[x] = held[x] /\ out'[x] = out[x]

LEMMA OtherCallsSame ==
  ASSUME IInv, NEW r \in Requests, Start(r) \/ Proceed(r),
         NEW x \in Requests, x # r
  PROVE  SameCall(x)
<1> USE DEF IInv, StoreTypeOK, SameCall
<1>1. CASE Start(r)
  BY <1>1 DEF Start, SearchFirst, SearchNext, Call
<1>2. CASE Begin(r)
  BY <1>2 DEF Begin, Return
<1>3. CASE FailPage(r) \/ \E m \in 0..MaxWatermark : EndPage(r, m)
  BY <1>3 DEF FailPage, EndPage, Call
<1>4. CASE Insert(r)
  BY <1>4 DEF Insert, Return
<1>5. CASE Commit(r)
  BY <1>5 DEF Commit, Return
<1>6. CASE DropLease(r)
  BY <1>6 DEF DropLease, Return
<1> QED BY <1>1, <1>2, <1>3, <1>4, <1>5, <1>6 DEF Proceed

\* The cursor of a call that was answered is not stored anew, and the query of
\* a stored cursor never changes.
LEMMA AnsweredStayAsTheyAre ==
  ASSUME IInv, [Next]_vars, NEW k \in Requests, out[k] # "none"
  PROVE  /\ out'[k] = out[k] /\ tok'[k] = tok[k]
         /\ k \in DOMAIN entries' =>
              k \in DOMAIN entries /\ entries'[k].data = entries[k].data
<1>0. pc[k] = "done" /\ IInv'
  BY StepIInv DEF IInv, AnswerWhenDone
<1>1. CASE UNCHANGED vars \/ Tick
  BY <1>1 DEF vars, Tick
<1>2. CASE PurgeOnLen
  BY <1>2, PurgeKeepsLeased DEF PurgeOnLen
<1>3. ASSUME NEW r \in Requests, Start(r)
      PROVE  out'[k] = out[k] /\ tok'[k] = tok[k] /\ entries' = entries
  BY <1>0, <1>3 DEF Start, SearchFirst, SearchNext, Call, IInv, StoreTypeOK
<1>4. ASSUME NEW r \in Requests, Proceed(r)
      PROVE  /\ out'[k] = out[k] /\ tok'[k] = tok[k]
             /\ k \in DOMAIN entries' =>
                  k \in DOMAIN entries /\ entries'[k].data = entries[k].data
  <2>1. r # k
    BY <1>0, <1>4 DEF Proceed, Begin, EndPage, FailPage, Insert, Commit, DropLease
  <2>2. SameCall(k)
    BY <1>4, <2>1, OtherCallsSame
  <2> DEFINE live == PurgeExpired(entries, at[r])
             queue == Retain(order, live)
  <2>3. /\ DOMAIN live \subseteq DOMAIN entries
        /\ \A x \in DOMAIN live : live[x] = entries[x]
    BY PurgeKeepsLeased
  <2>4. \A x \in DOMAIN entries : entries[x] \in StoredCursor
    BY DEF IInv, StoreTypeOK
  <2>5. CASE Begin(r)
    <3>1. entries' = live \/ entries' = [live EXCEPT ![tok[r]].lease = r]
      BY <2>5 DEF Begin
    <3> HIDE DEF live
    <3> QED BY <2>2, <2>3, <2>4, <3>1 DEF StoredCursor, SameCall
  <2>6. CASE FailPage(r) \/ \E m \in 0..MaxWatermark : EndPage(r, m)
    BY <2>6, <2>2 DEF FailPage, EndPage, Call, SameCall
  <2>7. CASE Insert(r)
    <3>1. \/ entries' = live
          \/ entries' = InsertNew(live, r, NewData(r), at[r] + TTL)
          \/ \E i \in OldestEvictable(live, queue) :
               entries' = InsertNew(Remove(live, queue[i]), r, NewData(r), at[r] + TTL)
      BY <2>7 DEF Insert
    <3> HIDE DEF live, queue
    <3>2. \A i : /\ DOMAIN Remove(live, queue[i]) \subseteq DOMAIN live
                 /\ \A x \in DOMAIN Remove(live, queue[i]) : Remove(live, queue[i])[x] = live[x]
      BY DEF Remove, Restrict
    <3> QED BY <2>1, <2>2, <2>3, <3>1, <3>2 DEF InsertNew, SameCall
  <2>8. CASE Commit(r)
    <3> DEFINE rest == Remove(live, tok[r])
    <3>1. \/ entries' = live \/ entries' = rest
          \/ entries' = InsertNew(rest, r, NewData(r), at[r] + TTL)
      BY <2>8 DEF Commit
    <3>2. /\ DOMAIN rest \subseteq DOMAIN live
          /\ \A x \in DOMAIN rest : rest[x] = live[x]
      BY DEF Remove, Restrict
    <3> HIDE DEF live, rest
    <3> QED BY <2>1, <2>2, <2>3, <3>1, <3>2 DEF InsertNew, SameCall
  <2>9. CASE DropLease(r)
    <3> DEFINE t == tok[r]
    <3>1. \/ entries' = entries \/ entries' = Remove(entries, t)
          \/ entries' = [entries EXCEPT ![t].lease = None]
      BY <2>9 DEF DropLease, Release
    <3>2. /\ DOMAIN Remove(entries, t) \subseteq DOMAIN entries
          /\ \A x \in DOMAIN Remove(entries, t) : Remove(entries, t)[x] = entries[x]
      BY DEF Remove, Restrict
    <3> HIDE DEF t
    <3> QED BY <2>2, <2>4, <3>1, <3>2 DEF SameCall, StoredCursor
  <2> QED BY <1>4, <2>2, <2>5, <2>6, <2>7, <2>8, <2>9 DEF Proceed, SameCall
<1> QED BY <1>1, <1>2, <1>3, <1>4 DEF Next

-----------------------------------------------------------------------------
(***************************************************************************)
(* Steps of the service.                                                   *)
(***************************************************************************)

\* A call that does nothing stays as it is, whatever the others do.
LEMMA IdleCallOK ==
  ASSUME SInv, [Next]_vars, NEW x \in Requests, SameCall(x),
         lines'[x] = lines[x], reply'[x] = reply[x],
         x \in Range(refs') => x \in Range(refs)
  PROVE  CallOK(x)'
<1>1. CallOK(x) /\ IInv
  BY DEF SInv
<1>2. ReplyOK(x)' /\ HasPage(x)' /\ ReferencesHavePage(x)'
  BY <1>1 DEF CallOK, ReplyOK, HasPage, ReferencesHavePage, SameCall
<1>3. LeasedForQuery(x)'
  BY <1>1 DEF CallOK, LeasedForQuery, Holding, SameCall
<1>4. UselessCursor(x)'
  <2> DEFINE k == tok[x]
  <2> SUFFICES ASSUME k # None, out[x] \notin {"none", "failed", "Busy"}
               PROVE  /\ out'[k] # "none"
                      /\ k \in DOMAIN entries' => entries'[k].data.query # reply[x].query
    BY DEF UselessCursor, SameCall
  <2>1. /\ k \in Requests /\ out[k] # "none"
        /\ k \in DOMAIN entries => entries[k].data.query # reply[x].query
    BY <1>1 DEF CallOK, UselessCursor, IInv, StoreTypeOK
  <2> HIDE DEF k
  <2> QED BY <1>1, <2>1, AnsweredStayAsTheyAre
<1>5. KnownCursor(x)'
  BY <1>1, AnsweredStayAsTheyAre DEF CallOK, KnownCursor, SameCall, IInv, StoreTypeOK
<1> QED BY <1>2, <1>3, <1>4, <1>5 DEF CallOK

LEMMA CallStep ==
  ASSUME SInv, [Next]_vars, NEW r \in Requests, Start(r) \/ Proceed(r) \/ UNCHANGED vars,
         PageTypeOK', Range(refs') \subseteq Range(refs) \cup {r}, CallOK(r)',
         \A x \in Requests \ {r} : lines'[x] = lines[x] /\ reply'[x] = reply[x]
  PROVE  SInv'
<1>1. IInv'
  BY StepIInv DEF SInv
<1>2. ASSUME NEW x \in Requests, x # r PROVE SameCall(x)
  BY <1>2, OtherCallsSame DEF SInv, SameCall, vars
<1>3. ASSUME NEW x \in Requests, x # r PROVE CallOK(x)'
  BY <1>2, <1>3, IdleCallOK
<1> QED BY <1>1, <1>3 DEF SInv

\* What Reply does, for a call that had not been answered.
LEMMA ReplyEffect ==
  ASSUME SInv, IInv', NEW r \in Requests, Reply(r), out[r] = "none",
         query[r] \in Queries, refs' = refs
  PROVE  /\ PageTypeOK'
         /\ \A x \in Requests \ {r} : lines'[x] = lines[x] /\ reply'[x] = reply[x]
         /\ ReplyOK(r)'
         /\ out'[r] = "none" => lines'[r] = lines[r]
         /\ out'[r] # "none" => lines'[r] = None /\ reply'[r].query = query[r]
<1>1. PageTypeOK /\ reply[r] = None
  BY DEF SInv, CallOK, ReplyOK
<1>2. CASE out'[r] = "none"
  BY <1>1, <1>2 DEF Reply, page, PageTypeOK, ReplyOK
<1>3. CASE out'[r] # "none"
  <2>1. PICK c \in Codes(out'[r]) : reply' = [reply EXCEPT ![r] = [code |-> c, query |-> query[r]]]
    BY <1>3 DEF Reply
  <2>2. out'[r] \in Answers \ {"none"}
    BY <1>3 DEF IInv, StoreTypeOK
  <2>3. c \in Failures \cup {"PAGE", "RESOURCE_LIMIT", "CURSOR_INVALID"}
    BY <2>1, <2>2 DEF Codes, Answers
  <2>4. /\ lines' = [lines EXCEPT ![r] = None]
        /\ registered' = [registered EXCEPT ![r] = 0]
    BY <1>3 DEF Reply
  <2> HIDE DEF Codes
  <2>5. /\ reply'[r] = [code |-> c, query |-> query[r]]
        /\ \A x \in Requests \ {r} : reply'[x] = reply[x]
        /\ lines'[r] = None
        /\ \A x \in Requests \ {r} : lines'[x] = lines[x]
    BY <1>1, <2>1, <2>4 DEF PageTypeOK
  <2>6. PageTypeOK'
    BY <1>1, <2>1, <2>3, <2>4, PageAssumption DEF PageTypeOK
  <2>7. ReplyOK(r)'
    BY <1>3, <2>1, <2>5 DEF ReplyOK
  <2> QED BY <1>3, <2>5, <2>6, <2>7
<1> QED BY <1>2, <1>3

LEMMA ReceiveSInv ==
  ASSUME SInv, NEW r \in Requests, Receive(r)
  PROVE  SInv'
<1>1. [Next]_vars /\ IInv /\ PageTypeOK /\ CallOK(r) /\ Start(r)
  BY DEF Receive, Next, SInv
<1>2. pc[r] = "idle" /\ out' = out /\ lines' = lines /\ refs' = refs /\ reply' = reply
  BY <1>1 DEF Receive, page, Start, SearchFirst, SearchNext, Call
<1>3. out[r] = "none" /\ lines[r] = None
  BY <1>1, <1>2 DEF IInv, AnswerWhenDone, CallOK, HasPage
<1>4. ~Holding(r)'
  <2>1. \/ pc' = [pc EXCEPT ![r] = "scanning"] /\ tok' = tok
        \/ pc' = [pc EXCEPT ![r] = "beginning"]
    BY <1>1 DEF Start, SearchFirst, SearchNext, Call
  <2>2. tok[r] = None /\ pc \in [Requests -> Phases]
    BY <1>1, <1>2 DEF IInv, LocalsOK, StoreTypeOK
  <2> QED BY <2>1, <2>2 DEF Holding
<1>5. KnownCursor(r)'
  <2>1. tok'[r] \in {None, r} \cup Issued
    BY <1>1 DEF Start, SearchFirst, SearchNext, IInv, LocalsOK, StoreTypeOK
  <2> QED BY <1>2, <2>1 DEF KnownCursor, Issued
<1>6. CallOK(r)'
  BY <1>1, <1>2, <1>3, <1>4, <1>5
     DEF CallOK, ReplyOK, HasPage, ReferencesHavePage, LeasedForQuery, UselessCursor
<1>7. PageTypeOK'
  BY <1>1, <1>2 DEF PageTypeOK, Receive, page
<1> QED BY <1>1, <1>2, <1>6, <1>7, CallStep

LEMMA LeaseSInv ==
  ASSUME SInv, NEW r \in Requests, Lease(r)
  PROVE  SInv'
<1> DEFINE live == PurgeExpired(entries, at[r])
           t == tok[r]
           refusal == BeginRefusal(live, t, query[r])
<1>1. [Next]_vars /\ IInv /\ CallOK(r) /\ Proceed(r) /\ Begin(r) /\ Reply(r) /\ refs' = refs
  BY DEF Lease, Proceed, Next, SInv
<1>2. IInv'
  BY <1>1, StepIInv
<1>3. /\ pc[r] = "beginning" /\ out[r] = "none" /\ t # None /\ t \in Requests
      /\ query[r] \in Queries /\ lines[r] = None /\ tok' = tok
  BY <1>1 DEF Begin, Return, IInv, AnswerWhenDone, LocalsOK, StoreTypeOK, CallOK, HasPage
<1>4. /\ PageTypeOK'
      /\ \A x \in Requests \ {r} : lines'[x] = lines[x] /\ reply'[x] = reply[x]
      /\ ReplyOK(r)' /\ lines'[r] = None
      /\ out'[r] # "none" => reply'[r].query = query[r]
  BY <1>1, <1>2, <1>3, ReplyEffect
<1>5. HasPage(r)' /\ ReferencesHavePage(r)' /\ KnownCursor(r)'
  <2>1. KnownCursor(r)'
    BY <1>1, <1>3, AnsweredStayAsTheyAre DEF KnownCursor, CallOK
  <2> QED
    BY <1>1, <1>3, <1>4, <2>1 DEF HasPage, ReferencesHavePage, CallOK
<1>6. CASE refusal = "none"
  <2>1. /\ held' = [held EXCEPT ![r] = live[t].data] /\ query' = query /\ out' = out
        /\ live[t].data.query = query[r]
    BY <1>1, <1>6 DEF Begin, BeginRefusal
  <2>2. LeasedForQuery(r)'
    BY <1>1, <1>3, <2>1 DEF LeasedForQuery, IInv, StoreTypeOK
  <2>3. UselessCursor(r)'
    BY <1>3, <2>1 DEF UselessCursor
  <2> QED BY <1>1, <1>4, <1>5, <2>2, <2>3, CallStep DEF CallOK
<1>7. CASE refusal # "none"
  <2>1. entries' = live /\ Return(r, refusal)
    BY <1>1, <1>7 DEF Begin
  <2>2. pc'[r] = "done" /\ out' = [out EXCEPT ![r] = refusal] /\ out'[r] = refusal
    BY <1>1, <2>1 DEF Return, IInv, StoreTypeOK
  <2>3. LeasedForQuery(r)'
    BY <2>2 DEF LeasedForQuery, Holding
  <2>4. ASSUME refusal # "Busy"
        PROVE  /\ out'[t] # "none"
               /\ t \in DOMAIN entries' => entries'[t].data.query # reply'[r].query
    <3>1. t \in DOMAIN live => live[t].data.query # query[r]
      BY <1>7, <2>4 DEF BeginRefusal
    <3>2. out'[r] # "none"
      BY <1>7, <2>2
    <3>3. CASE t = r
      BY <1>4, <2>1, <3>1, <3>2, <3>3
    <3>4. CASE t # r
      <4>1. out[t] # "none"
        BY <1>1, <1>3, <3>4 DEF CallOK, KnownCursor
      <4> QED BY <1>3, <1>4, <2>1, <2>2, <3>1, <3>2, <3>4, <4>1
    <3> QED BY <3>3, <3>4
  <2>5. UselessCursor(r)'
    BY <1>3, <2>2, <2>4 DEF UselessCursor
  <2> QED BY <1>1, <1>4, <1>5, <2>3, <2>5, CallStep DEF CallOK
<1> QED BY <1>6, <1>7

\* A call that ends: whatever it was about, what is said of it is now about its
\* answer.
LEMMA AnsweredOK ==
  ASSUME SInv, NEW r \in Requests, [Next]_vars, Proceed(r), Reply(r), refs' = refs,
         out[r] = "none", out'[r] # "none", pc'[r] = "done", tok' = tok,
         query[r] \in Queries, ReferencesHavePage(r)',
         out'[r] \notin {"failed", "Busy"} /\ tok[r] # None =>
           tok[r] # r /\ tok[r] \notin DOMAIN entries'
  PROVE  SInv'
<1>1. IInv /\ IInv' /\ CallOK(r)
  BY StepIInv DEF SInv
<1>2. /\ PageTypeOK'
      /\ \A x \in Requests \ {r} : lines'[x] = lines[x] /\ reply'[x] = reply[x]
      /\ ReplyOK(r)' /\ lines'[r] = None
  BY <1>1, ReplyEffect
<1>3. HasPage(r)' /\ LeasedForQuery(r)'
  BY <1>2 DEF HasPage, LeasedForQuery, Holding
<1>4. KnownCursor(r)'
  BY <1>1, AnsweredStayAsTheyAre DEF KnownCursor, CallOK, IInv, StoreTypeOK
<1>5. UselessCursor(r)'
  BY <1>4 DEF UselessCursor, KnownCursor
<1>6. CallOK(r)'
  BY <1>2, <1>3, <1>4, <1>5 DEF CallOK
<1> QED BY <1>2, <1>6, CallStep

\* A call that goes on, without a reply: it keeps its page, cursor and query.
LEMMA GoesOnOK ==
  ASSUME SInv, NEW r \in Requests, [Next]_vars, Proceed(r) \/ UNCHANGED vars,
         out[r] = "none", out'[r] = "none",
         tok' = tok, query'[r] = query[r], held'[r] = held[r],
         tok[r] # None => Holding(r),
         PageTypeOK', Range(refs') \subseteq Range(refs) \cup {r},
         \A x \in Requests \ {r} : lines'[x] = lines[x] /\ reply'[x] = reply[x],
         reply'[r] = reply[r],
         HasPage(r)', ReferencesHavePage(r)'
  PROVE  SInv'
<1>1. IInv /\ CallOK(r)
  BY DEF SInv
<1>2. ReplyOK(r)' /\ UselessCursor(r)'
  BY <1>1 DEF ReplyOK, UselessCursor, CallOK
<1>3. LeasedForQuery(r)'
  BY <1>1 DEF LeasedForQuery, CallOK, Holding
<1>4. KnownCursor(r)'
  BY <1>1, AnsweredStayAsTheyAre DEF KnownCursor, CallOK, IInv, StoreTypeOK
<1>5. CallOK(r)'
  BY <1>2, <1>3, <1>4 DEF CallOK
<1> QED BY <1>5, CallStep

LEMMA FailSInv ==
  ASSUME SInv, NEW r \in Requests, Fail(r)
  PROVE  SInv'
<1>1. /\ [Next]_vars /\ IInv /\ CallOK(r) /\ PageTypeOK /\ Proceed(r) /\ FailPage(r)
      /\ Reply(r) /\ refs' = refs /\ lines[r] = None
  BY DEF Fail, Proceed, Next, SInv
<1>2. /\ pc[r] = "scanning" /\ out[r] = "none" /\ query[r] \in Queries
      /\ tok' = tok /\ query' = query /\ held' = held
      /\ out \in [Requests -> Answers] /\ pc \in [Requests -> Phases]
  BY <1>1 DEF FailPage, IInv, AnswerWhenDone, LocalsOK, StoreTypeOK
<1>3. r \notin Range(refs)
  BY <1>1, <1>2 DEF CallOK, ReferencesHavePage
<1>4. CASE tok[r] = None
  <2>1. out'[r] = "failed" /\ pc'[r] = "done"
    BY <1>1, <1>2, <1>4 DEF FailPage, Call
  <2>2. ReferencesHavePage(r)'
    BY <1>1, <1>3 DEF ReferencesHavePage
  <2> QED BY <1>1, <1>2, <1>4, <2>1, <2>2, AnsweredOK
<1>5. CASE tok[r] # None
  <2>1. out' = out /\ pc'[r] = "releasing"
    BY <1>1, <1>2, <1>5 DEF FailPage, Call
  <2>2. lines' = lines /\ registered' = registered /\ reply' = reply
    BY <1>1, <2>1 DEF Reply, page
  <2>3. HasPage(r)' /\ ReferencesHavePage(r)'
    BY <1>1, <1>3, <2>2 DEF HasPage, ReferencesHavePage
  <2>4. PageTypeOK'
    BY <1>1, <2>2 DEF PageTypeOK
  <2>5. Holding(r)
    BY <1>2, <1>5 DEF Holding
  <2> QED BY <1>1, <1>2, <2>1, <2>2, <2>3, <2>4, <2>5, GoesOnOK
<1> QED BY <1>4, <1>5

LEMMA PageScannedSInv ==
  ASSUME SInv, NEW r \in Requests, NEW n \in 0..PageLines, PageScanned(r, n)
  PROVE  SInv'
<1>1. /\ [Next]_vars /\ IInv /\ CallOK(r) /\ PageTypeOK /\ UNCHANGED vars
      /\ pc[r] = "scanning" /\ lines' = [lines EXCEPT ![r] = n]
      /\ registered' = registered /\ refs' = refs /\ reply' = reply
  BY DEF PageScanned, SInv
<1>2. /\ out[r] = "none" /\ out' = out /\ tok' = tok /\ query' = query /\ held' = held /\ pc' = pc
  BY <1>1 DEF IInv, AnswerWhenDone, vars
<1>3. lines'[r] = n /\ \A x \in Requests \ {r} : lines'[x] = lines[x]
  BY <1>1 DEF PageTypeOK
<1>4. PageTypeOK'
  BY <1>1 DEF PageTypeOK
<1>5. HasPage(r)' /\ ReferencesHavePage(r)'
  BY <1>1, <1>2, <1>3, NoneIsNoReply DEF HasPage, ReferencesHavePage
<1>6. tok[r] # None => Holding(r)
  BY <1>1 DEF Holding
<1> QED BY <1>1, <1>2, <1>3, <1>4, <1>5, <1>6, GoesOnOK

\* Appending a reference adds that one.
LEMMA AppendReference ==
  ASSUME NEW q \in Seq(Requests), NEW r \in Requests
  PROVE  /\ Append(q, r) \in Seq(Requests) /\ Len(Append(q, r)) = Len(q) + 1
         /\ Range(Append(q, r)) = Range(q) \cup {r}
<1> DEFINE a == Append(q, r)
<1>1. /\ Len(q) \in Nat /\ DOMAIN q = 1..Len(q) /\ a \in Seq(Requests)
      /\ Len(a) = Len(q) + 1 /\ DOMAIN a = 1..(Len(q) + 1)
      /\ \A i \in 1..Len(q) : a[i] = q[i]
      /\ a[Len(q) + 1] = r
  OBVIOUS
<1>2. Range(a) = Range(q) \cup {r}
  BY <1>1 DEF Range
<1> QED BY <1>1, <1>2

\* Dropping the oldest reference keeps the others.
LEMMA TailOfReferences ==
  ASSUME NEW q \in Seq(Requests), q # <<>>
  PROVE  /\ Tail(q) \in Seq(Requests) /\ Len(Tail(q)) = Len(q) - 1
         /\ Range(Tail(q)) \subseteq Range(q)
<1> DEFINE a == Tail(q)
<1>1. /\ Len(q) \in Nat /\ Len(q) > 0 /\ DOMAIN q = 1..Len(q)
      /\ a \in Seq(Requests) /\ Len(a) = Len(q) - 1 /\ DOMAIN a = 1..(Len(q) - 1)
      /\ \A i \in 1..(Len(q) - 1) : a[i] = q[i + 1]
  OBVIOUS
<1>2. \A i \in 1..(Len(q) - 1) : i + 1 \in 1..Len(q)
  BY <1>1
<1>3. Range(a) \subseteq Range(q)
  <2> HIDE DEF a
  <2> QED BY <1>1, <1>2 DEF Range
<1> QED BY <1>1, <1>3

\* Registering a reference keeps the stored ones but perhaps the oldest.
LEMMA RegisterKeepsReferences ==
  ASSUME NEW q \in Seq(Requests), Len(q) <= RefCapacity, NEW r \in Requests,
         NEW p, p = Append(IF Len(q) >= RefCapacity THEN Tail(q) ELSE q, r)
  PROVE  /\ p \in Seq(Requests) /\ Len(p) <= RefCapacity
         /\ Range(p) \subseteq Range(q) \cup {r}
<1>1. RefCapacity \in Nat /\ RefCapacity > 0 /\ Len(q) \in Nat
  BY PageAssumption
<1>2. CASE Len(q) >= RefCapacity
  <2>1. p = Append(Tail(q), r) /\ q # <<>>
    BY <1>1, <1>2
  <2>2. /\ Tail(q) \in Seq(Requests) /\ Len(Tail(q)) = Len(q) - 1
        /\ Range(Tail(q)) \subseteq Range(q)
    BY <2>1, TailOfReferences
  <2>3. /\ p \in Seq(Requests) /\ Len(p) = Len(q) - 1 + 1
        /\ Range(p) \subseteq Range(q) \cup {r}
    BY <2>1, <2>2, AppendReference
  <2> QED BY <1>1, <2>3
<1>3. CASE ~(Len(q) >= RefCapacity)
  <2>1. p = Append(q, r)
    BY <1>3
  <2>2. /\ p \in Seq(Requests) /\ Len(p) = Len(q) + 1
        /\ Range(p) \subseteq Range(q) \cup {r}
    BY <2>1, AppendReference
  <2> QED BY <1>1, <1>3, <2>2
<1> QED BY <1>2, <1>3

LEMMA RegisterSInv ==
  ASSUME SInv, NEW r \in Requests, Register(r)
  PROVE  SInv'
<1>1. /\ [Next]_vars /\ IInv /\ CallOK(r) /\ PageTypeOK /\ UNCHANGED vars
      /\ pc[r] = "scanning" /\ lines[r] # None /\ registered[r] < lines[r]
      /\ registered' = [registered EXCEPT ![r] = @ + 1]
      /\ refs' = Append(IF Len(refs) >= RefCapacity THEN Tail(refs) ELSE refs, r)
      /\ lines' = lines /\ reply' = reply
  BY DEF Register, SInv
<1>2. /\ out[r] = "none" /\ out' = out /\ tok' = tok /\ query' = query /\ held' = held /\ pc' = pc
  BY <1>1 DEF IInv, AnswerWhenDone, vars
<1>3. lines[r] # None /\ registered[r] + 1 \in 0..PageLines
  BY <1>1, PageAssumption DEF PageTypeOK
<1>4. refs' \in Seq(Requests) /\ Len(refs') <= RefCapacity /\ Range(refs') \subseteq Range(refs) \cup {r}
  BY <1>1, RegisterKeepsReferences DEF PageTypeOK
<1>5. PageTypeOK'
  BY <1>1, <1>3, <1>4 DEF PageTypeOK
<1>6. HasPage(r)' /\ ReferencesHavePage(r)'
  BY <1>1, <1>2, <1>3 DEF HasPage, ReferencesHavePage
<1>7. tok[r] # None => Holding(r)
  BY <1>1 DEF Holding
<1> QED BY <1>1, <1>2, <1>4, <1>5, <1>6, <1>7, GoesOnOK

\* A page with a continuation moves on, for its lines lie behind the watermark
\* of the cursor: it goes to be committed or stored, never to be released.
LEMMA EndOfPageSInv ==
  ASSUME SInv, NEW r \in Requests, EndOfPage(r)
  PROVE  SInv'
<1>1. PICK m \in Continuations(r) : EndPage(r, m)
  BY DEF EndOfPage
<1>2. m \in 0..MaxWatermark /\ (m # 0 /\ tok[r] # None => m > held[r].after)
  BY <1>1, BoundAssumption DEF Continuations, Watermarks
<1>3. /\ [Next]_vars /\ IInv /\ CallOK(r) /\ PageTypeOK /\ Proceed(r)
      /\ Reply(r) /\ refs' = refs /\ lines[r] # None
  BY <1>1, <1>2 DEF EndOfPage, Proceed, Next, SInv
<1>4. /\ pc[r] = "scanning" /\ out[r] = "none" /\ query[r] \in Queries
      /\ tok' = tok /\ query' = query /\ held' = held
      /\ out \in [Requests -> Answers] /\ pc \in [Requests -> Phases]
  BY <1>1, <1>3 DEF EndPage, IInv, AnswerWhenDone, LocalsOK, StoreTypeOK
<1>5. CASE tok[r] = None /\ m = 0
  <2>1. out' = [out EXCEPT ![r] = "last"] /\ pc' = [pc EXCEPT ![r] = "done"]
    BY <1>1, <1>4, <1>5 DEF EndPage
  <2>2. out'[r] = "last" /\ pc'[r] = "done"
    BY <1>4, <2>1
  <2>3. ReferencesHavePage(r)'
    BY <2>2 DEF ReferencesHavePage
  <2> QED BY <1>3, <1>4, <1>5, <2>2, <2>3, AnsweredOK
<1>6. CASE ~(tok[r] = None /\ m = 0)
  <2>1. out' = out /\ pc'[r] \in {"inserting", "committing"}
    BY <1>1, <1>2, <1>4, <1>6 DEF EndPage, Call
  <2>2. lines' = lines /\ registered' = registered /\ reply' = reply
    BY <1>3, <2>1 DEF Reply, page
  <2>3. HasPage(r)' /\ ReferencesHavePage(r)'
    BY <1>3, <2>1, <2>2 DEF HasPage, ReferencesHavePage
  <2>4. PageTypeOK'
    BY <1>3, <2>2 DEF PageTypeOK
  <2>5. tok[r] # None => Holding(r)
    BY <1>4 DEF Holding
  <2> QED BY <1>3, <1>4, <2>1, <2>2, <2>3, <2>4, <2>5, GoesOnOK
<1> QED BY <1>5, <1>6

\* A commit finds the entry it leased, and ends with a page.
LEMMA CommitSucceeds ==
  ASSUME IInv, NEW r \in Requests, Commit(r)
  PROVE  /\ Return(r, "last") \/ Return(r, "continued")
         /\ tok[r] \in Requests /\ tok[r] # r /\ tok[r] \notin DOMAIN entries'
<1> DEFINE t == tok[r]
           live == PurgeExpired(entries, at[r])
<1>1. /\ pc[r] = "committing" /\ t # None /\ t \in Requests /\ out[r] = "none"
  BY DEF Commit, IInv, LocalsOK, StoreTypeOK, AnswerWhenDone
<1>2. t \in DOMAIN entries /\ entries[t].lease = r /\ entries[t].data = held[r]
  BY <1>1 DEF IInv, LeaseHolderKeepsEntry, Holding
<1>3. t \in DOMAIN live /\ live[t] = entries[t]
  BY <1>2, PurgeKeepsLeased, NoneAssumption DEF Leased
<1>4. r \notin DOMAIN entries
  BY <1>1 DEF IInv, StoredWereIssued, Issued
<1>5. \/ entries' = Remove(live, t) /\ Return(r, "last")
      \/ entries' = InsertNew(Remove(live, t), r, NewData(r), at[r] + TTL) /\ Return(r, "continued")
  BY <1>2, <1>3 DEF Commit
<1>6. t \notin DOMAIN Remove(live, t)
  BY DEF Remove, Restrict
<1> HIDE DEF live
<1> QED BY <1>1, <1>2, <1>4, <1>5, <1>6 DEF InsertNew

LEMMA StoreCursorSInv ==
  ASSUME SInv, NEW r \in Requests, StoreCursor(r)
  PROVE  SInv'
<1>1. /\ [Next]_vars /\ IInv /\ Proceed(r) /\ Reply(r) /\ refs' = refs
      /\ out \in [Requests -> Answers] /\ pc \in [Requests -> Phases]
  BY DEF StoreCursor, Proceed, Next, SInv, IInv, StoreTypeOK
<1>2. out[r] = "none" /\ query[r] \in Queries
  BY <1>1 DEF StoreCursor, Insert, Commit, IInv, AnswerWhenDone, LocalsOK
<1>3. CASE Insert(r)
  <2>1. tok[r] = None
    BY <1>1, <1>3 DEF Insert, IInv, LocalsOK
  <2>2. Return(r, "continued") \/ Return(r, "CapacityBusy")
    BY <1>3 DEF Insert
  <2>3. out'[r] \in {"continued", "CapacityBusy"} /\ pc'[r] = "done" /\ tok' = tok
    BY <1>1, <2>2 DEF Return
  <2>4. ReferencesHavePage(r)'
    BY <2>1, <2>3 DEF ReferencesHavePage
  <2> QED BY <1>1, <1>2, <2>1, <2>3, <2>4, AnsweredOK
<1>4. CASE Commit(r)
  <2>1. /\ Return(r, "last") \/ Return(r, "continued")
        /\ tok[r] # r /\ tok[r] \notin DOMAIN entries'
    BY <1>1, <1>4, CommitSucceeds
  <2>2. out'[r] \in {"last", "continued"} /\ pc'[r] = "done" /\ tok' = tok
    BY <1>1, <2>1 DEF Return
  <2>3. ReferencesHavePage(r)'
    BY <2>2 DEF ReferencesHavePage
  <2> QED BY <1>1, <1>2, <2>1, <2>2, <2>3, AnsweredOK
<1> QED BY <1>3, <1>4 DEF StoreCursor

LEMMA GiveBackSInv ==
  ASSUME SInv, NEW r \in Requests, GiveBack(r)
  PROVE  SInv'
<1>1. /\ [Next]_vars /\ IInv /\ CallOK(r) /\ Proceed(r) /\ Reply(r) /\ refs' = refs
      /\ pc[r] = "releasing" /\ Return(r, "failed") /\ out[r] = "none"
      /\ out \in [Requests -> Answers] /\ pc \in [Requests -> Phases]
  BY DEF GiveBack, DropLease, Proceed, Next, SInv, IInv, StoreTypeOK, AnswerWhenDone
<1>2. out'[r] = "failed" /\ pc'[r] = "done" /\ tok' = tok
  BY <1>1 DEF Return
<1>3. r \notin Range(refs)
  BY <1>1 DEF CallOK, HasPage, ReferencesHavePage
<1>4. ReferencesHavePage(r)'
  BY <1>1, <1>3 DEF ReferencesHavePage
<1>5. query[r] \in Queries
  <2>1. Holding(r) /\ held[r] \in Data
    BY <1>1 DEF Holding, IInv, LocalsOK
  <2> QED BY <1>1, <2>1 DEF CallOK, LeasedForQuery, Data
<1> QED BY <1>1, <1>2, <1>4, <1>5, AnsweredOK

LEMMA StepSInv == SInv /\ [ServiceNext]_serviceVars => SInv'
<1> SUFFICES ASSUME SInv, [ServiceNext]_serviceVars PROVE SInv'
  OBVIOUS
<1>1. [Next]_vars /\ IInv' /\ PageTypeOK
  BY ServiceStepsStore, StepIInv DEF SInv
<1>2. CASE UNCHANGED serviceVars \/ ((Tick \/ PurgeOnLen) /\ UNCHANGED <<page, refs, reply>>)
  <2>1. UNCHANGED <<pc, tok, query, held, out, lines, registered, refs, reply>>
    BY <1>2 DEF serviceVars, vars, Tick, PurgeOnLen, page
  <2>2. PageTypeOK'
    BY <1>1, <2>1 DEF PageTypeOK
  <2>3. ASSUME NEW x \in Requests PROVE CallOK(x)'
    BY <1>1, <2>1, IdleCallOK DEF SameCall
  <2> QED BY <1>1, <2>2, <2>3 DEF SInv
<1>3. ASSUME NEW r \in Requests, Receive(r) \/ Handle(r) PROVE SInv'
  BY <1>3, ReceiveSInv, LeaseSInv, FailSInv, PageScannedSInv, RegisterSInv, EndOfPageSInv,
     StoreCursorSInv, GiveBackSInv DEF Handle
<1> QED BY <1>2, <1>3 DEF ServiceNext

LEMMA ServiceInvariant == ServiceSpec => []SInv
BY InitSInv, StepSInv, PTL DEF ServiceSpec

-----------------------------------------------------------------------------
(***************************************************************************)
(* The properties.                                                         *)
(***************************************************************************)

\* A call has the reply its answer maps to, pages and stored references stay
\* within their bounds (search_logs, src/src/mcp_server.rs).
THEOREM ServiceTypeCorrect == ServiceSpec => []ServiceTypeOK
<1>1. SInv => ServiceTypeOK
  BY DEF SInv, PageTypeOK, CallOK, ReplyOK, ServiceTypeOK
<1> QED BY <1>1, ServiceInvariant, PTL

\* References are left without a page that names them at two limits only: a
\* response too large, and a first page that finds the store full of leased
\* cursors.  A scan that fails leaves none, and a call with a cursor still has
\* its lease when its references are registered and it commits.
THEOREM OrphansOnlyFromLimits == ServiceSpec => []OrphansOnlyAtLimits
<1>1. SInv => OrphansOnlyAtLimits
  <2> SUFFICES ASSUME SInv, NEW r \in Requests, r \in Range(refs), Refused(r)
               PROVE  /\ reply[r].code = "RESOURCE_LIMIT"
                      /\ tok[r] # None => out[r] \in {"last", "continued"}
    BY DEF OrphansOnlyAtLimits
  <2>1. IInv /\ ReplyOK(r) /\ HasPage(r) /\ ReferencesHavePage(r)
    BY DEF SInv, CallOK
  <2>2. out[r] # "none" /\ reply[r].code \in Codes(out[r]) /\ reply[r].code # "PAGE"
    BY <2>1 DEF ReplyOK, Refused
  <2>3. lines[r] = None
    BY <2>1, <2>2 DEF HasPage, IInv, AnswerWhenDone
  <2>4. out[r] \in {"last", "continued"} \/ (out[r] = "CapacityBusy" /\ tok[r] = None)
    BY <2>1, <2>3 DEF ReferencesHavePage
  <2> QED BY <2>2, <2>4 DEF Codes
<1> QED BY <1>1, ServiceInvariant, PTL

\* No reply is None.
LEMMA NoneIsNoAnswer ==
  ASSUME NEW a \in Answers \ {"none"} PROVE None \notin [code : Codes(a), query : Queries]
<1>1. Codes(a) \subseteq Failures \cup {"PAGE", "RESOURCE_LIMIT", "CURSOR_INVALID"}
  BY DEF Codes, Answers
<1>2. [code : Codes(a), query : Queries] \subseteq
        [code : Failures \cup {"PAGE", "RESOURCE_LIMIT", "CURSOR_INVALID"}, query : Queries]
  BY <1>1
<1> QED BY <1>2, NoneIsNoReply

\* How a call that has a cursor answers.
LEMMA HowCallsEnd ==
  ASSUME SInv, [ServiceNext]_serviceVars, NEW r \in Requests,
         out[r] = "none", out'[r] # "none", tok[r] # None
  PROVE  \/ out'[r] = "failed" /\ DropLease(r)
         \/ out'[r] \in {"UnknownOrExpired", "QueryMismatch", "Busy"} /\ Begin(r)
         \/ out'[r] \in {"last", "continued"} /\ Commit(r)
<1>1. IInv /\ out \in [Requests -> Answers] /\ PageTypeOK
  BY DEF SInv, IInv, StoreTypeOK
<1>2. PICK x \in Requests : Receive(x) \/ Handle(x)
  BY DEF ServiceNext, serviceVars, vars, Tick, PurgeOnLen
<1>3. Start(x) \/ Proceed(x) \/ UNCHANGED vars
  BY <1>2, ServiceActor
<1>4. x = r
  BY <1>1, <1>3, OtherCallsSame DEF SameCall, vars
<1>5. CASE Start(r) \/ UNCHANGED vars
  BY <1>5 DEF vars, Start, SearchFirst, SearchNext, Call
<1>6. CASE Begin(r)
  <2> DEFINE refusal == BeginRefusal(PurgeExpired(entries, at[r]), tok[r], query[r])
  <2>1. refusal # "none" /\ Return(r, refusal)
    BY <1>6 DEF Begin
  <2>2. out'[r] = refusal
    BY <1>1, <2>1 DEF Return
  <2>3. refusal \in {"UnknownOrExpired", "QueryMismatch", "Busy"}
    BY <2>1 DEF BeginRefusal
  <2> HIDE DEF refusal
  <2> QED BY <1>6, <2>2, <2>3
<1>7. CASE FailPage(r) \/ \E m \in 0..MaxWatermark : EndPage(r, m)
  BY <1>1, <1>7 DEF FailPage, EndPage, Call
<1>8. CASE Insert(r)
  BY <1>1, <1>8 DEF Insert, IInv, LocalsOK
<1>9. CASE Commit(r)
  <2>1. Return(r, "last") \/ Return(r, "continued")
    BY <1>1, <1>9, CommitSucceeds
  <2>2. out'[r] \in {"last", "continued"}
    BY <1>1, <2>1 DEF Return
  <2> QED BY <1>9, <2>2
<1>10. CASE DropLease(r)
  BY <1>1, <1>10 DEF DropLease, Return
<1> QED BY <1>3, <1>4, <1>5, <1>6, <1>7, <1>8, <1>9, <1>10 DEF Proceed

\* An error that may be retried leaves the cursor free or too old.
THEOREM RetryableSafety == ServiceSpec => RetryableKeepsCursor
<1> DEFINE Kept ==
  \A r \in Requests :
    reply[r] = None /\ Refused(r)' /\ tok[r] # None /\ Retryable(reply'[r].code) =>
      \/ entries[tok[r]].expires <= at[r]
      \/ tok[r] \in Unleased(entries')
<1>1. SInv /\ SInv' /\ [ServiceNext]_serviceVars => [Kept]_serviceVars
  <2> SUFFICES ASSUME SInv, SInv', [ServiceNext]_serviceVars, NEW r \in Requests,
                      reply[r] = None, Refused(r)', tok[r] # None,
                      Retryable(reply'[r].code),
                      ~(entries[tok[r]].expires <= at[r])
               PROVE  tok[r] \in Unleased(entries')
    OBVIOUS
  <2>1. ReplyOK(r) /\ ReplyOK(r)' /\ IInv /\ IInv'
    BY DEF SInv, CallOK
  <2>2. out[r] = "none" /\ out'[r] # "none"
    BY <2>1, NoneIsNoAnswer DEF ReplyOK, Refused, IInv, StoreTypeOK
  <2>3. reply'[r].code \in Codes(out'[r]) /\ out'[r] \in Answers
    BY <2>1, <2>2 DEF ReplyOK, IInv, StoreTypeOK
  <2>4. out'[r] = "failed"
    BY <2>3, <2>2 DEF Codes, Answers, Refused, Retryable
  <2>5. DropLease(r)
    BY <2>2, <2>4, HowCallsEnd
  <2>6. pc[r] = "releasing" /\ Holding(r)
    BY <2>5 DEF DropLease, Holding
  <2>7. tok[r] \in DOMAIN entries /\ entries[tok[r]].lease = r /\ entries[tok[r]] \in StoredCursor
    BY <2>1, <2>6 DEF IInv, LeaseHolderKeepsEntry, StoreTypeOK
  <2>8. entries' = [entries EXCEPT ![tok[r]].lease = None]
    BY <2>5, <2>7 DEF DropLease, Release
  <2> QED BY <2>7, <2>8 DEF Unleased, StoredCursor
<1> QED BY <1>1, ServiceInvariant, PTL DEF ServiceSpec, RetryableKeepsCursor

\* An error that may not be retried stays: no call with the same cursor and
\* query ever gets a page.
THEOREM FinalitySafety == ServiceSpec => FinalAnswersAreFinal
<1> DEFINE Final ==
  \A r, s \in Requests :
    /\ tok[r] # None /\ tok[s] = tok[r]
    /\ Refused(r) /\ ~Retryable(reply[r].code) /\ out[r] # "Busy"
    /\ out[s] = "none" /\ query[s] = reply[r].query
    => out'[s] \notin {"last", "continued"}
<1>1. SInv /\ SInv' /\ [ServiceNext]_serviceVars => [Final]_serviceVars
  <2> SUFFICES ASSUME SInv, SInv', [ServiceNext]_serviceVars,
                      NEW r \in Requests, NEW s \in Requests,
                      tok[r] # None, tok[s] = tok[r],
                      Refused(r), ~Retryable(reply[r].code), out[r] # "Busy",
                      out[s] = "none", query[s] = reply[r].query,
                      out'[s] \in {"last", "continued"}
               PROVE  FALSE
    OBVIOUS
  <2>1. CallOK(r) /\ CallOK(s) /\ IInv
    BY DEF SInv
  <2>2. out[r] # "none" /\ reply[r].code \in Codes(out[r])
    BY <2>1 DEF CallOK, ReplyOK, Refused
  <2>3. out[r] # "failed"
    BY <2>2, FailuresAssumption DEF Codes, Retryable
  <2>4. tok[r] \in DOMAIN entries => entries[tok[r]].data.query # reply[r].query
    BY <2>1, <2>2, <2>3 DEF CallOK, UselessCursor
  <2>5. Commit(s)
    BY HowCallsEnd
  <2>6. pc[s] = "committing" /\ Holding(s)
    BY <2>5 DEF Commit, Holding
  <2>7. /\ tok[s] \in DOMAIN entries /\ entries[tok[s]].data = held[s]
        /\ query[s] = held[s].query
    BY <2>1, <2>6 DEF IInv, LeaseHolderKeepsEntry, CallOK, LeasedForQuery
  <2> QED BY <2>4, <2>7
<1> QED BY <1>1, ServiceInvariant, PTL DEF ServiceSpec, FinalAnswersAreFinal
=============================================================================
