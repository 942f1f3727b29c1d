-------------------------- MODULE MatchStoreProofs --------------------------
(***************************************************************************)
(* Safety of the match reference store for every set of calls, capacity,   *)
(* TTL and bound: map and queue agree, the capacity is respected, an       *)
(* expired reference resolves only behind one that has not expired, and    *)
(* the newest references resolve until their TTL is over.                  *)
(***************************************************************************)
EXTENDS MCMatchStore, FiniteSetTheorems, SequenceTheorems, TLAPS

(***************************************************************************)
(* The inductive invariant.  A new reference joins the queue once only if  *)
(* it is not there yet: what is stored was issued, and a call that has not *)
(* answered has issued nothing.                                            *)
(***************************************************************************)

AnswerWhenDone == \A c \in Calls : pc[c] # "done" => out[c] = "none"

StoredWereIssued == DOMAIN refs \subseteq Issued

IInv ==
  /\ TypeOK
  /\ AnswerWhenDone
  /\ StoredWereIssued
  /\ OrderMatchesRefs
  /\ CapacityRespected

-----------------------------------------------------------------------------
(***************************************************************************)
(* The queue.                                                              *)
(***************************************************************************)

\* A set of leading places of a queue has as many members as its last place.
LEMMA LeadingPlaces ==
  ASSUME NEW L \in Nat, NEW S \in SUBSET (1..L),
         \A i \in S : \A j \in 1..i : j \in S
  PROVE  Cardinality(S) \in 0..L /\ S = 1..Cardinality(S)
<1> DEFINE n == Cardinality(S)
<1>1. IsFiniteSet(1..L) /\ Cardinality(1..L) = L
  BY FS_Interval
<1>2. IsFiniteSet(S) /\ n \in Nat /\ n <= L
  BY <1>1, FS_Subset, FS_CardinalityType
<1>3. IsFiniteSet(1..n) /\ Cardinality(1..n) = n
  BY <1>2, FS_Interval
<1>4. ASSUME NEW i \in S PROVE i \in 1..n
  <2>1. i \in Nat /\ i >= 1 /\ 1..i \in SUBSET S
    OBVIOUS
  <2>2. Cardinality(1..i) = i
    BY <2>1, FS_Interval
  <2>3. Cardinality(1..i) <= n
    BY <1>2, <2>1, FS_Subset
  <2> QED
    BY <1>2, <2>1, <2>2, <2>3
<1>5. S \in SUBSET (1..n)
  BY <1>4
<1>6. 1..n = S
  BY <1>3, <1>5, FS_Subset
<1> QED
  BY <1>2, <1>6

\* What is left of a queue after its front (pop_front of the VecDeque).
LEMMA PopFromQueue ==
  ASSUME NEW q \in Seq(Calls), IsInjective(q), NEW n \in 0..Len(q)
  PROVE  LET p == PopFront(q, n) IN
         /\ p \in Seq(Calls) /\ IsInjective(p)
         /\ Len(p) = Len(q) - n
         /\ \A i \in 1..(Len(q) - n) : p[i] = q[i + n]
         /\ Range(p) \subseteq Range(q)
         /\ \A i \in 1..n : q[i] \notin Range(p)
<1> DEFINE p == PopFront(q, n)
<1>1. Len(q) \in Nat /\ DOMAIN q = 1..Len(q)
  OBVIOUS
<1>2. /\ p \in Seq(Calls) /\ Len(p) = Len(q) - n
      /\ \A i \in 1..(Len(q) - n) : p[i] = q[i + n]
  <2>1. n + 1 \in Int /\ Len(q) \in Int /\ \A i \in (n + 1)..Len(q) : q[i] \in Calls
    BY <1>1
  <2>2. /\ p \in Seq(Calls)
        /\ Len(p) = IF n + 1 <= Len(q) THEN Len(q) - (n + 1) + 1 ELSE 0
        /\ \A i \in 1..(Len(q) - (n + 1) + 1) : p[i] = q[(n + 1) + i - 1]
    BY <2>1, SubSeqProperties DEF PopFront
  <2>3. /\ Len(q) - (n + 1) + 1 = Len(q) - n
        /\ \A i \in 1..(Len(q) - n) : (n + 1) + i - 1 = i + n
    BY <1>1
  <2>4. Len(p) = Len(q) - n
    <3> HIDE DEF p
    <3>1. n \in Nat /\ n <= Len(q)
      BY <1>1
    <3>2. CASE n + 1 <= Len(q)
      <4>1. Len(p) = Len(q) - (n + 1) + 1
        BY <2>2, <3>2
      <4> QED
        BY <2>3, <4>1
    <3>3. CASE n = Len(q)
      <4>1. ~(n + 1 <= Len(q)) /\ Len(q) - n = 0
        BY <1>1, <3>1, <3>3
      <4>2. Len(p) = 0
        BY <2>2, <4>1
      <4> QED
        BY <4>1, <4>2
    <3>4. \A k, m \in Nat : k <= m => k + 1 <= m \/ k = m
      OBVIOUS
    <3>5. n + 1 <= Len(q) \/ n = Len(q)
      BY <1>1, <3>1, <3>4
    <3> QED
      BY <3>2, <3>3, <3>5
  <2>5. \A i \in 1..(Len(q) - n) : p[i] = q[i + n]
    BY <2>2, <2>3
  <2> QED
    BY <2>2, <2>4, <2>5
<1>3. DOMAIN p = 1..(Len(q) - n)
  BY <1>2
<1> HIDE DEF p
<1>4. \A i, j \in 1..Len(q) : q[i] = q[j] => i = j
  BY <1>1 DEF IsInjective
<1>5. IsInjective(p)
  <2> SUFFICES ASSUME NEW i \in 1..(Len(q) - n), NEW j \in 1..(Len(q) - n), p[i] = p[j]
               PROVE  i = j
    BY <1>3 DEF IsInjective
  <2>1. i + n \in 1..Len(q) /\ j + n \in 1..Len(q) /\ q[i + n] = q[j + n]
    BY <1>1, <1>2
  <2> QED
    BY <1>4, <2>1
<1>6. ASSUME NEW x \in Range(p)
      PROVE  x \in Range(q) /\ \A i \in 1..n : q[i] # x
  <2>1. PICK i \in 1..(Len(q) - n) : p[i] = x
    BY <1>3 DEF Range
  <2>2. i + n \in 1..Len(q) /\ q[i + n] = x /\ i + n > n
    BY <1>1, <1>2, <2>1
  <2>3. \A k \in 1..n : k \in 1..Len(q) /\ k # i + n
    BY <1>1, <2>2
  <2> QED
    BY <1>1, <1>4, <2>2, <2>3 DEF Range
<1>7. Range(p) \subseteq Range(q) /\ \A i \in 1..n : q[i] \notin Range(p)
  BY <1>6
<1> QED
  BY <1>2, <1>5, <1>7 DEF p

\* A purge takes the places up to the first reference that has not expired.
LEMMA PurgedPlaces ==
  ASSUME NEW m, NEW q \in Seq(Calls), NEW instant
  PROVE  LET n == ExpiredInFront(m, q, instant) IN
         /\ n \in 0..Len(q)
         /\ \A i \in 1..Len(q) : i \in 1..n <=> \A j \in 1..i : m[q[j]] <= instant
<1> DEFINE S == {i \in DOMAIN q : \A j \in 1..i : m[q[j]] <= instant}
<1>1. Len(q) \in Nat /\ DOMAIN q = 1..Len(q)
  OBVIOUS
<1>2. S \in SUBSET (1..Len(q))
  BY <1>1
<1>3. ASSUME NEW i \in S, NEW j \in 1..i PROVE j \in S
  <2>1. i \in 1..Len(q) /\ j \in 1..Len(q)
    BY <1>1
  <2>2. \A k \in 1..j : k \in 1..i
    BY <2>1
  <2> QED
    BY <1>1, <2>1, <2>2
<1> HIDE DEF S
<1>4. Cardinality(S) \in 0..Len(q) /\ S = 1..Cardinality(S)
  BY <1>1, <1>2, <1>3, LeadingPlaces
<1>5. ExpiredInFront(m, q, instant) = Cardinality(S)
  BY DEF S, ExpiredInFront
<1>6. \A i \in 1..Len(q) : i \in S <=> \A j \in 1..i : m[q[j]] <= instant
  BY <1>1 DEF S
<1> QED
  BY <1>4, <1>5, <1>6

\* A queue with a new member at its back.
LEMMA AppendToQueue ==
  ASSUME NEW q \in Seq(Calls), IsInjective(q), NEW c \in Calls, c \notin Range(q)
  PROVE  /\ Append(q, c) \in Seq(Calls) /\ IsInjective(Append(q, c))
         /\ Range(Append(q, c)) = Range(q) \cup {c}
<1> DEFINE a == Append(q, c)
<1>1. /\ Len(q) \in Nat /\ DOMAIN q = 1..Len(q) /\ a \in Seq(Calls)
      /\ DOMAIN a = 1..(Len(q) + 1)
      /\ \A i \in 1..Len(q) : a[i] = q[i]
      /\ a[Len(q) + 1] = c
  OBVIOUS
<1>2. IsInjective(a)
  BY <1>1 DEF IsInjective, Range
<1>3. Range(a) = Range(q) \cup {c}
  BY <1>1 DEF Range
<1> QED
  BY <1>1, <1>2, <1>3

\* The map after the queue has lost some of its members.
LEMMA KeptMap ==
  ASSUME NEW D, NEW m \in [D -> Nat], NEW q, Range(q) \subseteq D
  PROVE  /\ DOMAIN KeptRefs(m, q) = Range(q)
         /\ KeptRefs(m, q) \in [Range(q) -> Nat]
         /\ \A k \in Range(q) : KeptRefs(m, q)[k] = m[k]
BY DEF KeptRefs, Restrict

\* The size of a set of calls, with a member more or less.
LEMMA CountCalls ==
  ASSUME NEW S \in SUBSET Calls, NEW T \in SUBSET S, NEW c \in Calls
  PROVE  /\ Cardinality(S) \in Nat /\ Cardinality(T) \in Nat
         /\ Cardinality(T) <= Cardinality(S)
         /\ Cardinality(S \cup {c}) <= Cardinality(S) + 1
         /\ Cardinality(S) > 0 => S # {}
         /\ c \in S => Cardinality(S \ {c}) = Cardinality(S) - 1
<1>1. IsFiniteSet(S)
  BY CallsAssumption, FS_Subset
<1>2. IsFiniteSet(T) /\ Cardinality(T) <= Cardinality(S)
  BY <1>1, FS_Subset
<1>3. Cardinality(S) \in Nat /\ Cardinality(T) \in Nat
  BY <1>1, <1>2, FS_CardinalityType
<1>4. Cardinality(S \cup {c}) <= Cardinality(S) + 1
  BY <1>1, <1>3, FS_AddElement
<1>5. c \in S => Cardinality(S \ {c}) = Cardinality(S) - 1
  BY <1>1, FS_RemoveElement
<1>6. Cardinality(S) > 0 => S # {}
  BY FS_EmptySet
<1> QED
  BY <1>2, <1>3, <1>4, <1>5, <1>6

-----------------------------------------------------------------------------
(***************************************************************************)
(* The locked sections.                                                    *)
(***************************************************************************)

\* The queue and the map after the purge that every operation begins with.
LEMMA PurgeKeepsOrder ==
  ASSUME IInv, NEW instant
  PROVE  LET n == ExpiredInFront(refs, order, instant)
             live == PopFront(order, n)
         IN  /\ n \in 0..Len(order)
             /\ live \in Seq(Calls) /\ IsInjective(live)
             /\ Range(live) \subseteq DOMAIN refs
             /\ DOMAIN KeptRefs(refs, live) = Range(live)
             /\ KeptRefs(refs, live) \in [Range(live) -> Nat]
             /\ Cardinality(Range(live)) <= Capacity
<1> DEFINE n == ExpiredInFront(refs, order, instant)
           live == PopFront(order, n)
<1>1. n \in 0..Len(order)
  BY PurgedPlaces DEF IInv, TypeOK
<1> HIDE DEF n
<1>2. live \in Seq(Calls) /\ IsInjective(live) /\ Range(live) \subseteq Range(order)
  BY <1>1, PopFromQueue DEF IInv, TypeOK, OrderMatchesRefs
<1> HIDE DEF live
<1>3. Range(live) \subseteq DOMAIN refs
  BY <1>2 DEF IInv, OrderMatchesRefs
<1>4. /\ DOMAIN KeptRefs(refs, live) = Range(live)
      /\ KeptRefs(refs, live) \in [Range(live) -> Nat]
  BY <1>3, KeptMap DEF IInv, TypeOK
<1>5. DOMAIN refs \in SUBSET Calls
  BY DEF IInv, TypeOK
<1>6. Cardinality(Range(live)) <= Cardinality(DOMAIN refs)
      /\ Cardinality(Range(live)) \in Nat /\ Cardinality(DOMAIN refs) \in Nat
  <2>1. IsFiniteSet(DOMAIN refs)
    BY <1>5, CallsAssumption, FS_Subset
  <2>2. IsFiniteSet(Range(live)) /\ Cardinality(Range(live)) <= Cardinality(DOMAIN refs)
    BY <2>1, <1>3, FS_Subset
  <2> QED
    BY <2>1, <2>2, FS_CardinalityType
<1>7. Cardinality(Range(live)) <= Capacity
  BY <1>6, ConfigAssumption DEF IInv, CapacityRespected
<1> QED
  BY <1>1, <1>2, <1>3, <1>4, <1>7 DEF live, n

\* What an insert makes room for: fewer than Capacity references are left.
LEMMA RoomForOne ==
  ASSUME NEW live \in Seq(Calls), IsInjective(live), NEW m,
         DOMAIN KeptRefs(m, live) = Range(live),
         Cardinality(Range(live)) <= Capacity
  PROVE  LET room == IF Full(KeptRefs(m, live)) THEN EvictOldest(live) ELSE live IN
         /\ room \in Seq(Calls) /\ IsInjective(room)
         /\ Range(room) \subseteq Range(live)
         /\ Cardinality(Range(room)) \in Nat
         /\ Cardinality(Range(room)) + 1 <= Capacity
<1>1. Range(live) \in SUBSET Calls /\ Len(live) \in Nat /\ DOMAIN live = 1..Len(live)
  BY DEF Range
<1>2. IsFiniteSet(Range(live)) /\ Cardinality(Range(live)) \in Nat
  BY <1>1, CallsAssumption, FS_Subset, FS_CardinalityType
<1>3. CASE ~Full(KeptRefs(m, live))
  BY <1>2, <1>3, ConfigAssumption DEF Full
<1>4. CASE Full(KeptRefs(m, live))
  <2>1. Cardinality(Range(live)) > 0
    BY <1>2, <1>4, ConfigAssumption DEF Full
  <2>2. Range(live) # {}
    <3> SUFFICES ASSUME Range(live) = {} PROVE FALSE
      OBVIOUS
    <3>1. Cardinality({}) = 0
      BY FS_EmptySet
    <3> QED
      BY <2>1, <3>1
  <2>3. Len(live) # 0
    BY <1>1, <2>2 DEF Range
  <2>4. 1 \in 0..Len(live) /\ 1 \in DOMAIN live
    BY <1>1, <2>3
  <2>5. /\ EvictOldest(live) \in Seq(Calls) /\ IsInjective(EvictOldest(live))
        /\ Range(EvictOldest(live)) \subseteq Range(live)
        /\ live[1] \notin Range(EvictOldest(live))
    BY <2>4, PopFromQueue DEF EvictOldest
  <2>6. live[1] \in Range(live)
    BY <2>4 DEF Range
  <2>7. /\ IsFiniteSet(Range(live) \ {live[1]})
        /\ Cardinality(Range(live) \ {live[1]}) = Cardinality(Range(live)) - 1
    BY <1>2, <2>6, FS_RemoveElement
  <2>8. Range(EvictOldest(live)) \in SUBSET (Range(live) \ {live[1]})
    BY <2>5
  <2>9. /\ IsFiniteSet(Range(EvictOldest(live)))
        /\ Cardinality(Range(EvictOldest(live))) <= Cardinality(Range(live)) - 1
    BY <2>7, <2>8, FS_Subset
  <2>10. Cardinality(Range(EvictOldest(live))) \in Nat
    BY <2>9, FS_CardinalityType
  <2> QED
    BY <1>2, <1>4, <2>5, <2>9, <2>10, ConfigAssumption
<1> QED
  BY <1>3, <1>4

LEMMA InitIInv == Init => IInv
<1> SUFFICES ASSUME Init PROVE IInv
  OBVIOUS
<1>1. DOMAIN refs = {} /\ Range(order) = {} /\ refs \in [DOMAIN refs -> Nat]
  BY DEF Init, Range
<1>2. TypeOK
  BY <1>1, BoundAssumption DEF Init, TypeOK
<1>3. AnswerWhenDone /\ StoredWereIssued /\ OrderMatchesRefs
  BY <1>1 DEF Init, AnswerWhenDone, StoredWereIssued, OrderMatchesRefs, IsInjective
<1>4. CapacityRespected
  BY <1>1, FS_EmptySet, ConfigAssumption DEF CapacityRespected
<1> QED
  BY <1>2, <1>3, <1>4 DEF IInv

\* A step that leaves the store and the answers alone.
LEMMA StoreUntouchedIInv ==
  ASSUME IInv, UNCHANGED <<refs, order, out>>, TypeOK',
         \A c \in Calls : pc[c] = "done" => pc'[c] = "done"
  PROVE  IInv'
BY DEF IInv, TypeOK, AnswerWhenDone, StoredWereIssued, Issued, OrderMatchesRefs,
       CapacityRespected

LEMMA CallIInv ==
  ASSUME IInv, NEW c \in Calls, CallInsert(c) \/ \E k \in Calls : CallResolve(c, k)
  PROVE  IInv'
<1>1. UNCHANGED <<refs, order, out>>
  BY DEF CallInsert, CallResolve, Call
<1>2. TypeOK'
  <2>1. at' = [at EXCEPT ![c] = now] /\ now' = now
    BY DEF CallInsert, CallResolve, Call
  <2>2. pc' \in [Calls -> {"idle", "inserting", "resolving", "done"}]
    BY DEF IInv, TypeOK, CallInsert, CallResolve, Call
  <2>3. arg' \in [Calls -> Calls \cup {None}]
    BY DEF IInv, TypeOK, CallInsert, CallResolve
  <2> QED
    BY <1>1, <2>1, <2>2, <2>3 DEF IInv, TypeOK
<1>3. \A d \in Calls : pc[d] = "done" => pc'[d] = "done"
  BY DEF IInv, TypeOK, CallInsert, CallResolve, Call
<1> QED
  BY <1>1, <1>2, <1>3, StoreUntouchedIInv

LEMMA TickIInv == ASSUME IInv, Tick PROVE IInv'
<1>1. UNCHANGED <<refs, order, out, pc>>
  BY DEF Tick
<1>2. TypeOK'
  BY BoundAssumption DEF IInv, TypeOK, Tick
<1> QED
  BY <1>1, <1>2, StoreUntouchedIInv

LEMMA InsertIInv ==
  ASSUME IInv, NEW c \in Calls, Insert(c)
  PROVE  IInv'
<1> DEFINE live == PopFront(order, ExpiredInFront(refs, order, at[c]))
           room == IF Full(KeptRefs(refs, live)) THEN EvictOldest(live) ELSE live
           kept == KeptRefs(refs, room)
<1>1. /\ live \in Seq(Calls) /\ IsInjective(live)
      /\ Range(live) \subseteq DOMAIN refs
      /\ DOMAIN KeptRefs(refs, live) = Range(live)
      /\ Cardinality(Range(live)) <= Capacity
  BY PurgeKeepsOrder
<1>2. /\ pc[c] = "inserting" /\ Return(c, "ref")
      /\ order' = Append(room, c)
      /\ refs' = [k \in DOMAIN kept \cup {c} |-> IF k = c THEN Expiry(c) ELSE kept[k]]
  BY DEF Insert
<1> HIDE DEF live
<1>3. /\ room \in Seq(Calls) /\ IsInjective(room)
      /\ Range(room) \subseteq Range(live)
      /\ Cardinality(Range(room)) \in Nat
      /\ Cardinality(Range(room)) + 1 <= Capacity
  BY <1>1, RoomForOne
<1> HIDE DEF room
<1>4. DOMAIN kept = Range(room) /\ kept \in [Range(room) -> Nat]
  <2>1. refs \in [DOMAIN refs -> Nat] /\ Range(room) \subseteq DOMAIN refs
    BY <1>1, <1>3 DEF IInv, TypeOK
  <2> QED
    BY <2>1, KeptMap
<1> HIDE DEF kept
<1>5. c \notin DOMAIN refs
  BY <1>2 DEF IInv, AnswerWhenDone, StoredWereIssued, Issued
<1>6. c \notin Range(room) /\ Range(room) \subseteq DOMAIN refs
  BY <1>1, <1>3, <1>5
<1>7. /\ order' \in Seq(Calls) /\ IsInjective(order')
      /\ Range(order') = Range(room) \cup {c}
  BY <1>2, <1>3, <1>6, AppendToQueue
<1>8. DOMAIN refs' = Range(room) \cup {c}
  BY <1>2, <1>4
<1>9. at[c] \in Nat /\ Expiry(c) \in Nat
  BY ConfigAssumption, BoundAssumption DEF IInv, TypeOK, Expiry
<1>10. refs' \in [DOMAIN refs' -> Nat]
  BY <1>2, <1>4, <1>9
<1>11. UNCHANGED <<now, arg>> /\ pc' = [pc EXCEPT ![c] = "done"]
       /\ at' = [at EXCEPT ![c] = 0] /\ out' = [out EXCEPT ![c] = "ref"]
  BY <1>2 DEF Return
<1>12. TypeOK'
  BY <1>6, <1>7, <1>8, <1>10, <1>11, BoundAssumption DEF IInv, TypeOK
<1>13. AnswerWhenDone' /\ StoredWereIssued'
  BY <1>6, <1>8, <1>11 DEF IInv, TypeOK, AnswerWhenDone, StoredWereIssued, Issued
<1>14. OrderMatchesRefs'
  BY <1>7, <1>8 DEF OrderMatchesRefs
<1>15. CapacityRespected'
  <2>1. IsFiniteSet(Range(room))
    BY <1>6, CallsAssumption, FS_Subset DEF IInv, TypeOK
  <2>2. Cardinality(Range(room) \cup {c}) = Cardinality(Range(room)) + 1
    BY <1>6, <2>1, FS_AddElement
  <2> QED
    BY <1>3, <1>8, <2>2 DEF CapacityRespected
<1> QED
  BY <1>12, <1>13, <1>14, <1>15 DEF IInv

\* What resolve and len leave in the store.
LEMMA PurgedIInv ==
  ASSUME IInv, NEW instant,
         order' = PopFront(order, ExpiredInFront(refs, order, instant)),
         refs' = KeptRefs(refs, order'),
         now' \in 0..MaxTime, arg' = arg,
         pc' \in [Calls -> {"idle", "inserting", "resolving", "done"}],
         at' \in [Calls -> 0..MaxTime],
         out' \in [Calls -> {"none", "ref", "data", "UnknownOrExpired"}],
         \A c \in Calls : pc'[c] # "done" => pc[c] # "done" /\ out'[c] = out[c],
         \A c \in Calls : out[c] = "ref" => out'[c] = "ref"
  PROVE  IInv'
<1>1. /\ order' \in Seq(Calls) /\ IsInjective(order')
      /\ Range(order') \subseteq DOMAIN refs
      /\ DOMAIN KeptRefs(refs, order') = Range(order')
      /\ KeptRefs(refs, order') \in [Range(order') -> Nat]
      /\ Cardinality(Range(order')) <= Capacity
  BY PurgeKeepsOrder
<1>2. DOMAIN refs' = Range(order') /\ refs' \in [DOMAIN refs' -> Nat]
  BY <1>1
<1>3. TypeOK'
  BY <1>1, <1>2 DEF IInv, TypeOK
<1>4. AnswerWhenDone' /\ StoredWereIssued'
  BY <1>1, <1>2 DEF IInv, AnswerWhenDone, StoredWereIssued, Issued
<1>5. OrderMatchesRefs' /\ CapacityRespected'
  BY <1>1, <1>2 DEF OrderMatchesRefs, CapacityRespected
<1> QED
  BY <1>3, <1>4, <1>5 DEF IInv

LEMMA ResolveIInv ==
  ASSUME IInv, NEW c \in Calls, Resolve(c)
  PROVE  IInv'
<1>1. PICK answer \in {"data", "UnknownOrExpired"} :
        /\ pc' = [pc EXCEPT ![c] = "done"]
        /\ at' = [at EXCEPT ![c] = 0]
        /\ out' = [out EXCEPT ![c] = answer]
        /\ UNCHANGED <<now, arg>>
  BY DEF Resolve, Return
<1>2. /\ pc[c] = "resolving"
      /\ order' = PopFront(order, ExpiredInFront(refs, order, at[c]))
      /\ refs' = KeptRefs(refs, order')
  BY DEF Resolve
<1>3. out[c] = "none"
  BY <1>2 DEF IInv, AnswerWhenDone
<1>4. /\ now' \in 0..MaxTime
      /\ pc' \in [Calls -> {"idle", "inserting", "resolving", "done"}]
      /\ at' \in [Calls -> 0..MaxTime]
      /\ out' \in [Calls -> {"none", "ref", "data", "UnknownOrExpired"}]
  BY <1>1, BoundAssumption DEF IInv, TypeOK
<1>5. /\ \A d \in Calls : pc'[d] # "done" => pc[d] # "done" /\ out'[d] = out[d]
      /\ \A d \in Calls : out[d] = "ref" => out'[d] = "ref"
  BY <1>1, <1>3 DEF IInv, TypeOK
<1> QED
  BY <1>1, <1>2, <1>4, <1>5, PurgedIInv

LEMMA PurgeOnLenIInv == ASSUME IInv, PurgeOnLen PROVE IInv'
<1>1. /\ order' = PopFront(order, ExpiredInFront(refs, order, now))
      /\ refs' = KeptRefs(refs, order')
      /\ UNCHANGED <<now, pc, arg, at, out>>
  BY DEF PurgeOnLen
<1>2. /\ now' \in 0..MaxTime
      /\ pc' \in [Calls -> {"idle", "inserting", "resolving", "done"}]
      /\ at' \in [Calls -> 0..MaxTime]
      /\ out' \in [Calls -> {"none", "ref", "data", "UnknownOrExpired"}]
  BY <1>1 DEF IInv, TypeOK
<1> QED
  BY <1>1, <1>2, PurgedIInv

LEMMA StepIInv == IInv /\ [Next]_vars => IInv'
<1> SUFFICES ASSUME IInv, [Next]_vars PROVE IInv'
  OBVIOUS
<1>1. CASE UNCHANGED vars
  <2>1. TypeOK' /\ UNCHANGED <<refs, order, out, pc>>
    BY <1>1 DEF vars, IInv, TypeOK
  <2> QED
    BY <2>1, StoreUntouchedIInv
<1>2. CASE Next
  BY <1>2, TickIInv, PurgeOnLenIInv, CallIInv, InsertIInv, ResolveIInv DEF Next
<1> QED
  BY <1>1, <1>2

LEMMA SpecIInv == Spec => []IInv
BY InitIInv, StepIInv, PTL DEF Spec

\* Every variable of the store holds values of its type.
THEOREM MatchStoreTypeCorrect == Spec => []TypeOK
<1>1. IInv => TypeOK
  BY DEF IInv
<1> QED
  BY <1>1, SpecIInv, PTL

\* The queue holds every reference of the map once and nothing else.
THEOREM MapAndQueueAgree == Spec => []OrderMatchesRefs
<1>1. IInv => OrderMatchesRefs
  BY DEF IInv
<1> QED
  BY <1>1, SpecIInv, PTL

\* The store never outgrows its configured capacity.
THEOREM ReferenceCapacity == Spec => []CapacityRespected
<1>1. IInv => CapacityRespected
  BY DEF IInv
<1> QED
  BY <1>1, SpecIInv, PTL

\* An expired reference resolves only behind a reference that has not expired.
THEOREM BoundedStaleness == Spec => StaleOnlyBehindFresh
<1> DEFINE Fresh(c) ==
      \/ refs[arg[c]] > at[c]
      \/ \E i, j \in DOMAIN order : i < j /\ order[j] = arg[c] /\ refs[order[i]] > at[c]
<1>1. ASSUME IInv, [Next]_vars, NEW c \in Calls, pc[c] = "resolving", out'[c] = "data"
      PROVE  Fresh(c)
  <2>1. out[c] = "none"
    BY <1>1 DEF IInv, AnswerWhenDone
  <2>2. Resolve(c)
    <3>1. CASE UNCHANGED vars \/ Tick \/ PurgeOnLen
      BY <1>1, <2>1, <3>1 DEF vars, Tick, PurgeOnLen
    <3>2. ASSUME NEW d \in Calls, CallInsert(d) \/ \E k \in Calls : CallResolve(d, k)
          PROVE  FALSE
      BY <1>1, <2>1, <3>2 DEF CallInsert, CallResolve, Call
    <3>3. ASSUME NEW d \in Calls, Insert(d) PROVE FALSE
      BY <1>1, <2>1, <3>3 DEF Insert, Return, IInv, TypeOK
    <3>4. ASSUME NEW d \in Calls, Resolve(d) PROVE Resolve(c)
      BY <1>1, <2>1, <3>4 DEF Resolve, Return, IInv, TypeOK
    <3> QED
      BY <1>1, <3>1, <3>2, <3>3, <3>4 DEF Next
  <2> DEFINE n == ExpiredInFront(refs, order, at[c])
             live == PopFront(order, n)
  <2>3. /\ n \in 0..Len(order)
        /\ DOMAIN KeptRefs(refs, live) = Range(live)
    BY <1>1, PurgeKeepsOrder
  <2>4. arg[c] \in Range(live)
    <3>1. order' = live /\ refs' = KeptRefs(refs, live)
      BY <2>2 DEF Resolve
    <3>2. out' = [out EXCEPT ![c] = IF arg[c] \in DOMAIN refs' THEN "data"
                                    ELSE "UnknownOrExpired"]
      BY <2>2 DEF Resolve, Return
    <3>3. arg[c] \in DOMAIN refs'
      BY <1>1, <3>2 DEF IInv, TypeOK
    <3> QED
      BY <2>3, <3>1, <3>3
  <2>5. \A i \in 1..Len(order) :
          i \in 1..n <=> \A j \in 1..i : refs[order[j]] <= at[c]
    <3>1. order \in Seq(Calls)
      BY <1>1 DEF IInv, TypeOK
    <3> QED
      BY <3>1, PurgedPlaces
  <2> HIDE DEF n
  <2>6. /\ Len(live) = Len(order) - n /\ live \in Seq(Calls)
        /\ \A i \in 1..(Len(order) - n) : live[i] = order[i + n]
    BY <1>1, <2>3, PopFromQueue DEF IInv, TypeOK, OrderMatchesRefs
  <2> HIDE DEF live
  <2>7. PICK i \in 1..(Len(order) - n) : live[i] = arg[c]
    BY <2>4, <2>6 DEF Range
  <2>8. /\ i + n \in DOMAIN order /\ i + n \in 1..Len(order) /\ i + n \notin 1..n /\ i + n \in Nat
        /\ order[i + n] = arg[c]
    BY <1>1, <2>3, <2>6, <2>7 DEF IInv, TypeOK
  <2>9. PICK j \in 1..(i + n) : ~(refs[order[j]] <= at[c])
    BY <2>5, <2>8
  <2>10. j \in DOMAIN order
    BY <1>1, <2>8, <2>9 DEF IInv, TypeOK
  <2>11. order[j] \in DOMAIN refs
    BY <1>1, <2>10 DEF IInv, OrderMatchesRefs, Range
  <2>12. refs[order[j]] > at[c]
    BY <1>1, <2>9, <2>11, BoundAssumption DEF IInv, TypeOK
  <2>13. CASE j = i + n
    BY <2>8, <2>12, <2>13
  <2>14. CASE j < i + n
    BY <2>8, <2>10, <2>12, <2>14
  <2> QED
    BY <2>8, <2>9, <2>13, <2>14
<1>2. IInv /\ [Next]_vars =>
        [\A c \in Calls : pc[c] = "resolving" /\ out'[c] = "data" => Fresh(c)]_vars
  BY <1>1
<1> QED
  BY <1>2, SpecIInv, PTL DEF Spec, StaleOnlyBehindFresh

-----------------------------------------------------------------------------
(***************************************************************************)
(* What the store remembers of all it was given: a run of the last ones.   *)
(***************************************************************************)

Records == [ref : Calls, expires : Nat]

\* The queue q with the map m holds the last references of the history s, and of
\* those before it each is past its expiry at t or has w younger ones behind it.
Follows(s, q, m, t, w) ==
  /\ s \in Seq(Records) /\ Len(q) <= Len(s)
  /\ \A i \in 1..Len(q) :
       /\ s[(Len(s) - Len(q)) + i].ref = q[i]
       /\ s[(Len(s) - Len(q)) + i].expires = m[q[i]]
  /\ \A i \in 1..(Len(s) - Len(q)) : s[i].expires <= t \/ Len(s) - i >= w

\* The first n of the queue go, by expiry or because enough follow them.
LEMMA PopFollows ==
  ASSUME NEW s, NEW q \in Seq(Calls), IsInjective(q), NEW m, NEW t \in Nat, NEW w \in Nat,
         Follows(s, q, m, t, w), NEW n \in 0..Len(q),
         \A j \in 1..n : m[q[j]] <= t \/ Len(q) - j >= w,
         NEW k, \A x \in Range(PopFront(q, n)) : k[x] = m[x]
  PROVE  Follows(s, PopFront(q, n), k, t, w)
<1>1. PICK p : p = PopFront(q, n)
  OBVIOUS
<1>2. PICK a \in Nat, b \in Nat, d \in Nat : a = Len(s) /\ b = Len(q) /\ d = a - b /\ b <= a
  <2>1. Len(s) \in Nat /\ Len(q) \in Nat /\ Len(q) <= Len(s)
    BY DEF Follows
  <2>2. Len(s) - Len(q) \in Nat
    BY ONLY <2>1
  <2> QED BY <2>1, <2>2
<1>3. p \in Seq(Calls) /\ Len(p) = b - n /\ \A i \in 1..(b - n) : p[i] = q[i + n]
  BY <1>1, <1>2, PopFromQueue
<1>4. n \in Nat /\ n <= b /\ b - n \in Nat /\ a - (b - n) = d + n
  BY ONLY <1>2, n \in 0..Len(q), a \in Nat, b \in Nat, d \in Nat
<1>5. /\ \A i \in 1..b : s[d + i].ref = q[i] /\ s[d + i].expires = m[q[i]]
      /\ \A i \in 1..d : s[i].expires <= t \/ a - i >= w
      /\ s \in Seq(Records)
  BY <1>2 DEF Follows
<1>6. ASSUME NEW i \in 1..(b - n)
      PROVE  s[(d + n) + i].ref = p[i] /\ s[(d + n) + i].expires = k[p[i]]
  <2>1. i + n \in 1..b /\ d + (i + n) = (d + n) + i
    BY ONLY <1>4, i \in 1..(b - n), b \in Nat, d \in Nat
  <2>2. p[i] = q[i + n]
    BY <1>3
  <2>3. p[i] \in Range(p)
    BY <1>3 DEF Range
  <2>4. k[p[i]] = m[p[i]]
    BY <1>1, <2>3
  <2> QED BY <1>5, <2>1, <2>2, <2>4
<1>7. ASSUME NEW i \in 1..(d + n) PROVE s[i].expires <= t \/ a - i >= w
  <2>1. CASE i <= d
    <3>1. i \in 1..d
      BY ONLY <2>1, <1>4, i \in 1..(d + n), d \in Nat
    <3> QED BY <1>5, <3>1
  <2>2. CASE ~(i <= d)
    <3>1. PICK j \in 1..n : i = d + j /\ j \in 1..b /\ a - i = b - j
      <4>1. i - d \in 1..n /\ i = d + (i - d) /\ i - d \in 1..b /\ a - i = b - (i - d)
        BY ONLY <2>2, <1>2, <1>4, i \in 1..(d + n), d \in Nat, a \in Nat, b \in Nat
      <4> QED BY ONLY <4>1
    <3>2. s[i].expires = m[q[j]]
      BY <1>5, <3>1
    <3> QED BY <1>2, <3>1, <3>2
  <2> QED BY <2>1, <2>2
<1>8. Len(p) <= Len(s) /\ Len(s) - Len(p) = d + n
  BY ONLY <1>2, <1>3, <1>4, a \in Nat, b \in Nat, d \in Nat
<1> QED BY <1>1, <1>2, <1>3, <1>5, <1>6, <1>7, <1>8 DEF Follows

\* One more at the back of queue and history.
LEMMA AppendFollows ==
  ASSUME NEW s, NEW q \in Seq(Calls), NEW m, NEW t \in Nat, NEW w \in Nat,
         Follows(s, q, m, t, w), NEW c \in Calls, NEW x \in Nat,
         NEW k, k[c] = x, \A y \in Range(q) : k[y] = m[y]
  PROVE  Follows(Append(s, [ref |-> c, expires |-> x]), Append(q, c), k, t, w + 1)
<1>1. PICK e, u, p : /\ e = [ref |-> c, expires |-> x]
                     /\ u = Append(s, e) /\ p = Append(q, c)
  OBVIOUS
<1>2. PICK a \in Nat, b \in Nat, d \in Nat : a = Len(s) /\ b = Len(q) /\ d = a - b /\ b <= a
  <2>1. Len(s) \in Nat /\ Len(q) \in Nat /\ Len(q) <= Len(s)
    BY DEF Follows
  <2>2. Len(s) - Len(q) \in Nat
    BY ONLY <2>1
  <2> QED BY <2>1, <2>2
<1>3. /\ \A i \in 1..b : s[d + i].ref = q[i] /\ s[d + i].expires = m[q[i]]
      /\ \A i \in 1..d : s[i].expires <= t \/ a - i >= w
      /\ s \in Seq(Records)
  BY <1>2 DEF Follows
<1>4. e \in Records /\ e.ref = c /\ e.expires = x
  BY <1>1 DEF Records
<1>5. /\ u \in Seq(Records) /\ Len(u) = a + 1 /\ u[a + 1] = e /\ \A i \in 1..a : u[i] = s[i]
      /\ Len(p) = b + 1 /\ p[b + 1] = c /\ \A i \in 1..b : p[i] = q[i]
  BY <1>1, <1>2, <1>3, <1>4
<1>6. /\ \A i \in 1..(b + 1) : i = b + 1 \/ i \in 1..b
      /\ \A i \in 1..b : d + i \in 1..a
      /\ d + (b + 1) = a + 1 /\ (a + 1) - (b + 1) = d
      /\ \A i \in 1..d : i \in 1..a /\ (a - i >= w => (a + 1) - i >= w + 1)
  BY ONLY <1>2, a \in Nat, b \in Nat, d \in Nat, w \in Nat
<1>7. ASSUME NEW i \in 1..(b + 1) PROVE u[d + i].ref = p[i] /\ u[d + i].expires = k[p[i]]
  <2>1. CASE i = b + 1
    BY <1>4, <1>5, <1>6, <2>1
  <2>2. CASE i \in 1..b
    <3>1. q[i] \in Range(q)
      BY <1>2, <2>2 DEF Range
    <3>2. k[q[i]] = m[q[i]]
      BY <3>1
    <3>3. d + i \in 1..a /\ p[i] = q[i] /\ u[d + i] = s[d + i]
      BY <1>5, <1>6, <2>2
    <3>4. s[d + i].ref = q[i] /\ s[d + i].expires = m[q[i]]
      BY <1>3, <2>2
    <3> QED BY ONLY <3>2, <3>3, <3>4
  <2> QED BY <1>6, <2>1, <2>2
<1>8. ASSUME NEW i \in 1..d PROVE u[i].expires <= t \/ (a + 1) - i >= w + 1
  BY <1>3, <1>5, <1>6
<1>9. Len(p) <= Len(u) /\ Len(u) - Len(p) = d /\ Len(u) = a + 1 /\ Len(p) = b + 1
  BY ONLY <1>2, <1>5, <1>6, a \in Nat, b \in Nat, d \in Nat
<1> QED BY ONLY <1>1, <1>5, <1>7, <1>8, <1>9 DEF Follows

\* Fewer need to follow, and more have expired.
LEMMA FollowsWeaker ==
  ASSUME NEW s, NEW q \in Seq(Calls), NEW m, NEW t \in Nat, NEW w \in Nat,
         Follows(s, q, m, t, w), NEW v \in Nat, v <= w, NEW r \in Nat, t <= r
  PROVE  Follows(s, q, m, r, v)
<1>1. PICK a \in Nat, b \in Nat, d \in Nat : a = Len(s) /\ b = Len(q) /\ d = a - b /\ b <= a
  <2>1. Len(s) \in Nat /\ Len(q) \in Nat /\ Len(q) <= Len(s)
    BY DEF Follows
  <2>2. Len(s) - Len(q) \in Nat
    BY ONLY <2>1
  <2> QED BY <2>1, <2>2
<1>2. ASSUME NEW i \in 1..d PROVE s[i].expires <= r \/ a - i >= v
  <2>1. s[i].expires <= t \/ a - i >= w
    BY <1>1 DEF Follows
  <2>2. s[i].expires \in Nat
    <3>1. s \in Seq(Records) /\ i \in 1..Len(s)
      BY <1>1 DEF Follows
    <3>2. s[i] \in Records
      BY ONLY <3>1
    <3> QED BY ONLY <3>2 DEF Records
  <2>3. a - i \in Int
    OBVIOUS
  <2>4. PICK y \in Nat, z \in Int : y = s[i].expires /\ z = a - i
    BY <2>2, <2>3
  <2>5. y <= t \/ z >= w
    BY <2>1, <2>4
  <2>6. y <= r \/ z >= v
    BY ONLY <2>5, y \in Nat, z \in Int, t \in Nat, r \in Nat, v \in Nat, w \in Nat, t <= r, v <= w
  <2> QED BY <2>4, <2>6
<1> QED BY <1>1, <1>2 DEF Follows

LEMMA RangeNotLonger ==
  ASSUME NEW q \in Seq(Calls)
  PROVE  Cardinality(Range(q)) \in Nat /\ Cardinality(Range(q)) <= Len(q)
<1>1. PICK n \in Nat : n = Len(q)
  OBVIOUS
<1>2. IsFiniteSet(1..n) /\ Cardinality(1..n) = n
  BY FS_Interval
<1>3. q \in Surjection(1..n, Range(q))
  BY <1>1 DEF Surjection, Range
<1>4. IsFiniteSet(Range(q)) /\ Cardinality(Range(q)) <= Cardinality(1..n)
  BY <1>2, <1>3, FS_Surjection
<1> QED BY <1>1, <1>2, <1>4, FS_CardinalityType

\* No call has read a clock that is ahead of the clock.
ReadClockOK == \A c \in Calls : at[c] <= now

StoredOK == Follows(stored, order, refs, now, Capacity)

\* A purge at an instant that has come.
LEMMA PurgeFollows ==
  ASSUME IInv, NEW s, Follows(s, order, refs, now, Capacity), NEW instant \in Nat, instant <= now,
         NEW live, live = PopFront(order, ExpiredInFront(refs, order, instant))
  PROVE  Follows(s, live, KeptRefs(refs, live), now, Capacity)
<1>1. order \in Seq(Calls) /\ IsInjective(order) /\ now \in Nat /\ Capacity \in Nat
  BY ConfigAssumption, BoundAssumption DEF IInv, TypeOK, OrderMatchesRefs
<1>2. PICK n : n = ExpiredInFront(refs, order, instant)
  OBVIOUS
<1>3. n \in 0..Len(order) /\ \A i \in 1..Len(order) : i \in 1..n <=> \A j \in 1..i : refs[order[j]] <= instant
  BY <1>1, <1>2, PurgedPlaces
<1>4. ASSUME NEW j \in 1..n PROVE refs[order[j]] <= now
  <2>1. j \in 1..Len(order) /\ j \in 1..j
    BY <1>1, <1>3
  <2>2. refs[order[j]] <= instant
    BY <1>3, <2>1
  <2>3. refs[order[j]] \in Nat
    <3>1. order[j] \in Range(order)
      BY <1>1, <2>1 DEF Range
    <3> QED BY <3>1 DEF IInv, TypeOK, OrderMatchesRefs
  <2>4. \A x, y, z \in Nat : x <= y /\ y <= z => x <= z
    OBVIOUS
  <2> QED BY <1>1, <2>2, <2>3, <2>4
<1>5. /\ Range(live) \subseteq DOMAIN refs
      /\ \A x \in Range(live) : KeptRefs(refs, live)[x] = refs[x]
  <2>1. Range(live) \subseteq DOMAIN refs
    BY PurgeKeepsOrder
  <2> QED BY <2>1 DEF KeptRefs, Restrict
<1>6. live = PopFront(order, n)
  BY <1>2
<1> QED BY <1>1, <1>3, <1>4, <1>5, <1>6, PopFollows

LEMMA InsertFollows ==
  ASSUME IInv, ReadClockOK, StoredOK, NEW c \in Calls, Insert(c),
         stored' = Append(stored, [ref |-> c, expires |-> Expiry(c)])
  PROVE  StoredOK'
<1>1. PICK live : live = PopFront(order, ExpiredInFront(refs, order, at[c]))
  OBVIOUS
<1>2. /\ live \in Seq(Calls) /\ IsInjective(live) /\ Range(live) \subseteq DOMAIN refs
      /\ DOMAIN KeptRefs(refs, live) = Range(live) /\ Cardinality(Range(live)) <= Capacity
  BY <1>1, PurgeKeepsOrder
<1>3. PICK m : m = KeptRefs(refs, live)
  OBVIOUS
<1>4. at[c] \in Nat /\ at[c] <= now /\ now \in Nat /\ now' = now /\ Capacity \in Nat \ {0}
  <2>1. at[c] \in 0..MaxTime /\ now \in 0..MaxTime /\ at[c] <= now /\ now' = now
    BY DEF IInv, TypeOK, ReadClockOK, Insert, Return
  <2> QED BY <2>1, ConfigAssumption, BoundAssumption
<1>5. Follows(stored, live, m, now, Capacity)
  BY <1>1, <1>3, <1>4, PurgeFollows DEF StoredOK
<1>6. PICK w \in Nat : w = Capacity - 1 /\ w + 1 = Capacity /\ w <= Capacity
  BY <1>4
<1>7. Follows(stored, live, m, now, w)
  <2>1. now <= now /\ Capacity \in Nat
    BY <1>4
  <2> QED BY ONLY <1>2, <1>4, <1>5, <1>6, <2>1, w \in Nat, FollowsWeaker
<1>8. PICK room : room = IF Full(m) THEN EvictOldest(live) ELSE live
  OBVIOUS
<1>9. /\ room \in Seq(Calls) /\ Range(room) \subseteq Range(live)
  BY <1>2, <1>3, <1>8, RoomForOne
<1>10. PICK kept : kept = KeptRefs(refs, room)
  OBVIOUS
<1>11. /\ DOMAIN kept = Range(room) /\ \A x \in Range(room) : kept[x] = m[x]
  BY <1>2, <1>3, <1>9, <1>10 DEF KeptRefs, Restrict
<1>12. Follows(stored, room, m, now, w)
  <2>1. CASE ~Full(m)
    BY <1>7, <1>8, <2>1
  <2>2. CASE Full(m)
    <3>1. room = PopFront(live, 1)
      BY <1>8, <2>2 DEF EvictOldest
    <3>2. Len(live) \in Nat /\ Len(live) >= Capacity
      <4>1. Cardinality(Range(live)) >= Capacity
        BY <1>2, <1>3, <2>2 DEF Full
      <4>2. Cardinality(Range(live)) \in Nat /\ Cardinality(Range(live)) <= Len(live) /\ Len(live) \in Nat
        BY <1>2, RangeNotLonger
      <4> QED BY <1>4, <4>1, <4>2
    <3>3. 1 \in 0..Len(live) /\ \A j \in 1..1 : Len(live) - j >= w
      BY <1>4, <1>6, <3>2
    <3>4. \A x \in Range(PopFront(live, 1)) : m[x] = m[x]
      OBVIOUS
    <3>5. Follows(stored, PopFront(live, 1), m, now, w)
      BY ONLY <1>2, <1>4, <1>7, <3>3, <3>4, w \in Nat, PopFollows
    <3> QED BY <3>1, <3>5
  <2> QED BY <2>1, <2>2
<1>13. PICK x \in Nat : x = Expiry(c)
  BY <1>4, ConfigAssumption DEF Expiry
<1>14. order' = Append(room, c) /\ refs' = [k \in DOMAIN kept \cup {c} |-> IF k = c THEN x ELSE kept[k]]
  BY <1>1, <1>3, <1>8, <1>10, <1>13 DEF Insert
<1>15. c \notin Range(room)
  <2>1. c \notin DOMAIN refs
    BY DEF Insert, IInv, AnswerWhenDone, StoredWereIssued, Issued
  <2> QED BY <1>2, <1>9, <2>1
<1>16. refs'[c] = x /\ \A y \in Range(room) : refs'[y] = m[y]
  BY <1>11, <1>14, <1>15
<1>17. PICK k : k = refs'
  OBVIOUS
<1>18. k[c] = x /\ \A y \in Range(room) : k[y] = m[y]
  BY <1>16, <1>17
<1>19. Follows(Append(stored, [ref |-> c, expires |-> x]), Append(room, c), k, now, w + 1)
  BY ONLY <1>4, <1>9, <1>12, <1>18, c \in Calls, x \in Nat, w \in Nat, AppendFollows
<1> QED BY <1>4, <1>6, <1>13, <1>14, <1>17, <1>19 DEF StoredOK

\* The history grows by what an insert stores.
LEMMA HistoryOfInsert ==
  ASSUME IInv, HistoryNext, NEW c \in Calls, Insert(c)
  PROVE  stored' = Append(stored, [ref |-> c, expires |-> Expiry(c)])
<1>1. PICK live, room, kept :
        /\ live = PopFront(order, ExpiredInFront(refs, order, at[c]))
        /\ room = IF Full(KeptRefs(refs, live)) THEN EvictOldest(live) ELSE live
        /\ kept = KeptRefs(refs, room)
  OBVIOUS
<1>2. /\ live \in Seq(Calls) /\ IsInjective(live) /\ Range(live) \subseteq DOMAIN refs
      /\ DOMAIN KeptRefs(refs, live) = Range(live) /\ Cardinality(Range(live)) <= Capacity
  BY <1>1, PurgeKeepsOrder
<1>3. Range(room) \subseteq Range(live)
  BY <1>1, <1>2, RoomForOne
<1>4. DOMAIN kept \subseteq DOMAIN refs
  BY <1>1, <1>2, <1>3 DEF KeptRefs, Restrict
<1>5. refs' = [k \in DOMAIN kept \cup {c} |-> IF k = c THEN Expiry(c) ELSE kept[k]]
  BY <1>1 DEF Insert
<1>6. c \notin DOMAIN refs
  BY DEF Insert, IInv, AnswerWhenDone, StoredWereIssued, Issued
<1>7. DOMAIN refs' \ DOMAIN refs = {c} /\ refs'[c] = Expiry(c)
  BY <1>4, <1>5, <1>6
<1>8. (CHOOSE k \in {c} : TRUE) = c
  OBVIOUS
<1> QED BY <1>7, <1>8 DEF HistoryNext

LEMMA HistoryWithoutInsert ==
  ASSUME HistoryNext, DOMAIN refs' \subseteq DOMAIN refs
  PROVE  stored' = stored
<1>1. DOMAIN refs' \ DOMAIN refs = {}
  OBVIOUS
<1> QED BY <1>1 DEF HistoryNext

LEMMA OnlyPurged ==
  ASSUME IInv, StoredOK, stored' = stored, now' = now, NEW instant \in Nat, instant <= now,
         NEW live, live = PopFront(order, ExpiredInFront(refs, order, instant)),
         order' = live, refs' = KeptRefs(refs, live)
  PROVE  StoredOK'
<1>1. Follows(stored, live, KeptRefs(refs, live), now, Capacity)
  BY PurgeFollows DEF StoredOK
<1> QED BY <1>1 DEF StoredOK

LEMMA StepStored ==
  IInv /\ ReadClockOK /\ StoredOK /\ [HistoryNext]_<<vars, stored>> => StoredOK'
<1> SUFFICES ASSUME IInv, ReadClockOK, StoredOK, [HistoryNext]_<<vars, stored>> PROVE StoredOK'
  OBVIOUS
<1>1. CASE UNCHANGED <<refs, order, stored, now>>
  BY <1>1 DEF StoredOK
<1>2. CASE UNCHANGED <<vars, stored>>
  BY <1>1, <1>2 DEF vars
<1>3. CASE HistoryNext
  <2>0. Next
    BY <1>3 DEF HistoryNext
  <2>1. CASE Tick
    <3>1. stored' = stored /\ refs' = refs /\ order' = order
      BY <1>3, <2>1, HistoryWithoutInsert DEF Tick
    <3>2. now \in Nat /\ now' \in Nat /\ now <= now' /\ Capacity \in Nat /\ Capacity <= Capacity
      BY <2>1, ConfigAssumption, BoundAssumption DEF Tick, IInv, TypeOK
    <3>3. order \in Seq(Calls)
      BY DEF IInv, TypeOK
    <3>4. PICK r : r = now'
      OBVIOUS
    <3>5. r \in Nat /\ now <= r
      BY <3>2, <3>4
    <3>6. Follows(stored, order, refs, now, Capacity)
      BY DEF StoredOK
    <3>7. Follows(stored, order, refs, r, Capacity)
      BY ONLY <3>2, <3>3, <3>5, <3>6, FollowsWeaker
    <3> QED BY <3>1, <3>4, <3>7 DEF StoredOK
  <2>2. CASE PurgeOnLen
    <3>1. PICK live : live = PopFront(order, ExpiredInFront(refs, order, now))
      OBVIOUS
    <3>2. order' = live /\ refs' = KeptRefs(refs, live) /\ now' = now
      BY <2>2, <3>1 DEF PurgeOnLen
    <3>3. now \in Nat /\ now <= now
      BY BoundAssumption DEF IInv, TypeOK
    <3>4. DOMAIN refs' \subseteq DOMAIN refs
      BY <3>1, <3>2, PurgeKeepsOrder
    <3> QED BY <1>3, <3>1, <3>2, <3>3, <3>4, HistoryWithoutInsert, OnlyPurged
  <2>3. ASSUME NEW c \in Calls, CallInsert(c) \/ \E k \in Calls : CallResolve(c, k)
        PROVE  StoredOK'
    <3>1. UNCHANGED <<refs, order, now>>
      BY <2>3 DEF CallInsert, CallResolve, Call
    <3>2. stored' = stored
      BY <1>3, <3>1, HistoryWithoutInsert
    <3> QED BY <1>1, <3>1, <3>2
  <2>4. ASSUME NEW c \in Calls, Insert(c) PROVE StoredOK'
    BY <1>3, <2>4, HistoryOfInsert, InsertFollows
  <2>5. ASSUME NEW c \in Calls, Resolve(c) PROVE StoredOK'
    <3>1. PICK live : live = PopFront(order, ExpiredInFront(refs, order, at[c]))
      OBVIOUS
    <3>2. order' = live /\ refs' = KeptRefs(refs, live) /\ now' = now
      BY <2>5, <3>1 DEF Resolve, Return
    <3>3. at[c] \in Nat /\ at[c] <= now
      BY BoundAssumption DEF IInv, TypeOK, ReadClockOK
    <3>4. DOMAIN refs' \subseteq DOMAIN refs
      BY <3>1, <3>2, PurgeKeepsOrder
    <3> QED BY <1>3, <3>1, <3>2, <3>3, <3>4, HistoryWithoutInsert, OnlyPurged
  <2> QED BY <2>0, <2>1, <2>2, <2>3, <2>4, <2>5 DEF Next
<1> QED BY <1>2, <1>3

LEMMA StepReadClock == IInv /\ ReadClockOK /\ [Next]_vars => ReadClockOK'
<1> SUFFICES ASSUME IInv, ReadClockOK, [Next]_vars PROVE ReadClockOK'
  OBVIOUS
<1>1. now \in Nat /\ \A c \in Calls : at[c] \in Nat /\ at[c] <= now
  BY BoundAssumption DEF IInv, TypeOK, ReadClockOK
<1>2. CASE UNCHANGED vars \/ PurgeOnLen
  BY <1>1, <1>2 DEF vars, PurgeOnLen, ReadClockOK
<1>3. CASE Tick
  BY <1>1, <1>3 DEF Tick, ReadClockOK
<1>4. ASSUME NEW c \in Calls,
             CallInsert(c) \/ (\E k \in Calls : CallResolve(c, k)) \/ Insert(c) \/ Resolve(c)
      PROVE  ReadClockOK'
  <2>1. now' = now /\ (at' = [at EXCEPT ![c] = 0] \/ at' = [at EXCEPT ![c] = now])
    BY <1>4 DEF CallInsert, CallResolve, Insert, Resolve, Call, Return
  <2>2. at \in [Calls -> Nat]
    BY BoundAssumption DEF IInv, TypeOK
  <2> QED BY <1>1, <2>1, <2>2 DEF ReadClockOK
<1> QED BY <1>2, <1>3, <1>4 DEF Next

LEMMA StepHistory == [HistoryNext]_<<vars, stored>> => [Next]_vars
BY DEF HistoryNext, vars

LEMMA HistoryInvariant == HistorySpec => [](IInv /\ ReadClockOK /\ StoredOK)
<1>1. HistoryInit => IInv /\ ReadClockOK /\ StoredOK
  <2> SUFFICES ASSUME HistoryInit PROVE IInv /\ ReadClockOK /\ StoredOK
    OBVIOUS
  <2>1. IInv
    BY InitIInv DEF HistoryInit
  <2>2. ReadClockOK
    BY DEF HistoryInit, Init, ReadClockOK
  <2>3. StoredOK
    BY DEF HistoryInit, Init, StoredOK, Follows
  <2> QED BY <2>1, <2>2, <2>3
<1>2. IInv /\ ReadClockOK /\ StoredOK /\ [HistoryNext]_<<vars, stored>>
        => (IInv /\ ReadClockOK /\ StoredOK)'
  BY StepHistory, StepIInv, StepReadClock, StepStored
<1> QED BY <1>1, <1>2, PTL DEF HistorySpec

\* The newest references, as many as the capacity, are resolved until their TTL
\* is over: neither an eviction nor a purge takes one of them before an older
\* one (insert, purge_expired, evict_oldest).
THEOREM NewestStay == HistorySpec => []NewestSurvive
<1>1. IInv /\ ReadClockOK /\ StoredOK => NewestSurvive
  <2> SUFFICES ASSUME IInv, StoredOK, NEW i \in DOMAIN stored,
                      stored[i].expires > now, Len(stored) - i < Capacity
               PROVE  stored[i].ref \in DOMAIN refs
    BY DEF NewestSurvive
  <2>1. PICK a \in Nat, b \in Nat, d \in Nat : a = Len(stored) /\ b = Len(order) /\ d = a - b /\ b <= a
    <3>1. Len(stored) \in Nat /\ Len(order) \in Nat /\ Len(order) <= Len(stored)
      BY DEF StoredOK, Follows, IInv, TypeOK
    <3>2. Len(stored) - Len(order) \in Nat
      BY ONLY <3>1
    <3> QED BY <3>1, <3>2
  <2>2. i \in 1..a /\ stored[i].expires \in Nat /\ now \in Nat
    <3>1. stored \in Seq(Records)
      BY DEF StoredOK, Follows
    <3>2. i \in 1..a /\ stored[i] \in Records
      BY <2>1, <3>1
    <3>3. stored[i].expires \in Nat
      BY <3>2 DEF Records
    <3> QED BY <3>2, <3>3, BoundAssumption DEF IInv, TypeOK
  <2>3. ~(i \in 1..d)
    <3>1. \A j \in 1..d : stored[j].expires <= now \/ a - j >= Capacity
      BY <2>1 DEF StoredOK, Follows
    <3>2. ~(stored[i].expires <= now) /\ ~(a - i >= Capacity)
      BY <2>1, <2>2, ConfigAssumption
    <3> QED BY <3>1, <3>2
  <2>4. i - d \in 1..b /\ d + (i - d) = i
    BY ONLY <2>1, <2>2, <2>3, a \in Nat, b \in Nat, d \in Nat
  <2>5. stored[i].ref = order[i - d]
    BY <2>1, <2>4 DEF StoredOK, Follows
  <2>6. order[i - d] \in Range(order)
    BY <2>1, <2>4 DEF Range, IInv, TypeOK
  <2> QED BY <2>5, <2>6 DEF IInv, OrderMatchesRefs
<1> QED BY <1>1, HistoryInvariant, PTL

=============================================================================
