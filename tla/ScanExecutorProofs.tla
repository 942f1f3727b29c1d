------------------------- MODULE ScanExecutorProofs -------------------------
(***************************************************************************)
(* Permits of the executors, for every set of calls and every number of    *)
(* permits: none is leaked or doubled, none is idle while a call waits.    *)
(***************************************************************************)
EXTENDS ScanExecutor, FiniteSetTheorems, SequenceTheorems, TLAPS

(***************************************************************************)
(* The inductive invariant.  That permits are conserved is not inductive:  *)
(* handing a permit to the head of the queue counts it once only if that   *)
(* call was not granted one already, and a granted call that is spawned    *)
(* becomes one more holder only if it had no task before.                  *)
(***************************************************************************)

\* The calls that have asked for a permit and have not been served.
Acquiring == granted \cup Range(waiters)

QueueOK ==
  /\ IsInjective(waiters)
  /\ Range(waiters) \cap granted = {}
  /\ available > 0 => waiters = <<>>
  /\ \A c \in Acquiring : future[c] = "waiting"
  /\ ~closed => \A c \in Calls : future[c] = "waiting" => c \in Acquiring

NoTaskBeforePermit ==
  \A c \in Calls : future[c] \in {"idle", "waiting"} => task[c] = "none"

IInv == TypeOK /\ QueueOK /\ NoTaskBeforePermit /\ PermitsConserved

-----------------------------------------------------------------------------
(***************************************************************************)
(* The queue.                                                              *)
(***************************************************************************)

\* The head of the queue leaves it.
LEMMA TailOfQueue ==
  ASSUME NEW q \in Seq(Calls), IsInjective(q), q # <<>>
  PROVE  /\ Head(q) \in Range(q) /\ Head(q) \in Calls
         /\ Tail(q) \in Seq(Calls) /\ IsInjective(Tail(q))
         /\ Range(Tail(q)) = Range(q) \ {Head(q)}
<1>1. /\ Len(q) \in Nat /\ Len(q) > 0 /\ DOMAIN q = 1..Len(q)
      /\ Tail(q) \in Seq(Calls) /\ DOMAIN Tail(q) = 1..(Len(q) - 1)
      /\ \A i \in 1..(Len(q) - 1) : Tail(q)[i] = q[i + 1]
      /\ Head(q) = q[1]
  OBVIOUS
<1>2. Head(q) \in Range(q) /\ Head(q) \in Calls
  BY <1>1 DEF Range
<1>3. IsInjective(Tail(q))
  BY <1>1 DEF IsInjective
<1>4. ASSUME NEW x \in Range(q) \ {Head(q)} PROVE x \in Range(Tail(q))
  <2>1. PICK j \in DOMAIN q : q[j] = x
    BY DEF Range
  <2>2. j # 1 /\ j - 1 \in DOMAIN Tail(q) /\ Tail(q)[j - 1] = x
    BY <1>1, <2>1
  <2> QED
    BY <2>2 DEF Range
<1>5. ASSUME NEW x \in Range(Tail(q)) PROVE x \in Range(q) \ {Head(q)}
  <2>1. PICK j \in DOMAIN Tail(q) : Tail(q)[j] = x
    BY DEF Range
  <2>2. j + 1 \in DOMAIN q /\ q[j + 1] = x /\ q[j + 1] # q[1]
    BY <1>1, <2>1 DEF IsInjective
  <2> QED
    BY <1>1, <2>2 DEF Range
<1> QED
  BY <1>1, <1>2, <1>3, <1>4, <1>5

\* A new acquire joins the queue.
LEMMA AppendToQueue ==
  ASSUME NEW q \in Seq(Calls), IsInjective(q), NEW c \in Calls, c \notin Range(q)
  PROVE  /\ Append(q, c) \in Seq(Calls) /\ IsInjective(Append(q, c))
         /\ Range(Append(q, c)) = Range(q) \cup {c}
<1> DEFINE a == Append(q, c)
<1>1. /\ Len(q) \in Nat /\ DOMAIN q = 1..Len(q) /\ a \in Seq(Calls)
      /\ DOMAIN a = 1..(Len(q) + 1)
      /\ \A i \in 1..Len(q) : a[i] = q[i]
      /\ a[Len(q) + 1] = c
  OBVIOUS
<1>2. IsInjective(a)
  BY <1>1 DEF IsInjective, Range
<1>3. Range(a) = Range(q) \cup {c}
  BY <1>1 DEF Range
<1> QED
  BY <1>1, <1>2, <1>3

\* An acquire in the middle of the queue leaves it (Drop of tokio's Acquire).
LEMMA LeaveQueue ==
  ASSUME NEW q \in Seq(Calls), IsInjective(q), NEW c \in Calls
  PROVE  /\ Leave(q, c) \in Seq(Calls) /\ IsInjective(Leave(q, c))
         /\ Range(Leave(q, c)) = Range(q) \ {c}
         /\ q = <<>> => Leave(q, c) = <<>>
<1>1. CASE c \notin Range(q)
  BY <1>1 DEF Leave
<1>2. CASE c \in Range(q)
  <2> DEFINE i == CHOOSE j \in DOMAIN q : q[j] = c
             l == SubSeq(q, 1, i - 1) \o SubSeq(q, i + 1, Len(q))
  <2>1. Len(q) \in Nat /\ DOMAIN q = 1..Len(q)
    OBVIOUS
  <2>2. i \in 1..Len(q) /\ q[i] = c
    BY <1>2, <2>1 DEF Range
  <2>3. Leave(q, c) = l
    BY <1>2 DEF Leave
  <2> HIDE DEF i
  <2>4. /\ SubSeq(q, 1, i - 1) \in Seq(Calls) /\ Len(SubSeq(q, 1, i - 1)) = i - 1
        /\ \A k \in 1..(i - 1) : SubSeq(q, 1, i - 1)[k] = q[k]
    BY <2>2
  <2>5. /\ SubSeq(q, i + 1, Len(q)) \in Seq(Calls)
        /\ Len(SubSeq(q, i + 1, Len(q))) = Len(q) - i
        /\ \A k \in 1..(Len(q) - i) : SubSeq(q, i + 1, Len(q))[k] = q[i + k]
    BY <2>2
  <2> DEFINE front == SubSeq(q, 1, i - 1)
             back == SubSeq(q, i + 1, Len(q))
  <2> HIDE DEF front, back
  <2>11. /\ front \in Seq(Calls) /\ Len(front) = i - 1
         /\ back \in Seq(Calls) /\ Len(back) = Len(q) - i
         /\ l = front \o back
    BY <2>4, <2>5 DEF front, back
  <2> HIDE DEF l
  <2>12. l \in Seq(Calls) /\ Len(l) = Len(q) - 1 /\ DOMAIN l = 1..(Len(q) - 1)
    <3>1. front \o back \in Seq(Calls) /\ Len(front \o back) = Len(front) + Len(back)
      BY <2>11, ConcatProperties
    <3>2. l \in Seq(Calls) /\ Len(l) = Len(q) - 1
      BY <2>1, <2>2, <2>11, <3>1
    <3>3. DOMAIN l = 1..Len(l)
      BY <3>2
    <3> QED
      BY <3>2, <3>3
  <2>13. ASSUME NEW k \in 1..(Len(q) - 1)
         PROVE  l[k] = IF k < i THEN q[k] ELSE q[k + 1]
    <3>1. l[k] = IF k < i THEN front[k] ELSE back[k - i + 1]
      <4>1. (front \o back)[k] = IF k <= Len(front) THEN front[k] ELSE back[k - Len(front)]
        BY <2>1, <2>2, <2>11, ConcatProperties
      <4>2. k - Len(front) = k - i + 1 /\ (k <= Len(front) <=> k < i)
        BY <2>1, <2>2, <2>11
      <4> QED
        BY <2>11, <4>1, <4>2
    <3>2. CASE k < i
      BY <2>2, <2>4, <3>1, <3>2 DEF front
    <3>3. CASE ~(k < i)
      <4>1. k - i + 1 \in 1..(Len(q) - i) /\ i + (k - i + 1) = k + 1
        BY <2>1, <2>2, <3>3
      <4>2. back[k - i + 1] = q[i + (k - i + 1)]
        BY <2>5, <4>1 DEF back
      <4>3. l[k] = back[k - i + 1]
        BY <3>1, <3>3
      <4> QED
        BY <3>3, <4>1, <4>2, <4>3
    <3> QED
      BY <3>2, <3>3
  <2>6. /\ l \in Seq(Calls) /\ Len(l) = Len(q) - 1 /\ DOMAIN l = 1..(Len(q) - 1)
        /\ \A k \in 1..(Len(q) - 1) : l[k] = IF k < i THEN q[k] ELSE q[k + 1]
    BY <2>12, <2>13
  <2>7. IsInjective(l)
    <3> SUFFICES ASSUME NEW a \in DOMAIN l, NEW b \in DOMAIN l, l[a] = l[b]
                 PROVE  a = b
      BY DEF IsInjective
    <3>1. a \in 1..(Len(q) - 1) /\ b \in 1..(Len(q) - 1)
      BY <2>6
    <3>2. (IF a < i THEN q[a] ELSE q[a + 1]) = (IF b < i THEN q[b] ELSE q[b + 1])
      BY <2>6, <3>1
    <3>3. \A j, k \in 1..Len(q) : q[j] = q[k] => j = k
      BY <2>1 DEF IsInjective
    <3>4. (IF a < i THEN a ELSE a + 1) = (IF b < i THEN b ELSE b + 1)
      BY <2>1, <2>2, <3>1, <3>2, <3>3
    <3> QED
      BY <2>1, <2>2, <3>1, <3>4
  <2>8. ASSUME NEW x \in Range(l) PROVE x \in Range(q) \ {c}
    <3>1. PICK k \in 1..(Len(q) - 1) : l[k] = x
      BY <2>6 DEF Range
    <3>2. PICK j \in 1..Len(q) : j # i /\ q[j] = x
      BY <2>1, <2>2, <2>6, <3>1
    <3> QED
      BY <2>1, <2>2, <3>2 DEF Range, IsInjective
  <2>9. ASSUME NEW x \in Range(q) \ {c} PROVE x \in Range(l)
    <3>1. PICK j \in 1..Len(q) : q[j] = x /\ j # i
      BY <2>1, <2>2 DEF Range
    <3>2. PICK k \in 1..(Len(q) - 1) : l[k] = x
      <4>1. CASE j < i
        BY <2>1, <2>2, <2>6, <3>1, <4>1
      <4>2. CASE j > i
        <5>1. j - 1 \in 1..(Len(q) - 1) /\ ~(j - 1 < i) /\ (j - 1) + 1 = j
          BY <2>1, <2>2, <3>1, <4>2
        <5> QED
          BY <2>6, <3>1, <5>1
      <4> QED
        BY <2>1, <2>2, <3>1, <4>1, <4>2
    <3> QED
      BY <2>6, <3>2 DEF Range
  <2>10. q # <<>>
    BY <2>1, <2>2
  <2> QED
    BY <2>3, <2>6, <2>7, <2>8, <2>9, <2>10
<1> QED
  BY <1>1, <1>2

-----------------------------------------------------------------------------
(***************************************************************************)
(* The counts.                                                             *)
(***************************************************************************)

\* One holder more or less.
LEMMA CountCalls ==
  ASSUME NEW S \in SUBSET Calls, NEW c \in Calls
  PROVE  /\ Cardinality(S) \in Nat
         /\ Cardinality(S \cup {c}) = IF c \in S THEN Cardinality(S) ELSE Cardinality(S) + 1
         /\ Cardinality(S \ {c}) = IF c \in S THEN Cardinality(S) - 1 ELSE Cardinality(S)
<1>1. IsFiniteSet(S)
  BY CallsAssumption, FS_Subset
<1> QED
  BY <1>1, FS_CardinalityType, FS_AddElement, FS_RemoveElement

\* A permit that comes back is free or granted to the head of the queue.
LEMMA ReleaseHandsOn ==
  ASSUME IInv, Release(waiters)
  PROVE  /\ available' \in Nat /\ granted' \subseteq Calls
         /\ available' + Cardinality(granted') = available + Cardinality(granted) + 1
         /\ waiters' \in Seq(Calls) /\ IsInjective(waiters')
         /\ Acquiring' = Acquiring
         /\ Range(waiters') \cap granted' = {}
         /\ available' > 0 => waiters' = <<>>
<1> USE DEF IInv, TypeOK, QueueOK
<1>1. CASE waiters = <<>>
  <2>1. Cardinality(granted) \in Nat
    BY CallsAssumption, FS_Subset, FS_CardinalityType
  <2> QED
    BY <1>1, <2>1, PermitsAssumption DEF Release, Acquiring
<1>2. CASE waiters # <<>>
  <2> DEFINE h == Head(waiters)
  <2>1. /\ h \in Range(waiters) /\ h \in Calls
        /\ Tail(waiters) \in Seq(Calls) /\ IsInjective(Tail(waiters))
        /\ Range(Tail(waiters)) = Range(waiters) \ {h}
    BY <1>2, TailOfQueue
  <2>2. h \notin granted
    BY <2>1
  <2>3. /\ Cardinality(granted) \in Nat
        /\ Cardinality(granted \cup {h}) = Cardinality(granted) + 1
    BY <2>1, <2>2, CountCalls
  <2>4. available' = available /\ waiters' = Tail(waiters) /\ granted' = granted \cup {h}
    BY <1>2 DEF Release
  <2>5. available = 0
    BY <1>2, PermitsAssumption
  <2> HIDE DEF h
  <2> QED
    BY <2>1, <2>2, <2>3, <2>4, <2>5 DEF Acquiring
<1> QED
  BY <1>1, <1>2

\* An acquire that is dropped gives back what it was granted.
LEMMA AbandonHandsOn ==
  ASSUME IInv, NEW c \in Calls, Abandon(c)
  PROVE  /\ available' \in Nat /\ granted' \subseteq Calls
         /\ available' + Cardinality(granted') = available + Cardinality(granted)
         /\ waiters' \in Seq(Calls) /\ IsInjective(waiters')
         /\ Acquiring' = Acquiring \ {c}
         /\ Range(waiters') \cap granted' = {}
         /\ available' > 0 => waiters' = <<>>
         /\ closed' = closed
<1> USE DEF IInv, TypeOK, QueueOK
<1>0. /\ Cardinality(granted) \in Nat
      /\ Cardinality(granted \ {c}) =
           IF c \in granted THEN Cardinality(granted) - 1 ELSE Cardinality(granted)
  BY CountCalls
<1>1. CASE c \notin granted
  <2>1. /\ Leave(waiters, c) \in Seq(Calls) /\ IsInjective(Leave(waiters, c))
        /\ Range(Leave(waiters, c)) = Range(waiters) \ {c}
        /\ waiters = <<>> => Leave(waiters, c) = <<>>
    BY LeaveQueue
  <2>2. waiters' = Leave(waiters, c) /\ available' = available /\ granted' = granted
        /\ closed' = closed
    BY <1>1 DEF Abandon
  <2> QED
    BY <1>0, <1>1, <2>1, <2>2, PermitsAssumption DEF Acquiring
<1>2. CASE c \in granted /\ waiters = <<>>
  <2>1. /\ available' = available + 1 /\ granted' = granted \ {c}
        /\ waiters' = waiters /\ closed' = closed
    BY <1>2 DEF Abandon
  <2> QED
    BY <1>0, <1>2, <2>1, PermitsAssumption DEF Acquiring, Range
<1>3. CASE c \in granted /\ waiters # <<>>
  <2> DEFINE h == Head(waiters)
  <2>1. /\ h \in Range(waiters) /\ h \in Calls
        /\ Tail(waiters) \in Seq(Calls) /\ IsInjective(Tail(waiters))
        /\ Range(Tail(waiters)) = Range(waiters) \ {h}
    BY <1>3, TailOfQueue
  <2>2. /\ available' = available /\ waiters' = Tail(waiters) /\ closed' = closed
        /\ granted' = (granted \ {c}) \cup {h}
    BY <1>3 DEF Abandon
  <2>3. h \notin granted /\ c \notin Range(waiters)
    BY <1>3, <2>1
  <2>4. Cardinality((granted \ {c}) \cup {h}) = Cardinality(granted \ {c}) + 1
    BY <2>1, <2>3, CountCalls
  <2>5. available = 0
    BY <1>3, PermitsAssumption
  <2> HIDE DEF h
  <2> QED
    BY <1>0, <1>3, <2>1, <2>2, <2>3, <2>4, <2>5 DEF Acquiring
<1> QED
  BY <1>1, <1>2, <1>3

\* Permits are free or held: what is free is never more than there are.
LEMMA FreeWithinPermits ==
  ASSUME NEW a \in Nat, NEW S \in SUBSET Calls, NEW T \in SUBSET Calls,
         a + Cardinality(S) + Cardinality(T) = Permits
  PROVE  a \in 0..Permits
<1>1. Cardinality(S) \in Nat /\ Cardinality(T) \in Nat
  BY CallsAssumption, FS_Subset, FS_CardinalityType
<1> QED
  BY <1>1, PermitsAssumption

-----------------------------------------------------------------------------

LEMMA InitIInv == Init => IInv
<1> SUFFICES ASSUME Init PROVE IInv
  OBVIOUS
<1>1. Range(waiters) = {} /\ ActiveTasks = {} /\ granted = {}
  BY DEF Init, Range, ActiveTasks, Active
<1>2. TypeOK
  <2>1. future \in [Calls -> Pending] /\ task \in [Calls -> {"none"}]
    BY DEF Init, Pending
  <2>2. cancelled \in [Calls -> BOOLEAN] /\ late \in [Calls -> BOOLEAN] /\ closed \in BOOLEAN
    BY DEF Init
  <2>3. available \in 0..Permits /\ waiters \in Seq(Calls) /\ granted \subseteq Calls
    BY PermitsAssumption DEF Init
  <2> QED
    BY <2>1, <2>2, <2>3 DEF TypeOK
<1>3. QueueOK
  BY <1>1 DEF Init, QueueOK, Acquiring, IsInjective
<1>4. NoTaskBeforePermit
  BY DEF Init, NoTaskBeforePermit
<1>5. PermitsConserved
  BY <1>1, FS_EmptySet, PermitsAssumption DEF Init, PermitsConserved
<1> QED
  BY <1>2, <1>3, <1>4, <1>5 DEF IInv

LEMMA BeginIInv ==
  ASSUME IInv, NEW c \in Calls, Begin(c)
  PROVE  IInv'
<1> USE DEF IInv, TypeOK, Pending, Answered, Stopped, Active
<1>0. StopReason(c) \in Stopped \cup {"none"}
  BY DEF StopReason
<1>1. CASE UNCHANGED <<task, available, waiters>> /\ future'[c] \in Answered
           /\ future' = [future EXCEPT ![c] = future'[c]]
  <2>1. TypeOK'
    BY <1>1 DEF Begin
  <2>2. /\ future[c] = "idle" /\ UNCHANGED <<task, available, waiters, granted, closed>>
        /\ \A d \in Calls : future'[d] = "waiting" <=> future[d] = "waiting"
        /\ \A d \in Calls : future'[d] = "idle" => future[d] = "idle"
    BY <1>1 DEF Begin
  <2>3. Acquiring' = Acquiring /\ Acquiring \subseteq Calls
    BY <2>2 DEF Acquiring, Range
  <2>4. QueueOK' /\ NoTaskBeforePermit'
    BY <2>2, <2>3 DEF QueueOK, NoTaskBeforePermit
  <2>5. PermitsConserved'
    BY <2>2 DEF PermitsConserved, ActiveTasks
  <2> QED
    BY <2>1, <2>4, <2>5
<1>2. CASE /\ ~closed /\ available > 0
           /\ future' = [future EXCEPT ![c] = "awaiting"]
           /\ task' = [task EXCEPT ![c] = "queued"]
           /\ available' = available - 1 /\ waiters' = waiters
  <2>1. c \notin ActiveTasks /\ ActiveTasks' = ActiveTasks \cup {c}
    BY <1>2 DEF Begin, ActiveTasks, NoTaskBeforePermit
  <2>2. Cardinality(ActiveTasks') = Cardinality(ActiveTasks) + 1
    BY <2>1, CountCalls DEF ActiveTasks
  <2>3. Cardinality(granted) \in Nat /\ Cardinality(ActiveTasks) \in Nat
    BY CountCalls, CallsAssumption, FS_Subset, FS_CardinalityType DEF ActiveTasks
  <2>4. PermitsConserved'
    BY <1>2, <2>2, <2>3, PermitsAssumption DEF Begin, PermitsConserved
  <2>5. QueueOK' /\ NoTaskBeforePermit'
    BY <1>2, PermitsAssumption DEF Begin, QueueOK, Acquiring, NoTaskBeforePermit
  <2>6. TypeOK'
    BY <1>2, PermitsAssumption DEF Begin
  <2> QED
    BY <2>4, <2>5, <2>6
<1>3. CASE /\ ~closed /\ available = 0
           /\ future' = [future EXCEPT ![c] = "waiting"]
           /\ waiters' = Append(waiters, c)
           /\ UNCHANGED <<task, available>>
  <2>1. c \notin Acquiring
    BY DEF Begin, QueueOK
  <2>2. /\ waiters' \in Seq(Calls) /\ IsInjective(waiters')
        /\ Range(waiters') = Range(waiters) \cup {c}
    BY <1>3, <2>1, AppendToQueue DEF QueueOK, Acquiring
  <2>3. TypeOK'
    BY <1>3, <2>2 DEF Begin
  <2>4. QueueOK'
    BY <1>3, <2>1, <2>2 DEF Begin, QueueOK, Acquiring
  <2>5. NoTaskBeforePermit' /\ PermitsConserved'
    BY <1>3 DEF Begin, NoTaskBeforePermit, PermitsConserved, ActiveTasks
  <2> QED
    BY <2>3, <2>4, <2>5
<1> QED
  BY <1>0, <1>1, <1>2, <1>3 DEF Begin

\* A future that stops waiting, for whatever reason, without a task.
LEMMA StopWaitingIInv ==
  ASSUME IInv, NEW c \in Calls, future[c] = "waiting", Abandon(c),
         NEW answer \in Answered \cup {"dropped"}, answer # "Joined",
         future' = [future EXCEPT ![c] = answer],
         UNCHANGED <<task, cancelled, late>>
  PROVE  IInv'
<1> USE DEF IInv, TypeOK, Pending, Answered, Stopped, Active
<1>1. /\ available' \in Nat /\ granted' \subseteq Calls
      /\ available' + Cardinality(granted') = available + Cardinality(granted)
      /\ waiters' \in Seq(Calls) /\ IsInjective(waiters')
      /\ Acquiring' = Acquiring \ {c}
      /\ Range(waiters') \cap granted' = {}
      /\ available' > 0 => waiters' = <<>>
      /\ closed' = closed
  BY AbandonHandsOn
<1>2. ActiveTasks' = ActiveTasks /\ ActiveTasks \subseteq Calls
  BY DEF ActiveTasks
<1>3. /\ Cardinality(granted) \in Nat /\ Cardinality(granted') \in Nat
      /\ Cardinality(ActiveTasks) \in Nat
  BY <1>1, <1>2, CallsAssumption, FS_Subset, FS_CardinalityType
<1>4. PermitsConserved'
  BY <1>1, <1>2, <1>3, PermitsAssumption DEF PermitsConserved
<1>5. available' \in 0..Permits
  BY <1>1, <1>2, <1>3, <1>4, PermitsAssumption DEF PermitsConserved
<1>6. TypeOK'
  BY <1>1, <1>5
<1>7. QueueOK' /\ NoTaskBeforePermit'
  BY <1>1 DEF QueueOK, NoTaskBeforePermit
<1> QED
  BY <1>4, <1>6, <1>7

LEMMA GiveUpIInv ==
  ASSUME IInv, NEW c \in Calls, GiveUp(c)
  PROVE  IInv'
<1>1. PICK answer \in Stopped \cup {"ExecutorClosed"} :
        future' = [future EXCEPT ![c] = answer]
  BY DEF GiveUp, StopReason, Stopped
<1> QED
  BY <1>1, StopWaitingIInv DEF GiveUp, Answered, Stopped

LEMMA SpawnIInv ==
  ASSUME IInv, NEW c \in Calls, Spawn(c)
  PROVE  IInv'
<1> USE DEF IInv, TypeOK, Pending, Answered, Stopped, Active, Spawn
<1>1. c \notin ActiveTasks /\ ActiveTasks' = ActiveTasks \cup {c}
  BY DEF ActiveTasks, NoTaskBeforePermit
<1>2. Cardinality(ActiveTasks') = Cardinality(ActiveTasks) + 1
  BY <1>1, CountCalls DEF ActiveTasks
<1>3. Cardinality(granted') = Cardinality(granted) - 1
  BY CountCalls
<1>4. Cardinality(granted) \in Nat /\ Cardinality(ActiveTasks) \in Nat
  BY CallsAssumption, FS_Subset, FS_CardinalityType DEF ActiveTasks
<1>5. PermitsConserved'
  BY <1>2, <1>3, <1>4, PermitsAssumption DEF PermitsConserved
<1>6. TypeOK'
  OBVIOUS
<1>7. QueueOK' /\ NoTaskBeforePermit'
  BY DEF QueueOK, Acquiring, NoTaskBeforePermit
<1> QED
  BY <1>5, <1>6, <1>7

LEMMA JoinIInv ==
  ASSUME IInv, NEW c \in Calls, Join(c)
  PROVE  IInv'
<1> USE DEF IInv, TypeOK, Pending, Answered, Stopped, Active, Join
<1>1. TypeOK'
  OBVIOUS
<1>2. QueueOK' /\ NoTaskBeforePermit' /\ PermitsConserved'
  BY DEF QueueOK, Acquiring, NoTaskBeforePermit, PermitsConserved, ActiveTasks
<1> QED
  BY <1>1, <1>2

LEMMA DropFutureIInv ==
  ASSUME IInv, NEW c \in Calls, DropFuture(c)
  PROVE  IInv'
<1>1. CASE future[c] = "waiting"
  <2>1. /\ Abandon(c) /\ future' = [future EXCEPT ![c] = "dropped"]
        /\ UNCHANGED <<task, late>>
        /\ cancelled' = [cancelled EXCEPT ![c] = cancelled[c] \/ FALSE]
    BY <1>1 DEF DropFuture
  <2>2. cancelled' = cancelled
    BY <2>1, Zenon DEF IInv, TypeOK
  <2> QED
    BY <1>1, <2>1, <2>2, StopWaitingIInv
<1>2. CASE future[c] = "awaiting"
  <2> USE <1>2 DEF IInv, TypeOK, Pending, Answered, Stopped, Active, DropFuture
  <2>1. cancelled' \in [Calls -> BOOLEAN]
    OBVIOUS
  <2>2. TypeOK'
    BY <2>1
  <2>3. QueueOK' /\ NoTaskBeforePermit' /\ PermitsConserved'
    BY DEF QueueOK, Acquiring, NoTaskBeforePermit, PermitsConserved, ActiveTasks
  <2> QED
    BY <2>2, <2>3
<1> QED
  BY <1>1, <1>2 DEF DropFuture

LEMMA StartTaskIInv ==
  ASSUME IInv, NEW c \in Calls, StartTask(c)
  PROVE  IInv'
<1> USE DEF IInv, TypeOK, Active, StartTask
<1>1. ActiveTasks' = ActiveTasks
  BY DEF ActiveTasks
<1>2. TypeOK' /\ QueueOK' /\ NoTaskBeforePermit' /\ PermitsConserved'
  BY <1>1 DEF QueueOK, Acquiring, NoTaskBeforePermit, PermitsConserved
<1> QED
  BY <1>2

LEMMA EndTaskIInv ==
  ASSUME IInv, NEW c \in Calls, EndTask(c)
  PROVE  IInv'
<1> USE DEF IInv, TypeOK, Active, EndTask
<1>1. /\ available' \in Nat /\ granted' \subseteq Calls
      /\ available' + Cardinality(granted') = available + Cardinality(granted) + 1
      /\ waiters' \in Seq(Calls) /\ IsInjective(waiters')
      /\ Acquiring' = Acquiring
      /\ Range(waiters') \cap granted' = {}
      /\ available' > 0 => waiters' = <<>>
  BY ReleaseHandsOn
<1>2. c \in ActiveTasks /\ ActiveTasks' = ActiveTasks \ {c} /\ ActiveTasks \subseteq Calls
  BY DEF ActiveTasks
<1>3. Cardinality(ActiveTasks') = Cardinality(ActiveTasks) - 1
  BY <1>2, CountCalls
<1>4. /\ Cardinality(granted) \in Nat /\ Cardinality(granted') \in Nat
      /\ Cardinality(ActiveTasks) \in Nat /\ Cardinality(ActiveTasks') \in Nat
  BY <1>1, <1>2, CallsAssumption, FS_Subset, FS_CardinalityType
<1>5. PermitsConserved'
  BY <1>1, <1>3, <1>4, PermitsAssumption DEF PermitsConserved
<1>6. available' \in 0..Permits
  BY <1>1, <1>4, <1>5, PermitsAssumption DEF PermitsConserved
<1>7. TypeOK'
  BY <1>1, <1>6
<1>8. QueueOK' /\ NoTaskBeforePermit'
  BY <1>1 DEF QueueOK, NoTaskBeforePermit
<1> QED
  BY <1>5, <1>7, <1>8

\* Cancellation, a deadline and the close of the semaphore.
LEMMA EnvironmentIInv ==
  ASSUME IInv, Close \/ \E c \in Calls : Cancel(c) \/ DeadlinePasses(c)
  PROVE  IInv'
<1> USE DEF IInv, TypeOK
<1>1. CASE Close
  <2>1. Range(<<>>) = {}
    BY DEF Range
  <2>2. IsInjective(<<>>)
    BY DEF IsInjective
  <2>3. TypeOK' /\ NoTaskBeforePermit' /\ PermitsConserved'
    BY <1>1 DEF Close, NoTaskBeforePermit, PermitsConserved, ActiveTasks
  <2>4. QueueOK'
    BY <1>1, <2>1, <2>2 DEF Close, QueueOK, Acquiring
  <2> QED
    BY <2>3, <2>4
<1>2. CASE \E c \in Calls : Cancel(c) \/ DeadlinePasses(c)
  <2>1. TypeOK'
    BY <1>2 DEF Cancel, DeadlinePasses
  <2>2. UNCHANGED <<future, task, available, waiters, granted, closed>>
    BY <1>2 DEF Cancel, DeadlinePasses
  <2>3. QueueOK' /\ NoTaskBeforePermit'
    BY <2>2 DEF QueueOK, Acquiring, NoTaskBeforePermit
  <2>4. PermitsConserved'
    BY <2>2 DEF PermitsConserved, ActiveTasks
  <2> QED
    BY <2>1, <2>3, <2>4
<1> QED
  BY <1>1, <1>2

LEMMA StepIInv == IInv /\ [Next]_vars => IInv'
<1> SUFFICES ASSUME IInv, [Next]_vars PROVE IInv'
  OBVIOUS
<1>1. CASE UNCHANGED vars
  BY <1>1 DEF vars, IInv, TypeOK, QueueOK, Acquiring, NoTaskBeforePermit,
              PermitsConserved, ActiveTasks
<1>2. CASE Next
  BY <1>2, BeginIInv, GiveUpIInv, SpawnIInv, JoinIInv, DropFutureIInv, StartTaskIInv,
     EndTaskIInv, EnvironmentIInv DEF Next, Poll, Run
<1> QED
  BY <1>1, <1>2

LEMMA SpecIInv == Spec => []IInv
BY InitIInv, StepIInv, PTL DEF Spec

\* The variables of the executor hold values of their types, free permits
\* within 0..Permits among them.
THEOREM ExecutorTypeCorrect == Spec => []TypeOK
<1>1. IInv => TypeOK
  BY DEF IInv
<1> QED
  BY <1>1, SpecIInv, PTL

\* No drop, stop or close of any call, at any await and in any order, leaks or
\* doubles a permit, and the tasks that read files are never more than there
\* are permits.
THEOREM PermitSafety == Spec => []PermitsConserved
<1>1. IInv => PermitsConserved
  BY DEF IInv
<1> QED
  BY <1>1, SpecIInv, PTL

\* A permit is never idle while a call queues for one, and every waiting call
\* of an open executor is in the queue once or has its permit.
THEOREM WakeupSafety == Spec => []NoLostWakeup
<1>1. IInv => NoLostWakeup
  <2> SUFFICES ASSUME IInv PROVE NoLostWakeup
    OBVIOUS
  <2>1. Acquiring \subseteq Calls
    BY DEF IInv, TypeOK, Acquiring, Range
  <2>2. ~closed => {c \in Calls : future[c] = "waiting"} = granted \cup Range(waiters)
    BY <2>1 DEF IInv, QueueOK, Acquiring
  <2> QED
    BY <2>2 DEF IInv, QueueOK, NoLostWakeup
<1> QED
  BY <1>1, SpecIInv, PTL
=============================================================================
