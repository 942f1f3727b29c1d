----------------------------- MODULE MatchStore -----------------------------
(***************************************************************************)
(* The in-memory store of match references, MatchReferenceStore of         *)
(* src/src/query_state.rs: search registers one reference per returned     *)
(* line, get_log_context resolves it.                                      *)
(*                                                                         *)
(* As in CursorStore every operation reads the clock before it takes the   *)
(* mutex, so a call is two steps.  The queue is therefore ordered by the   *)
(* order of the locked sections, which need not be the order of expiry,    *)
(* and the purge stops at the first reference that has not expired.        *)
(***************************************************************************)
EXTENDS Integers, Sequences, FiniteSets, Functions

CONSTANTS
  Calls,     \* the insert and resolve calls of one behaviour, each made once;
             \* an insert names the reference (the fresh UUID) it creates
  Capacity,  \* match_reference_capacity of the configuration
  TTL,       \* match_reference_ttl of the configuration, in clock ticks
  MaxTime,   \* bound: the clock stops here
  None

ASSUME NoneAssumption == None \notin Calls
ASSUME CallsAssumption == IsFiniteSet(Calls)
\* validate_store_config refuses a zero capacity and a zero TTL.
ASSUME ConfigAssumption == Capacity \in Nat \ {0} /\ TTL \in Nat \ {0}
ASSUME BoundAssumption == MaxTime \in Nat

VARIABLES
  now,    \* Instant::now()
  refs,   \* reference -> expires_at, a partial function on Calls
  order,  \* the VecDeque of references, oldest in front
  pc,     \* where each call is
  arg,    \* the reference a resolve asks for
  at,     \* the instant the call read before taking the lock
  out     \* what it answered

vars == <<now, refs, order, pc, arg, at, out>>

Init ==
  /\ now = 0
  /\ refs = <<>>
  /\ order = <<>>
  /\ pc = [c \in Calls |-> "idle"]
  /\ arg = [c \in Calls |-> None]
  /\ at = [c \in Calls |-> 0]
  /\ out = [c \in Calls |-> "none"]

-----------------------------------------------------------------------------
(***************************************************************************)
(* MatchStoreState: the operations on the locked map and queue.            *)
(***************************************************************************)

\* Mutants: a purge that never runs, a store that is full one reference too early.
NothingExpired(m, q, instant) == 0
FullEarly(m) == Cardinality(DOMAIN m) + 1 >= Capacity

\* How many references the front of the queue loses to a purge: the expired
\* ones up to the first that is not.
ExpiredInFront(m, q, instant) ==
  Cardinality({i \in DOMAIN q : \A j \in 1..i : m[q[j]] <= instant})

PopFront(q, n) == SubSeq(q, n + 1, Len(q))

EvictOldest(q) == PopFront(q, 1)

Full(m) == Cardinality(DOMAIN m) >= Capacity

Expiry(c) == at[c] + TTL

\* The map loses what the queue has lost.
KeptRefs(m, q) == Restrict(m, Range(q))

Issued == {c \in Calls : out[c] = "ref"}

-----------------------------------------------------------------------------

\* A call reads the clock and goes to wait for the lock.
Call(c, phase) ==
  /\ pc[c] = "idle"
  /\ pc' = [pc EXCEPT ![c] = phase]
  /\ at' = [at EXCEPT ![c] = now]
  /\ UNCHANGED <<now, refs, order, out>>

Return(c, answer) ==
  /\ pc' = [pc EXCEPT ![c] = "done"]
  /\ at' = [at EXCEPT ![c] = 0]
  /\ out' = [out EXCEPT ![c] = answer]
  /\ UNCHANGED <<now, arg>>

\* search registers a returned line.
CallInsert(c) == Call(c, "inserting") /\ UNCHANGED arg

\* get_log_context resolves a reference some search returned, or one that no
\* search did (c's own name).
CallResolve(c, k) ==
  /\ k \in Issued \cup {c}
  /\ Call(c, "resolving")
  /\ arg' = [arg EXCEPT ![c] = k]

\* The locked section of insert.  The eviction loop runs at most once, for the
\* store never holds more than Capacity references (CapacityRespected).
Insert(c) ==
  LET live == PopFront(order, ExpiredInFront(refs, order, at[c]))
      room == IF Full(KeptRefs(refs, live)) THEN EvictOldest(live) ELSE live
      kept == KeptRefs(refs, room)
  IN  /\ pc[c] = "inserting"
      /\ order' = Append(room, c)
      /\ refs' = [k \in DOMAIN kept \cup {c} |->
                    IF k = c THEN Expiry(c) ELSE kept[k]]
      /\ Return(c, "ref")

\* The locked section of resolve.
Resolve(c) ==
  LET live == PopFront(order, ExpiredInFront(refs, order, at[c]))
  IN  /\ pc[c] = "resolving"
      /\ order' = live
      /\ refs' = KeptRefs(refs, live)
      /\ Return(c, IF arg[c] \in DOMAIN refs' THEN "data" ELSE "UnknownOrExpired")

\* len(): the one operation that reads the clock under the lock.
PurgeOnLen ==
  /\ order' = PopFront(order, ExpiredInFront(refs, order, now))
  /\ refs' = KeptRefs(refs, order')
  /\ UNCHANGED <<now, pc, arg, at, out>>

Tick ==
  /\ now < MaxTime
  /\ now' = now + 1
  /\ UNCHANGED <<refs, order, pc, arg, at, out>>

Next ==
  \/ Tick
  \/ PurgeOnLen
  \/ \E c \in Calls :
       \/ CallInsert(c)
       \/ \E k \in Calls : CallResolve(c, k)
       \/ Insert(c)
       \/ Resolve(c)

Spec == Init /\ [][Next]_vars

-----------------------------------------------------------------------------
(***************************************************************************)
(* Properties.                                                             *)
(***************************************************************************)

TypeOK ==
  /\ now \in 0..MaxTime
  /\ refs \in [DOMAIN refs -> Nat] /\ DOMAIN refs \subseteq Calls
  /\ order \in Seq(Calls)
  /\ pc \in [Calls -> {"idle", "inserting", "resolving", "done"}]
  /\ arg \in [Calls -> Calls \cup {None}]
  /\ at \in [Calls -> 0..MaxTime]
  /\ out \in [Calls -> {"none", "ref", "data", "UnknownOrExpired"}]

\* Map and queue hold the same references, each once: a token left in one of
\* them only would break every later eviction.
OrderMatchesRefs == Range(order) = DOMAIN refs /\ IsInjective(order)

CapacityRespected == Cardinality(DOMAIN refs) <= Capacity

\* A reference is resolved after its TTL only while a reference stored before
\* it has not expired: the staleness is bounded by how far a caller's clock
\* reading and its turn at the lock can lie apart.
StaleOnlyBehindFresh ==
  [][\A c \in Calls : pc[c] = "resolving" /\ out'[c] = "data" =>
       \/ refs[arg[c]] > at[c]
       \/ \E i, j \in DOMAIN order :
            i < j /\ order[j] = arg[c] /\ refs[order[i]] > at[c]]_vars

\* What ERROR_MODEL_V1.md and M2_QUERY_STATE.md say of an expired reference:
\* it is refused.
ExpiredNeverResolves ==
  [][\A c \in Calls : pc[c] = "resolving" /\ out'[c] = "data" =>
       refs[arg[c]] > at[c]]_vars

=============================================================================
