---------------------------- MODULE CursorStore ----------------------------
(***************************************************************************)
(* The in-memory store of search cursors, SearchCursorStore and            *)
(* SearchCursorLease of src/src/query_state.rs, as the search requests of   *)
(* src/src/stateful_query.rs call it.                                      *)
(*                                                                         *)
(* Every operation of the store reads the clock first and takes the mutex  *)
(* afterwards, so it is two steps here: the caller samples `now` into      *)
(* at[r], and later runs the locked section, which is one atomic action.   *)
(* Other requests and the clock run in between.                            *)
(*                                                                         *)
(* A request is one call of the search tool.  It opens at most one lease   *)
(* and issues at most one cursor, both named by a fresh UUID in the code:  *)
(* the request itself names them here, which is what "fresh" means.        *)
(***************************************************************************)
EXTENDS Integers, Sequences, FiniteSets, Functions

CONSTANTS
  Requests,      \* the search calls of one behaviour, each made once
  Queries,       \* query bindings: sources, keyword, case, time range, page size
  MaxWatermark,  \* bound: watermarks (sort keys of results) are 1..MaxWatermark
  Capacity,      \* cursor_capacity of the configuration
  TTL,           \* cursor_ttl of the configuration, in clock ticks
  MaxTime,       \* bound: the clock stops here
  None           \* no request, no token, no value

ASSUME NoneAssumption == None \notin Requests \cup Queries
ASSUME RequestsAssumption == IsFiniteSet(Requests)
\* validate_store_config refuses a zero capacity and a zero TTL.
ASSUME ConfigAssumption == Capacity \in Nat \ {0} /\ TTL \in Nat \ {0}
ASSUME BoundAssumption == MaxWatermark \in Nat /\ MaxTime \in Nat

VARIABLES
  now,      \* Instant::now()
  entries,  \* token -> StoredCursor, a partial function on Requests
  order,    \* the VecDeque of tokens, oldest in front
  pc,       \* where each request is
  tok,      \* the cursor the request presented, None for a first page
  query,    \* the query binding of the request
  held,     \* the SearchCursorData its lease holds
  cont,     \* the watermark of the cursor it is about to store, 0 for none
  at,       \* the instant it read before taking the lock
  out       \* what it answered

vars == <<now, entries, order, pc, tok, query, held, cont, at, out>>

Watermarks == 1..MaxWatermark
Data == [query : Queries, after : Watermarks]
StoredCursor == [data : Data, expires : Nat, lease : Requests \cup {None}]

Phases == {"idle", "beginning", "scanning", "inserting", "committing",
           "releasing", "done"}
Answers == {"none", "last", "continued", "failed", "UnknownOrExpired",
            "QueryMismatch", "Busy", "CapacityBusy"}

Init ==
  /\ now = 0
  /\ entries = <<>>
  /\ order = <<>>
  /\ pc = [r \in Requests |-> "idle"]
  /\ tok = [r \in Requests |-> None]
  /\ query = [r \in Requests |-> None]
  /\ held = [r \in Requests |-> None]
  /\ cont = [r \in Requests |-> 0]
  /\ at = [r \in Requests |-> 0]
  /\ out = [r \in Requests |-> "none"]

-----------------------------------------------------------------------------
(***************************************************************************)
(* CursorStoreState: the operations on the locked map and queue.           *)
(***************************************************************************)

Leased(e) == {k \in DOMAIN e : e[k].lease # None}
Unleased(e) == {k \in DOMAIN e : e[k].lease = None}

\* Mutants: a purge that ignores leases, one that is late by a tick, one
\* whose caller frees a consumed cursor instead of removing it, and three
\* evictions: of any cursor, of the front only, and one losing the cursors
\* it rotates.
PurgeLeasedToo(e, instant) == Restrict(e, {k \in DOMAIN e : e[k].expires > instant})
PurgeLate(e, instant) ==
  Restrict(e, {k \in DOMAIN e : e[k].lease # None \/ e[k].expires >= instant})
UnleaseOnly(e, k) == [e EXCEPT ![k].lease = None]
EvictableAny(e, o) == DOMAIN o
EvictableFront(e, o) == {i \in DOMAIN o : i = 1 /\ o[i] \in Unleased(e)}
RotateAway(o, e, i) == SubSeq(o, i + 1, Len(o))
NeverReleased(e, t, r, instant) == e

\* A leased cursor outlives its TTL until its lease ends.
PurgeExpired(e, instant) ==
  Restrict(e, {k \in DOMAIN e : e[k].lease # None \/ e[k].expires > instant})

\* order.retain
Retain(o, e) ==
  LET kept[n \in 0..Len(o)] ==
        IF n = 0 THEN <<>>
        ELSE IF o[n] \in DOMAIN e THEN Append(kept[n - 1], o[n]) ELSE kept[n - 1]
  IN  kept[Len(o)]

Remove(e, k) == Restrict(e, DOMAIN e \ {k})

InsertNew(e, k, data, expires) ==
  [x \in DOMAIN e \cup {k} |->
     IF x = k THEN [data |-> data, expires |-> expires, lease |-> None] ELSE e[x]]

Full(e) == Cardinality(DOMAIN e) >= Capacity

\* release_lease: an expired cursor is not given back but removed.
Release(e, t, r, instant) ==
  IF t \notin DOMAIN e \/ e[t].lease # r THEN e
  ELSE IF e[t].expires <= instant THEN Remove(e, t)
  ELSE [e EXCEPT ![t].lease = None]

\* The places in the queue of the cursors that may be evicted.
Evictable(e, o) == {i \in DOMAIN o : o[i] \in Unleased(e)}

OldestEvictable(e, o) ==
  {i \in Evictable(e, o) : \A j \in Evictable(e, o) : i <= j}

\* The scan pops the front; a leased token goes to the back of the queue.
Rotate(o, e, i) ==
  SubSeq(o, i + 1, Len(o)) \o Retain(SubSeq(o, 1, i - 1), e)

-----------------------------------------------------------------------------
(***************************************************************************)
(* What a request does around the store.                                   *)
(***************************************************************************)

\* The request returns: its local values are dropped, only the cursor it
\* presented and its answer are remembered.
Return(r, answer) ==
  /\ pc' = [pc EXCEPT ![r] = "done"]
  /\ out' = [out EXCEPT ![r] = answer]
  /\ query' = [query EXCEPT ![r] = None]
  /\ held' = [held EXCEPT ![r] = None]
  /\ at' = [at EXCEPT ![r] = 0]
  /\ UNCHANGED <<now, tok>>

\* The request reads the clock and goes to wait for the lock.
Call(r, phase) ==
  /\ pc' = [pc EXCEPT ![r] = phase]
  /\ at' = [at EXCEPT ![r] = now]
  /\ UNCHANGED <<now, entries, order, out>>

\* Cursors some request has been given.
Issued == {r \in Requests : out[r] = "continued"}

\* search without a cursor: no lease, the scan starts at once.
SearchFirst(r, q) ==
  /\ pc[r] = "idle"
  /\ pc' = [pc EXCEPT ![r] = "scanning"]
  /\ query' = [query EXCEPT ![r] = q]
  /\ UNCHANGED <<now, entries, order, tok, held, cont, at, out>>

\* search with a cursor: one that was issued, or one that never was (r's own
\* name, which the store cannot know yet).
SearchNext(r, t, q) ==
  /\ pc[r] = "idle"
  /\ t \in Issued \cup {r}
  /\ Call(r, "beginning")
  /\ tok' = [tok EXCEPT ![r] = t]
  /\ query' = [query EXCEPT ![r] = q]
  /\ UNCHANGED <<held, cont>>

BeginRefusal(e, t, q) ==
  IF t \notin DOMAIN e THEN "UnknownOrExpired"
  ELSE IF e[t].data.query # q THEN "QueryMismatch"
  ELSE IF e[t].lease # None THEN "Busy"
  ELSE "none"

\* The locked section of begin.
Begin(r) ==
  LET live == PurgeExpired(entries, at[r])
      refusal == BeginRefusal(live, tok[r], query[r])
  IN  /\ pc[r] = "beginning"
      /\ order' = Retain(order, live)
      /\ IF refusal = "none"
         THEN /\ entries' = [live EXCEPT ![tok[r]].lease = r]
              /\ held' = [held EXCEPT ![r] = live[tok[r]].data]
              /\ pc' = [pc EXCEPT ![r] = "scanning"]
              /\ at' = [at EXCEPT ![r] = 0]
              /\ UNCHANGED <<now, tok, query, out>>
         ELSE /\ entries' = live
              /\ Return(r, refusal)
      /\ UNCHANGED cont

\* scan_page produced a page: the request commits its lease, stores a first
\* cursor, or has nothing to store.  m is the watermark of the continuation,
\* 0 when the page is the last one.  A continuation that does not move the
\* watermark forward is refused and the dropped lease goes to be released.
EndPage(r, m) ==
  /\ pc[r] = "scanning"
  /\ UNCHANGED <<tok, query, held>>
  /\ \/ /\ tok[r] = None /\ m = 0
        /\ pc' = [pc EXCEPT ![r] = "done"]
        /\ out' = [out EXCEPT ![r] = "last"]
        /\ UNCHANGED <<now, entries, order, cont, at>>
     \/ /\ tok[r] = None /\ m # 0
        /\ Call(r, "inserting")
        /\ cont' = [cont EXCEPT ![r] = m]
     \/ /\ tok[r] # None
        /\ Call(r, IF m = 0 \/ m > held[r].after THEN "committing" ELSE "releasing")
        /\ cont' = [cont EXCEPT ![r] = IF m > held[r].after THEN m ELSE 0]

\* scan_page failed, was cancelled, or the future of search was dropped.
FailPage(r) ==
  /\ pc[r] = "scanning"
  /\ UNCHANGED <<tok, query, held, cont>>
  /\ \/ /\ tok[r] = None
        /\ pc' = [pc EXCEPT ![r] = "done"]
        /\ out' = [out EXCEPT ![r] = "failed"]
        /\ UNCHANGED <<now, entries, order, at>>
     \/ /\ tok[r] # None
        /\ Call(r, "releasing")

NewData(r) == [query |-> query[r], after |-> cont[r]]

\* The locked section of insert.  The eviction loop runs at most once, for
\* the store never holds more than Capacity cursors (CapacityRespected).
Insert(r) ==
  LET live == PurgeExpired(entries, at[r])
      queue == Retain(order, live)
      Store(e, o) ==
        /\ entries' = InsertNew(e, r, NewData(r), at[r] + TTL)
        /\ order' = Append(o, r)
        /\ Return(r, "continued")
  IN  /\ pc[r] = "inserting"
      /\ cont' = [cont EXCEPT ![r] = 0]
      /\ \/ ~Full(live) /\ Store(live, queue)
         \/ /\ Full(live)
            /\ \E i \in OldestEvictable(live, queue) :
                 Store(Remove(live, queue[i]), Rotate(queue, live, i))
         \/ /\ Full(live) /\ Evictable(live, queue) = {}
            /\ entries' = live
            /\ order' = queue
            /\ Return(r, "CapacityBusy")

\* The locked section of finish_lease.  On LeaseLost the lease is dropped
\* unfinished, which reads the clock again and goes to release it.
Commit(r) ==
  LET live == PurgeExpired(entries, at[r])
      t == tok[r]
      mine == /\ t \in DOMAIN live
              /\ live[t].lease = r
              /\ live[t].data = held[r]
      rest == Remove(live, t)
      queue == Retain(order, rest)
  IN  /\ pc[r] = "committing"
      /\ cont' = [cont EXCEPT ![r] = 0]
      /\ IF ~mine
         THEN /\ entries' = live
              /\ order' = Retain(order, live)
              /\ pc' = [pc EXCEPT ![r] = "releasing"]
              /\ at' = [at EXCEPT ![r] = now]
              /\ UNCHANGED <<now, tok, query, held, out>>
         ELSE IF cont[r] = 0
         THEN /\ entries' = rest
              /\ order' = queue
              /\ Return(r, "last")
         ELSE /\ entries' = InsertNew(rest, r, NewData(r), at[r] + TTL)
              /\ order' = Append(queue, r)
              /\ Return(r, "continued")

\* The locked section of release_lease, run when the lease is dropped.
DropLease(r) ==
  /\ pc[r] = "releasing"
  /\ entries' = Release(entries, tok[r], r, at[r])
  /\ order' = Retain(order, entries')
  /\ Return(r, "failed")
  /\ UNCHANGED cont

\* len(): the one operation that reads the clock under the lock.
PurgeOnLen ==
  /\ entries' = PurgeExpired(entries, now)
  /\ order' = Retain(order, entries')
  /\ UNCHANGED <<now, pc, tok, query, held, cont, at, out>>

Tick ==
  /\ now < MaxTime
  /\ now' = now + 1
  /\ UNCHANGED <<entries, order, pc, tok, query, held, cont, at, out>>

\* Everything a request does once it has started.
Proceed(r) ==
  \/ Begin(r)
  \/ \E m \in 0..MaxWatermark : EndPage(r, m)
  \/ FailPage(r)
  \/ Insert(r)
  \/ Commit(r)
  \/ DropLease(r)

Start(r) ==
  \E q \in Queries : SearchFirst(r, q) \/ \E t \in Requests : SearchNext(r, t, q)

Next == Tick \/ PurgeOnLen \/ \E r \in Requests : Start(r) \/ Proceed(r)

Spec == Init /\ [][Next]_vars

-----------------------------------------------------------------------------
(***************************************************************************)
(* Properties.                                                             *)
(***************************************************************************)

\* Requests between a successful begin and the end of their lease.
Holding(r) == tok[r] # None /\ pc[r] \in {"scanning", "committing", "releasing"}

\* The answers after which a search returned a page: its cursor is used up.
Consumed(r) == tok[r] # None /\ out[r] \in {"last", "continued"}

\* The store's map and the requests hold values of their types; the type of the
\* queue is part of OrderMatchesEntries.
StoreTypeOK ==
  /\ now \in Nat
  /\ DOMAIN entries \subseteq Requests
  /\ \A k \in DOMAIN entries : entries[k] \in StoredCursor
  /\ pc \in [Requests -> Phases]
  /\ tok \in [Requests -> Requests \cup {None}]
  /\ query \in [Requests -> Queries \cup {None}]
  /\ held \in [Requests -> Data \cup {None}]
  /\ cont \in [Requests -> 0..MaxWatermark]
  /\ at \in [Requests -> Nat]
  /\ out \in [Requests -> Answers]

\* The queue holds every cursor of the map once and nothing else, through
\* purges, evictions that rotate leased cursors, commits and releases.
OrderMatchesEntries ==
  /\ Range(order) = DOMAIN entries
  /\ IsInjective(order)

\* The store never outgrows its configured capacity, although a commit
\* inserts without looking at it and leased cursors cannot be evicted.
CapacityRespected == Cardinality(DOMAIN entries) <= Capacity

\* The entry behind a running page stays in the store, leased to that request
\* and with the data it was given, whatever the clock and the other requests
\* do: LeaseLost is never answered, and no two pages run from one cursor.
LeaseHolderKeepsEntry ==
  \A r \in Requests : Holding(r) =>
    /\ tok[r] \in DOMAIN entries
    /\ entries[tok[r]].lease = r
    /\ entries[tok[r]].data = held[r]

\* At most one request ever turns a given cursor into a page, so the results
\* after a cursor are never returned twice and a chain of pages never forks.
ChainNeverForks ==
  \A r, s \in Requests :
    r # s /\ Consumed(r) /\ Consumed(s) => tok[r] # tok[s]

\* A cursor leaves the store only because its lease holder used it up, because
\* its TTL has passed and nobody else is using it, or because it is unleased
\* and a first page needed its place in a full store.
CursorNeverSilentlyLost ==
  [][\A k \in DOMAIN entries \ DOMAIN entries' :
       \/ \E r \in Requests :
            tok[r] = k /\ pc[r] = "committing" /\ Consumed(r)'
       \/ /\ entries[k].expires <= now
          /\ \/ entries[k].lease = None
             \/ pc[entries[k].lease] = "releasing"
       \/ /\ entries[k].lease = None
          /\ Cardinality(DOMAIN entries) = Capacity
          /\ \E r \in Requests : pc[r] = "inserting" /\ out'[r] = "continued"]_vars

\* A cursor whose TTL had passed when a request read the clock is never
\* leased to it, however long the request then waited for the lock.
ExpiredCursorNeverServed ==
  [][\A r \in Requests : pc[r] = "beginning" /\ pc'[r] = "scanning" =>
       entries[tok[r]].expires > at[r]]_vars

\* A first page is refused for lack of room only when every place is taken by
\* a running page.
BusyOnlyWhenAllLeased ==
  [][\A r \in Requests : out'[r] = "CapacityBusy" /\ out[r] = "none" =>
       Leased(entries') = DOMAIN entries']_vars

\* A cursor in use is eventually free again or gone: no outcome of a request
\* leaves it answering Busy for ever.
LeaseEnds ==
  \A k \in Requests :
    k \in Leased(entries) ~> k \notin Leased(entries)

-----------------------------------------------------------------------------
(***************************************************************************)
(* The store implements the linear cursors of CursorChain.                 *)
(***************************************************************************)

\* A request has turned the cursor into a page.
Spent(k) == \E r \in Requests : tok[r] = k /\ Consumed(r)

StageOf(k) ==
  IF k \in DOMAIN entries
  THEN IF entries[k].lease = None THEN "live" ELSE "leased"
  ELSE IF k \notin Issued THEN "unissued"
  ELSE IF Spent(k) THEN "spent"
  ELSE "lost"

UserOf(k) == IF k \in DOMAIN entries THEN entries[k].lease ELSE None
MarkOf(k) == IF k \in DOMAIN entries THEN entries[k].data.after ELSE 0

Chain == INSTANCE CursorChain WITH
  stage <- [k \in Requests |-> StageOf(k)],
  user <- [k \in Requests |-> UserOf(k)],
  mark <- [k \in Requests |-> MarkOf(k)]

\* Every step of the store is a step of linear cursors or changes none: with
\* all its races, purges and evictions a cursor is used up at most once, in
\* order, and only by the one request that holds it.
ImplementsChain == Chain!Spec

=============================================================================
