---------------------------- MODULE ScanExecutor ----------------------------
(***************************************************************************)
(* The bounded executor of blocking file work: ScanExecutor of             *)
(* src/src/scan_executor.rs and ContextExecutor of                         *)
(* src/src/context_executor.rs, which share their permit and cancellation  *)
(* logic line by line.                                                     *)
(*                                                                         *)
(* A call is an async future: it waits for a permit, hands the permit to a *)
(* blocking task and awaits that task.  The future may be dropped at any   *)
(* await; the task cannot be stopped from outside, it ends when it sees    *)
(* its cancellation token or its deadline, or when its work is done.  So   *)
(* future and task are two processes here.                                 *)
(*                                                                         *)
(* External: the fair semaphore of tokio (a released permit goes to the    *)
(* longest waiting acquire, which keeps it until it is polled or dropped). *)
(***************************************************************************)
EXTENDS Integers, Sequences, FiniteSets, Functions

CONSTANTS
  Calls,     \* the scan or execute calls of one behaviour, each made once
  Timed,     \* the calls that carry a deadline
  Permits    \* max_concurrent_scans of the configuration

ASSUME CallsAssumption == IsFiniteSet(Calls) /\ Timed \subseteq Calls
\* ScanExecutor::new and ContextExecutor::new refuse zero.
ASSUME PermitsAssumption == Permits \in Nat \ {0}

VARIABLES
  future,     \* where the future of each call is
  task,       \* where its blocking task is
  cancelled,  \* its CancellationToken
  late,       \* its deadline has passed
  available,  \* permits nobody has been given
  waiters,    \* the queue of pending acquires
  granted,    \* the acquires that were given a permit and not yet polled
  closed      \* the semaphore has been closed

vars == <<future, task, cancelled, late, available, waiters, granted, closed>>

Stopped == {"Cancelled", "DeadlineExceeded"}
Answered == Stopped \cup {"ExecutorClosed", "Joined"}
Pending == {"idle", "waiting", "awaiting"}
Active == {"queued", "running"}

Init ==
  /\ future = [c \in Calls |-> "idle"]
  /\ task = [c \in Calls |-> "none"]
  /\ cancelled = [c \in Calls |-> FALSE]
  /\ late = [c \in Calls |-> FALSE]
  /\ available = Permits
  /\ waiters = <<>>
  /\ granted = {}
  /\ closed = FALSE

ActiveTasks == {c \in Calls : task[c] \in Active}

-----------------------------------------------------------------------------
(***************************************************************************)
(* The semaphore.                                                          *)
(***************************************************************************)

\* A permit comes back: to the longest waiting acquire, if there is one.
Release(queue) ==
  IF queue = <<>>
  THEN available' = available + 1 /\ waiters' = queue /\ granted' = granted
  ELSE available' = available /\ waiters' = Tail(queue) /\ granted' = granted \cup {Head(queue)}

\* An acquire leaves the queue.
Leave(queue, c) ==
  LET i == CHOOSE j \in DOMAIN queue : queue[j] = c
  IN  IF c \in Range(queue)
      THEN SubSeq(queue, 1, i - 1) \o SubSeq(queue, i + 1, Len(queue))
      ELSE queue

\* The acquire of call c is dropped: a permit it was given comes back.
Abandon(c) ==
  /\ UNCHANGED closed
  /\ IF c \notin granted
     THEN /\ waiters' = Leave(waiters, c)
          /\ UNCHANGED <<available, granted>>
     ELSE IF waiters = <<>>
     THEN /\ available' = available + 1
          /\ granted' = granted \ {c}
          /\ UNCHANGED waiters
     ELSE /\ waiters' = Tail(waiters)
          /\ granted' = (granted \ {c}) \cup {Head(waiters)}
          /\ UNCHANGED available

-----------------------------------------------------------------------------
(***************************************************************************)
(* The future of a call.                                                   *)
(***************************************************************************)

\* Mutant: a select without the branch of the deadline.
TokenOnly(c) == IF cancelled[c] THEN "Cancelled" ELSE "none"

\* The biased select and the check before it: cancellation first, then the
\* deadline.
StopReason(c) ==
  IF cancelled[c] THEN "Cancelled"
  ELSE IF late[c] THEN "DeadlineExceeded"
  ELSE "none"

\* The first poll: stopped before it asks for a permit, refused by a closed
\* semaphore, served at once, or put in the queue.
Begin(c) ==
  /\ future[c] = "idle"
  /\ UNCHANGED <<cancelled, late, granted, closed>>
  /\ \/ /\ StopReason(c) # "none"
        /\ future' = [future EXCEPT ![c] = StopReason(c)]
        /\ UNCHANGED <<task, available, waiters>>
     \/ /\ StopReason(c) = "none" /\ closed
        /\ future' = [future EXCEPT ![c] = "ExecutorClosed"]
        /\ UNCHANGED <<task, available, waiters>>
     \/ /\ StopReason(c) = "none" /\ ~closed /\ available > 0
        /\ future' = [future EXCEPT ![c] = "awaiting"]
        /\ task' = [task EXCEPT ![c] = "queued"]
        /\ available' = available - 1
        /\ UNCHANGED waiters
     \/ /\ StopReason(c) = "none" /\ ~closed /\ available = 0
        /\ future' = [future EXCEPT ![c] = "waiting"]
        /\ waiters' = Append(waiters, c)
        /\ UNCHANGED <<task, available>>

\* A later poll of the select that is stopped or refused: its acquire is
\* dropped, with the permit it may have been given in the meantime.
GiveUp(c) ==
  /\ future[c] = "waiting"
  /\ \/ /\ StopReason(c) # "none"
        /\ future' = [future EXCEPT ![c] = StopReason(c)]
     \/ /\ StopReason(c) = "none" /\ closed
        /\ future' = [future EXCEPT ![c] = "ExecutorClosed"]
  /\ Abandon(c)
  /\ UNCHANGED <<task, cancelled, late>>

\* A later poll that finds the permit: the blocking task is spawned with it.
Spawn(c) ==
  /\ future[c] = "waiting" /\ c \in granted
  /\ StopReason(c) = "none" /\ ~closed
  /\ future' = [future EXCEPT ![c] = "awaiting"]
  /\ task' = [task EXCEPT ![c] = "queued"]
  /\ granted' = granted \ {c}
  /\ UNCHANGED <<cancelled, late, available, waiters, closed>>

\* The task has ended or panicked: the guard is disarmed.
Join(c) ==
  /\ future[c] = "awaiting" /\ task[c] = "ended"
  /\ future' = [future EXCEPT ![c] = "Joined"]
  /\ UNCHANGED <<task, cancelled, late, available, waiters, granted, closed>>

\* Mutants: a dropped future that leaves its task alone, that frees the permit
\* of a task that still runs, or whose acquire lives on in a task of its own.
DropSilently(c) ==
  /\ future[c] \in {"waiting", "awaiting"}
  /\ future' = [future EXCEPT ![c] = "dropped"]
  /\ IF future[c] = "waiting" THEN Abandon(c)
     ELSE UNCHANGED <<available, waiters, granted, closed>>
  /\ UNCHANGED <<task, cancelled, late>>
DropWithPermit(c) ==
  /\ future[c] \in {"waiting", "awaiting"}
  /\ future' = [future EXCEPT ![c] = "dropped"]
  /\ cancelled' = [cancelled EXCEPT ![c] = @ \/ future[c] = "awaiting"]
  /\ IF future[c] = "waiting" THEN Abandon(c)
     ELSE Release(waiters) /\ UNCHANGED closed
  /\ UNCHANGED <<task, late>>

DropFutureOnly(c) ==
  /\ future[c] \in {"waiting", "awaiting"}
  /\ future' = [future EXCEPT ![c] = "dropped"]
  /\ cancelled' = [cancelled EXCEPT ![c] = @ \/ future[c] = "awaiting"]
  /\ UNCHANGED <<task, late, available, waiters, granted, closed>>

\* The caller drops the future.  CancelOnDrop is armed only once the permit
\* has been acquired; the task keeps its permit.
DropFuture(c) ==
  /\ future[c] \in {"waiting", "awaiting"}
  /\ future' = [future EXCEPT ![c] = "dropped"]
  /\ cancelled' = [cancelled EXCEPT ![c] = @ \/ future[c] = "awaiting"]
  /\ IF future[c] = "waiting" THEN Abandon(c)
     ELSE UNCHANGED <<available, waiters, granted, closed>>
  /\ UNCHANGED <<task, late>>

-----------------------------------------------------------------------------
(***************************************************************************)
(* The blocking task of a call.                                            *)
(***************************************************************************)

\* A thread of the blocking pool takes the closure.
StartTask(c) ==
  /\ task[c] = "queued"
  /\ task' = [task EXCEPT ![c] = "running"]
  /\ UNCHANGED <<future, cancelled, late, available, waiters, granted, closed>>

\* Mutant: the permit is forgotten instead of dropped.
EndTaskForgetting(c) ==
  /\ task[c] = "running"
  /\ task' = [task EXCEPT ![c] = "ended"]
  /\ UNCHANGED <<future, cancelled, late, available, waiters, granted, closed>>

\* The closure returns, fails or panics, and drops the permit it owns.
EndTask(c) ==
  /\ task[c] = "running"
  /\ task' = [task EXCEPT ![c] = "ended"]
  /\ Release(waiters)
  /\ UNCHANGED <<future, cancelled, late, closed>>

-----------------------------------------------------------------------------
(***************************************************************************)
(* The environment.                                                        *)
(***************************************************************************)

Cancel(c) ==
  /\ ~cancelled[c]
  /\ cancelled' = [cancelled EXCEPT ![c] = TRUE]
  /\ UNCHANGED <<future, task, late, available, waiters, granted, closed>>

DeadlinePasses(c) ==
  /\ c \in Timed /\ ~late[c]
  /\ late' = [late EXCEPT ![c] = TRUE]
  /\ UNCHANGED <<future, task, cancelled, available, waiters, granted, closed>>

\* close(): the queue of the semaphore is emptied, its futures are woken.
Close ==
  /\ ~closed
  /\ closed' = TRUE
  /\ waiters' = <<>>
  /\ UNCHANGED <<future, task, cancelled, late, available, granted>>

Poll(c) == Begin(c) \/ GiveUp(c) \/ Spawn(c) \/ Join(c)
Run(c) == StartTask(c) \/ EndTask(c)

Next ==
  \/ Close
  \/ \E c \in Calls :
       Poll(c) \/ DropFuture(c) \/ Run(c) \/ Cancel(c) \/ DeadlinePasses(c)

Spec == Init /\ [][Next]_vars

\* The runtime polls a woken future and the blocking pool (512 threads, never
\* more than 64 permits) starts a queued closure.  A running scan looks at its
\* token and its deadline before every read, so a stopped one ends; one that
\* nobody stops may sit in a read for ever.
StopTask(c) == StopReason(c) # "none" /\ EndTask(c)

FairSpec ==
  Spec /\ \A c \in Calls : WF_vars(Poll(c)) /\ WF_vars(StartTask(c)) /\ WF_vars(StopTask(c))

-----------------------------------------------------------------------------
(***************************************************************************)
(* Properties.                                                             *)
(***************************************************************************)

TypeOK ==
  /\ future \in [Calls -> Pending \cup Answered \cup {"dropped"}]
  /\ task \in [Calls -> Active \cup {"none", "ended"}]
  /\ cancelled \in [Calls -> BOOLEAN]
  /\ late \in [Calls -> BOOLEAN]
  /\ available \in 0..Permits
  /\ waiters \in Seq(Calls)
  /\ granted \subseteq Calls
  /\ closed \in BOOLEAN

\* Every permit is free, in the hands of an acquire that has not been polled,
\* or with a task that has not ended.  So no drop, stop or close at any await
\* leaks or doubles one, and never more than Permits files are read at once,
\* the tasks of dropped futures included.
PermitsConserved ==
  available + Cardinality(granted) + Cardinality(ActiveTasks) = Permits

\* No permit is idle while a call queues for one, and a waiting call is in the
\* queue once or has its permit: no wake-up is lost.
NoLostWakeup ==
  /\ available > 0 => waiters = <<>>
  /\ IsInjective(waiters)
  /\ Range(waiters) \cap granted = {}
  /\ ~closed => {c \in Calls : future[c] = "waiting"} = granted \cup Range(waiters)

\* A call that was cancelled, or whose deadline has passed, answers although
\* tasks of other calls may hold every permit for ever: in the queue, with a
\* permit granted or joining its own task.
StoppedCallsAnswer ==
  \A c \in Calls :
    (cancelled[c] \/ late[c]) /\ future[c] # "idle" ~> future[c] \notin Pending

\* The work of a dropped call ends and with it the use of its permit, although
\* nobody else cancelled it.
DroppedWorkEnds == \A c \in Calls : future[c] = "dropped" ~> task[c] \notin Active

\* Where every task that runs ends, as a scan bounded by its byte budget does
\* when its reads return, a call that waits for a permit is served, stopped or
\* dropped: with permits handed on and taken back by drops, none starves.
WaitersServed ==
  (\A d \in Calls : []<>(task[d] # "running")) =>
    \A c \in Calls : future[c] = "waiting" ~> future[c] # "waiting"

=============================================================================
