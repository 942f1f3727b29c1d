--------------------------- MODULE SearchService ---------------------------
(***************************************************************************)
(* The search_logs tool from the call to the reply: search of              *)
(* src/src/stateful_query.rs on both of its stores, the size limit of      *)
(* response_limit.rs, and the error object of tool_error.rs that the       *)
(* client gets instead of a page.                                          *)
(*                                                                         *)
(* It is CursorStore with more state: a page has lines, each of which is   *)
(* registered as a match reference between the end of the scan and the     *)
(* cursor operation; every answer of search becomes a reply.  There is no  *)
(* await between the end of the scan and the reply, so nothing of it is    *)
(* dropped half-way, but other calls work on the stores in between.        *)
(*                                                                         *)
(* MatchStore has the reference store in detail; here its insert is one    *)
(* step, and only who registered a reference matters, not its expiry.      *)
(***************************************************************************)
EXTENDS CursorStore

CONSTANTS
  PageLines,    \* bound: a page has 0..PageLines lines
  RefCapacity,  \* match_reference_capacity of the configuration
  Failures      \* the codes of scans that fail

ASSUME PageAssumption == PageLines \in Nat /\ RefCapacity \in Nat \ {0}
\* The deadline, a read, a file that is no longer the one of the snapshot, a
\* task that panics.
ASSUME FailuresAssumption ==
  Failures \subseteq {"DEADLINE_EXCEEDED", "SOURCE_UNAVAILABLE", "FILE_CHANGED",
                     "INTERNAL_ERROR"}
ASSUME NoneIsNoReply ==
  /\ None \notin 0..PageLines
  /\ None \notin [code : Failures \cup {"PAGE", "RESOURCE_LIMIT", "CURSOR_INVALID"},
                  query : Queries]

VARIABLES
  lines,       \* of the page of each request, None before it is scanned
  registered,  \* how many of them have their reference
  refs,        \* the stored references, oldest in front: who registered them
  reply        \* the reply to each request: its code and the query it answers

serviceVars == <<vars, lines, registered, refs, reply>>
page == <<lines, registered>>

-----------------------------------------------------------------------------
(***************************************************************************)
(* What the client is told.                                                *)
(***************************************************************************)

\* Mutants: a resource limit that may go away, a deadline that is final.
LimitsPass(code) == code \in {"SOURCE_UNAVAILABLE", "DEADLINE_EXCEEDED", "QUERY_CANCELLED",
                              "FILE_CHANGED", "INTERNAL_ERROR", "RESOURCE_LIMIT"}
DeadlineIsFinal(code) == code \in {"SOURCE_UNAVAILABLE", "QUERY_CANCELLED",
                                   "FILE_CHANGED", "INTERNAL_ERROR"}

\* ToolErrorCode::retryable: may the same request succeed later?
Retryable(code) ==
  code \in {"SOURCE_UNAVAILABLE", "DEADLINE_EXCEEDED", "QUERY_CANCELLED",
            "FILE_CHANGED", "INTERNAL_ERROR"}

\* The codes an answer of search may reach the client with: From<StatefulQueryError>
\* for errors; a page is serialized, and refused when it is too large.  (That it
\* cannot be serialized, which is INTERNAL_ERROR, does not happen to its texts
\* and numbers.)
Codes(answer) ==
  CASE answer \in {"last", "continued"} -> {"PAGE", "RESOURCE_LIMIT"}
    [] answer = "failed" -> Failures
    [] answer = "CapacityBusy" -> {"RESOURCE_LIMIT"}
    [] answer \in {"UnknownOrExpired", "QueryMismatch", "Busy"} -> {"CURSOR_INVALID"}

\* If this step makes search return, the client gets its reply, and the page is
\* no longer kept.
Reply(r) ==
  IF out'[r] = out[r] THEN UNCHANGED <<page, reply>>
  ELSE /\ \E c \in Codes(out'[r]) :
            reply' = [reply EXCEPT ![r] = [code |-> c, query |-> query[r]]]
       /\ lines' = [lines EXCEPT ![r] = None]
       /\ registered' = [registered EXCEPT ![r] = 0]

-----------------------------------------------------------------------------
ServiceInit ==
  /\ Init
  /\ lines = [r \in Requests |-> None]
  /\ registered = [r \in Requests |-> 0]
  /\ refs = <<>>
  /\ reply = [r \in Requests |-> None]

\* The cursors clients know: they read them in a page.
Told == {t \in Requests : IF reply[t] = None THEN FALSE ELSE reply[t].code = "PAGE"}

\* A call comes in without a cursor, with one of those, or with one made up.
Receive(r) ==
  /\ Start(r)
  /\ tok'[r] \in Told \cup {None, r}
  /\ UNCHANGED <<page, refs, reply>>

Lease(r) == Begin(r) /\ Reply(r) /\ UNCHANGED refs

\* The scan goes wrong or the call is cancelled: the future of search may be
\* dropped while it waits for the scan, but not later.
Fail(r) ==
  /\ lines[r] = None
  /\ FailPage(r)
  /\ Reply(r)
  /\ UNCHANGED refs

\* scan_page returns a page of n lines.
PageScanned(r, n) ==
  /\ pc[r] = "scanning" /\ lines[r] = None
  /\ lines' = [lines EXCEPT ![r] = n]
  /\ UNCHANGED <<vars, registered, refs, reply>>

\* match_references.insert for the next line of the finished page.
Register(r) ==
  /\ pc[r] = "scanning" /\ lines[r] # None /\ registered[r] < lines[r]
  /\ registered' = [registered EXCEPT ![r] = @ + 1]
  /\ refs' = Append(IF Len(refs) >= RefCapacity THEN Tail(refs) ELSE refs, r)
  /\ UNCHANGED <<vars, lines, reply>>

\* The watermarks a page may be continued from, 0 for none: those of its
\* lines, all of which lie behind the watermark of the cursor.
Continuations(r) ==
  {0} \cup {m \in Watermarks : lines[r] > 0 /\ (tok[r] # None => m > held[r].after)}

\* All lines are registered: the cursor operation follows.
EndOfPage(r) ==
  /\ pc[r] = "scanning" /\ lines[r] # None /\ registered[r] = lines[r]
  /\ \E m \in Continuations(r) : EndPage(r, m)
  /\ Reply(r)
  /\ UNCHANGED refs

StoreCursor(r) == (Insert(r) \/ Commit(r)) /\ Reply(r) /\ UNCHANGED refs

GiveBack(r) == DropLease(r) /\ Reply(r) /\ UNCHANGED refs

Handle(r) ==
  \/ Lease(r)
  \/ Fail(r)
  \/ \E n \in 0..PageLines : PageScanned(r, n)
  \/ Register(r)
  \/ EndOfPage(r)
  \/ StoreCursor(r)
  \/ GiveBack(r)

ServiceNext ==
  \/ (Tick \/ PurgeOnLen) /\ UNCHANGED <<page, refs, reply>>
  \/ \E r \in Requests : Receive(r) \/ Handle(r)

ServiceSpec == ServiceInit /\ [][ServiceNext]_serviceVars

\* A call that was received is polled until it is answered: the locked sections
\* are short, and a scan stops at the query deadline or is dropped.
ServiceFair == ServiceSpec /\ \A r \in Requests : WF_serviceVars(Handle(r))

-----------------------------------------------------------------------------
(***************************************************************************)
(* Properties.                                                             *)
(***************************************************************************)

\* Requests that were told something else than a page.
Refused(r) == reply[r] # None /\ reply[r].code # "PAGE"

\* The page is a bounded number of lines, the stored references stay within their
\* capacity, and a call has the reply its answer maps to, once it has answered.
ServiceTypeOK ==
  /\ lines \in [Requests -> 0..PageLines \cup {None}]
  /\ registered \in [Requests -> 0..PageLines]
  /\ refs \in Seq(Requests) /\ Len(refs) <= RefCapacity
  /\ \A r \in Requests :
       IF out[r] = "none" THEN reply[r] = None
       ELSE reply[r] \in [code : Codes(out[r]), query : Queries]

\* An error that says the same request may be tried again has not used up the
\* cursor it was called with: the cursor is back in the store, free, unless
\* its TTL has passed.
RetryableKeepsCursor ==
  [][\A r \in Requests :
       reply[r] = None /\ Refused(r)' /\ tok[r] # None /\ Retryable(reply'[r].code) =>
         \/ entries[tok[r]].expires <= at[r]
         \/ tok[r] \in Unleased(entries')]_serviceVars

\* Once a call with a cursor was told not to try again, no call with the same
\* cursor and query is ever served: a page that was refused for its size has
\* used its cursor up, an unknown or expired cursor stays unknown, a mismatch
\* stays one.  A cursor that was merely busy is excepted (see MCSearchBusy).
FinalAnswersAreFinal ==
  [][\A r, s \in Requests :
       /\ tok[r] # None /\ tok[s] = tok[r]
       /\ Refused(r) /\ ~Retryable(reply[r].code) /\ out[r] # "Busy"
       /\ out[s] = "none" /\ query[s] = reply[r].query
       => out'[s] \notin {"last", "continued"}]_serviceVars

\* A request that registered references for its page and answers an error,
\* so that nobody is given them, was stopped by a limit: a response too large,
\* or, for a first page only, a store full of leased cursors.  A call with a
\* cursor never loses it between the scan, when its references are registered,
\* and the commit, whatever others purge, evict and commit in between.
OrphansOnlyAtLimits ==
  \A r \in Requests : r \in Range(refs) /\ Refused(r) =>
    /\ reply[r].code = "RESOURCE_LIMIT"
    /\ tok[r] # None => out[r] \in {"last", "continued"}
=============================================================================
