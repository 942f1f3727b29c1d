# Formal models of log-query-mcp

log-query-mcp is an MCP server that searches log files on the machine it runs on: a client calls `search_logs` with a
keyword and gets pages of matching lines, each with a match reference, and a cursor for the next page; it calls
`get_log_context` with a match reference to read the lines around a match. This directory holds TLA+ modules of the
parts that carry state, concurrency or limits, TLC configurations that check them, and TLAPS proofs about most of them.

Paths like `query_state.rs:415` are relative to `src/src/`; documents are relative to `src/`.

## 1. Inventory

| Part | State | Operations | What makes it correct |
|---|---|---|---|
| Cursor store, `query_state.rs` 256-613 | map token -> {data, expiry, lease}, queue of tokens | `insert`, `begin`, `commit` (`finish_lease`), drop of a lease (`release_lease`), `len` | one page at a time per cursor, a cursor used at most once, expiry and eviction never take a cursor in use, bounded size |
| Match reference store, `query_state.rs` 616-708 | map reference -> {data, expiry}, queue | `insert`, `resolve`, `len` | references of the last page resolve, expired ones do not, bounded size |
| Scan executor, `scan_executor.rs`; context executor, `context_executor.rs` | a semaphore of `max_concurrent_scans` permits, blocking tasks, cancellation tokens | `scan` / `execute`, `close`, drop of the future | permits are neither lost nor doubled, cancelled calls answer, dropped work ends |
| Scanner, `scanner.rs` | KMP state, line capture, preview window, counters | `scan_reader` | finds exactly the matching lines; previews, places, limits and continuations are right |
| Stateful query, `stateful_query.rs` | per page: heap of results, position in the candidates; per search: watermark, snapshot, usage | `search` | pages put together are the sorted list of all results of the snapshot; a failed page costs nothing |
| Query engine, `query_engine.rs` | as a first page | `execute` | as above |
| Source registry, `source_registry.rs` | configured sources, file snapshots | build, `snapshot_files`, `open_snapshot_file` | a snapshot misses no file, each of its files opens again; a file that was replaced or truncated is not read as the one of the snapshot |
| Discovery, `source_discovery.rs`; safe file access, `safe_fs.rs` | a bounded directory walk | `discover_regular_files`, `open_regular_file`, `open_directory_fd` | only configured files, no symbolic links, every limit respected, over a tree that changes |
| Context reader, `context_reader.rs`; stateful context, `stateful_context.rs` | a window of lines in bounded memory | `read_context`, `get_context` | the lines around the match, nothing cut without saying so, changed files are noticed |
| Time filter, `time_filter.rs` | none | `parse`, `classify` | half-open range, timestamps without zone |
| Configuration, `config.rs` | none | validation | what it accepts, every part of the service accepts |
| Server, `mcp_server.rs`, `mcp_model.rs`, `response_limit.rs`, `tool_error.rs` | none of its own | the tools, size of a response, error codes | an error tells the client truly whether a retry helps |
| Runtime and binaries | none | start-up, transport | - |

How they interact. `search` (one async future per call) begins a lease on the cursor it was given, if any; scans the
candidates in chunks, each chunk an `open_snapshot_file` followed by a task on the scan executor; ranks and cuts the
results; registers a match reference per returned line; and commits the lease with a new cursor, or inserts a first
one. If it fails, or its future is dropped at an await, the lease is released by `Drop`. `get_context` resolves a
reference, reopens the file and reads on the context executor. The stores are shared by all calls behind a
`std::sync::Mutex`; the files are shared with the programs that write them. The first page of a search takes the
snapshot: it walks the directories of its sources. The server turns the outcome into a page, unless the page is too
large, or into an error object with a code and `retryable`.

Hard behaviours. Two requests with the same cursor; expiry while a lease is open; eviction in a store full of leases;
the clock that is read before the lock is taken; futures dropped while queued, granted or awaiting a blocking task;
files that grow, rotate or are truncated between two chunks, two pages, or between open and read; directories that
change between the reading of their names and the opening of each; limits that are checked twice, in the configuration
and where they are used, by different code; the automaton,
preview window and byte budgets at their boundaries; a response refused for its size after its cursor was consumed.
`PROJECT.json` lists them under `hazards`, each with its line and the properties that cover it.

## 2. Modules

| Module | Models | Built on |
|---|---|---|
| `CursorStore` | the cursor store and its callers | - |
| `CursorChain` | abstract: a cursor as a linear token | implemented by `CursorStore` |
| `MatchStore` | the match reference store and its callers | - |
| `SearchService` | `search_logs` from the call to the reply, on both stores | extends `CursorStore` |
| `ScanExecutor` | both executors | - |
| `Scanner` | `scan_reader` | - |
| `QueryPage` | the pages of one search over changing files | uses at line level what `Scanner` shows at byte level, and the cursor that `CursorStore` keeps |
| `ContextReader` | `get_context` from the open of the file to the answer, over a file that changes | the references of `MatchStore`, given as values |
| `Discovery` | `snapshot_files`: explicit files and the walk over a tree that changes | gives the snapshot `QueryPage` starts from |
| `Config` | the validation of the configuration, and what the parts check again | - |
| `SearchServiceProofs`, `MatchStoreProofs`, `ScanExecutorProofs`, `ScannerProofs`, `QueryPageProofs`, `ContextReaderProofs`, `DiscoveryProofs`, `ConfigProofs` | theorems about the module of that name (`SearchServiceProofs`: also about `CursorStore` and the refinement of `CursorChain`) | that module |
| `MC...` | instances for TLC; `MCMatchStore` and `MCSearchBusy` add a history variable | the module of that name |

### CursorStore

`entries` is the `HashMap` of `CursorStoreState`, `order` its `VecDeque`, `now` the monotonic clock. The other
variables are per request: where it is (`pc`), the cursor it presented (`tok`), its query binding (`query`), the
`SearchCursorData` of its lease (`held`), the watermark it is about to store (`cont`), the instant it read (`at`) and
its answer (`out`). Tokens are fresh UUIDs; a request issues at most one cursor, so the request itself names it.

Every store operation except `len` reads the clock before it takes the mutex. An operation is therefore two actions: the
reading (`Call`, part of `SearchNext`, `EndPage`, `FailPage`), and the locked section (`Begin`, `Insert`, `Commit`,
`DropLease`), which is atomic. `Tick` and other requests run in between. Each locked section purges first, as the code
does; it refuses in the code's order (unknown, mismatch, busy); eviction rotates the leased tokens it passes. A failed
commit (`LeaseLost`) is modelled though `LeaseHolderKeepsEntry` shows that it never happens.

`ImplementsChain` is the refinement: `CursorChain` has no clock, capacity, queue or lock, only linear cursors that are
issued once, leased to one request, spent once and replaced by one strictly further on. The mapping reads the stage
of a cursor off the map and the answers (`StageOf`).

### MatchStore

The same two-step calls. The purge stops at the first reference in the queue that has not expired; the queue is ordered
by the locked sections and not by expiry, which is why expiry is not exact (section 6). `MCMatchStore` records all
references ever stored to say which of them must survive.

### SearchService

`SearchService` adds to each request of `CursorStore` the lines of its page (`lines`, `None` until `scan_page` returns),
how many of them have a reference (`registered`), and the `reply` the client got; `refs` is the queue of the reference
store. `Receive` is the call, with a cursor the client was `Told` in an earlier page, none, or one made up; `Lease`,
`PageScanned`, `Register` (one line at a time, evicting the oldest reference of anyone when the store is full),
`EndOfPage`, `StoreCursor` and `GiveBack` follow the body of `search`; `Fail` is an error or a drop of the future, which
can only happen while the scan is awaited. `Reply` belongs to every step that makes `search` return: it maps the answer to
its code and, for a page, lets the response be too large. `Retryable` is the table of `tool_error.rs`.

The actions on the cursor store are those of `CursorStore` itself, so its theorems hold here (`ServiceUsesStore`).

### ScanExecutor

A call is two processes: its future and its blocking task. `Begin` is the first poll (check, then acquire), `Spawn`,
`GiveUp` and `Join` are later polls, `DropFuture` is the drop at an await with the effect of `CancelOnDrop`, `EndTask`
the end of the closure, which owns the permit. The semaphore is tokio's, modelled as the code relies on it: fair, a
released permit is assigned to the longest waiting acquire and returns if that acquire is dropped. `Close` belongs to
the scan executor only; the context executor is the same module without it.

### Scanner

The reader hands out one byte at a time, any byte, and may end or fail at any point; what it has handed out is `text`.
So one behaviour builds one text, and TLC visits every text up to `MaxBytes` for every request. A read of the code
returns any number of bytes, and cancellation, deadline and byte budget are looked at between reads; the model allows
them between any two bytes. Bytes are classes: two letters, an upper-case letter, newline, return, and a byte that is
not UTF-8, whose replacement counts three bytes. The reference definition in the properties looks at the whole text at
once and does not use the automaton.

### QueryPage

`disk` holds, for each candidate, every file that has been at its path: rotation appends one, and who has a file open
keeps it. `snapshot` is fixed by the first page; `cut` is history: the candidates that were truncated in place since. Each
page scans all candidates again in chunks, in steps between which other programs write: `OpenChunk` (`open_snapshot_file`,
on the async side), `ScanChunk` (on the blocking thread, later), `ReopenFile` (`process_matches` opens the file a third time
for the timestamps), `FilterMatch` (one match after the other: its timestamp is read from that handle as the file is now, then it
is filtered and joins the heap) and `EndChunk` (where the candidate is scanned on). `FinishPage` cuts the results
to the content budget, decides the stop reason and the continuation. `Proceed` also stands for the client, who calls
again with the cursor after a page or a failure. Files are sequences of lines, budgets are in lines. The sort of
`finish_page` is given by ranks (`Ranked`: the n-th result has n - 1 before it), the cut by the sums of sizes (`Fitting`).

### ContextReader

`bytes` is the file the search found, `ref` the reference the search gave out for one of its lines; `rotated` says that
the path has come to name another file. `Open` makes the checks of identity and size; `ReadBefore` reads the window that
ends at the match line, with the byte before it, and cuts it into lines with its last byte (`CutWindow`); `ReadByte`,
`ReadNewline`, `ReadEnd` and `BudgetSpent` are the outcomes of `read_line` for the match line and the lines after it;
`Finish` chooses what fits the content budget. Programs append, rewrite one byte, truncate or rotate between any two bytes. The
code keeps a bounded preview while it reads a line; the model keeps the line and cuts the preview at its end, with the
same result. A text that is shown is a sequence of bytes in which a replaced byte has become the three of U+FFFD, so
`BoundedText` has character boundaries to respect. `CutWindow` is `read_before_lines` after the read: `Block` the buffer,
`FirstFull` the start of the first whole line, `Ends` and `Kept` the `VecDeque` of ranges, `KeptLine` the bytes of one of
them; `SizesOf` is the running sum of the content. `opened` is history: the bytes at the open, and how often the file had
been rewritten by then.

### Discovery

A path is the sequence of its names. `fs` says what each leads to: a file, a directory, a link or something else, with an
inode number and a size. The walk is in the variables the code has: the directories that wait (`pending`), the one that is
open (`dir`, a path and the inode behind it), the entries still to be looked at (`listing`), the directories found
(`children`), the counters, the files by path. `OpenDirectory`, `ReadDirectory`, one `Entry` after the other,
`EndDirectory` are its steps; `OpenExplicit` and `Finish` those of `snapshot_files` around it. Between any two of them other
programs `Create`, `Delete`, `Rename` (files and whole directories) or `Grow` what they like. A file system may report
the types of entries (`typed`) or not; the code takes different branches. An open directory is read by its inode, wherever
that is by now, in one step. That openat2 refuses links, mounts and `..` is the kernel's and is what `RegularAt` and
`DirectoryAt` assume.

### Config

Validations are predicates: `ConfigValid` for `AppConfig::validate` and what it calls, and for each part of the service
what that part checks of the values it is given (`ExecutorAccepts`, `StoreAccepts`, `DiscoveryAccepts`,
`FilePathAccepted`, `TimestampAccepts`, `ScanAccepts`, `ContextAccepts`), with the arithmetic in between
(`ChunkResultLimit`, `ScanBudget`, `ContextReadLimits`). Texts are known by their length in characters and bytes and by
the special characters in them. There are no states, so no run: the module is there for its theorems.

## 3. What the runs check

| Run | Instance | Shows |
|---|---|---|
| `cursor_store` | 5 requests, capacity 2, TTL 1, clock 0..1, watermarks 1..2, symmetry | `LeaseHolderKeepsEntry`, `ChainNeverForks`, `BusyOnlyWhenAllLeased`, `CursorNeverSilentlyLost`, `ExpiredCursorNeverServed`, `OrderMatchesEntries`, refinement of `CursorChain` |
| `search_service` | 3 calls, cursor capacity 1, TTL 1, clock 0..1, 2 query bindings, watermarks 1..2, pages of at most 1 line, 1 reference, no symmetry | no lease is left behind; references nobody was given come from the two limits only (`OrphansOnlyAtLimits`); `RetryableKeepsCursor`, `FinalAnswersAreFinal`: an error tells the truth about what a retry can do |
| `search_busy` | 4 calls, 1 binding | finding: a busy cursor is answered with an error that excludes a retry |
| `match_store` | 5 calls, capacity 2, TTL 2, clock 0..3, symmetry | the newest references survive; a stale one resolves only behind a fresh one |
| `match_store_expiry` | the same | finding: a reference resolves after its TTL |
| `scan_executor` | 3 calls, one with deadline, 1 permit | permits conserved, no lost wake-up; calls that are cancelled or past their deadline answer, dropped work ends, waiters are served |
| `scanner` | texts of up to 7 bytes over a, b, newline with keywords of up to 3 letters; texts of up to 5 bytes over a, A, newline, return, invalid byte with small limits | results and places are exact; previews, continuation, limits; chunks of the query engines lose no match |
| `query_page` | first files of up to 3 lines of 5 kinds, second of up to 1 line of 2 kinds, 2 results or 2 bytes a page, scan budget of 3 lines, limit of 2 pages, 2 events, truncation in place allowed | pages form one list and complete means all until a candidate is cut off; results of the others are those of the snapshot, in order and once; a search ends |
| `query_page_limit` | limit of 2 pages, 1 result a page | finding: a third page is returned |
| `query_page_truncated` | truncation in place | finding: a complete page lacks lines |
| `context_reader` | texts of up to 4 bytes over m, x, newline and four odd ones of up to 11; 6 settings of the limits; 1 append, 1 rewrite or truncation, 1 rotation | `ContextAsInFile`, `NothingHidden`, `KeywordVisible`, `StaleRefused`, `NoFalseAlarm` |
| `discovery` | every tree of 2 names at 2 levels (files, directories, links, others) and two of 3 levels with names that are not UTF-8; 6 configurations; 2 files, 5 entries, 3 directories at most; 2 changes during the walk | `NothingMissed`, `OneSnapshotPerFile`, `SnapshotsReopen`, `QuietTreeExact` |

Every property of a passing run has at least one mutant in `PROJECT.json`, a plausible bug in a mapped definition, under
which TLC finds it violated with the same configuration. The mutants stand in the modules in front of what they
change, under comments that begin with "Mutant".

### Bounds and why they are enough

- `MaxTime`, `TTL`: with `TTL` ticks between storing and expiry and a clock that passes it, a call can read the clock
  before, at and after the expiry of a cursor, and take the lock on either side.
- `Requests`, `Calls`, `Capacity`: capacity 2 with 5 requests lets two cursors be stored, both be leased, and a fifth
  request be refused; it also lets eviction pass over a leased cursor.
- `MaxWatermark` = 2 is the least with a continuation that moves forward and one that does not.
- `search_service`: with one cursor and one reference every call competes for the same place; three calls are one that
  makes a cursor, one that leases it and one that comes between. `search_busy` needs a fourth.
- `discovery`: trees of two levels have a sibling to be lost and a directory to be descended into; the three-level trees
  have a directory called like a log. `MaxFiles`, `MaxEntries` and `MaxDirectories` lie so that some trees are below,
  some exactly at, some above each. Two changes are a rename and a file made in its old place.
- `Permits` = 1 with three calls has two acquires queue for one permit, so that it is handed on by a task, by a dropped
  acquire and by a stopped one.
- `MatchText` 7 and `PreviewText` 5, lines of 1 to 5 bytes: the constraint `Explored` keeps each kind of request to its kind
  of text, and both finish on every such text; a keyword of 2 or 3 letters can overlap a failed attempt, follow the
  window's capacity, straddle a newline, and be followed by another matching line.
- In `context_reader`, each limit is tight in turn while the others are wide, and once all are; a window of 1 or 2 bytes
  starts inside a line, behind a newline and at the start of the file. One rewritten byte can break the keyword, move the
  start of a line or add one; with one appended byte a line grows after its end was taken for the end of the file.
- `MaxEvents`: two disturbances suffice for a rotation followed by a write to the new file, the pair that makes it
  look like the old one.
- In `query_page`, four lines make three pages of content cut to two bytes, and the scan budget of 3 lines ends inside the second
  candidate; `MaxPages` = 2 is passed by a search that has a third page. With two events a file is cut off between a scan
  and its timestamps and filled again, another one rotates, or a call is interrupted twice. A page that runs out of budget
  after a first one that did not cannot happen: every page scans the same snapshot with the same budget.

Deadlock is not checked where the system comes to rest: the scanner, the context read, the walk and the search end, executor calls are made once. In
the stores `len` is always enabled.

### Fairness

- `SearchService!ServiceFair`: weak fairness of each call that was received (`Handle`), not of receiving one. The locked
  sections are short and never wait for anything but the mutex; a scan ends at its deadline, or its future is dropped,
  both of which are `Fail`.
- `ScanExecutor!FairSpec`: a woken future is polled (`Poll`), a queued closure gets a thread (`StartTask`; the pool of
  tokio has 512 threads, there are at most 64 permits), and a running scan that has been stopped ends (`StopTask`:
  `interrupt_reason` is looked at before every read). A task nobody stops may read for ever. `WaitersServed` states its
  own further assumption, that running tasks end.
- `QueryPage!FairSpec`: the client calls again and its call is polled. `SearchEnds` excepts a file of the snapshot that is
  gone: such a search fails on every page.

## 4. What is proved

TLC has checked each of these formulas on the instances above first. The theorems hold for every value of the constants
the `ASSUME`s allow; TLC evaluates those `ASSUME`s in the runs.

### The cursor store and its refinement

The first part of `SearchServiceProofs`, for any finite set of requests, any set of queries, any capacity and TTL of at least one and any
bounds:

| Theorem | States |
|---|---|
| `StoreTypeCorrect` | the types of the map, the leases and the requests |
| `LeaseSafety` | `LeaseHolderKeepsEntry` |
| `ChainSafety` | `ChainNeverForks` |
| `CapacitySafety` | `CapacityRespected`: never more cursors than the capacity |
| `FreshnessSafety` | `ExpiredCursorNeverServed` |
| `NoSilentLoss` | `CursorNeverSilentlyLost` |
| `QueueIsTheMap` | `OrderMatchesEntries`: the queue holds each cursor of the map once and nothing else |
| `BusyMeansLeased` | `BusyOnlyWhenAllLeased`: a first page is refused for lack of room only when every cursor is leased |
| `ChainImplemented` | `ImplementsChain`: the store implements linear cursors |

The argument. None of these is inductive on its own. That a lease holder keeps its entry needs the converse, that every
leased entry has a holder that is between `begin` and the end of its lease (`LeaseHasHolder`), and that an entry can
only bear a name that was issued (`StoredWereIssued`), else an insert could overwrite a leased entry. That a chain
never forks follows once a consumed cursor is known to be gone for good (`ConsumedIsGone`), which again needs that
names are not issued twice. Capacity follows because a commit removes an entry before it stores one, and for that the
removed entry must be there: lease safety again. The conjunction `IInv` of these parts, with what the local variables of
a request are in each phase (`LocalsOK`, `AnswerWhenDone`), is inductive: the module proves it action by action, the
purge once as a lemma that all locked sections use. The action properties follow from `IInv` and one step.

None of this relies on the queue: in it an eviction may take any unleased cursor. That the queue is right is a second
inductive invariant, `QueueOK`, on top of `IInv`: the queue `Holds` the cursors of the map, each once. A purge filters it,
and `RetainHolds` shows what the filter returns by looking at the least beginning of the queue for which it would be
wrong (`LeastNatural`), which stands in for an induction; an eviction cuts the queue in three at its victim and puts the
leased front behind the rest (`RotateHolds`); an insert appends a name that `StoredWereIssued` shows to be new. Since
every cursor of the map has a place in the queue, a search through the queue that finds nobody to evict has seen them all.

The refinement uses `IInv` too, with `Advances`: a commit was called with a watermark behind that of its lease. The proof
says of each locked section which cursors it touches, and that of all others it removes only unleased ones
(`OthersRemain`), by the purge or an eviction; those are the `lost` of the abstract step, which may lose any live cursor
in passing. What it does to the stage of the touched ones is then one abstract step, or none.

### The service

`SearchServiceProofs`, for any number of calls, lines and references, and any set of failures:

| Theorem | States |
|---|---|
| `ServiceUsesStore` | seen from the store, the service does what a caller of `CursorStore` does: `ServiceSpec => Spec` |
| `ServiceTypeCorrect` | pages, replies and the reference store have their types, the latter its capacity |
| `OrphansOnlyFromLimits` | `OrphansOnlyAtLimits` |
| `RetryableSafety` | `RetryableKeepsCursor` |
| `FinalitySafety` | `FinalAnswersAreFinal` |

The argument. Because of `ServiceUsesStore`, `IInv` and the theorems about the store are used as they are. `SInv` adds
that a reply is the one the answer maps to (`ReplyOK`); that a scanned page is not dropped before it is answered (`HasPage`),
so that whoever has registered references answers with a page or, on a first page, found no room for its cursor (`ReferencesHavePage`:
a commit finds the entry it leased whatever others purged and evicted, `CommitSucceeds`);
that a lease is held for the query the cursor was made for (`LeasedForQuery`); and what a final error means for the cursor:
it was issued, and is gone for good or bound to another query (`KnownCursor`, `UselessCursor`). The last is what makes a
final answer final, and it is inductive because no token is issued twice.

### References, executors

`MatchStoreProofs`, for any finite set of calls, any capacity and TTL of at least one and any bound on the clock:

| Theorem | States |
|---|---|
| `MatchStoreTypeCorrect` | `TypeOK` |
| `MapAndQueueAgree` | `OrderMatchesRefs`: map and queue hold the same references |
| `ReferenceCapacity` | `CapacityRespected` |
| `BoundedStaleness` | `StaleOnlyBehindFresh` |
| `NewestStay` | `NewestSurvive`: the newest references, as many as the capacity, resolve until their TTL is over |

The argument. Map and queue agree as long as a new reference is not in the queue yet, which needs that stored references
were issued and that a call that has not answered issued none; with them agreeing, evicting the head of the queue makes
the map smaller by one. For staleness, the places that a purge takes are an interval from the front whose length is
the number of leading expired references (`LeadingPlaces`, by counting, without induction); what resolves stands behind
that interval, so some reference up to its own place has not expired. For the newest references, the queue is the last
part of the history of all that was ever inserted, and what the history holds before that part has expired or has at
least a capacity of younger ones behind it (`Follows`): both a purge and an eviction take from the front of the queue,
for one of these two reasons, and an insert goes to the back of both.

`ScanExecutorProofs`, for any finite set of calls and any number of permits of at least one:

| Theorem | States |
|---|---|
| `ExecutorTypeCorrect` | `TypeOK` |
| `PermitSafety` | `PermitsConserved` |
| `WakeupSafety` | `NoLostWakeup` |

The argument. A permit that is handed to the head of the queue is counted once only if that call holds none yet, so
the queue must be free of duplicates and of granted calls (`QueueOK`), and a granted call that becomes a task is one more
task only if it had none (`NoTaskBeforePermit`). `ReleaseHandsOn` and `AbandonHandsOn` state once what a permit that
comes back does; drops, stops and ends of tasks cite them.

### The scanner

`ScannerProofs`, for any texts, requests, limits and start of the reader; of the constants it assumes what `validate`
checks (a keyword that is not empty, has no line end in it and fits a line preview; limits above zero), that `Bytes` are
classes the model knows, newline among them, and that `None` is no value of another kind:

| Theorem | States |
|---|---|
| `FailureTableRight` | `build_failure_table` holds for every prefix of every pattern its longest proper border |
| `StepRight` | a byte takes the matcher from the longest prefix of the pattern the text ends in to that of the longer text |
| `ScannerInvariant` | the inductive invariant below |
| `ScannerTypeCorrect` | `TypeOK` |
| `ScanExact` | `ResultsExact`: the matching lines, each once and in order, but for the one that broke the content budget |
| `PlacesCorrect` | `PlacesExact`: numbers and offsets are those of the file |
| `PreviewsFaithful` | `PreviewFaithful`: a piece of the line that shows the first occurrence; the whole line if not truncated |
| `ContinuationSafety` | `ContinuationOnLineStart` |
| `LimitsKept` | `LimitsRespected`: limits, and the counter of content bytes is the sum over the results |
| `ChunksContinuable` | `ChunksLoseNoMatch`: the continuations of the query engines miss no line |

The argument has four layers. First the matcher, over any sequence: the borders of a prefix are its longest border and
the borders of that (`BorderOfBorder`), so following the failure links finds the longest state that the byte extends
(`FallBackRight`). `FallBack` and `FailureTable` are recursive functions; the proofs show that some function satisfies
the recursion, and look at the least argument where the value would be wrong. Second the line in progress: `Capturing` says
of number, state, window, match and preview what they are in terms of the bytes read. Before the match the state is the
longest prefix of the keyword the line ends in, no occurrence has been seen and the window holds the last bytes; after it the
preview is a piece of the line behind `previewStart`. That the window is wide enough for the keyword, and that its start
plus its length is the place of the byte, is what makes a preview show the match. `PushRight` says that one more byte keeps
all of that. Third the results: `SoundTo` and `CompleteTo` relate them to the lines that end before a place in the text, and
`LineFinished` moves that place over a newline or the end. Fourth, the parts of the invariant:
`Running` (the capture is that of the last line, no result is about it, and there is room for one more result),
`Accounted` (sound and complete; the one line that may be missing is `Dropped`, after which the scan has stopped), and
`WithinLimits`, where each result costs at most three times `max_line_bytes`. The last is what `ChunksContinuable` needs: with
the result limit of the engines no line can be `Dropped`. The sum in `LimitsRespected` is a fold over the set of
indices in an order nobody knows; the proof carries a function that gives the sum of every set of indices along
(`Tally`), and shows that the fold can only be its value.

### Pages

`QueryPageProofs`, for any files, candidates and budgets:

| Theorem | States |
|---|---|
| `PageTypeCorrect` | `TypeOK`: disk, snapshot, position; no page uses more than its scan budget |
| `HeapAndPagesBounded` | at most one page over the limit, and the heap never holds more results than a page may return |
| `ResultsOnceInOrder` | `SortedAndOnce`: each result is behind the one before it, whatever happens to the files; those of a candidate not cut off are its results in the snapshot, with their timestamps |
| `PagesAreOneList` | `PagesFormOneList`: until a candidate is cut off in place, the pages are a beginning of the sorted list of all results |
| `CompleteIsAll` | `CompleteUnlessCut`: until then, a complete page ends that list |

The argument for the heap. What is kept of a set are the results that fewer than `MaxResults` others precede. If no two of
them are of the same line, their order is total, so the last one kept is preceded by all others: there are at most
`MaxResults`. That no result enters the heap twice is the part that takes the invariant: the hits of a chunk lie between the
position before and after it (`OutcomeOK`), those in the heap are of lines the page is done with, and a match that is still to
be filtered is of none of them (`HeapOK`, `Passed`), and a page that is scanned anew starts with an empty heap. Two readings of one line that differ in
their size only would not be ordered; without `OnePerLine` the bound could not be proved.

The argument for the list adds three layers to that invariant. `OInv`: what the heap holds is behind the watermark, and the
watermark is the last result returned; so each page continues the order (`InOrderJoined`), from whatever the timestamps were
read. `MInv` speaks of each candidate that is not in `cut`, whatever became of the others: the file of the snapshot begins
with the lines of the snapshot (`SnapshotKept`), and both handles of a chunk, that of the scan and that of the timestamps, are on that
file (`HandleOfSnapshot`), since it is compared with the snapshot at each open and a rotation does not take it from
who has it open. So a match has the time its line had in the snapshot however late it is read, and matches (`FoundInSnapshot`),
heap (`HeapFromSnapshot`) and pages (`DeliveredFromSnapshot`) hold results of the snapshot only. `LInv` holds while
nothing is cut off: a scan has found all hits up to where the next one starts (`ChunkExact`), the heap has the earliest of
exactly the results that were seen and lie behind the watermark (`HeapExact`), where `Seen` are those of the candidates and
lines behind the position and of the matches that have been filtered already, and the pages are the first n results of the
list (`ListOK`). Two facts about ranks carry that. What a heap dropped would not be kept beside later results either
(`KeepEarliestAgain`), so that match after match it holds what one sort of all results would keep. And what lies behind the
n-th result of a sorted list is, sorted, the rest of the list (`RestOfList`), so that a page that keeps a beginning of it
continues the list (`BeginningsJoin`). A page that ends without a cursor for lack of results has seen all of them, and its
content fits, hence `CompleteUnlessCut`.

No theorem assumes that files are not truncated in place: the properties say themselves what of them is left then. A
candidate that was cut off is read short, which is finding 2; one that is cut off and filled again has other lines
under its old identity and size, which nothing tells from the old ones; and between a scan and the reading of its timestamps
a truncation leaves its lines without time, so that those out of the time range are kept.

### Context

`ContextReaderProofs`, for any file, keyword, limits, and any number of changes by other programs:

| Theorem | States |
|---|---|
| `ContextTypes` | `TypeOK`: the window, the forward read and the number of lines stay within what the request allows, whatever is written into the file |
| `NeverCalledChanged` | `NoFalseAlarm`: a log that is only appended to and stays at its path is never called changed |
| `KeywordInAnswer` | `KeywordVisible`: the keyword is in the answer, and the limits of a line and of the content are kept |
| `StaleFileRefused` | `StaleRefused`: an answer from a file not rewritten since its open is from one that passes the three checks |
| `LinesAsInFile` | `ContextAsInFile`, in a log that is only appended to: numbers and texts are those of the file |
| `MissingLinesTold` | `NothingHidden`, in a file nobody touched: missing lines before the match are told exactly, and none is missing after it untold |

The proof goes from the bytes to the lines. First what bytes are shown as: `Convert` puts three bytes in the place of an
invalid one, so a piece of the text becomes a piece of what is shown, and the keyword, which holds no invalid byte, is where it
was, moved by twice the number of invalid bytes before it. A line that is cut around its first occurrence still has the keyword: `Lead`
leaves as much room behind it as before it, and the character boundaries that `BoundedText` looks for are never in the middle of the keyword,
whose bytes are whole characters. Then which lines a window has (`KeptLineIs`, `KeptLineInFile`): the k-th line kept ends where
the k-th newline kept does and starts behind the one before it, and its number, counted back from the reference, is that of the
line in the file, because as many newlines lie between it and the match line. The window's first line is whole
because a newline is before it (`Aligned`, `FirstFull`). Last, what fits is a run of lines around the match line (`Cut`).

`ContextInv` is the invariant for every file. `FileKept`: a file that was not rewritten still has the bytes the search found at
their places, as it only grew. `WindowOK` and `ForwardOK`: what was read is, unless the file was rewritten since it was opened, the
piece of it that ends at `ReadFrom + Len(window)` and at `pos`. From these follow `NewlineBefore` and the keyword, hence
`StaleRefused`, and that none of the checks fails on a file that only grew, hence `NoFalseAlarm`: the match line of the reference is below
the size, ends behind the keyword and starts behind a newline, with as many lines before it as its number says. `LinesOK` and
`AnswerOK` hold of any file, since the keyword is compared in the bytes that are shown. `FileInv` adds, for a file that is not
rewritten, what is true of the lines taken so far (`BeforeRight`, `TakenRight`), that the forward read is at the start of the
line with the next number (`LineStart`), and, once the end of the file has ended a line, that it was the last (`LastOfText`).

The assumptions are what the search gives: its keyword is not empty, has no newline, no return and no invalid byte and is not longer than
a line preview, which is not longer than the content; the byte and forward limits are at least one. The bytes of files are
those of the alphabet without the replacement character (`TextsAssumption`). `StaleRefused` is about a file not
rewritten since its open. One that is written and put back between two reads of one call is not told apart by anything,
and if the write touched neither the keyword nor the byte before the line it does not matter.

### Snapshots

`DiscoveryProofs`, for any trees, any configurations, any limits and any number of changes by other programs:

| Theorem | States |
|---|---|
| `DiscoveryTypeCorrect` | `TypeOK`: the counters of directories and files stay within their limits, what is held are paths below the root |
| `ReopenSafety` | `SnapshotsReopen`: what discovery found, `path_is_configured` allows, and a file nobody touched opens again |
| `NothingIsMissed` | `NothingMissed`: a snapshot has every configured file that lay in its place throughout the walk |
| `EachFileOnce` | `OneSnapshotPerFile`: no file is in it under two paths, unless it was renamed from the one to the other |
| `QuietWalkExact` | `QuietTreeExact`: in a tree nobody touches a snapshot is what the configuration describes, no more and no less, and the walk fails exactly when something is missing or a limit is exceeded |

The argument for the first two. Every directory that waits, is open or was found is one the current rule leads to (`Walked`); so a file in it
with a name of the rule is one `directory_rule_allows`, which decides by the path alone. For the second half, each noted
file is still what was noted if its path was left alone (`Reopen`); a rename of a directory touches everything under both
its names, which is a fact about the beginnings of paths (`Beginnings`, `MovedBeginnings`).

The argument for `NothingIsMissed`. The invariant `CInv` follows each configured file that lies in its place: it was found,
or the walk still comes to it (`Ahead`), through a directory that waits, one that was opened and not yet read, one that was
found among the entries, or an entry not yet looked at. Only the last rule begun may have files that are still ahead, which is
what makes `NextRule` and `Finish` safe. Each step passes a file on from one of these places to the next or
records it. That reading a directory lists the entry on the way to the file takes three facts more: the inode
that is open is still that of the path if the path was left alone (`DirOpen`), an inode lies at one path only, and what lies
in the tree lies in directories (`TreeSound`). Other programs keep the tree sound; for `Rename`, which moves everything below
a path at once, this is the longest part (`RenamedTree`, `RenamedInDirectories`, `RenamedNoHardLinks`). From
`NoHardLinks` and `Reopen` follows `EachFileOnce`: an identity that was noted under one path and lies at another means that
the other was touched (`Placed`). That the names of a directory are all listed is `SortedRight`, by a least number at which
it fails.

The argument for `QuietWalkExact`. `FilesOf` and `DirectoriesOf` say what a rule leads to without walking; the walk has to
come to the same, and to count it right, since with `QuietTreeExact` a limit may be neither passed nor reached too early.
`Waits` says which directories of the current rule the walk still comes to. The invariant `Quiet` holds while nobody
touched the tree: `directories_seen` is the number of the rules' directories that no longer wait (`WalkedDirs`),
`entries_seen` that of the entries listed in them (`ListedEntries`), and a pair of rule and directory is
counted once because the places the walk still comes to lie apart (`Separate`): no directory that waits lies in another,
none in the one that is open, and the entries of one directory lie side by side. So a step that exceeds a limit has one more
element of a finite set in hand than the limit allows (`MoreOf`, `OneMoreOf`), and a step that fails to open something
has found it missing (`FailsRightly`): what was listed in such a tree is still what it was, so an entry never fails
(`EntryOutcome`). At `Finish` nothing waits, `WalkedDirs` and `ListedEntries` are all there is (`AllCounted`); that all files
were found is `CInv` again, with every file left alone.

The assumptions are those of `Discovery`: a tree of directories without hard links, limits and configurations that
`snapshot_files` accepts, directories of rules named in UTF-8, as everything in a configuration is, and an order of names
that has each name once.

### Configuration

`ConfigProofs`, for all configurations:

| Theorem | States |
|---|---|
| `DefaultsValid` | the default limits pass the validation |
| `ServicesStart` | executors and stores accept every capacity, TTL and concurrency that the configuration accepts |
| `ChunkFits` | the lines of a chunk fit its content budget whatever their bytes: no match of a chunk is dropped for its size |
| `ScanBudgetRoom` | below 64 GiB there is room for the byte that shows the end of a snapshot |
| `ScansAccepted` | `ScanRequest::validate` refuses no scan of an accepted search, keywords longer than a line preview apart |
| `ContextReadsAccepted` | `ContextReadLimits::validate` refuses no accepted `get_log_context` |
| `RulesCompile`, `SourcesRegister` | what the configuration accepts as files, rules and timestamp rules, the parts accept, if suffixes are short in bytes |
| `SuffixesCountDifferently` | without that condition they do not |
| `ConfigurationsStart` | an accepted configuration is refused by no part at its start, long suffixes apart |

### Model-checked only

Liveness: `LeaseEnds`, `StoppedCallsAnswer`, `DroppedWorkEnds`, `WaitersServed` and `SearchEnds`; fairness and ENABLED are
outside the prover. Every other property of a passing run is stated by a theorem.

## 5. What is not modelled, and why

- In `CursorStore`: field validation of cursors and the randomness of tokens (freshness is assumed), poisoning of the
  mutex, the composition of cumulative usage (in `QueryPage`).
- In `SearchService`: what a page contains, and the expiry of references (in `QueryPage` and `MatchStore`). That a response is
  too large is a choice, not a count of bytes. A page whose serialization fails answers `INTERNAL_ERROR`, retryable, though its cursor is used up
  (`response_limit.rs:9`); the response is a structure of texts and numbers, whose serialization does not fail.
- In `Scanner`: counters near 2^64 and the size of the read buffer; the lossy conversion counts a replaced byte as three
  but does not decode multi-byte sequences.
- In `QueryPage`: a last line without newline that is later completed (files grow by whole lines), writes in place
  other than truncation to zero, errors of a read, sizes in bytes, the cut of the last content at a UTF-8 boundary. Timestamps are given
  by a line rather than parsed. The cursor survives between pages; that is the business of `CursorStore`. The reads of one
  chunk are one step of whole lines: a file cut off in the middle of them may leave a piece of a line, which the scanner ends at
  the end of the file (`scanner.rs:411`) and returns as a result of that candidate. Of the limits of a whole search only that on
  pages is counted; those on results and bytes are compared in the same expression (`query_state.rs:182`).
- In `ContextReader`: requests and limits that `validate` refuses (in `Config`), counters near 2^64, the size of the read
  buffer and the 64 KiB chunks of the window. The resolve and the permit of `get_context` are in `MatchStore` and
  `ScanExecutor`; the calls share nothing else, and are not composed into one.
- Also in `ContextReader`: characters of several bytes, the replacement character apart. A keyword is one byte a character.
- In `Discovery`: a directory is read in one step, so no name is returned twice or missed while it changes; there are no hard
  links (`NoHardLinks`), with which one file does lie in a snapshot twice; inode numbers are not used again. `stable_file_id` is a hash.
- In `Config`: wording and order of the issues, descriptive texts, the alphabet of source ids.
- Of the time filter, the parsing of timestamps is the chrono library's: which instants exist in a zone cannot be said
  without modelling that library, and nothing in `src/src` says it.
- `QueryEngine::execute` is the first page of `QueryPage` without a cursor. `list` and `get` of the registry, the context and
  list tools, the conversion of `mcp_model.rs`, the runtime and the binaries hold no state and decide nothing that a
  property could be about.

## 6. Findings

Where the code does not do what a document or test of the repository says, with the run that shows it:

1. `match_store_expiry`: the purge from the front can leave an expired reference behind a fresh one, and `resolve` does not
   look at the expiry (`query_state.rs:690`). The staleness is bounded (`StaleOnlyBehindFresh`).
2. `query_page_truncated`: a file truncated after `open_snapshot_file` and before the read ends the page as complete
   (`stateful_query.rs:397`), where the document has the query fail.
3. `search_busy`: a cursor that another call is using is answered with `CURSOR_INVALID`, which is not retryable
   (`tool_error.rs:226`), though the same request may be served as soon as that call fails (`docs/ERROR_MODEL_V1.md:42`).
4. `query_page_limit`: `docs/M2_QUERY_STATE.md:83-91` sets an absolute limit of 100 pages and has no cursor once it is
   reached. The usage is compared after the page was scanned, and only what is beyond the limit withholds the cursor
   (`query_state.rs:182`): page 100 has one, and page 101 is returned. `HeapAndPagesBounded` proves that there is no page 102.

Seen while modelling, without a run of their own:

- Eviction moves leased cursors to the back of the queue, so their age is forgotten (`query_state.rs:592`): with three
  cursors of which some are leased in turn, the one evicted need not be the oldest, as ADR 0005 has it.
- A first page that finds the store full of leased cursors, and any page that is refused for its size, has registered its match
  references before (`stateful_query.rs:234`): nobody is given them, they stay until they expire or are evicted, and have
  evicted others. `OrphansOnlyAtLimits` shows that these are the only cases.
- A page that is refused for its size has been committed before: its cursor is used up and the client has no other
  (`mcp_server.rs:98`). `FinalAnswersAreFinal` shows that the error says so. A store full of leases (`CapacityBusy`) is
  called not retryable, though a place may become free.
- `FILE_CHANGED` is retryable; a search whose snapshot has lost a file answers it for every retry with that cursor.
- `match_reference_capacity` may be smaller than `max_results_per_page`: a page then evicts references of its own lines.
- The configuration counts the characters of a suffix, discovery its bytes (`source_discovery.rs:42`): a suffix of more than
  the limit in bytes passes validation, and the start fails. A keyword longer than `max_line_bytes` is refused only when
  the first file is scanned.
- An entry that vanishes between the reading of its directory and its open fails the whole snapshot where the file
  system reports types, and is passed over where it does not (`source_discovery.rs:149`). A rotation during the walk can
  put one file into a snapshot under two paths (hence the exception in `OneSnapshotPerFile`). Rules that overlap count
  their directories and entries twice.
- `file_id` contains the place of the file in its snapshot, so that it changes when a file before it appears or goes
  (`source_registry.rs:126`).
- The lines before a match are numbered back from the number in the reference, and only what would go below 0 is refused
  (`context_reader.rs:331`); a newline written in place before the match line gives a line number 0, where
  `schemas/mcp-tools-v1.schema.json:235` has a minimum of 1.
- `docs/M2_CONTEXT_READER.md:31` has the start of the match line checked again for a line boundary. The code looks at the
  byte before it only when lines before the match are asked for (`context_reader.rs:258`), hence the condition in
  `StaleRefused`.
- The forward read of the context is not limited to a size. When the end of the file ended a line and the file grows before
  the next `read_line`, the rest of that line is shown as the line after it (`context_reader.rs:547`). `ContextAsInFile`
  is exact up to the first line that the end of the file ended, and `NothingHidden` is about files at rest.
- `finish_line` drops a line that exceeds the content budget although `next_position` lies behind it (`scanner.rs:519`);
  `docs/M2_SCANNER_EXECUTOR.md` lists that position as safe. The query engines avoid it by their result limit
  (`ChunksLoseNoMatch`, `ChunkFits`).
- A forward scan whose budget ends exactly at the end of the file reports `after_truncated`, and a line of exactly
  `max_line_bytes` before a return is called truncated after the match but not before it: the flags may be
  true with nothing missing, never the other way round.

## 7. Order of the work, and what is left

The order was: `CursorStore` and `CursorChain` with the proofs of the store, `MatchStore` and `ScanExecutor` with theirs,
`Scanner`, `QueryPage`, `ContextReader`, `SearchService`, `Discovery` and `Config`, then the proofs of the refinement, the
service, the pages, the walk, the configuration, the scanner and the context. The store came first because everything a client is promised between
two pages rests on it.

Left, should the project go on:

1. `get_context` as one call with resolve, permit and read, and the deadline and errors a client sees.
2. The time filter at the ends of a range and at local times that do not exist or exist twice, given a model of a zone.
3. A directory that changes while it is read.
