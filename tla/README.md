# Verification of the Appweb HTTP server and its runtime

The repository is a port of the Appweb 4.3.4 HTTP server (C) with a small web
site. Its core logic is in two amalgamated libraries under
`src/http服务器/appweb-4.3.4-0/src/deps`: `mpr/mprLib.c`, the Multithreaded Portable
Runtime (MPR), and `http/httpLib.c`, the HTTP engine; beside them `esp/*.c` is a web
framework with compiled pages and a database in memory, and `modules/cgiHandler.c` runs programs. Line numbers below refer to
`mprLib.c` unless they name another file. This directory holds TLA+ modules of
the parts that are concurrent or stateful, TLC configurations that check them,
and TLAPS proofs. `PROJECT.json` maps every definition to the lines it models.

## 1. Inventory

| Component | State | Operations | What is hard | What makes it correct |
|---|---|---|---|---|
| Event service (`dispatcher.c`, `event.c`, `epoll.c`, `cond.c`) | dispatchers on idle, wait, ready, run, pending queues; their event queues; `willAwake`, `waiting`, the break pipe | create, remove, stop, enable events; service dispatchers; wait for an event | three kinds of threads service dispatchers; a sleep announced under a lock and entered outside it; unlocked flags | events of a dispatcher are serial; no event stranded; no wakeup lost; due events run |
| Worker pool (`thread.c`) | workers idle, busy, pruned; `numThreads`, limits | start, park, prune, wake, exit | the loop of a worker takes no lock; conditions latch | an accepted job runs once; a refused one is retried |
| Garbage collector (`mem.c`) | `mustYield`, `yielded` of each thread, generations, roots | `mprYield`, `pauseThreads`, mark, sweep | rendezvous of all threads with a timeout | no thread runs while the marker marks; all resume |
| Start and shutdown (`mpr.c`) | `state`, `stopping` | `mprTerminate`, `mprDestroy`, `mprWaitTillIdle` | shutdown races requests | orderly stop |
| Wait handlers (`wait.c`, `epoll.c`) | desired and present masks | add, remove, recall handlers | events for removed handlers | one I/O event at a time per handler |
| Object cache (`cache.c`) | items with version, expiry, lifespan | read, write, increment, expire, prune | timers against lookups | compare-and-swap by version; expiry |
| Commands (`cmd.c`), signals, CGI (`cgiHandler.c`) | pipes, `complete`, `eofCount`, `pid`; `sp->handlers`; queues | start, poll, reap, callback, read, redirect | the end of output and the death of the child in any order; one bit for all deaths; back pressure | the response is finalised once, after all output; the program is reaped; every death is noticed |
| HTTP connections (`conn.c`, `endpoint.c`, `service.c`) | `conn->state`, limits, timeouts | accept, parse, time out, reset, destroy | timer thread against the connection's dispatcher | counts balance; no event after destruction |
| HTTP pipeline (`rx.c`, `tx.c`, `queue.c`, `pipeline.c`) | queues with `count`, `low`, `max`, `SUSPENDED` | put, service, suspend, resume, flush | flow control across stages | no packet lost; no suspended queue forgotten |
| HTTP filters (chunk, range, upload, web socket) | parser states | incoming, outgoing | fragments in any division | framing is preserved |
| Sessions, response cache | cached items, cookies | create, get, set, destroy | concurrent requests of one session | |
| Routes, hosts, URIs, variables | configuration | match, rewrite | pure | normalisation confines paths |
| ESP (`espHandler.c`, `espFramework.c`, `espTemplate.c`) | `ms->modules`, what `dlopen` maps, `esp->actions`, `esp->views`, `inUse`, the mutex | open, prepare, compile, unload, load, run, close | reload against requests that run the code; time stamps of a second | code in use stays loaded; updates are seen; the mutex is given back |
| EDI and MDB (`edi.c`, `mdb.c`) | tables, columns, rows, index; records held by requests; three files | operations on tables, columns, records; save, load | rows found by position; records that grow stale; a process that dies within a save | lookups find the row; unique values stay unique; the last complete save survives |
| Service manager (`manager.c`) | `appPid`, restart counts | start, stop, restart, watch | | at most one server, bounded restarts |
| Vendored code, the web site | | | | not modelled |

How they interact. One thread runs `mprServiceEvents`: it moves due dispatchers
to the ready queue, services some inline and hands the rest to the worker pool;
with nothing to do it sleeps in `mprWaitForIO`, until a timer is due, a socket is ready or
`mprWakeNotifier` writes to the break pipe. Every connection has a dispatcher;
its socket events, timeouts and CGI events are events of that dispatcher, which
serializes them, so that most of httpLib needs no lock. A callback may wait with
`mprWaitForEvent` for later events of its own dispatcher. A worker that becomes
idle wakes the service thread, so that pending dispatchers are tried again. The
collector stops every thread at `mprYield`. A CGI program has three pipes whose handlers, like the socket of the
client and the signal of a death, queue events on the dispatcher of the connection; only the list of signal handlers is
shared. ESP requests run on the threads of their connections and share `esp->mutex`, the modules and the databases,
which have a lock each.

## 2. What is modelled

### EventService

One module for `dispatcher.c` and `event.c` (8287–9100, 9889–10240), with the sleep
of `epoll.c` (`mprWaitForIO`, `mprWakeNotifier`) and `cond.c`.

- Actors: the thread in `mprServiceEvents` (`Service`), the worker threads
  (`Workers`) that run `serviceDispatcherMain`, and activations of
  `mprWaitForEvent` (`Waits`). An activation belongs to a thread of its own or is
  nested in the callback a worker runs (`host`). `pc`, `disp`, `ev` are the
  program counter and the locals of each.
- What holds the event service lock is one step. The unlocked parts (`owner`, the
  RUNNING flag around a callback, the test that starts a wait, the sleep after the
  lock is released) are steps of their own.
- `parent` is the queue of a dispatcher, `eventQ` its events by due time, `currentQ`
  the events it has taken off that queue and that are still marked for the
  collector.
- The clock: `clock` is `mprGetTicks`, `now` the cached `es->now`, which only some
  steps refresh. At the end of the clock (`MaxTicks`) all timeouts have expired
  (`Expired`), so a run does not end with a sleeper that merely ran out of model time.
- Calls from outside: create, remove, stop and enable events and disable dispatchers
  at any step by any thread. `calls` holds those a behaviour makes (`CallMixes`).

Abstractions: the service thread may take any member of a queue of dispatchers
(the code takes one end). The pool is "some worker is idle". The write
to the break pipe is atomic with `wakeRequested`. The flag word of an event is written
without order by `mprRemoveEvent` and the dispatching thread: where the two race, either value of
`MPR_EVENT_CONTINUOUS` may survive. `FetchEvent` joins the end of the previous pass to
`mprGetNextEvent`.

Preconditions of the callers: one waiter for each dispatcher (`cond.c` serves
"single waiters"); `mprDisableDispatcher` from a callback of the dispatcher itself, as
`httpDestroyConn` does (httpLib.c:2225); one nested wait.

Left out: `mprDestroyDispatcher`, `mprEnableDispatcher`, `mprRelayEvent`,
`MPR_SERVICE_ONE_THING`, dedicated workers, signals and shutdown; `mprRescheduleEvent` and `mprRestartContinuousEvent`, which
nothing in the repository calls (what the code would do is among the remarks of section 5). So an event is queued when it is created, and again
only when its callback has returned.

`SerialExecutor` is what users of the event API see of all this. Each dispatcher is an executor with a queue of events: they are
called when they are due, behind those that are due no later, and the calls of one dispatcher are all on one thread, nested if a callback
waits. It has no clock of its own, no queues of dispatchers, no sleeps and no signals. `EventService` implements it (`ImplementsExecutor`) with `time` the cached
`now`, `open` `enabled`, `queue` `eventQ`, `repeats` the flag `MPR_EVENT_CONTINUOUS`, and `call` what each actor has in its hands and on which thread (`Calls`).
What the code does not promise shows as a choice in the abstract module: `Cancel` may come too late for an event that is being called, and may then lose
against the flag that makes it continuous.

### WorkerPool

One module for `thread.c` (23959–24420) with `mprWaitForCond`. A job is a dispatcher
given to `mprStartWorker`. Each unlocked access of `workerMain` is a step:
the test of the state, the read of `proc`, the call, the test of `mprIsStopping`, the
clearing of `proc`, the parking under the lock, the wait. The service thread is seen
only as "awake" or not, and retries refused jobs while it is. `numThreads`, the limits,
`mprSetMinWorkers`, `mprSetMaxWorkers`, the pruner, `mprTerminate` and the two calls of
`mprWakeWorkers` are modelled as they are. `AvailableWorkers` is the arithmetic of
`mprAvailableWorkers`.

Abstractions: any idle worker may be taken (the code takes the one that was active last). The
limits are set before the first job, as the configuration does. `Spurious` allows
`pthread_cond_wait` to return unsignalled, which a wait without timeout does not notice.

### Collector

One module for the parts of `mem.c` (14–2649) that decide when a collection may run and
what it frees: `mprYield` and `mprResetYield` (1484–1541), `triggerGC`, the marker thread
(`marker`, `mark`, `pauseThreads`, `markRoots`, `sweep`, `mprResumeThreads`) and
`mprCreateEventOutside`.

- `mprYield` takes no lock, so every access to a field the marker also writes is a
  step: setting `yielded`, setting `stickyYield`, the test of `mustYield`, the return of
  the wait, clearing `yielded`. `mprResetYield` is its store outside the lock and its locked section.
- `mpc` is where the marker is; `pauseThreads` either finds every thread yielded
  and nobody pausing it, or times out and leaves `mustYield` set.
- `gen` is the generation of each block, `saved` the blocks the marker can reach,
  `held` those a thread has references to in its locals. The graph of blocks is flattened
  to what is reachable.

Each of these steps, and each access to `pauseGC`, which foreign threads change without a lock, may be overtaken by any step of any other thread.
The history variable `raced` records the three races that follow; it influences nothing. "leave": `pauseThreads` counted a
thread that had left the loop of `mprYield` and not yet cleared `yielded`. "stick": `mprResumeThreads` cleared the `yielded` of a thread that had not
set its `stickyYield` yet. "pause": two threads changed `pauseGC` at the same time. Each property says until which of these it holds, and so, what
the rendezvous guarantees and by which of its gaps alone it can fail (section 5). `MaxPause` bounds what lost changes make of `pauseGC`.

Preconditions of the program that allocates: what a thread uses after `mprYield` it
saved in a managed structure before, and it unlinks nothing that another thread still
refers to. `mprHold` is applied to blocks not saved yet, by the thread that has the reference.

Abstractions: one pass of the marker over the roots is a step, since no thread runs meanwhile;
so is the sweep. `BeginSweep` joins the end of `marking` with the start of `sweeping`, between which only
`mustYield` is read that stays set. `mprTerminate`'s visit of all threads is a step. When a collection is due is left open (`TriggerGC`
at any time). A spurious return of the wait in `mprYield` leads to its test again and is harmless.
Left out: free queues, regions, sizes, memory limits, parallel collection, `mprDestroy`, after which the process exits.

### HttpConn

One module for the server side of `conn.c`, `endpoint.c`, the timer of `service.c`, and the states of
a request of `rx.c` and `tx.c` (httpLib.c 2123–2934, 3321–3760, 4573–5150, 11384–12700).

- Actors: the callback of each connection (`at` is where it is), the timer (`tpc`, `tleft`, `tnote`), the
  clients (`wire`, `client`), the processes of CGI requests (`work`). The endpoint creates a dispatcher for
  each connection, so the callbacks of a connection are serial (what `SerialDispatching`
  proves of the event service) and those of two connections interleave freely.
- `conn` is the `HttpConn` with its `rx` and `tx`: `state`, `keep` (`keepAliveCount`), `out` (nothing yet,
  finalized, all written), `eof` of the request, `sockEof` of the socket, `opened` (the request is counted by
  the endpoint), `input` (what was read and not consumed). `mask` is what the wait service listens for, `evq`
  the events of the dispatcher, `toSet` whether `conn->timeoutEvent` is set.
- Steps: `httpPumpRequest` takes one step for each state; `httpEvent`, `readEvent` and `httpAfterEvent` are
  the steps around it. What holds the lock of the list of connections or of the endpoint is one step
  (`Accept`, `Unlist`, `Admit`, `Parse`, `CloseRequest`, `ReleaseConn`), except `httpTimer`, which holds the lock of the
  list from `TimerBegin` to `TimerEnd` while connections go on: it creates the timeout event and stores its pointer in two steps
  (`TimerExpires`, `TimerNotes`), and a connection that completes a request between them takes back neither.
- The command of a CGI request calls back in three ways: for its output and its input (`CgiOutput`, with what the output makes of the answer,
  `CgiAnswers`), with a redirection (`CgiRedirect`), and at its end (`CgiExits`, `CgiEvent`). After output the last lines of `cgiCallback` (cgiHandler.c:399-413)
  pump a request that is finalized, and no `httpAfterEvent` follows; the field `left` is a history that says so.

Abstractions. A request is one or two pieces (a head, or a head in two parts, or a head and its body), and a read takes
all that is on the wire. The clock is abstract: any connection may have expired at a pass of the
timer, whatever the reason (parse, inactivity, request timeout). `keep` is kept at -1 once it is below zero,
and counted down when the output is finalized (the code does it when the headers are created, in the
same callback). Routes and handlers are local to the connection: a request is answered at once, by
an error document, or by a process. A blocked socket may drain at any time. A slot of `Conns` is used again when its connection
is closed.

Left out: client connections, stolen and upgraded connections, the limit of processes, unloading of modules by the
timer, TLS, shutdown, the limit on the size of a response.

### EdiStore and Mdb

`Mdb` is the provider of ESP databases that lives in memory (`mdb.c`), with the parts of `edi.c` that act on its
records; `EdiStore` is what `edi.h` promises the callers: tables that map keys to rows, requests that hold copies of
rows, a durable copy from which a restart begins. `Mdb` implements it (`ImplementsStore`): the refinement mapping reads the
tables as a partial function from names to partial functions from keys to rows, which is what `lookupTable` and `lookupRow` should compute
(`InMemory`; `InFile` does the same for an image, whose rows may be shorter), the files `path` and `path.bak` as the durable copy and its backup
(`Copies`: a set of one store, or none for a file that is absent or torn), and the records of requests as keyed copies of rows (`Records`).

- Every call takes the lock of the database, so it is one step, except for the save (`mdbSave`, called by
  `autoSave`), whose operations on files are steps of their own: open, write, delete the backup, rename to the backup,
  rename to the path. Each may fail, or the process may die before it (`Crash`).
- A table has rows, whose fields are found by `cid`, and at most one index, from the values of a
  column to positions of rows, with the same positions the code keeps after a change. Records held by requests (`held`)
  are copies with the number of fields the row had; other requests go on meanwhile.
- `Load` replays a file through the same `createRow` and `updateFieldValue` as the code. A null pointer is
  written as "(null)" and comes back as text, automatic numbers come back by `Follow`.
- The loops over fields, columns and rows are `Iterate`, a recursive function of the number of steps, about which lemmas can be proved.

Abstractions: values are members of small sets; a query has one column; types, formats and other validations are left
out, since they do not change tables. A null pointer that is dereferenced ends the process, which `Crash` covers.

The code does not cope with some sequences of legal calls. The model makes them all, as the code does, and the history variable `intact` says
that none has happened yet (`Copes`): a flag of another column than the first; a column or an index given to a table that has rows; a column removed other than
the last, or from a table with rows; a delete that leaves rows behind the deleted one in an indexed table; a name that is in use already; a
key that is overwritten; a field of a row that does not exist. `intact` influences nothing. `Consistent`, `UniqueKept`, `ReadByKey` and `ImplementsStore` are stated
until the first such call, and section 5 tells what goes wrong after each; `Recoverable` is stated whatever is called.
The run stops at such a call; what a table with a schema the code does not cope with does later (reads beyond a row, for one) is not followed in detail.

A null pointer that is written to a column becomes an empty text (`sclone`, `EmptyText`). The process may die before any step of a save (`Crash`),
between the two renames too; `mdbOpen` then begins a new database, whose save deletes the backup: `saved`, the last save of this database, starts anew.

### EspModules

One module for `espHandler.c` from `openEsp` to `closeEsp`, `espModuleIsStale` and `espUnloadModule` (espFramework.c),
`espCompile` (espTemplate.c) and the modules of the MPR (14870-15050, 17330-17380).

- A request has a program counter (`pc`), is after its action or its view (`doing`), and has code on its stack (`frame`).
  The stretch under `esp->mutex` is divided at the points at which the thread yields to others that do not take the mutex: the compiler, the
  creation of the module, its loading.
- `modules` is `ms->modules` with one entry for each creation, `mapped` what `dlopen` holds with its references
  (a second `dlopen` of a mapped file gives the old code), `entries` the keys of `esp->actions` and `esp->views`, whose
  pointers stay when their module goes.
- While a request waits for the compiler it serves the events of its connection (`mprRunCmd`, `mprWaitForEvent`), the timeout too: `connTimeout` closes the
  request and disables the dispatcher the compiler's own events are on, and the thread stays where it is, with the mutex ("stuck").
- A compilation or a load may fail at any time, and a source may be edited while it is compiled. The history variables `failed` and `missed` hold the modules to
  which that has happened; they influence nothing, and the properties say what no longer holds of such a module.
- `source` and `object` are files with a version and a time stamp of a second.

Abstractions: one controller and one view, or one application, which every request uses; a compilation reads the
source when it begins; a layout and a partial view are part of their view. An action may return, leave its view
to `startEsp`, or render it itself.

### Cgi

One module for `cgiHandler.c`, the parts of `cmd.c` (5100-5900) and `signal.c` (19230-19376) under it, and the
queues, the connector and the states of a request (httpLib.c) as far as the handler meets them.

- What runs on the dispatcher of a connection is serial. `todo` is what is left of the event that runs, in order, so that a
  chain of calls (`cgiCallback`: read, respond, service the queues, enable, pump, `httpAfterEvent`) is a sequence of steps
  between which the program, the client and the events of other connections go on.
- `pipe` holds what is in the three pipes, `fds` and `on` which channels are open and enabled, `eofs`, `pid`, `complete` are
  the fields of `MprCmd`. `q` has the queue to the program, the queue of the handler to the client, and that of the
  connector; `susp`, `blocked`, `room` are their flow control.
- `chain` is the list of handlers of `SIGCHLD`, `triggered` the bit that the signal sets, `events` the signal
  events queued for each handler.
- A script is what a program does: read its input, write headers in one piece, in halves, with a location or malformed, write data or
  errors, close its outputs, exit.

Abstractions: one queue stands for the filters and the connector; data come in items of which pipes, queues and the
socket hold a few; header parsing sees complete items. `Only`, a recursive function, picks the items of a text that matter.
`ScriptsAssumption` says of a program what the code relies on: it writes a header before other output, in one piece if it also writes errors
(what happens otherwise is among the remarks), and nothing on an output it has closed.
Left out: error documents, `OPTIONS` and `TRACE`, the limit of processes, programs that leave their pipes to
others, Windows, `mprRunCmd`.

## 3. Runs

| Run | Instance | Shows |
|---|---|---|
| EventServiceWorkers | 2 dispatchers, 2 events, 2 workers; remove, disable | serial dispatch, nothing stranded, no lost wakeup, the pending count |
| EventServiceWaits | 1 dispatcher, 1 worker, 1 wait (own thread or nested) with disable; or stop or remove with enable | no lost signal, the order of event queues; the refinement of `SerialExecutor` |
| EventServiceFair | an inline dispatcher and one for the only worker | types; every due event leaves its queue |
| WorkerPoolJobs | 2 workers, 2 jobs, 1 processor | types, no lost job, run once, no stalled pending job, all served |
| CollectorHeap | 2 threads, 2 foreign threads, 1 block | types; until a race: the heap rests during a collection, no dangling reference, collections are exact |
| CollectorFair | 2 threads, 1 foreign thread, no blocks, fair | blocked threads count as yielded, until a race; a thread held up by a collection runs again |
| HttpConnLimits | 2 connections of 1 or 2 clients, 1 request allowed, 1 connection for each client | limits hold, the timer watches every connection and deletes none under its hands |
| HttpConnRequests | 1 connection, 3 pieces of seven kinds of requests, fair | types, balance, no stale timeout, never deaf, closed when due, every connection ends |
| Mdb | 1 table of 2 columns, 2 rows, 1 request with a stale record; one failure of a save, death at any step of it, between the renames too | lookups rest on true facts, saves are recoverable, unique stays unique, reads find the row; the refinement of `EdiStore` |
| EspModules | 2 requests, all four kinds of routes, 1 edit at any time, failing compilations and loads, timeouts, 2 seconds, fair | code in use stays loaded, updates are seen, no path but one keeps the mutex |
| Cgi | 1 request, 6 kinds of programs, 4 kinds of bodies; pipes, queues and socket of one item; fair | output complete and in order, the program done and reaped, every request ends without a timeout |
| CgiSignals | violation: 2 requests, short programs | the death of a program is never passed on |

Bounds. Two events are enough for an order within a queue, a race between two
events, and an event that arrives while another runs; two dispatchers for
competition for a worker and for the service thread. Periods 0 and 1 with one tick make
events due at once, due later, and due at the same time. `MaxPending` stops the drift of
`pendingCount`: a dispatcher leaves the pending queue by `mprScheduleDispatcher` without
a decrement, so the count grows with each further call. `Forever` stands for `MPR_MAX_TIMEOUT`,
beyond every due time. Two workers and one processor make the pool refuse, prune and reuse; a
third worker adds states but no new behaviour (the safety properties were also checked with three
workers, three jobs and two processors).

For the collector two threads are needed, one that yields in time and one that does not; blocks do not
influence the rendezvous nor each other, so one block shows what happens to any, and the liveness run does
without. A block goes through both generations, and the marker runs any number of rounds. Two foreign threads make the race on `pauseGC`; with `MaxPause = 0` a
call starts only while earlier races have left it at zero. `UntilHeapRace` ends a behaviour of `CollectorHeap` at a "leave" or "pause" race, of which the properties
of the heap say nothing more; the "stick" race is in it, and all three are in `CollectorFair`, as far as one foreign thread makes them.

For connections two are needed to compete, for the one request allowed at a time, for a place of their client, and for the list, while one
piece each is enough: what a connection does alone is the subject of the other run. `ClientMax` is above
what two connections reach, so its branch is not taken: at `ClientMax` the code refuses further
connections of clients already counted too, and `PerClientMax` would then never be tested. With
`KeepAliveMax = 2` and three pieces a connection serves requests until the count ends it, or until a piece asks for it. The kind "put" is in
the proofs only: it is routed like "get" and has a body like "form", so the run takes all its steps.
`MaxQueued` bounds the socket events in the queue: the code may listen again while one is queued, so that there may be
several; the bound leaves one beside timeouts and CGI events.

`CallMixes` are sets of calls that a run makes together: in `EventServiceWaits` waits race with callbacks that
disable, and in other behaviours timers that are stopped, started and removed race with their callbacks; all at once exceed the time of a run.

For the database one table is enough, since no operation relates two except by name, and two names show renaming.
Two rows are needed for an order, for a unique value given twice, and for an index that points to the wrong row;
two columns for a key and a value. `MaxId` bounds the automatic numbers. Names are symmetric. `StateView` leaves out a
backup that the next save deletes unread and a new file it truncates, which nothing reads in these states; when there is no path, the backup is kept. Two failures behave as one
after the other: a save begins with whatever the last one left. `Explored` ends a behaviour at the first call that the code does not cope with, and keeps tables to one row after a
failed save, whose rows are written as a whole (457,712 states).

For ESP two requests compete for the mutex, the list and `inUse`; more only add to `inUse`. One edit makes a module stale once, before,
during and after a request; two seconds tell a time stamp that is equal from one that is later.
`Explored` looks at one failed load without edits, or at an edit that falls into a compilation, and not at both together (988,993 states); the proofs have neither bound. For CGI one item in every
buffer makes each of them full and each writer wait; bodies of two items overflow the pipe, and answers of three items the handler's queue and the connector's,
which takes twice as much.

`CHECK_DEADLOCK FALSE` is set where the system really rests: every event was created
and has run, the pool has been shut down, or the CGI request was answered.

Fairness. `EventService`: weak fairness of the clock, of the service thread and of every actor
that is dispatching or waiting. The operating system schedules every thread and
callbacks return. Nothing is assumed of the callers. A zero-period event that is requeued
for ever starves the others, so the liveness run allows only calls that do not requeue.
`WorkerPool`: weak fairness of the service thread and every worker, a job that blocks
returns, and strong fairness of the end of a job, since a job may block and return any
number of times before it ends. `Collector`: weak fairness of each thread inside `mprYield` and of its next call
of it ("All threads must yield", as the code demands of them), of the marker and of a foreign thread within its call; none of the return of a system
call. `YieldReturns` excepts a foreign thread that naps for ever, which holds `pauseGC` while collections are due, a `pauseGC` that a race has
left wrong, and a thread that blocks while it does not count as yielded. `HttpConn`: weak fairness of the timer and of every callback; strong fairness of `Unlist`, since the
lock of the list is free again and again; strong fairness of `TimerExpires`, since `requestTimeout` is measured from the creation of
the connection and nothing resets it, so every connection expires. None of clients, processes and sockets.
`EspModules`: strong fairness of a request that was opened: a thread that waits for `esp->mutex` gets it sometime, as others give
it back again and again, and actions, views and the compiler return. Nothing is assumed of timeouts. `Cgi`: weak fairness of the event that runs, the program, the client that reads (unless
it leaves) and the service of signals, strong fairness of each kind of event of a connection, because a dispatcher takes its events in order and an event of another
kind may come first each time; none of timeouts and of a client that leaves.

## 4. Proofs

All theorems hold for every value of the constants under the named assumptions. Each rests on an
inductive invariant that TLC checked before it was proved.

- `EventServiceProofs`: `TypeCorrect` (`TypeOK`), with the inductive invariant `TypeInv`: types, and where
  each actor is determines what its locals hold. `NothingStranded` (`NoStrandedEvent`),
  with `StrandedInv`: a dispatcher with events that is on no queue is in the hands of an
  actor that will reschedule it.
  `SerialDispatching` (`OneThreadPerDispatcher`), with
  `SerialInv`: who holds a dispatcher (`Holds`), that nested waits belong to the thread
  that holds it, and that a held dispatcher is on the run queue (`RunQueueIsHeld`).
  Mutual exclusion is not inductive alone, because `owner` keeps old values after a wait ends.
- `EventQueuesProofs`: the order of events and the wakeups.
  - `QueuesStaySorted` (`QueuesSorted`) and `ServedInOrder` (no event overtakes one of its dispatcher that was queued before it and is due no later), from `QueueInv`: the queues are sorted, an event that is being called is in no queue (`PlacedOnce`), and any other is in
    the queues of one dispatcher at most and knows it (`Tied`), so that the removal of one dispatcher's event cannot disturb another's order.
  - `PendingIsCounted` (`PendingCountCovers`), from `PendingInv`: the queue of the pending dispatchers is finite, and the counter, which
    `mprServiceEvents` reads once for a pass, covers it.
  - `WakeupsAreHeard` (`NoLostWakeup`), from `SleepInv`, which adds `WakeInv` to `SerialInv` and `QueueInv`: while the service thread is on its way from the
    announcement of its sleep to the sleep, the time it announced is not after the first due event of any dispatcher it has to serve, or the pipe is written.
  - `SignalsAreHeard` (`NoLostSignal`), from `SignalInv`, under `[]OneCondWait`: no two threads wait on the condition of one dispatcher.
    The code asserts that, but outside the lock (8646). With two waits at one dispatcher TLC finds
    `NoLostSignal` violated, since the condition wakes one of them; the runs have one wait.
  - `ServiceIsExecutor` (`ImplementsExecutor`): the initial states map to initial states and every step to a step of `SerialExecutor` or a stutter, from
    `ExecInv`, which adds to `SerialInv` and `QueueInv` that what a dispatcher has taken off its queue (`currentQ`) is being called by some actor, and that
    `es->now` is never ahead of the clock. There is a lemma for each operation; those that service dispatchers share one (`RestIsQuiet`), since the executor does
    not see them. The start of a call needs that no other thread has the dispatcher: that its thread is alone with it, or in the callback the wait is nested in
    (`AloneOrNested`), is where `SerialInv` is used. No hypothesis is added, `OneCondWait` neither.
- `WorkerPoolProofs`: `PoolTypes` (`TypeOK`) and `PendingServed` (`PendingNotStalled`) without assumptions. `StallInv`: the service thread sleeps on a pending
  dispatcher only while no worker is available but for jobs that have yielded, and a worker that is about to end was pruned, so that its end frees no place.
  `JobsKept` and `JobsOnce` assume `~Spurious`: `PoolInv` says of each worker, at each
  point of its loop, which combination of state, `proc` and `triggered` it can have;
  the assumption is needed: with `Spurious = TRUE` TLC finds a lost job.
- `CollectorProofs`: `HeapTypes` (`TypeOK`), `HeapRests`, `ReferencesLive`, `BlockedYielded`, `ExactCollection`, all from the inductive
  `CollectorInv` (`CollectorSafe`), for any number of threads and foreign threads and every interleaving; none has a hypothesis. As the properties do, `CollectorInv` says of each
  program counter of a thread, of the marker and of a foreign thread what the flags hold until the race that concerns it, and of each
  block that what is referenced is of the active generation or eternal until the heap was used during a collection. So the three races are all that can
  defeat the rendezvous: "leave" and "pause" the heap's rest, "stick" that a blocked thread counts as yielded. Neither safety property is
  inductive alone: that a block is not freed needs that no thread has stored a reference since the roots were marked,
  which needs that `mustYield` holds up a thread that returns from a system call.
- `HttpConnProofs`: every invariant of the two runs, for any finite set of connections.
  - `ConnectionsWatched` (`TimerCovers`) and `VisitedStay` (`VisitedAreListed`), from `TimerInv`: while the timer
    holds the lock its `tactive` says whether the list is empty, and a listed connection that no timer watches is about to start it.
  - `TypesHold` (`TypeOK`), `ConnsHear` (`NeverDeaf`) and `ConnsClose` (`ClosesWhenDue`), from `ConnInv`: what each place of a callback knows of its connection
    (`Local`). A connection with no callback and no queued event has its socket watched, because every way out of a callback either
    watches it, queues an event or destroys the connection, but the last lines of `cgiCallback`: what they leave (`left`) both properties except, and only
    the timeout ends it (`EveryConnEnds`, by TLC).
  - `TimeoutsArrive` (`TimeoutPending`), from `TimeoutInv`: a timeout that was set, or is about to be noted, is in the queue unless the connection dies.
  - `CountsAreBalanced` (`CountsBalance`), inductive together with `ConnInv`: each counter of the limits is the cardinality of the set of
    connections or requests between their increment and their decrement. `LimitsHold` (`LimitsRespected`), from `LimitsInv`, which adds that the clients with a load are finitely many.
- `MdbProofs`: none of its theorems has a hypothesis. `SaveIsRecoverable` (`Recoverable`), from `FileInv`: except between the two renames the path names the last
  image that this database completed, between them the backup does. No bound on tables, failures or requests is needed, nor that calls are ones the code copes with: an operation
  changes no file, it only begins a save (`SchemaCalls`, `RowCalls`). After a death between the renames `mdbOpen` finds no database and begins a new one: the last save is lost then, and `Recoverable` says no more of it.
  `TablesAreConsistent` (`Consistent`), `UpdatesKeepUnique` (`UniqueKept`) and `ReadsGiveTheRow` (`ReadByKey`) follow from `intact => DbInv`, which every step keeps:
  before a step that leaves `intact` true it was true (`WasIntact`), so `DbInv` is there to be used. Where `intact` is false the properties say nothing, and TLC finds what fails
  when they do (the remarks on MDB in section 5).
  The invariant `DbInv` is about more than the tables, as they are made from records and from files: a record that a request holds, however old,
  begins with its key (`RecInv`), and each file, at any point of a save, is nothing, torn, or an image whose first column has distinct keys (`ImageInv`).
  `TableInv` adds to `Consistent` that the first column alone has flags, that a column is at its `cid` (else rows would be read by the wrong field),
  and, with an index, that the `rid` of a row is its position, since the index takes it from there.
  The loops are unrolled by `Induct` (`FieldsOneByOne`, `RowsOneByOne`), and the steps of a loop keep `TableInv` one by one, the first of them for the key
  (`KeyStep`, `KeyKept`), the rest for plain columns (`PlainStep`). `UniqueKept` follows from what `mdbUpdateRec` does to one row (`UpdateRecTakes`) and from the keys
  being distinct: if a value that is checked is there at all, it is in the row that takes the record (`TakenIsUnique`).
  `NothingToRenumber` shows that the branch of `mdbSave` that numbers a null key (mdb.c:1296) is never taken while `intact`.
  `DatabaseIsTheStore` (`ImplementsStore`) is the refinement of `EdiStore`, up to the first call that is not coped with, from `intact => RefInv`. `RefInv` is `DbInv`, which makes the row that
  `lookupRow` finds the only one of its key; `TrimInv`, that a row holds nulls beyond the columns of its table, without which a column that is
  added would show old values, and a save, which writes only the columns, would lose some; and `SaveInv`, that after the write the new file is the image of the tables,
  and that the path is given up before it is published. The proof has a lemma for each operation, which names the abstract step it takes
  (`AddTableMaps`, `UpdateRecMaps`, `RowsMap`, `SavesMap`, `LoadMaps`), over lemmas on what happens to the function of a table when a
  row is put or deleted or its columns change (`PutRow`, `DeletedRow`, `ReshapedMaps`). `NextMaps` puts them together.
- `CgiProofs`: `ProgramIsFinished` (`ProgramFinished`) and `OutputIsDelivered` (`OutputDelivered`), for all requests, programs, bodies and
  sizes of pipes, queues and socket, from `CgiInv`. For each request that did not become an error page or a redirection it says: when the process is
  reaped the outputs are closed, and an output is closed only when it is drained (`ProgramFacts`); the end packet is the last one and
  is met by the connector only behind all else (`EndFacts`); nothing but the header is held back (`HeaderFacts`); and on each output, what was sent, what
  is in the two queues and what is in the pipe are together what was written (`OutputFacts`), which every step keeps that moves items from one to the next.
  Neither property is inductive, as both speak only of the end. The lemmas about `Only` (it distributes over concatenation) are proved
  by `Induct`: induction over the naturals for a set instead of a predicate, from the well-foundedness of their order.
- `EspModulesProofs`: `CodeLoaded` (`CodeStaysLoaded`) and `CodeIsFresh` (`FreshCode`), for any finite set of requests, with compilations and loads that fail, edits at any
  time and timeouts. Without updates nothing is unloaded (`StayInv`). With updates of controllers and views
  (`UpdateInv`) a module that is listed and of which no load has failed is mapped (`Kept`), and a request is in code of such modules or of ones that have failed to load. It is inductive with three more parts: the one who
  unloads is the only open request (`CountInv`, lemma `Alone`; a thread that is stuck is not open any more), its own stack holds only code of the other
  kind (`StackInv`), and the stretch from the check to the end of the load belongs to one request (`LockInv`), for ever if it is stuck.
  In `CodeIsFresh` the four comparisons of times are strict and a second is long, so the invariant (`VersionInv`) relates versions to times: a file or a loaded module that is
  not up to date with its source bears a time that is not after the source's (`KindFresh`), which is what lets the next check see it. An edit during the
  compilation breaks that, as the file is then older than the source and bears a later time; `missed` marks the module from there on. For a combined application the references that `dlopen` counts are the loaded entries of the list
  (`AppInv`), and the kind of the route never changes (`RouteStays`).

Checked by TLC only: the liveness properties `DueEventsRun`, `JobsServed`, `YieldReturns`, `EveryConnEnds` and `EveryRequestEnds` (of ESP and of CGI),
which need fairness and `ENABLED` and are out of the prover's reach. Two theorems have a hypothesis on behaviour: `~Spurious` in `WorkerPoolProofs` and
`[]OneCondWait` for `SignalsAreHeard`; without them TLC finds the properties violated, as said above.

## 5. Findings

With a run that shows it:

1. `SIGCHLD` is kept as one bit, and `signalEvent` passes it from handler to handler by `sp->next` (19317). When a command is
   destroyed while the event of its handler is queued, `unlinkSignalHandler` has cleared `sp->next`, or the event goes with its
   dispatcher, and the handlers behind it are not invoked; the death of their programs stays unnoticed, against "Signal handlers must
   then all be invoked" (19250). The request waits for a timeout (`CgiSignals`).

Remarks, met while modelling; the models contain the behaviour unless stated, but no run is spent on it.

The runtime:

- `mprRescheduleEvent` and `mprRestartContinuousEvent` (not modelled, as nothing calls them). The second sets `MPR_EVENT_CONTINUOUS` and then reschedules; when the event is queued
  this goes through `mprRemoveEvent`, which clears the flag, so the timer fires once (10109). The first does not take an event that is running off its queue, since
  `mprRemoveEvent` does not when it is running (10059): requeued once by its own callback, it is dequeued when that returns; requeued
  twice it may be found as its own predecessor, and `queueEvent`, which unlinks it first, dereferences a null pointer (10196).
- `mprYield` leaves its loop and clears `yielded` later without the lock. A rendezvous that completes in between counts the thread as stopped while it runs on, and the assertion that
  follows (1516) fails: this needs one thread, the marker and an ordinary preemption ("leave" in `raced`, which TLC reaches in a dozen steps). The assertion also fails, without harm, when the marker begins while
  a thread that will block is on its way out.
- `mprYield` sets `yielded` before `stickyYield` (1498-1500). When `mprResumeThreads` comes between, it clears the first, and the thread blocks in its system call as one that has not yielded: every
  collection then waits for the call, up to the timeout of the rendezvous ("stick").
- `heap->pauseGC` is incremented and decremented by foreign threads without a lock (1425-1431): a lost change lets a collection run while an event is created, or holds
  collections up for good ("pause").
- `mprWaitForEvent` tests `MPR_DISPATCHER_WAITING` outside the lock (8646); two threads could wait on one dispatcher.
- A worker that parks after the second `mprWakeWorkers` is not woken for shutdown, which does not join it.

- `dispatchEvents` sets `MPR_EVENT_RUNNING` after the lock is released; a removal in the gap takes the
  event off `currentQ`, and nothing marks it while its callback runs.
- An idle worker does not notice a spurious return of `pthread_cond_wait` and clears a
  job it was just given.
- `mprCreateEventOutside` pauses the collector and then waits while a collection is due; the
  collector does not start while it is paused, and does not withdraw the request when it gives up.
- `pruneWorkers` compares `numThreads` with the minimum, but its loop does
  not change that count, so one pass may prune below the minimum.

Connections:

- `httpAfterEvent` ignores the result of `prepForNext` (httpLib.c:2462). When a writable event or the end of a CGI process completes a request whose
  successor has been read already, that successor stays in the input until the client sends more or the connection times out.
- `keepAliveCount` starts at the limit and the connection ends below zero, so one request more than `keepAliveMax` is served,
  after a response that announced the close.
- `requestTimeout` is measured from the creation of the connection and not of the request.
- `createErrorRequest` replaces `conn->input`, and with it a pipelined request that was read already.
- At `clientMax` a connection of a client that is counted already is refused too.

CGI:

- `resetCmd` waits for a killed program with `WNOHANG`: one that does not die at once stays a zombie.
- At the end of the output a header that was never terminated is dropped with the response (not modelled).
- The last lines of `cgiCallback` pump a request that is finalized without `httpAfterEvent` (cgiHandler.c:399-413): a connection whose response is completed by the output of the program
  listens for nothing until its timeout, and is not closed even if it should be. `left` marks it; without that exception TLC finds `NeverDeaf` and `ClosesWhenDue` violated.
- `openCgi` returns without `queueData` when there are too many processes, and `closeCgi` uses it (not modelled).
- With `OPTIONS` and `TRACE` there is no command, which `cgi->cmd` does not allow for everywhere (not modelled).
- Standard error within an incomplete header is queued twice (not modelled); before the header, it makes the header part of the body.
- The queue of the browser's body to the program (`cgi->writeq`) has no flow control.

ESP modules:

- An application that was told "Continue using old version" (espHandler.c:454) unloads itself when its action renders the view
  and is the only request by then. `CodeStaysLoaded` and `FreshCode` leave out applications with updates for this and the next two.
- `loadApp` takes no lock: while one request reloads, another finds the entry that is put on the list before the module is loaded, and calls the old pointer.
- Two requests that come first both load the application; unloading one leaves the old code mapped.
- A module that fails to load after its old version was unloaded stays on the list, and the old pointer in `esp->actions`:
  the next request finds the module on the list and calls it. `CodeStaysLoaded` excepts a module of which a load has failed; without the exception TLC finds it violated.
- A module that was installed within the second of its loading is not noticed (strict comparison of times), nor is an edit during the
  compilation that misses it (`missed`).
- `espCompile` runs the compiler with `mprRunCmd` and no timeout, and so waits in `mprWaitForEvent` for events of the connection's own dispatcher, under `esp->mutex` (espTemplate.c:250, mprLib.c:5692). If the
  connection times out meanwhile, `httpDestroyConn` closes the request and disables that dispatcher (httpLib.c:2224): the
  end of the compiler is not noticed any more, the thread waits for ever, and with it every request that needs the mutex. `EveryRequestEnds` excepts this path, and says it is the only one.
- Templates (not modelled): an unterminated `<%` runs past the page, an empty `<% %>` is taken for its end.

MDB, first the calls that the code does not cope with (`Copes`, section 2):

- A deleted row closes the list of rows up, but the index keeps the positions of the rows behind it (mdb.c:389-416), although edi.h has a record read "as identified by the key value" (edi.h:531). With the rows (1, a), (2, b), (3, c) and
  an index, after row 1 is deleted a read of key 2 gives (3, c); and an update of the record where 'b' is, which was read by its value, overwrites (3, c), so that 'b' is
  there twice, though checked as unique. Without `intact` TLC finds `ReadByKey` violated: create a table, its column, two rows, delete one, read the other.
- `mdbAddIndex` of a populated table starts empty; a second indexed column shares the index, and `mdbRemoveIndex` leaves the flag of the
  column; `mdbRemoveColumn` keeps the `cid` of the columns behind; `mdbAddColumn` does not extend the rows that are there, and does not set
  `keyCol` until the file is loaded again.
- A table or column renamed to a name in use makes a file that cannot be loaded. `mdbUpdateField` of a missing row leaves an empty row.

Others:

- The process may die between the two renames of a save (mdb.c:1316-1320). Then there is no database, and `mdbOpen` with `EDI_CREATE` saves an empty one, which
  deletes the backup (mdb.c:203): the last save is lost. The model does this.
- A null value written to a column becomes an empty text, the null of a column that was never written is saved as "(null)" and comes back as that text; validations are not saved at all. Writes of a save are not checked. `mdbUpdateRec` of a new record
  does not tell the record its number. The branch of `mdbReadWhere` that would use the index is dead (`op & OP_EQ` with `OP_EQ` 0).
- More than 8 columns (not modelled): `growSchema` moves the columns while `keyCol` and `indexCol` point to their old place.

## 6. Plan and what is not modelled

Done: the event service, the worker pool, the collector, the connections, CGI over commands and signals, the modules of ESP, the
ESP database. Next would be sessions over the object cache, the service manager, and the flow control of pipelines with filters; as an abstract
specification a job pool refined by `WorkerPool`.

Proofs next: `Copes` could be split by the kind of call, to say which property survives which call (an ordinary delete, for one, harms only tables with an index); and what `connTimeout` leaves
of the other connections could be stated with the event service, by composing the two.

Not modelled, with the reasons (the components of `PROJECT.json` that are `not_modelled`): libraries without concurrent state (strings, buffers,
hashes, JSON, printf), the configuration and start-up of the server, thin handlers over other libraries, string
processing (routes, URIs, the template language), the command line tools, and vendored or generated code (PCRE, SQLite, EST, Ejscript, ROM
and project files), which is most of the repository by size. Of the rest, framing (chunks, ranges, uploads, web sockets) is sequential parsing, and
the object cache, sessions and the service manager are the parts with state that remain.
