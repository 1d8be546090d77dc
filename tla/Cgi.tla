-------------------------------- MODULE Cgi ---------------------------------
(* The CGI handler (cgiHandler.c): a request that a program answers.          *)
(*                                                                            *)
(* The body of the request goes to the standard input of the program, what it *)
(* writes goes to the client.  Three pipes, the socket of the client and the  *)
(* signal of the death of a child each wake the dispatcher of the connection, *)
(* in any order.  The commands and signals of the MPR and the queues of the   *)
(* HTTP library are modelled as far as the handler uses them; one queue       *)
(* stands for the filters and the connector.  Text is a sequence of items.    *)
EXTENDS Naturals, Sequences, SequencesExt

CONSTANTS
    Requests,       \* one for each connection
    Scripts,        \* what the programs do, see Init
    Bodies,         \* what clients send: [size : Nat, form : BOOLEAN]
    Faults,         \* what may go wrong: "start", "gone", "timeout"
    PipeMax,        \* items that fit in a pipe
    QueueMax,       \* and in a queue (q->max; q->low is one item)
    RoomMax         \* and in the socket

ASSUME ConstantsAssumption ==
    /\ Bodies \subseteq [size : Nat, form : BOOLEAN]
    /\ Faults \subseteq {"start", "gone", "timeout"}
    /\ {PipeMax, QueueMax, RoomMax} \subseteq Nat \ {0}

VARIABLES
    req,            \* the requests: connection, queues, handler, command, program
    chain,          \* the handlers of SIGCHLD, by the request of their command
    triggered,      \* there was a SIGCHLD
    events          \* how many signal events each handler has to run

vars == <<req, chain, triggered, events>>

Outputs == {"out", "err"}
Channels == {"in"} \cup Outputs

(* A script lists what a program writes on its standard output, "head" (the   *)
(* complete headers), "part" and "rest" (their halves), "loc" (headers with a *)
(* location), "bad" (a malformed status line) and data; "err" is written on   *)
(* its standard error, at "read" it reads its input to the end, at "close" it *)
(* closes its outputs.                                                        *)
ChannelOf(i) == IF i = "err" THEN "err" ELSE "out"

Headers == {"head", "rest", "loc", "bad"}

\* Programs answer with a header before other output, in one piece if they have errors
\* to write (readFromCgi would queue the pieces twice), and write nothing on outputs
\* they have closed.
ASSUME ScriptsAssumption ==
    \A s \in Scripts :
        /\ s \in Seq(ToSet(s) \ {"HDR", "END"}) /\ ~({"part", "err"} \subseteq ToSet(s))
        /\ \A i \in DOMAIN s :
              \/ s[i] \in Headers \cup {"part", "err", "read", "close"}
              \/ \E j \in 1..i : s[j] \in Headers
        /\ \A i \in DOMAIN s : \A j \in 1..i :
              s[j] = "close" => s[i] \in {"read", "close"}

Idle ==
    [state |-> "idle",          \* conn->state: content, running, finalized, complete;
                                \* begin: prepared for the next request; closed
     body |-> 0,                \* rx->remainingContent
     eof |-> FALSE,             \* rx->eof
     gone |-> FALSE,            \* the client has closed the connection
     room |-> RoomMax,          \* of the socket
     sent |-> <<>>,             \* what went into the socket
     watch |-> {},              \* the mask of the wait handler: "r", "w"
     keep |-> TRUE,             \* conn->keepAliveCount >= 0
     error |-> FALSE, fin |-> FALSE, finOut |-> FALSE, finConn |-> FALSE,
     noBody |-> FALSE,          \* HTTP_TX_NO_BODY: the answer is an alternate body
     headers |-> FALSE,         \* HTTP_TX_HEADERS_CREATED
     blocked |-> FALSE,         \* tx->writeBlocked
     todo |-> <<>>,             \* what is left of the event that runs
     q |-> [cgi |-> <<>>, write |-> <<"HDR">>, net |-> <<>>],
     sched |-> <<>>,            \* conn->serviceq
     susp |-> FALSE,            \* conn->writeq is suspended
     seen |-> FALSE, held |-> <<>>, location |-> FALSE,     \* of struct Cgi
     pid |-> FALSE,             \* cmd->pid is not 0
     callback |-> TRUE,         \* cmd->callback
     channel |-> "in",          \* the channel it was called for
     fds |-> {}, on |-> {},     \* open channels, those whose events are enabled
     eofs |-> 0, complete |-> FALSE,
     listed |-> FALSE,          \* cmd->signal
     proc |-> "none",           \* the process: running, exited, reaped
     script |-> <<>>, wrote |-> <<>>, closed |-> FALSE, killed |-> FALSE,
     pipe |-> [c \in Channels |-> <<>>]]

\* What is written, and the first and the last packet of a queue.
Items == {"HDR", "END", "b"} \cup UNION {ToSet(s) : s \in Scripts}

Only(s, items) ==
    LET upTo[n \in 0..Len(s)] ==
            IF n = 0 THEN <<>>
            ELSE IF s[n] \in items THEN Append(upTo[n - 1], s[n]) ELSE upTo[n - 1]
    IN  upTo[Len(s)]
Without(s, items) == Only(s, Items \ items)

\* q->count: header and end packets have no length.
Data(s) == Without(s, {"HDR", "END"})
Count(s) == Len(Data(s))
NoData(s) == Only(s, {"HDR", "END"})

-----------------------------------------------------------------------------
(* Commands: the pipes and the process. *)

BugCloseFd(c, ch) ==
    IF ch \notin c.fds THEN c
    ELSE LET n == c.eofs + (IF ch = "in" THEN 0 ELSE 1)
         IN  [c EXCEPT !.fds = @ \ {ch}, !.on = @ \ {ch}, !.eofs = n,
                       !.complete = @ \/ (ch # "in" /\ n >= 2)]

CloseFd(c, ch) ==
    IF ch \notin c.fds THEN c
    ELSE LET n == c.eofs + (IF ch = "in" THEN 0 ELSE 1)
         IN  [c EXCEPT !.fds = @ \ {ch}, !.on = @ \ {ch}, !.eofs = n,
                       !.complete = @ \/ (ch # "in" /\ n >= 2 /\ ~c.pid)]

Enable(c, chs) == [c EXCEPT !.on = @ \cup (chs \cap c.fds)]
Disable(c, chs) == [c EXCEPT !.on = @ \ chs]

-----------------------------------------------------------------------------
(* Queues, and how a request ends. *)

\* What is left to do of the event that runs, in order.
Do(c, tasks) == [c EXCEPT !.todo = tasks \o @]

Schedule(c, n) ==
    IF Contains(c.sched, n) \/ (n = "write" /\ c.susp) THEN c
    ELSE [c EXCEPT !.sched = Append(@, n)]

Resume(c) == Schedule([c EXCEPT !.susp = FALSE], "write")

Put(c, n, items) == Schedule([c EXCEPT !.q[n] = @ \o items], n)

Discard(c) == [c EXCEPT !.q.write = NoData(@), !.q.net = NoData(@)]

\* httpFinalize
Finalize(c) ==
    CASE c.fin -> c
      [] ~c.fin /\ c.finOut -> Do([c EXCEPT !.fin = TRUE], <<"serve">>)
      [] ~c.fin /\ ~c.finOut ->
            Do(Put([c EXCEPT !.fin = TRUE, !.finOut = TRUE], "write", <<"END">>), <<"serve">>)

Disconnect(c) ==
    [c EXCEPT !.gone = TRUE, !.error = TRUE, !.keep = FALSE, !.eof = TRUE,
              !.fin = TRUE, !.finOut = TRUE, !.finConn = TRUE]

\* httpError: the answer becomes an error page; it is aborted when it has begun.
Error(c, abort) ==
    LET first == [c EXCEPT !.error = TRUE, !.noBody = TRUE]
        d == IF abort \/ (~c.error /\ c.headers) THEN Do(first, <<"disconnect">>) ELSE first
    IN  IF c.error THEN d ELSE Finalize(IF c.headers THEN d ELSE Discard(d))

\* httpFinalizeConnector
FinalizeConnector(c) ==
    [c EXCEPT !.finConn = TRUE, !.finOut = TRUE,
              !.state = IF c.fin /\ c.eof THEN "finalized" ELSE @]

\* netOutgoingService: write as much as the socket takes.
ServiceNet(c) ==
    LET d == IF c.noBody THEN [c EXCEPT !.q.net = NoData(@)] ELSE c
        all == Without(d.q.net, {"END"})
        n == IF Len(all) < d.room THEN Len(all) ELSE d.room
        left == SubSeq(d.q.net, n + 1, Len(d.q.net))
        e == [d EXCEPT !.headers = @ \/ Contains(all, "HDR"),
                       !.sent = @ \o SubSeq(all, 1, n), !.room = @ - n, !.q.net = left,
                       !.blocked = @ \/ n < Len(all)]
        f == IF n > 0 /\ Count(left) < 1 /\ c.susp THEN Resume(e) ELSE e
    IN  CASE c.finConn -> c
          [] ~c.finConn /\ c.gone /\ all # <<>> -> FinalizeConnector(Disconnect(d))
          [] ~c.finConn /\ ~(c.gone /\ all # <<>>) ->
                IF left # <<>> /\ left[1] = "END" THEN FinalizeConnector(f) ELSE f

\* httpDefaultOutgoingServiceStage: the next queue takes what will not overflow it
\* (the maximum of the connector is doubled).
Move(c) ==
    LET free == 2 * QueueMax - Count(c.q.net)
        fits(n) == Count(SubSeq(c.q.write, 1, n)) <= free
        n == CHOOSE k \in 0..Len(c.q.write) :
                fits(k) /\ (k < Len(c.q.write) => ~fits(k + 1))
        d == Put(c, "net", SubSeq(c.q.write, 1, n))
    IN  [d EXCEPT !.q.write = SubSeq(@, n + 1, Len(@)), !.susp = n < Len(c.q.write)]

BugToBrowserService(c) ==
    LET d == Move(c)
    IN  IF Count(d.q.write) > QueueMax /\ d.blocked THEN [d EXCEPT !.susp = TRUE] ELSE d

cgiToBrowserService(c) ==
    LET d == Move(c)
    IN  CASE Count(d.q.write) < 1 -> Enable(d, Outputs)
          [] Count(d.q.write) > QueueMax /\ d.blocked -> [d EXCEPT !.susp = TRUE]
          [] OTHER -> d

\* Write what the pipe takes of the body; without a reader the request fails.
browserToCgiService(c) ==
    LET body == Data(c.q.cgi)
        free == PipeMax - Len(c.pipe["in"])
        n == IF Len(body) < free THEN Len(body) ELSE free
        broken == body # <<>> /\ ("in" \notin c.fds \/ c.proc # "running")
        d == IF broken THEN Error([CloseFd(c, "in") EXCEPT !.q.cgi = <<>>], FALSE)
             ELSE [c EXCEPT !.q.cgi = SubSeq(body, n + 1, Len(body)),
                            !.pipe["in"] = @ \o SubSeq(body, 1, n)]
    IN  CASE d.q.cgi # <<>> -> Enable(d, {"in"})
          [] d.q.cgi = <<>> /\ d.eof -> CloseFd(d, "in")
          [] d.q.cgi = <<>> /\ ~d.eof -> Disable(d, {"in"})

\* resetCmd: the program is told to end and waited for, but not long.
mprDestroyCmd(c) ==
    [c EXCEPT !.fds = {}, !.on = {}, !.eofs = 0, !.complete = FALSE,
              !.pid = FALSE, !.listed = FALSE, !.killed = @ \/ c.pid,
              !.proc = IF c.pid /\ @ = "exited" THEN "reaped" ELSE @]

closeCgi(c) == mprDestroyCmd([c EXCEPT !.callback = FALSE])

\* processCompletion
Complete(c) == [closeCgi(c) EXCEPT !.state = "complete"]

\* httpEnableConnEvents
EnableConn(c) ==
    [c EXCEPT !.watch = (IF c.blocked \/ Count(c.q.net) > 0 THEN {"w"} ELSE {})
                            \cup (IF ~c.eof THEN {"r"} ELSE {})]

\* browserToCgiData: there is no more input.
EndInput(c) ==
    Put(IF c.body > 0 THEN Error(mprDestroyCmd(c), FALSE) ELSE c, "cgi", <<"END">>)

-----------------------------------------------------------------------------
(* A request runs on the dispatcher of its connection, one event at a time;   *)
(* only the list of signal handlers is shared.                                *)

Init ==
    /\ req = [r \in Requests |-> Idle]
    /\ chain = <<>>
    /\ triggered = FALSE
    /\ events = [r \in Requests |-> 0]

\* The request becomes c; with its connection the queued events go.
Becomes(r, c) ==
    /\ req' = [req EXCEPT ![r] = c]
    /\ chain' = IF c.listed /\ ~req[r].listed THEN <<r>> \o chain
                ELSE SelectSeq(chain, LAMBDA s : s # r \/ c.listed)

Handles(r, c) ==
    /\ Becomes(r, c)
    /\ events' = IF c.state = "closed" THEN [events EXCEPT ![r] = 0] ELSE events
    /\ UNCHANGED triggered

Doing(r, task) == req[r].todo # <<>> /\ Head(req[r].todo) = task

\* What is left when the task is done.
Done(r) == [req[r] EXCEPT !.todo = Tail(@)]

\* httpServiceQueues, one queue at a time
httpServiceQueues(r) ==
    LET n == Head(req[r].sched)
        c == [req[r] EXCEPT !.sched = Tail(@)]
    IN  /\ Doing(r, "serve")
        /\ IF req[r].sched = <<>> \/ req[r].state = "complete" THEN Handles(r, Done(r))
           ELSE Handles(r, CASE n = "cgi" -> browserToCgiService(c)
                             [] n = "write" -> IF c.susp THEN c ELSE cgiToBrowserService(c)
                             [] n = "net" -> ServiceNet(c))

httpDisconnect(r) == Doing(r, "disconnect") /\ Handles(r, Disconnect(Done(r)))

\* httpPumpRequest up to processRunning
httpPumpRequest(r) ==
    LET c == Done(r)
    IN  /\ Doing(r, "pump")
        /\ Handles(r,
            CASE c.state = "content" /\ ~c.eof -> Do(c, <<"serve">>)
              [] c.state = "content" /\ c.eof ->
                    EndInput(Do([c EXCEPT !.state = "running"], <<"serve", "run">>))
              [] c.state = "running" -> Do(c, <<"serve", "run">>)
              [] c.state = "finalized" -> Complete(c)
              [] OTHER -> c)

\* processRunning after httpServiceQueues, processCompletion
processRunning(r) ==
    LET c == Done(r)
    IN  /\ Doing(r, "run")
        /\ Handles(r,
            CASE c.state = "finalized" \/ (c.fin /\ c.finConn) -> Complete(c)
              [] c.state = "running" /\ c.fin /\ ~c.finConn ->
                    EnableConn([c EXCEPT !.blocked = TRUE, !.susp = TRUE])
              [] OTHER -> c)

httpAfterEvent(r) ==
    LET c == Done(r)
    IN  /\ Doing(r, "after")
        /\ Handles(r,
            CASE c.state = "complete" /\ c.keep -> [c EXCEPT !.state = "begin"]
              [] c.state = "complete" /\ ~c.keep -> [c EXCEPT !.state = "closed"]
              [] OTHER -> EnableConn(c))

-----------------------------------------------------------------------------
(* The request is started, and its connection has events. *)

\* startCgi: the program runs, or cannot be found.
startCgi(c, script) ==
    [c EXCEPT !.script = script, !.proc = "running", !.pid = TRUE, !.listed = TRUE,
              !.fds = Channels, !.on = Channels]

\* A form is read before the handler is started, other bodies are streamed.
Start(r) ==
    \E s \in Scripts, b \in Bodies :
        LET whole == b.form \/ b.size = 0
            c == [req[r] EXCEPT !.state = IF whole THEN "running" ELSE "content",
                                !.eof = whole, !.body = IF whole THEN 0 ELSE b.size,
                                !.todo = <<"pump", "after">>]
            d == IF b.form THEN Put(c, "cgi", [i \in 1..b.size |-> "b"] \o <<"END">>) ELSE c
        IN  /\ req[r].state = "idle"
            /\ \/ Handles(r, startCgi(d, s))
               \/ "start" \in Faults /\ Handles(r, Error(d, FALSE))

\* An event of the connection can be run.
Waits(r) == req[r].state \in {"content", "running"} /\ req[r].todo = <<>>

\* readEvent, processContent
ReadBody(r) ==
    LET c == req[r]
        d == [c EXCEPT !.watch = {}, !.body = @ - 1, !.eof = c.body = 1,
                       !.todo = <<"pump", "after">>]
    IN  /\ Waits(r) /\ c.state = "content" /\ "r" \in c.watch
        /\ c.body > 0 /\ ~c.gone
        /\ Handles(r, IF c.fin THEN d ELSE Put(d, "cgi", <<"b">>))

\* The client has closed the connection.
ReadEof(r) ==
    LET c == req[r]
    IN  /\ Waits(r) /\ c.state = "content" /\ "r" \in c.watch
        /\ c.gone
        /\ Handles(r, Error([c EXCEPT !.watch = {}, !.keep = FALSE, !.eof = TRUE,
                                      !.todo = <<"pump", "after">>], TRUE))

writeEvent(r) ==
    LET c == req[r]
    IN  /\ Waits(r) /\ "w" \in c.watch
        /\ c.room > 0 \/ c.gone
        /\ Handles(r, Schedule([c EXCEPT !.watch = {}, !.blocked = FALSE,
                                         !.todo = <<"serve", "pump", "after">>], "net"))

\* httpConnTimeout, httpDestroyConn
Timeout(r) ==
    /\ "timeout" \in Faults
    /\ Waits(r)
    /\ Handles(r, [closeCgi(req[r]) EXCEPT !.error = TRUE, !.state = "closed"])

-----------------------------------------------------------------------------
(* The program writes, and its death is noticed. *)

\* The other end of the pipe is closed.
Ended(c, ch) == c.proc # "running" \/ (c.closed /\ ch # "in")

Ready(c, ch) ==
    \/ Ended(c, ch)
    \/ IF ch = "in" THEN Len(c.pipe[ch]) < PipeMax ELSE c.pipe[ch] # <<>>

\* stdinCallback, stdoutCallback, stderrCallback
IoEvent(r, ch) ==
    LET c == [Disable(req[r], {ch}) EXCEPT !.channel = ch]
    IN  /\ req[r].todo = <<>>
        /\ ch \in req[r].on
        /\ Ready(req[r], ch)
        /\ Handles(r, IF ch = "in" THEN Do(Schedule(c, "cgi"), <<"respond">>)
                      ELSE Do(IF c.fin THEN CloseFd(c, ch) ELSE c, <<"read", "respond">>))

\* Is the header of the response in what was read so far?
parseCgiHeaders(text) == \E i \in {"head", "rest", "loc"} : Contains(text, i)

\* What is read is part of the header, or goes to the client.  Data on the standard
\* error ends the wait for the header.
Reads(c, ch) ==
    LET i == Head(c.pipe[ch])
        text == Append(c.held, i)
        d == [c EXCEPT !.pipe[ch] = Tail(@)]
        done == [d EXCEPT !.todo = Tail(@)]
    IN  CASE ~c.seen /\ i = "bad" -> Error([done EXCEPT !.held = text], FALSE)
          [] ~c.seen /\ i \notin {"bad", "err"} /\ ~parseCgiHeaders(text) ->
                [done EXCEPT !.held = text]
          [] ~c.seen /\ i # "bad" /\ parseCgiHeaders(text) ->
                [d EXCEPT !.held = <<>>, !.seen = TRUE, !.location = i = "loc"]
          [] OTHER ->
                IF c.finOut THEN [d EXCEPT !.seen = TRUE]
                ELSE Put([d EXCEPT !.seen = TRUE], "write", text)

readFromCgi(r) ==
    LET c == req[r]
        ch == c.channel
    IN  /\ Doing(r, "read")
        /\ Handles(r,
            IF ch \notin c.fds \/ c.fin \/ Count(c.q.write) >= QueueMax THEN Done(r)
            ELSE IF c.pipe[ch] # <<>> THEN Reads(c, ch)
            ELSE IF Ended(c, ch) THEN CloseFd(Done(r), ch) ELSE Done(r))

\* httpRedirect: the response is an alternate body.
Redirect(c) ==
    IF c.fin THEN c ELSE Finalize(Discard([c EXCEPT !.noBody = TRUE]))

\* cgiCallback after the channel was read.
cgiCallback(r) ==
    LET c == Done(r)
        d == [Do(c, <<"serve", "pump", "after">>) EXCEPT !.location = FALSE]
        e == IF c.location THEN Redirect(d) ELSE Finalize(d)
    IN  /\ Doing(r, "respond")
        /\ Handles(r, IF c.complete \/ c.location THEN e ELSE Do(c, <<"serve", "enable">>))

EnableEvents(r) ==
    LET c == IF req[r].channel # "death" /\ req[r].state # "complete" THEN EnableConn(Done(r))
             ELSE Done(r)
        d == IF c.susp THEN Disable(c, Outputs) ELSE Enable(c, Outputs)
    IN  /\ Doing(r, "enable")
        /\ Handles(r, IF d.state = "finalized" THEN Do(d, <<"pump">>) ELSE d)

mprServiceSignals ==
    /\ triggered
    /\ triggered' = FALSE
    /\ events' = IF chain = <<>> THEN events
                 ELSE [events EXCEPT ![chain[1]] = @ + 1]
    /\ UNCHANGED <<req, chain>>

BugReapCmd(c) ==
    LET d == [c EXCEPT !.pid = FALSE, !.listed = FALSE, !.proc = "reaped",
                       !.complete = TRUE]
    IN  IF ~(c.pid /\ c.proc = "exited") THEN c
        ELSE IF c.callback THEN Do([d EXCEPT !.channel = "death"], <<"respond">>) ELSE d

\* reapCmd, for the signal of the death of some child.
reapCmd(c) ==
    LET d == [c EXCEPT !.pid = FALSE, !.listed = FALSE, !.proc = "reaped",
                       !.complete = @ \/ c.eofs >= 2]
    IN  IF ~(c.pid /\ c.proc = "exited") THEN c
        ELSE IF c.callback THEN Do([d EXCEPT !.channel = "death"], <<"respond">>) ELSE d

\* The next handler, if this one is still in the list.
After(r) ==
    {chain[i + 1] : i \in {j \in DOMAIN chain : chain[j] = r /\ j < Len(chain)}}

signalEvent(r) ==
    /\ events[r] > 0
    /\ req[r].todo = <<>>
    /\ Becomes(r, reapCmd(req[r]))
    /\ events' = [s \in Requests |-> IF s = r THEN events[s] - 1
                                     ELSE events[s] + (IF s \in After(r) THEN 1 ELSE 0)]
    /\ UNCHANGED triggered

-----------------------------------------------------------------------------
(* The program and the client. *)

Program(r, c) ==
    /\ req' = [req EXCEPT ![r] = c]
    /\ triggered' = (triggered \/ (c.proc = "exited" /\ req[r].proc = "running"))
    /\ UNCHANGED <<chain, events>>

Running(r) == req[r].proc = "running"

\* Without a reader the program dies.
Write(r) ==
    LET c == req[r]
        i == Head(c.script)
        ch == ChannelOf(i)
    IN  /\ Running(r) /\ c.script # <<>> /\ i \notin {"read", "close"}
        /\ \/ /\ ch \in c.fds /\ Len(c.pipe[ch]) < PipeMax
              /\ Program(r, [c EXCEPT !.script = Tail(@), !.wrote = Append(@, i),
                                      !.pipe[ch] = Append(@, i)])
           \/ /\ ch \notin c.fds
              /\ Program(r, [c EXCEPT !.proc = "exited"])

ReadInput(r) ==
    LET c == req[r]
    IN  /\ Running(r) /\ c.script # <<>> /\ c.script[1] = "read"
        /\ \/ /\ c.pipe["in"] # <<>>
              /\ Program(r, [c EXCEPT !.pipe["in"] = Tail(@)])
           \/ /\ c.pipe["in"] = <<>> /\ "in" \notin c.fds
              /\ Program(r, [c EXCEPT !.script = Tail(@)])

CloseOutputs(r) ==
    /\ Running(r) /\ req[r].script # <<>> /\ req[r].script[1] = "close"
    /\ Program(r, [req[r] EXCEPT !.script = Tail(@), !.closed = TRUE])

Exit(r) ==
    /\ Running(r)
    /\ req[r].script = <<>> \/ req[r].killed
    /\ Program(r, [req[r] EXCEPT !.proc = "exited"])

Client(r, c) ==
    /\ req' = [req EXCEPT ![r] = c]
    /\ UNCHANGED <<chain, triggered, events>>

Live(r) == req[r].state \in {"content", "running", "finalized"}

Receive(r) ==
    /\ Live(r) /\ ~req[r].gone
    /\ req[r].room < RoomMax
    /\ Client(r, [req[r] EXCEPT !.room = @ + 1])

Leave(r) ==
    /\ "gone" \in Faults
    /\ Live(r) /\ ~req[r].gone
    /\ Client(r, [req[r] EXCEPT !.gone = TRUE])

ConnEvent(r) == ReadBody(r) \/ ReadEof(r) \/ writeEvent(r)

\* The event that runs takes its next step.
Step(r) ==
    \/ httpServiceQueues(r) \/ httpDisconnect(r) \/ httpPumpRequest(r)
    \/ processRunning(r) \/ httpAfterEvent(r)
    \/ readFromCgi(r) \/ cgiCallback(r) \/ EnableEvents(r)

ProgramStep(r) == Write(r) \/ ReadInput(r) \/ CloseOutputs(r) \/ Exit(r)

Next ==
    \/ mprServiceSignals
    \/ \E r \in Requests :
        \/ Start(r) \/ ConnEvent(r) \/ signalEvent(r) \/ Step(r) \/ Timeout(r)
        \/ \E ch \in Channels : IoEvent(r, ch)
        \/ ProgramStep(r) \/ Receive(r) \/ Leave(r)

Spec == Init /\ [][Next]_vars

(* The dispatchers run their events, programs run, and clients read and write *)
(* unless they leave.  Nothing makes a client leave, or a request time out.   *)
FairSpec ==
    /\ Spec
    /\ WF_vars(mprServiceSignals)
    /\ \A r \in Requests :
        /\ WF_vars(Step(r)) /\ WF_vars(ProgramStep(r)) /\ WF_vars(Receive(r))
        /\ SF_vars(ConnEvent(r)) /\ SF_vars(signalEvent(r))
        /\ \A ch \in Channels : SF_vars(IoEvent(r, ch))

-----------------------------------------------------------------------------
(* Properties. *)

\* The response is not an error page or a redirection, and it has ended.
Answered(c) == c.state \in {"complete", "begin"} /\ ~c.noBody /\ ~c.error

Text(s, ch) ==
    IF ch = "err" THEN Only(s, {"err"})
    ELSE Without(s, {"err", "HDR", "END", "head", "part", "rest"})

\* A request that ends as it should has sent all that its program wrote after the
\* header, in order, however the ends of the pipes, the death of the program and
\* the waits for the socket were ordered (readFromCgi, cgiCallback, reapCmd).
OutputDelivered ==
    \A r \in Requests : Answered(req[r]) =>
        \A ch \in Outputs : Text(req[r].sent, ch) = Text(req[r].wrote, ch)

\* Such a request has waited for its program, which has done all that it had to
\* do, after its last output too, and leaves no zombie behind (mprCloseCmdFd,
\* reapCmd, closeCgi).
ProgramFinished ==
    \A r \in Requests : Answered(req[r]) =>
        req[r].proc = "reaped" /\ req[r].script = <<>>

\* The death of a program whose command still waits for it will be noticed: a
\* signal is to be serviced, or a signal event will be passed on to its handler
\* ("Signal handlers must then all be invoked", above signalHandler).
DeathIsNoticed ==
    \A r \in Requests : req[r].listed /\ req[r].proc = "exited" =>
        \/ triggered
        \/ \E i, j \in DOMAIN chain : i <= j /\ chain[j] = r /\ events[chain[i]] > 0

\* Every request ends, with no timeout: neither the suspended queue, nor a pipe
\* that is full in either direction, nor the order of death and end of output
\* leaves it waiting (cgiToBrowserService, browserToCgiService, cgiCallback).
EveryRequestEnds ==
    \A r \in Requests : Live(r) ~> ~Live(r)
=============================================================================
