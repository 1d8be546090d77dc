------------------------------ MODULE HttpConn ------------------------------
(***************************************************************************)
(* The life of the server's connections: how they are admitted, read,      *)
(* pumped through the states of a request, prepared for the next request,  *)
(* timed out and destroyed.  Source: deps/http/httpLib.c, the files        *)
(* conn.c, endpoint.c, service.c, rx.c and parts of tx.c.                  *)
(*                                                                         *)
(* Every connection has a dispatcher of its own, which runs its callbacks  *)
(* one at a time: at[c] is where that callback is.  Connections meet the   *)
(* timer in the list of connections, and each other in the counts of the   *)
(* endpoint.  What holds the lock of the list (lock(http->connections)) or *)
(* of the endpoint, and what no other thread sees, is one step.            *)
(*                                                                         *)
(* Data: the bytes of a request are one or two pieces.  "get" has an       *)
(* answer at once, "cgi" when its process ends, "last" asks to close,      *)
(* "errdoc" is answered with an error document, "bad" is malformed; a      *)
(* "part" of a head is completed by "rest"; "put" and "form" are followed  *)
(* by a "body", which a form waits for before it is routed.  The clock is  *)
(* abstract: at every pass of the timer a connection may have expired.     *)
(***************************************************************************)
EXTENDS Integers, FiniteSets, SequencesExt

CONSTANTS
    Conns,          \* places for connections
    IPs,            \* addresses of clients
    Kinds,          \* the requests clients send
    ClientMax,      \* limits->clientMax
    PerClientMax,   \* limits->requestsPerClientMax
    RequestMax,     \* limits->requestMax
    KeepAliveMax,   \* limits->keepAliveMax
    MaxSends,       \* bound: pieces a client sends on one connection
    MaxQueued       \* bound: events queued before the socket is looked at again

ASSUME HttpConnAssumption ==
    /\ {ClientMax, PerClientMax, RequestMax, KeepAliveMax, MaxSends} \subseteq Nat
    /\ IsFiniteSet(Conns) /\ IPs # {}
    /\ Kinds \subseteq {"get", "cgi", "last", "errdoc", "bad", "part", "put", "form"}

VARIABLES
    at,             \* where the callback of each connection is
    conn,           \* the HttpConn with its rx and tx; its field "left" is a history: the
                    \* last lines of cgiCallback have completed the request
    ev,             \* what remains to be done of the event that runs
    evq,            \* the events queued on its dispatcher
    mask,           \* sock->handler->desiredMask
    toSet,          \* conn->timeoutEvent # 0
    wire,           \* what the client has sent and the server has not read
    client,         \* the client: has it closed, its last piece, how many it sent
    listed,         \* http->connections
    timer,          \* http->timer # 0, its event is active
    tpc, tleft, tnote, tactive,     \* httpTimer: where it is, whom it will visit, whose
                                    \* event it has to note, active > 0
    activeRequests, clientLoad      \* of the endpoint

connVars  == <<at, conn, ev>>
eventVars == <<evq, mask, toSet>>
peerVars  == <<wire, client>>
timerVars == <<timer, tpc, tleft, tnote, tactive>>
countVars == <<activeRequests, clientLoad>>
vars == <<connVars, eventVars, peerVars, listed, timerVars, countVars>>

Follow(p)  == CASE p = "part" -> {"rest"} [] p \in {"put", "form"} -> {"body"} [] OTHER -> Kinds
Garbage    == {"bad", "junk", "rest", "body"}       \* where a head should be
Pieces     == Kinds \cup {"rest", "body", "junk", "get"}
HasBody(k) == k \in {"put", "form"}

BeforeParsed == {"begin", "connected"}              \* states below HTTP_STATE_PARSED
Between      == BeforeParsed \cup {"complete"}
States       == Between \cup {"parsed", "content", "ready", "running", "finalized"}

NewConn(ip) ==
    [ip |-> ip, endpoint |-> TRUE, state |-> "begin", kind |-> "none", keep |-> KeepAliveMax,
     connError |-> FALSE, sockEof |-> FALSE, eof |-> FALSE, out |-> "none", blocked |-> FALSE,
     opened |-> FALSE, work |-> FALSE, left |-> FALSE, input |-> <<>>]

NewClient == [closed |-> FALSE, last |-> "none", sent |-> 0]

Init ==
    /\ at = [c \in Conns |-> "free"]
    /\ conn \in [Conns -> {NewConn(CHOOSE i \in IPs : TRUE)}]
    /\ ev = [c \in Conns |-> {}]
    /\ evq = [c \in Conns |-> <<>>]
    /\ mask = [c \in Conns |-> {}]
    /\ toSet = [c \in Conns |-> FALSE]
    /\ wire = [c \in Conns |-> <<>>]
    /\ client = [c \in Conns |-> NewClient]
    /\ listed = {} /\ timer = FALSE
    /\ tpc = "off" /\ tleft = {} /\ tnote = {} /\ tactive = FALSE
    /\ activeRequests = 0
    /\ clientLoad = [i \in IPs |-> 0]

-----------------------------------------------------------------------------
(* Accepting.  The event of the listening socket brings a new dispatcher.  *)

(* Operators named Bug... are plausible mistakes in the definition below them.  *)
(* No specification uses them: they show that the properties notice.           *)

BugListUnlocked == TRUE
ListUnlocked == tpc = "off"

\* httpAcceptConn, httpCreateConn and the first half of httpAddConn.
Accept(c, ip) ==
    /\ at[c] = "free" /\ ListUnlocked
    /\ conn' = [conn EXCEPT ![c] = NewConn(ip)]
    /\ client' = [client EXCEPT ![c] = NewClient]
    /\ listed' = listed \cup {c}
    /\ at' = [at EXCEPT ![c] = "timer"]
    /\ UNCHANGED <<ev, eventVars, wire, timerVars, countVars>>

\* The rest of httpAddConn, under lock(http).
StartTimer(c) ==
    /\ at[c] = "timer"
    /\ timer' = TRUE
    /\ at' = [at EXCEPT ![c] = "admit"]
    /\ UNCHANGED <<conn, ev, eventVars, peerVars, listed, tpc, tleft, tnote, tactive, countVars>>

activeClients == Cardinality({i \in IPs : clientLoad[i] > 0})

Admissible(ip) == activeClients < ClientMax /\ clientLoad[ip] < PerClientMax

\* acceptConn: HTTP_VALIDATE_OPEN_CONN, and the first read.
Admit(c) ==
    /\ at[c] = "admit"
    /\ IF Admissible(conn[c].ip)
         THEN /\ clientLoad' = [clientLoad EXCEPT ![conn[c].ip] = @ + 1]
              /\ conn' = [conn EXCEPT ![c].state = "connected"]
              /\ ev' = [ev EXCEPT ![c] = {"R"}]
              /\ at' = [at EXCEPT ![c] = "read"]
         ELSE /\ conn' = [conn EXCEPT ![c].endpoint = FALSE, ![c].keep = -1, ![c].connError = TRUE]
              /\ at' = [at EXCEPT ![c] = "unlist"]
              /\ UNCHANGED <<ev, clientLoad>>
    /\ UNCHANGED <<eventVars, peerVars, listed, timerVars, activeRequests>>

-----------------------------------------------------------------------------
(* The socket, and the start of a callback. *)

BugWaitMask(r) == IF r.eof THEN {} ELSE {"R"}

\* httpEnableConnEvents: the events a connection needs to make progress.
WaitMask(r) == (IF r.blocked THEN {"W"} ELSE {}) \cup (IF r.eof THEN {} ELSE {"R"})

\* serviceIO: what the socket is ready for is queued as one event, and the
\* mask is cleared.  A blocked socket may have drained.
Notify(c) ==
    /\ Len(evq[c]) < MaxQueued
    /\ \E drained \in SUBSET {"W"} :
         LET readable == IF wire[c] # <<>> \/ client[c].closed THEN {"R"} ELSE {}
             present  == mask[c] \cap (readable \cup drained)
         IN  /\ present # {}
             /\ evq' = [evq EXCEPT ![c] = Append(@, present)]
    /\ mask' = [mask EXCEPT ![c] = {}]
    /\ UNCHANGED <<connVars, toSet, peerVars, listed, timerVars, countVars>>

\* The dispatcher takes its next event.
Begins(c, kinds) == at[c] = "rest" /\ evq[c] # <<>> /\ Head(evq[c]) \subseteq kinds

\* httpEvent up to the reading: writeEvent only unblocks and pumps.
IoEvent(c) ==
    /\ Begins(c, {"R", "W"})
    /\ LET e == Head(evq[c])
           pumps == "W" \in e /\ conn[c].state \notin BeforeParsed
       IN  /\ ev' = [ev EXCEPT ![c] = e]
           /\ conn' = [conn EXCEPT ![c].blocked = @ /\ "W" \notin e]
           /\ at' = [at EXCEPT ![c] = IF pumps THEN "pump"
                                      ELSE IF "R" \in e THEN "read" ELSE "after"]
    /\ evq' = [evq EXCEPT ![c] = Tail(@)]
    /\ UNCHANGED <<mask, toSet, peerVars, listed, timerVars, countVars>>

\* readEvent up to the pumping.
Read(c) ==
    /\ at[c] = "read"
    /\ \/ /\ wire[c] # <<>>
          /\ conn' = [conn EXCEPT ![c].input = @ \o wire[c]]
          /\ wire' = [wire EXCEPT ![c] = <<>>]
          /\ at' = [at EXCEPT ![c] = "readPump"]
       \/ /\ wire[c] = <<>> /\ client[c].closed
          /\ conn' = [conn EXCEPT ![c].keep = -1, ![c].sockEof = TRUE]
          /\ at' = [at EXCEPT ![c] = IF conn[c].state \in Between THEN "after" ELSE "readPump"]
          /\ UNCHANGED wire
       \/ /\ wire[c] = <<>> /\ ~client[c].closed
          /\ at' = [at EXCEPT ![c] = "after"]
          /\ UNCHANGED <<conn, wire>>
    /\ UNCHANGED <<ev, eventVars, client, listed, timerVars, countVars>>

-----------------------------------------------------------------------------
(* httpPumpRequest, a step for each state. *)

InState(c, states) == at[c] \in {"pump", "readPump", "tail"} /\ conn[c].state \in states

\* Where the callback goes on when the pump returns.  Nothing follows the pump in
\* the last lines of cgiCallback.
Return(c) ==
    at' = [at EXCEPT ![c] = CASE @ = "tail" -> "rest"
                              [] @ = "pump" /\ "R" \in ev[c] -> "read"
                              [] OTHER -> "after"]

PumpUnchanged == UNCHANGED <<ev, peerVars, listed, timerVars>>

\* httpFinalize, and the headers that go out with the response.  A count below
\* zero already says that the connection ends.
Finalize(r) == [r EXCEPT !.out = "final", !.keep = IF @ < 0 THEN @ ELSE @ - 1]

\* httpError with HTTP_ABORT, and httpDisconnect.
Abort(r) == [r EXCEPT !.connError = TRUE, !.keep = -1, !.eof = TRUE, !.out = "done"]

\* A head is complete when the blank line is there.
HasHead(s)   == s # <<>> /\ s # <<"part">>
HeadOf(s)    == IF Head(s) = "part" THEN "get" ELSE Head(s)
AfterHead(s) == IF Head(s) = "part" THEN Tail(Tail(s)) ELSE Tail(s)

BugRequestAdmissible == activeRequests <= RequestMax
RequestAdmissible == activeRequests < RequestMax

\* parseIncoming.  The limit of requests is checked with the first line; a
\* request refused there is answered, but the rest of its head is not parsed and
\* stays in the input.
Parse(c) ==
    /\ InState(c, BeforeParsed)
    /\ LET r == conn[c]
           opens == HasHead(r.input) /\ RequestAdmissible
           p == [r EXCEPT !.opened = opens, !.input = AfterHead(@)]
       IN  /\ activeRequests' = activeRequests + (IF opens THEN 1 ELSE 0)
           /\ \/ /\ ~HasHead(r.input)
                 /\ Return(c) /\ UNCHANGED conn
              \/ /\ HasHead(r.input) /\ HeadOf(r.input) \in Garbage
                 /\ conn' = [conn EXCEPT ![c] = Abort(p)]
                 /\ Return(c)
              \/ /\ HasHead(r.input) /\ HeadOf(r.input) \notin Garbage
                 /\ conn' = [conn EXCEPT ![c] =
                      IF opens
                        THEN [p EXCEPT !.state = "parsed", !.kind = HeadOf(r.input),
                                       !.keep = IF HeadOf(r.input) = "last" THEN 0 ELSE @]
                        ELSE Finalize([p EXCEPT !.state = "parsed", !.kind = "refused",
                                                !.input = <<"junk">> \o @])]
                 /\ UNCHANGED at
    /\ PumpUnchanged /\ UNCHANGED <<eventVars, clientLoad>>

\* processParsed, with the start of the handler.
Route(c) ==
    /\ InState(c, {"parsed"})
    /\ conn' = [conn EXCEPT ![c] =
         [@ EXCEPT !.state = IF HasBody(conn[c].kind) THEN "content" ELSE "ready",
                   !.eof = ~HasBody(conn[c].kind),
                   !.work = conn[c].kind = "cgi"]]
    /\ UNCHANGED at
    /\ PumpUnchanged /\ UNCHANGED <<eventVars, countVars>>

\* processContent.  The body may still be on its way, or never come.
Content(c) ==
    /\ InState(c, {"content"})
    /\ LET r == conn[c] IN
       \/ /\ r.input # <<>>
          /\ conn' = [conn EXCEPT ![c] = [r EXCEPT !.input = Tail(@), !.eof = TRUE, !.state = "ready"]]
          /\ UNCHANGED at
       \/ /\ r.input = <<>> /\ r.sockEof
          /\ conn' = [conn EXCEPT ![c] = [Abort(r) EXCEPT !.state = "ready"]]
          /\ UNCHANGED at
       \/ /\ r.input = <<>> /\ ~r.sockEof
          /\ Return(c) /\ UNCHANGED conn
    /\ PumpUnchanged /\ UNCHANGED <<eventVars, countVars>>

\* processReady.  A handler without a process answers now; an error document
\* caps the output without sending any.
Ready(c) ==
    /\ InState(c, {"ready"})
    /\ conn' = [conn EXCEPT ![c] =
         LET r == [conn[c] EXCEPT !.state = "running"] IN
         CASE r.out # "none" \/ r.kind = "cgi" -> r
           [] r.out = "none" /\ r.kind = "errdoc" -> [r EXCEPT !.out = "done"]
           [] OTHER -> Finalize(r)]
    /\ UNCHANGED at
    /\ PumpUnchanged /\ UNCHANGED <<eventVars, countVars>>

\* processRunning, with the writing of netOutgoingService: all is written, or
\* the socket is full, or the client is gone.  Before the end of the answer there
\* is something to write when the socket has been full.
Running(c) ==
    /\ InState(c, {"running"})
    /\ LET r == conn[c]
           writes == r.out = "final" \/ (r.out = "none" /\ at[c] = "pump" /\ "W" \in ev[c])
       IN
       \/ /\ r.out = "none"
          /\ Return(c) /\ UNCHANGED <<conn, mask>>
       \/ /\ r.out \in {"final", "done"}
          /\ conn' = [conn EXCEPT ![c].out = "done", ![c].state = "finalized"]
          /\ UNCHANGED <<at, mask>>
       \/ /\ writes /\ client[c].closed
          /\ conn' = [conn EXCEPT ![c] = [Abort(@) EXCEPT !.state = "finalized"]]
          /\ UNCHANGED <<at, mask>>
       \/ /\ writes
          /\ conn' = [conn EXCEPT ![c].blocked = TRUE]
          /\ mask' = [mask EXCEPT ![c] = WaitMask(conn'[c])]
          /\ Return(c)
    /\ PumpUnchanged /\ UNCHANGED <<evq, toSet, countVars>>

BugCloseRequest(c) == activeRequests' = activeRequests - 1

\* HTTP_VALIDATE_CLOSE_REQUEST
CloseRequest(c) == activeRequests' = activeRequests - (IF conn[c].opened THEN 1 ELSE 0)

\* The queue without an event that is taken back.
Without(q, e) == IF e \in ToSet(q) THEN RemoveAt(q, CHOOSE i \in DOMAIN q : q[i] = e) ELSE q

\* processCompletion.  closeCgi takes the callback from the command, so that an
\* end which is queued has no effect.  createErrorRequest starts over with a
\* request of its own.
Complete(c) ==
    /\ InState(c, {"finalized"})
    /\ CloseRequest(c)
    /\ evq' = [evq EXCEPT ![c] = Without(@, {"done"})]
    /\ conn' = [conn EXCEPT ![c] =
         LET r == [conn[c] EXCEPT !.opened = FALSE, !.work = FALSE] IN
         IF r.kind = "errdoc" /\ ~r.connError
           THEN [r EXCEPT !.state = "connected", !.kind = "none", !.out = "none",
                          !.eof = FALSE, !.input = <<"get">>]
           ELSE [r EXCEPT !.state = "complete"]]
    /\ UNCHANGED at
    /\ PumpUnchanged /\ UNCHANGED <<mask, toSet, clientLoad>>

\* prepForNext and commonPrep: rx and tx are dropped, and a timeout that is
\* under way is taken back.
Prepared(r) == [r EXCEPT !.state = "begin", !.kind = "none", !.eof = FALSE, !.out = "none",
                         !.blocked = FALSE, !.opened = FALSE, !.left = FALSE]

BugRevokeTimeout(c) ==
    /\ toSet' = toSet
    /\ evq' = IF toSet[c] THEN [evq EXCEPT ![c] = Without(@, {"timeout"})] ELSE evq

RevokeTimeout(c) ==
    /\ toSet' = [toSet EXCEPT ![c] = FALSE]
    /\ evq' = IF toSet[c] THEN [evq EXCEPT ![c] = Without(@, {"timeout"})] ELSE evq

\* The end of the pump.  Only readEvent goes on with the next request at once.
PumpEnds(c) ==
    /\ InState(c, {"complete"})
    /\ \/ /\ at[c] = "readPump" /\ ~conn[c].connError
          /\ conn' = [conn EXCEPT ![c] = Prepared(@)]
          /\ RevokeTimeout(c)
          /\ at' = [at EXCEPT ![c] = IF conn[c].input # <<>> THEN @ ELSE "after"]
       \/ /\ at[c] # "readPump" \/ conn[c].connError
          /\ Return(c)
          /\ UNCHANGED <<conn, evq, toSet>>
    /\ PumpUnchanged /\ UNCHANGED <<mask, countVars>>

BugEnds(r) == r.keep < 0 /\ r.state = "complete"

\* Whether httpAfterEvent destroys the connection.
Ends(r) == r.keep < 0 /\ r.state \in Between

\* httpAfterEvent, with httpEnableConnEvents.
After(c) ==
    /\ at[c] = "after"
    /\ \/ /\ Ends(conn[c])
          /\ at' = [at EXCEPT ![c] = "unlist"]
          /\ UNCHANGED <<conn, eventVars>>
       \/ /\ ~Ends(conn[c])
          /\ IF conn[c].state = "complete"
               THEN conn' = [conn EXCEPT ![c] = Prepared(@)] /\ RevokeTimeout(c)
               ELSE UNCHANGED <<conn, evq, toSet>>
          /\ mask' = [mask EXCEPT ![c] = WaitMask(conn'[c])]
          /\ at' = [at EXCEPT ![c] = "rest"]
    /\ ev' = [ev EXCEPT ![c] = {}]
    /\ UNCHANGED <<peerVars, listed, timerVars, countVars>>

-----------------------------------------------------------------------------
(* The process of a CGI request. *)

CgiExits(c) ==
    /\ conn[c].work
    /\ conn' = [conn EXCEPT ![c].work = FALSE]
    /\ evq' = [evq EXCEPT ![c] = Append(@, {"done"})]
    /\ UNCHANGED <<at, ev, mask, toSet, peerVars, listed, timerVars, countVars>>

\* What the output of the program makes of the answer: more of it, an error, or an
\* error that an error document answers.  Once a part is written that has blocked,
\* the headers are out and errors are found no more.
CgiAnswers(r) ==
    IF r.out = "none" /\ ~r.blocked
      THEN {r, Finalize(r), [r EXCEPT !.kind = "errdoc", !.out = "done"]}
      ELSE {r}

\* cgiCallback for the output and the input of the command: the answer is written
\* as far as the socket takes it.  The last lines pump a request that this has
\* finalized, and no httpAfterEvent follows.
CgiOutput(c) ==
    /\ at[c] = "rest" /\ conn[c].work
    /\ \E r \in CgiAnswers(conn[c]) :
       \/ /\ r.out # "final"
          /\ conn' = [conn EXCEPT ![c] = r]
          /\ UNCHANGED at
       \/ /\ r.out # "done"
          /\ conn' = [conn EXCEPT ![c] = [r EXCEPT !.blocked = TRUE]]
          /\ UNCHANGED at
       \/ /\ r.out = "final"
          /\ conn' = [conn EXCEPT ![c] = [r EXCEPT !.out = "done", !.state = "finalized", !.left = TRUE]]
          /\ at' = [at EXCEPT ![c] = "tail"]
       \/ /\ r.out # "done" /\ client[c].closed
          /\ conn' = [conn EXCEPT ![c] = [Abort(r) EXCEPT !.state = "finalized", !.left = TRUE]]
          /\ at' = [at EXCEPT ![c] = "tail"]
    /\ mask' = [mask EXCEPT ![c] = WaitMask(conn'[c])]
    /\ UNCHANGED <<ev, evq, toSet, peerVars, listed, timerVars, countVars>>

\* The program has asked for a redirection, which ends the answer at once.
CgiRedirect(c) ==
    /\ at[c] = "rest" /\ conn[c].work /\ conn[c].out = "none" /\ ~conn[c].blocked
    /\ conn' = [conn EXCEPT ![c] = Finalize(@)]
    /\ ev' = [ev EXCEPT ![c] = {"done"}]
    /\ at' = [at EXCEPT ![c] = "pump"]
    /\ UNCHANGED <<eventVars, peerVars, listed, timerVars, countVars>>

\* cgiCallback for the end of the command.
CgiEvent(c) ==
    /\ Begins(c, {"done"})
    /\ conn' = [conn EXCEPT ![c] = IF @.out = "none" THEN Finalize(@) ELSE @]
    /\ ev' = [ev EXCEPT ![c] = {"done"}]
    /\ at' = [at EXCEPT ![c] = "pump"]
    /\ evq' = [evq EXCEPT ![c] = Tail(@)]
    /\ UNCHANGED <<mask, toSet, peerVars, listed, timerVars, countVars>>

-----------------------------------------------------------------------------
(* The end of a connection: httpConnTimeout and httpDestroyConn. *)

TimeoutEvent(c) ==
    /\ Begins(c, {"timeout"})
    /\ at' = [at EXCEPT ![c] = "unlist"]
    /\ evq' = [evq EXCEPT ![c] = Tail(@)]
    /\ UNCHANGED <<conn, ev, mask, toSet, peerVars, listed, timerVars, countVars>>

Unlist(c) ==
    /\ at[c] = "unlist" /\ ListUnlocked
    /\ listed' = listed \ {c}
    /\ at' = [at EXCEPT ![c] = IF conn[c].endpoint THEN "release" ELSE "close"]
    /\ UNCHANGED <<conn, ev, eventVars, peerVars, timerVars, countVars>>

ReleaseRequest(c) ==
    /\ at[c] = "release"
    /\ CloseRequest(c)
    /\ conn' = [conn EXCEPT ![c].opened = FALSE]
    /\ at' = [at EXCEPT ![c] = "uncount"]
    /\ UNCHANGED <<ev, eventVars, peerVars, listed, timerVars, clientLoad>>

\* HTTP_VALIDATE_CLOSE_CONN
ReleaseConn(c) ==
    /\ at[c] = "uncount"
    /\ clientLoad' = [clientLoad EXCEPT ![conn[c].ip] = IF @ > 1 THEN @ - 1 ELSE 0]
    /\ at' = [at EXCEPT ![c] = "close"]
    /\ UNCHANGED <<conn, ev, eventVars, peerVars, listed, timerVars, activeRequests>>

\* The socket and its handler go, and mprDisableDispatcher drops all events.
Close(c) ==
    /\ at[c] = "close"
    /\ at' = [at EXCEPT ![c] = "free"]
    /\ conn' = [conn EXCEPT ![c] = NewConn(CHOOSE i \in IPs : TRUE)]
    /\ client' = [client EXCEPT ![c] = NewClient]
    /\ ev' = [ev EXCEPT ![c] = {}]
    /\ evq' = [evq EXCEPT ![c] = <<>>]
    /\ mask' = [mask EXCEPT ![c] = {}]
    /\ toSet' = [toSet EXCEPT ![c] = FALSE]
    /\ wire' = [wire EXCEPT ![c] = <<>>]
    /\ UNCHANGED <<listed, timerVars, countVars>>

-----------------------------------------------------------------------------
(* httpTimer holds the lock of the list throughout. *)

TimerBegin ==
    /\ timer /\ tpc = "off"
    /\ tpc' = "scan" /\ tleft' = listed /\ tactive' = (listed # {})
    /\ UNCHANGED <<connVars, eventVars, peerVars, listed, timer, tnote, countVars>>

TimerPasses(c) ==
    /\ tpc = "scan" /\ tnote = {} /\ c \in tleft
    /\ tleft' = tleft \ {c}
    /\ UNCHANGED <<connVars, eventVars, peerVars, listed, timer, tpc, tnote, tactive, countVars>>

\* The connection has expired: its event is queued, and then noted.
TimerExpires(c) ==
    /\ tpc = "scan" /\ tnote = {} /\ c \in tleft /\ ~toSet[c]
    /\ evq' = [evq EXCEPT ![c] = Append(@, {"timeout"})]
    /\ tnote' = {c} /\ tleft' = tleft \ {c}
    /\ UNCHANGED <<connVars, mask, toSet, peerVars, listed, timer, tpc, tactive, countVars>>

TimerNotes(c) ==
    /\ c \in tnote
    /\ toSet' = [toSet EXCEPT ![c] = TRUE]
    /\ tnote' = {}
    /\ UNCHANGED <<connVars, evq, mask, peerVars, listed, timer, tpc, tleft, tactive, countVars>>

\* Without connections the timer goes to sleep.
TimerEnd ==
    /\ tpc = "scan" /\ tleft = {} /\ tnote = {}
    /\ timer' = tactive
    /\ tpc' = "off" /\ tactive' = FALSE
    /\ UNCHANGED <<connVars, eventVars, peerVars, listed, tleft, tnote, countVars>>

-----------------------------------------------------------------------------
(* Clients. *)

Connected(c) == at[c] \notin {"free", "close"} /\ ~client[c].closed

Send(c, p) ==
    /\ Connected(c) /\ client[c].sent < MaxSends
    /\ p \in Follow(client[c].last)
    /\ client' = [client EXCEPT ![c].last = p, ![c].sent = @ + 1]
    /\ wire' = [wire EXCEPT ![c] = Append(@, p)]
    /\ UNCHANGED <<connVars, eventVars, listed, timerVars, countVars>>

ClientCloses(c) ==
    /\ Connected(c)
    /\ client' = [client EXCEPT ![c].closed = TRUE]
    /\ UNCHANGED <<connVars, eventVars, wire, listed, timerVars, countVars>>

-----------------------------------------------------------------------------

PumpStep(c) ==
    Parse(c) \/ Route(c) \/ Content(c) \/ Ready(c) \/ Running(c) \/ Complete(c) \/ PumpEnds(c)

\* The steps of the connection's own callbacks.
ConnStep(c) ==
    \/ StartTimer(c) \/ Admit(c)
    \/ IoEvent(c) \/ CgiEvent(c) \/ TimeoutEvent(c)
    \/ Read(c) \/ PumpStep(c) \/ After(c)
    \/ Unlist(c) \/ ReleaseRequest(c) \/ ReleaseConn(c) \/ Close(c)

TimerStep == TimerBegin \/ TimerEnd \/ \E c \in Conns : TimerPasses(c) \/ TimerExpires(c) \/ TimerNotes(c)

ClientStep(c) ==
    \/ \E ip \in IPs : Accept(c, ip)
    \/ \E p \in Pieces : Send(c, p)
    \/ ClientCloses(c)

\* What the program does, when it likes.
CgiStep(c) == CgiExits(c) \/ CgiOutput(c) \/ CgiRedirect(c)

Next == TimerStep \/ \E c \in Conns : ConnStep(c) \/ ClientStep(c) \/ Notify(c) \/ CgiStep(c)

Spec == Init /\ [][Next]_vars

\* Threads run, a lock that is free now and again is had in the end, and every
\* connection outlives its request timeout, which nothing resets.
Fairness ==
    /\ WF_vars(TimerStep)
    /\ \A c \in Conns : /\ WF_vars(ConnStep(c))
                        /\ SF_vars(Unlist(c))
                        /\ SF_vars(TimerExpires(c))

FairSpec == Spec /\ Fairness

-----------------------------------------------------------------------------
(* Properties. *)

Places == {"free", "timer", "admit", "rest", "read", "readPump", "pump", "tail", "after",
           "unlist", "release", "uncount", "close"}

ConnType ==
    [ip : IPs, endpoint : BOOLEAN, state : States,
     kind : Kinds \cup {"none", "refused", "get", "errdoc"}, keep : -1 .. KeepAliveMax,
     connError : BOOLEAN, sockEof : BOOLEAN, eof : BOOLEAN, out : {"none", "final", "done"},
     blocked : BOOLEAN, opened : BOOLEAN, work : BOOLEAN, left : BOOLEAN, input : Seq(Pieces)]

EventType == {{"R"}, {"W"}, {"R", "W"}, {"done"}, {"timeout"}}

\* The types of the variables: no count of the endpoint goes below zero, and no
\* count of keep-alives below -1.
TypeOK ==
    /\ at \in [Conns -> Places]
    /\ conn \in [Conns -> ConnType]
    /\ ev \in [Conns -> EventType \cup {{}}]
    /\ evq \in [Conns -> Seq(EventType)]
    /\ mask \in [Conns -> SUBSET {"R", "W"}]
    /\ toSet \in [Conns -> BOOLEAN]
    /\ wire \in [Conns -> Seq(Pieces)]
    /\ client \in [Conns -> [closed : BOOLEAN, last : Pieces \cup {"none"}, sent : 0 .. MaxSends]]
    /\ listed \subseteq Conns
    /\ timer \in BOOLEAN /\ tactive \in BOOLEAN
    /\ tpc \in {"off", "scan"} /\ tleft \subseteq Conns /\ tnote \subseteq Conns
    /\ activeRequests \in Nat
    /\ clientLoad \in [IPs -> Nat]

\* However connections are admitted and destroyed at the same time, no limit of
\* the endpoint is exceeded: httpValidateLimits tests and counts under one lock.
LimitsRespected ==
    /\ activeRequests <= RequestMax
    /\ activeClients <= ClientMax
    /\ \A ip \in IPs : clientLoad[ip] <= PerClientMax

\* The connection has been counted by HTTP_VALIDATE_OPEN_CONN and not discounted.
Counted(c) == at[c] \notin {"free", "timer", "admit", "close"} /\ conn[c].endpoint

\* The endpoint's counts are those of the connections there are: each request
\* and each connection counted is discounted exactly once, whether it completes,
\* is refused, aborted, answered with an error document, or timed out.
CountsBalance ==
    /\ activeRequests = Cardinality({c \in Conns : conn[c].opened})
    /\ \A ip \in IPs : clientLoad[ip] = Cardinality({c \in Conns : Counted(c) /\ conn[c].ip = ip})

\* A connection in the list is watched by the timer, or about to start it:
\* httpTimer gives up only when there is none, and a connection that comes
\* meanwhile starts it again.
TimerCovers == \A c \in listed : timer \/ at[c] = "timer"

\* A connection the timer visits is not deleted under its hands ("Because we lock
\* the http here, connections cannot be deleted while we are modifying the list").
VisitedAreListed == tleft \cup tnote \subseteq listed

\* A connection whose timeoutEvent is set has that event to come, or is on its
\* way out.  A stale pointer would keep the timer off the connection for ever.
TimeoutPending ==
    \A c \in Conns : toSet[c] =>
        \/ \E i \in 1 .. Len(evq[c]) : evq[c][i] = {"timeout"}
        \/ at[c] \in {"unlist", "release", "uncount", "close"}

\* Nothing runs for the connection and nothing is queued.
Quiet(c) == at[c] = "rest" /\ evq[c] = <<>>

\* A connection never sleeps deaf: it listens for what the state of its request
\* needs next, or a process works for it.  A request that the last lines of
\* cgiCallback have completed is excepted: its connection listens for nothing until
\* its timeout, which EveryConnEnds covers.
NeverDeaf ==
    \A c \in Conns : Quiet(c) =>
        \/ conn[c].state \in BeforeParsed \cup {"content"} /\ "R" \in mask[c]
        \/ conn[c].state = "running" /\ conn[c].out = "final" /\ "W" \in mask[c]
        \/ conn[c].state = "running" /\ conn[c].work
        \/ conn[c].state = "complete" /\ conn[c].left

\* A connection that is to be closed sleeps only in the middle of a request: once
\* the client is gone or the last response is out, httpAfterEvent destroys it.  It
\* does so whether the event of the socket, the end of the CGI process or its
\* redirection has completed the request; when the last lines of cgiCallback have,
\* with the output of the process, the connection is left to its timeout.
ClosesWhenDue ==
    \A c \in Conns :
        at[c] = "rest" /\ conn[c].keep < 0 => conn[c].state \notin Between \/ conn[c].left

\* Every connection ends, whatever its client and its handler do.
EveryConnEnds == \A c \in Conns : at[c] # "free" ~> at[c] = "free"
=============================================================================
