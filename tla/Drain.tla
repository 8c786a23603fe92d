--------------------------------- MODULE Drain ---------------------------------
(***************************************************************************)
(* The gateway as a process that serves: main() and graceful_server of     *)
(* gateway/webspec/__main__.py around uvicorn's server, which is modelled  *)
(* as the code describes and configures it, with the connections of its    *)
(* clients (Caddy, which keeps them open between two calls).               *)
(*                                                                         *)
(* A connection waits in the listening socket's queue until the gateway    *)
(* accepts it.  A request is on the wire for a while, then here, in the    *)
(* kernel, then running once it is read.  Time is counted in units that    *)
(* keep the order of the code's limits.                                    *)
(***************************************************************************)
EXTENDS Naturals, Activation

CONSTANTS
    Conns,          \* the connections that clients make
    Transit,        \* how long a request is on the wire at most
    Grace,          \* ACCEPTED_GRACE_SECONDS
    CallLimit,      \* DEFAULT_TIMEOUT: how long a call runs at most
    StopLimit       \* GRACEFUL_SHUTDOWN_SECONDS

ASSUME DrainAssumption ==
    /\ {Transit, Grace, CallLimit, StopLimit} \subseteq Nat
    /\ 0 < Transit /\ Transit < Grace /\ Grace <= StopLimit
    /\ Transit <= CallLimit /\ CallLimit < StopLimit

VARIABLES
    gw,             \* the gateway's process
    conn            \* the connections

drainVars == <<gw, conn>>

Process ==
    [st: {"none", "starting", "serving", "grace", "closing", "zombie", "reaped"},
     on: [how: {"none", "refused"}] \cup
         [how: {"own", "taken"}, addr: Addresses,
          from: {"none", "systemd", "launchd", "webspec-init", "other", "several"}],
     stopped: BOOLEAN,                          \* by SIGSTOP
     signals: SUBSET {"TERM", "HUP"},           \* sent, and not acted on yet
     left: 0 .. StopLimit,                      \* until the timer of this stage fires
     paused: BOOLEAN]                           \* whether a stop in the drain took time

NoProcess ==
    [st |-> "none", on |-> None, stopped |-> FALSE, signals |-> {}, left |-> 0, paused |-> FALSE]

Connection ==
    [at: {"none", "queued", "open", "fin", "closed"},   \* fin: closed, and the client is not told yet
     req: {"none", "wire", "here", "running", "lost"},
     age: 0 .. CallLimit,           \* how long the request is on the wire, or runs
     endless: BOOLEAN,              \* never answered: a handshake that hangs
     late: BOOLEAN,                 \* sent too late to arrive within the grace
     kept: BOOLEAN,                 \* left open by an answer of the drain
     why: {"none", "idle", "drain", "undrained", "limit", "paused", "killed", "reset", "closed"}]

NoConnection ==
    [at |-> "none", req |-> "none", age |-> 0, endless |-> FALSE, late |-> FALSE, kept |-> FALSE,
     why |-> "none"]

DrainTypeOK == gw \in Process /\ conn \in [Conns -> Connection]

Alive == gw.st \notin {"none", "zombie", "reaped"}
Runs == Alive /\ ~gw.stopped
Stopping == gw.st \in {"grace", "closing"}

DrainInit == gw = NoProcess /\ conn = [c \in Conns |-> NoConnection]

-----------------------------------------------------------------------------
\* What becomes of a connection that this side closes: an unanswered request on it is lost.
Lost(k, why) == [k EXCEPT !.at = "closed", !.req = "lost", !.why = why]
Cut(k, why) == IF k.req = "none" THEN [k EXCEPT !.at = "fin"] ELSE Lost(k, why)

CutAll(cs, why) == [c \in Conns |-> IF c \in cs THEN Cut(conn[c], why) ELSE conn[c]]

At(place) == {c \in Conns : conn[c].at = place}

\* uvicorn's stop closes the connections on which it is not answering a request.
Unread == {c \in At("open") : conn[c].req # "running"}

-----------------------------------------------------------------------------
(* The clients.                                                            *)

Connect(c) ==
    /\ conn[c].at = "none"
    /\ conn' = [conn EXCEPT ![c].at = "queued"]
    /\ UNCHANGED gw

Send(c, endless) ==
    /\ conn[c].req = "none"
    /\ \/ /\ conn[c].at \in {"queued", "open"}
          /\ conn' = [conn EXCEPT ![c].req = "wire", ![c].age = 0, ![c].endless = endless,
                          ![c].late = gw.st = "closing" \/ (gw.st = "grace" /\ gw.left <= Transit)]
       \/ /\ conn[c].at = "fin"
          /\ conn' = [conn EXCEPT ![c] = Lost(@, "closed")]
    /\ UNCHANGED gw

Reaches(c) ==
    /\ conn[c].req = "wire"
    /\ conn' = [conn EXCEPT ![c].req = "here", ![c].age = 0]
    /\ UNCHANGED gw

Learn(c) ==
    /\ conn[c].at = "fin"
    /\ conn' = [conn EXCEPT ![c] = NoConnection]
    /\ UNCHANGED gw

-----------------------------------------------------------------------------
(* The gateway.                                                            *)

\* main(): the key, the socket, then serving.  A failure ends the process, and Start says
\* which addresses it may bind itself.
Main(e, free) ==
    LET on == Start(e, free)
    IN  /\ Runs /\ gw.st = "starting" /\ gw.signals = {}
        /\ gw' = [gw EXCEPT !.on = on, !.st = IF on.how = "refused" THEN "zombie" ELSE "serving"]
        /\ UNCHANGED conn

Accept(c) ==
    /\ Runs /\ gw.st = "serving"
    /\ conn[c].at = "queued"
    /\ conn' = [conn EXCEPT ![c].at = "open"]
    /\ UNCHANGED gw

Read(c) ==
    /\ Runs
    /\ conn[c].at = "open" /\ conn[c].req = "here"
    /\ conn' = [conn EXCEPT ![c].req = "running"]
    /\ UNCHANGED gw

\* Mutant: no Draining, so only uvicorn says it.
SaysCloseAtEnd == gw.st = "closing"

\* Whether the answer that is given now says Connection: close: Draining says so in a stop
\* that drains, and uvicorn from the end of the drain on.
SaysClose == Stopping

Answer(c) ==
    /\ Runs
    /\ conn[c].at = "open" /\ conn[c].req = "running" /\ ~conn[c].endless
    /\ conn' = [conn EXCEPT ![c] =
                   IF SaysClose THEN NoConnection
                   ELSE [NoConnection EXCEPT !.at = "open", !.kept = Stopping]]
    /\ UNCHANGED gw

\* uvicorn's keep-alive timeout, which knows nothing of what is on the wire.
KeepAliveOver(c) ==
    /\ Runs
    /\ conn[c].at = "open" /\ conn[c].req \in {"none", "wire"}
    /\ conn' = [conn EXCEPT ![c] = Cut(@, "idle")]
    /\ UNCHANGED gw

Closing == [gw EXCEPT !.st = "closing", !.left = StopLimit]

\* The server has seen the signal.  On a socket it was passed, it stops accepting and answers
\* for a while what comes on the connections already open; on its own, uvicorn stops at once.
Shutdown ==
    /\ Runs /\ gw.st = "serving" /\ "TERM" \in gw.signals
    /\ \/ /\ gw.on.how = "taken" /\ At("open") # {}
          /\ gw' = [gw EXCEPT !.st = "grace", !.left = Grace]
          /\ UNCHANGED conn
       \/ /\ gw.on.how = "taken" /\ At("open") = {}
          /\ gw' = Closing
          /\ UNCHANGED conn
       \/ /\ gw.on.how = "own"
          /\ gw' = Closing
          /\ conn' = CutAll(Unread, "undrained")

\* The timer and what has arrived are handled in one round of the event loop, what has arrived
\* first.
GraceOver ==
    /\ Runs /\ gw.st = "grace" /\ gw.left = 0
    /\ \A c \in At("open") : conn[c].req # "here"
    /\ gw' = Closing
    /\ conn' = CutAll(Unread, "drain")

Ended == [gw EXCEPT !.st = "zombie", !.stopped = FALSE, !.signals = {}, !.left = 0, !.paused = FALSE]

Exit ==
    /\ Runs /\ gw.st = "closing"
    /\ At("open") = {}
    /\ gw' = Ended
    /\ UNCHANGED conn

\* timeout_graceful_shutdown: what still runs is cancelled.
LimitOver ==
    /\ Runs /\ gw.st = "closing" /\ gw.left = 0
    /\ At("open") # {}
    /\ gw' = Ended
    /\ conn' = CutAll(At("open"), IF gw.paused THEN "paused" ELSE "limit")

\* The process is gone, and its connections with it.
Killed ==
    /\ Alive
    /\ gw' = Ended
    /\ conn' = CutAll(At("open"), "killed")

\* A signal that nothing handles: SIGHUP at any time, SIGTERM before the server runs.
DieOf ==
    /\ Runs
    /\ \/ "HUP" \in gw.signals
       \/ "TERM" \in gw.signals /\ gw.st = "starting"
    /\ Killed

-----------------------------------------------------------------------------
\* Time: nothing is on the wire for longer than Transit, and a gateway that runs ends its
\* calls in time.
MayPass ==
    \A c \in Conns :
        /\ conn[c].req = "wire" => conn[c].age < Transit
        /\ conn[c].req = "running" /\ ~conn[c].endless /\ Runs => conn[c].age < CallLimit

Older(k) ==
    IF \/ k.req = "wire"
       \/ k.req = "running" /\ ~k.endless /\ k.age < CallLimit
    THEN [k EXCEPT !.age = @ + 1]
    ELSE k

Pass ==
    /\ MayPass
    /\ gw' = [gw EXCEPT !.left = IF @ = 0 THEN 0 ELSE @ - 1,
                        !.paused = @ \/ (gw.stopped /\ Stopping)]
    /\ conn' = [c \in Conns |-> Older(conn[c])]
================================================================================
