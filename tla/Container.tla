------------------------------- MODULE Container -------------------------------
(***************************************************************************)
(* Who runs the gateway and holds its port: the container's init           *)
(* (docker/init.py), a service manager (systemd or launchd), or a shell.   *)
(* Composes the init with the gateway (Drain), with the processes that the *)
(* gateway's stdio servers leave behind, which run as its user, and with   *)
(* signals to either.                                                      *)
(*                                                                         *)
(* A deployment is [holder, listen, pid1, dumpable, families, taken, env,  *)
(* world]: who runs the gateway; whether the init is given --listen;       *)
(* whether it is PID 1 ("self") or what PID 1 is ("hidden" or "exposed");  *)
(* whether prctl works; the address families of the host; the addresses    *)
(* that are taken at the port already; the environment that Activation     *)
(* reads; and who else acts: "clients", "strays", "root", "signals".       *)
(***************************************************************************)
EXTENDS Drain

CONSTANTS
    Deployments,
    Strays,         \* the processes that stdio servers leave behind
    EndLimit,       \* END_EVERYONE_ELSE_SECONDS
    MaxSignals      \* bound on the signals that are sent to the gateway and the init

Deployment ==
    [holder: {"init", "systemd", "launchd", "shell"}, listen: BOOLEAN,
     pid1: {"self", "hidden", "exposed"}, dumpable: BOOLEAN, families: SUBSET {4, 6},
     taken: SUBSET Addresses, env: Environments,
     world: SUBSET {"clients", "strays", "root", "signals"}]

\* --listen is an option of the init, and a service manager holds the socket it passes: the unit
\* requires webspec-gateway.socket, and the plist has its Sockets.
ASSUME ContainerAssumption ==
    /\ EndLimit \in Nat /\ MaxSignals \in Nat
    /\ \A d \in Deployments :
        /\ d \in Deployment
        /\ d.listen => d.holder = "init"
        /\ d.holder \in {"systemd", "launchd"} => d.env.passed # <<>>

VARIABLES
    dep,            \* the deployment
    init,           \* the container's init
    bound,          \* the addresses that the init, or the service manager, holds at the port
    stray,          \* the state of each process left behind
    stolen,         \* the addresses at the port that one of them holds
    root,           \* a process of another user in the container
    hits            \* number of signals sent

vars == <<gw, conn, dep, init, bound, stray, stolen, root, hits>>

\* Whether a socket at the one address keeps another from the other, at one port.
Family(a) == IF a \in {"::", "::1", "fd00::5"} THEN 6 ELSE 4
Wildcards == {"0.0.0.0", "::"}
Covers(a, b) == Family(a) = Family(b) /\ (a = b \/ a \in Wildcards)
Conflict(a, b) == Covers(a, b) \/ Covers(b, a)

InUse == dep.taken \cup bound \cup stolen \cup
         (IF gw.st = "serving" /\ gw.on.how = "own" THEN {gw.on.addr} ELSE {})
Free == {a \in Addresses : Family(a) \in dep.families /\ \A b \in InUse : ~Conflict(a, b)}

Managed == dep.holder \in {"systemd", "launchd"}
Listening == bound # {} \/ (gw.st = "serving" /\ gw.on.how = "own")

Init ==
    /\ DrainInit
    /\ dep \in Deployments
    /\ init = [at |-> IF dep.holder = "init" THEN "boot" ELSE "none",
               signals |-> {}, left |-> 0, gaveUp |-> FALSE]
    /\ bound = IF Managed THEN {s.addr : s \in {dep.env.passed[i] : i \in DOMAIN dep.env.passed}} ELSE {}
    /\ stray = [p \in Strays |-> "none"]
    /\ stolen = {}
    /\ root = "none"
    /\ hits = 0

-----------------------------------------------------------------------------
(* The init.                                                               *)

\* The address of the other family that is held together with a wildcard, where there is one.
OtherWildcard(a) ==
    {w \in Wildcards : a \in Wildcards /\ w # a /\ Family(w) \in dep.families}

\* main() and start() up to the fork: refused, or the addresses that it holds.
MayStart == dep.dumpable /\ dep.pid1 # "exposed"
Holding == IF dep.listen THEN {GatewayAddress(dep.env.host)} \cup OtherWildcard(GatewayAddress(dep.env.host))
           ELSE {}

Boot ==
    /\ init.at = "boot"
    /\ IF MayStart /\ Holding \subseteq Free
       THEN /\ init' = [init EXCEPT !.at = "waiting"]
            /\ bound' = Holding
            /\ gw' = [NoProcess EXCEPT !.st = "starting"]
       ELSE /\ init' = [init EXCEPT !.at = "gone"]
            /\ UNCHANGED <<bound, gw>>
    /\ UNCHANGED <<conn, dep, stray, stolen, root, hits>>

\* sigwait takes one of the signals that are pending; each is pending once at most.
TakeSignal(s) ==
    /\ init.at = "waiting" /\ s \in init.signals
    /\ init' = [init EXCEPT !.signals = @ \ {s}, !.at = IF s = "CHLD" THEN "reaping" ELSE @]
    /\ gw' = IF s # "CHLD" /\ Alive THEN [gw EXCEPT !.signals = @ \cup {s}] ELSE gw
    /\ UNCHANGED <<conn, dep, bound, stray, stolen, root, hits>>

\* waitpid(-1, WNOHANG | WUNTRACED), until nothing is left to report.
ReapGateway ==
    /\ gw.st = "zombie"
    /\ gw' = [gw EXCEPT !.st = "reaped"]
    /\ UNCHANGED <<init, stray>>

Continue ==
    /\ gw.stopped
    /\ gw' = [gw EXCEPT !.stopped = FALSE]
    /\ init' = [init EXCEPT !.signals = @ \cup {"CHLD"}]
    /\ UNCHANGED stray

\* Mutant: an orphan ends the loop over what one SIGCHLD stands for.
ReapStrayAlone(p) ==
    /\ stray[p] = "zombie"
    /\ stray' = [stray EXCEPT ![p] = "gone"]
    /\ init' = [init EXCEPT !.at = "waiting"]
    /\ UNCHANGED gw

ReapStray(p) ==
    /\ stray[p] = "zombie"
    /\ stray' = [stray EXCEPT ![p] = "gone"]
    /\ UNCHANGED <<init, gw>>

ToReport == gw.st = "zombie" \/ gw.stopped \/ \E p \in Strays : stray[p] = "zombie"

\* With --listen, PID 1 ends everybody else while it still holds the port.
AfterReaping ==
    IF gw.st # "reaped" THEN "waiting"
    ELSE IF dep.listen /\ dep.pid1 = "self" THEN "ending"
    ELSE "exiting"

NothingToReap ==
    /\ ~ToReport
    /\ init' = [init EXCEPT !.at = AfterReaping, !.left = IF AfterReaping = "ending" THEN EndLimit ELSE 0]
    /\ UNCHANGED <<gw, stray>>

Reap ==
    /\ init.at = "reaping"
    /\ ReapGateway \/ Continue \/ (\E p \in Strays : ReapStray(p)) \/ NothingToReap
    /\ UNCHANGED <<conn, dep, bound, stolen, root, hits>>

\* Mutant: what has been sent SIGKILL counts as gone.
OthersLeftAlive == root = "running" \/ \E p \in Strays : stray[p] = "running"

OthersLeft == root = "running" \/ \E p \in Strays : stray[p] \in {"running", "dying", "zombie"}

\* One round of end_everyone_else: kill, reap, look at the clock.
EndEveryoneElse ==
    /\ init.at = "ending"
    /\ stray' = [p \in Strays |-> CASE stray[p] = "running" -> "dying"
                                    [] stray[p] = "zombie" -> "gone"
                                    [] OTHER -> stray[p]]
    /\ IF OthersLeft /\ init.left > 0
       THEN UNCHANGED init
       ELSE init' = [init EXCEPT !.at = "exiting", !.gaveUp = OthersLeft]
    /\ UNCHANGED <<gw, conn, dep, bound, stolen, root, hits>>

\* The kernel closes what the init had open, and then, if it was PID 1, ends all the rest.
Release ==
    /\ init.at = "exiting" /\ bound # {}
    /\ bound' = {}
    /\ UNCHANGED <<gw, conn, dep, init, stray, stolen, root, hits>>

Gone ==
    /\ init.at = "exiting" /\ bound = {} /\ At("queued") = {}
    /\ init' = [init EXCEPT !.at = "gone"]
    /\ IF dep.pid1 = "self"
       THEN /\ stray' = [p \in Strays |-> "gone"]
            /\ root' = "gone"
            /\ stolen' = {}
       ELSE UNCHANGED <<stray, root, stolen>>
    /\ UNCHANGED <<gw, conn, dep, bound, hits>>

-----------------------------------------------------------------------------
(* The service manager, which starts the gateway whenever it is not there, *)
(* and kills one that does not heed its SIGTERM.                           *)

ManagerStart ==
    /\ dep.holder # "init" /\ gw.st \in {"none", "reaped"}
    /\ dep.holder = "shell" => gw.st = "none"
    /\ gw' = [NoProcess EXCEPT !.st = "starting"]
    /\ UNCHANGED <<conn, dep, init, bound, stray, stolen, root, hits>>

ManagerReap ==
    /\ dep.holder # "init" /\ gw.st = "zombie"
    /\ gw' = [gw EXCEPT !.st = "reaped"]
    /\ UNCHANGED <<conn, dep, init, bound, stray, stolen, root, hits>>

ManagerKill ==
    /\ Managed /\ gw.stopped /\ "TERM" \in gw.signals
    /\ Killed
    /\ UNCHANGED <<dep, init, bound, stray, stolen, root, hits>>

-----------------------------------------------------------------------------
(* The gateway and its clients.  Its death is a SIGCHLD for the init.      *)

ChildDied ==
    init' = IF gw'.st = "zombie" /\ gw.st # "zombie" /\ dep.holder = "init"
            THEN [init EXCEPT !.signals = @ \cup {"CHLD"}]
            ELSE init

\* What the gateway finds when it starts.
Environment ==
    IF dep.holder = "init" /\ dep.listen THEN PassSocket(dep.env, GatewayAddress(dep.env.host)) ELSE dep.env

GatewayOnly == UNCHANGED <<dep, bound, stray, stolen, root, hits>>

Serve(c) ==
    /\ Accept(c) \/ Read(c) \/ Answer(c)
    /\ UNCHANGED init /\ GatewayOnly

GatewayProcess ==
    /\ Main(Environment, Free) \/ Shutdown \/ GraceOver \/ Exit \/ LimitOver \/ DieOf
    /\ ChildDied /\ GatewayOnly

IdleOver ==
    /\ \E c \in Conns : KeepAliveOver(c)
    /\ UNCHANGED <<dep, init, bound, stray, stolen, root, hits>>

Clients ==
    /\ "clients" \in dep.world
    /\ \/ \E c \in Conns : Listening /\ Connect(c)
       \/ \E c \in Conns, endless \in BOOLEAN : Send(c, endless)
    /\ UNCHANGED <<dep, init, bound, stray, stolen, root, hits>>

Network ==
    /\ \/ \E c \in Conns : Reaches(c) \/ Learn(c)
       \/ /\ ~Listening /\ At("queued") # {}
          /\ conn' = CutAll(At("queued"), "reset")
          /\ UNCHANGED gw
    /\ UNCHANGED <<dep, init, bound, stray, stolen, root, hits>>

Tick ==
    /\ Pass
    /\ init' = [init EXCEPT !.left = IF @ = 0 THEN 0 ELSE @ - 1]
    /\ UNCHANGED <<dep, bound, stray, stolen, root, hits>>

-----------------------------------------------------------------------------
(* The other processes, and signals: docker stop and systemctl stop, or a  *)
(* stdio server, which may signal whatever runs as its user.               *)

Up == init.at # "gone"

Appear(p) ==
    /\ "strays" \in dep.world /\ Up /\ stray[p] = "none"
    /\ gw.st = "serving" \/ \E q \in Strays : stray[q] = "running"
    /\ stray' = [stray EXCEPT ![p] = "running"]
    /\ UNCHANGED <<gw, conn, dep, init, bound, stolen, root, hits>>

\* A process that is being killed may still finish the system call it is in.
Steal(p, a) ==
    /\ stray[p] \in {"running", "dying"}
    /\ a \in Free
    /\ stolen' = stolen \cup {a}
    /\ UNCHANGED <<gw, conn, dep, init, bound, stray, root, hits>>

Die(p) ==
    /\ stray[p] = "dying"
    /\ stray' = [stray EXCEPT ![p] = "zombie"]
    /\ init' = [init EXCEPT !.signals = @ \cup {"CHLD"}]
    /\ UNCHANGED <<gw, conn, dep, bound, stolen, root, hits>>

Leave(p) ==
    /\ stray[p] = "running" /\ stolen = {} /\ Up
    /\ stray' = [stray EXCEPT ![p] = "zombie"]
    /\ init' = [init EXCEPT !.signals = @ \cup {"CHLD"}]
    /\ UNCHANGED <<gw, conn, dep, bound, stolen, root, hits>>

RootEnters ==
    /\ "root" \in dep.world /\ init.at \in {"waiting", "reaping"} /\ root = "none"
    /\ root' = "running"
    /\ UNCHANGED <<gw, conn, dep, init, bound, stray, stolen, hits>>

Signal ==
    /\ "signals" \in dep.world /\ hits < MaxSignals /\ hits' = hits + 1
    /\ \/ /\ init.at \in {"waiting", "reaping", "ending"}
          /\ \E s \in {"TERM", "HUP"} : init' = [init EXCEPT !.signals = @ \cup {s}]
          /\ UNCHANGED <<gw, conn>>
       \/ /\ Alive
          /\ \E s \in {"TERM", "HUP"} : gw' = [gw EXCEPT !.signals = @ \cup {s}]
          /\ UNCHANGED <<conn, init>>
       \/ /\ Alive /\ ~gw.stopped
          /\ gw' = [gw EXCEPT !.stopped = TRUE]
          /\ init' = IF dep.holder = "init" THEN [init EXCEPT !.signals = @ \cup {"CHLD"}] ELSE init
          /\ UNCHANGED conn
       \/ /\ Killed
          /\ ChildDied
    /\ UNCHANGED <<dep, bound, stray, stolen, root>>

InitProcess == Boot \/ (\E s \in init.signals : TakeSignal(s)) \/ Reap \/ EndEveryoneElse \/ Release \/ Gone

Next ==
    \/ InitProcess
    \/ ManagerStart \/ ManagerReap \/ ManagerKill
    \/ GatewayProcess \/ (\E c \in Conns : Serve(c)) \/ IdleOver \/ Clients \/ Network
    \/ Tick
    \/ \E p \in Strays : Appear(p) \/ Die(p) \/ Leave(p) \/ \E a \in Addresses : Steal(p, a)
    \/ RootEnters
    \/ Signal

\* The init and the gateway go on whenever they can, requests arrive, time passes, and what is
\* killed dies.  Nothing is assumed of clients, strays and signals.
Fairness ==
    /\ WF_vars(InitProcess) /\ WF_vars(GatewayProcess) /\ WF_vars(Network) /\ WF_vars(Tick)
    /\ \A c \in Conns : WF_vars(Serve(c))
    /\ \A p \in Strays : WF_vars(Die(p))

Spec == Init /\ [][Next]_vars /\ Fairness

-----------------------------------------------------------------------------
TypeOK ==
    /\ DrainTypeOK
    /\ dep \in Deployments
    /\ init \in [at: {"none", "boot", "waiting", "reaping", "ending", "exiting", "gone"},
                signals: SUBSET {"TERM", "HUP", "CHLD"}, left: 0 .. EndLimit, gaveUp: BOOLEAN]
    /\ bound \subseteq Addresses
    /\ stray \in [Strays -> {"none", "running", "dying", "zombie", "gone"}]
    /\ stolen \subseteq Addresses
    /\ root \in {"none", "running", "gone"}
    /\ hits \in 0 .. MaxSignals

\* The addresses that Caddy dials in a container: any, if the gateway listens on all of them.
Dialled ==
    IF GatewayAddress(dep.env.host) \in Wildcards THEN {"10.0.0.5", "fd00::5"}
    ELSE {GatewayAddress(dep.env.host)}

\* Under an init that is PID 1 and was given --listen, no process that a stdio server left
\* behind ever listens where Caddy dials, from the first start to the end of the container,
\* unless one could not be killed in time.
PortHeld ==
    dep.listen /\ dep.pid1 = "self" /\ ~init.gaveUp =>
        \A a \in stolen, d \in Dialled : ~Covers(a, d)

\* A call is lost by a stop only if it was sent too late to arrive within the grace, and not on
\* a connection that an answer of the drain left open; only one that never ends, or that was
\* itself held up by SIGSTOP, is cut by the limit; and nothing that waits for the next gateway
\* is lost while a service manager holds the socket.
NoLostCall ==
    \A c \in Conns : conn[c].req = "lost" =>
        /\ ~conn[c].kept
        /\ conn[c].why = "drain" => conn[c].late
        /\ conn[c].why = "limit" => conn[c].endless
        /\ conn[c].why = "reset" => ~Managed

\* What the gateway was asked for, by a LISTEN_PID that names it or by launchd's variable.
Asked == Environment.listenPid = "own" \/ Environment.launchd # "unset"

\* A gateway that serves has the key that its deployment requires, in the variable itself, is on
\* the socket it was passed, if it was asked to take one, and on no address but loopback and the
\* one that WEBSPEC_HOST names.  And the socket that the init has bound is always good enough.
StartsAsDeployed ==
    /\ gw.on.how \in {"own", "taken"} =>
        /\ Required(dep.env) => SessionKey(dep.env) = "env"
        /\ Asked => gw.on.how = "taken"
        /\ gw.on.addr \in Loopback \cup {BindHost(dep.env.host)}
    /\ gw.on.how = "refused" /\ dep.listen => Required(dep.env) /\ SessionKey(dep.env) # "env"

\* In a container, a gateway that is told to stop, or has died, takes the container with it,
\* and no stop signal keeps one from serving for good.
ContainerEnds ==
    /\ dep.holder = "init" /\ (gw.st = "zombie" \/ init.signals \ {"CHLD"} # {}) ~> init.at = "gone"
    /\ dep.holder = "init" /\ gw.stopped ~> ~gw.stopped
================================================================================
