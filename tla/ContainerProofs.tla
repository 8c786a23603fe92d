---------------------------- MODULE ContainerProofs ----------------------------
(***************************************************************************)
(* What Container promises for any set of deployments, connections and     *)
(* processes left behind, and for every limit: a gateway starts as its     *)
(* deployment asks or not at all, and nobody but the init ever holds the   *)
(* port that Caddy dials.                                                  *)
(***************************************************************************)
EXTENDS Container, FiniteSetTheorems, TLAPS

\* The fields that the steps below update.
Shape ==
    /\ {"st", "on"} \subseteq DOMAIN gw
    /\ {"at", "gaveUp"} \subseteq DOMAIN init
    /\ DOMAIN stray = Strays
    /\ dep \in Deployments

\* What the gateway that was started last has found.
Found ==
    /\ gw.st = "none" => gw.on = None
    /\ gw.on = None \/ \E F \in SUBSET Addresses : gw.on = Start(Environment, F)
    /\ dep.listen /\ gw.st # "none" => GatewayAddress(dep.env.host) \in Addresses

StartInv == Shape /\ Found

-----------------------------------------------------------------------------
(* Activation.                                                             *)

LEMMA DeploymentTyped ==
  ASSUME NEW d \in Deployments
  PROVE  /\ d \in Deployment
         /\ d.listen => d.holder = "init"
         /\ d.holder \in {"systemd", "launchd"} => d.env.passed # <<>>
  BY ContainerAssumption

\* A socket that is taken is listening on loopback or where WEBSPEC_HOST says.
LEMMA CheckedAddress ==
  ASSUME NEW s \in Socket, NEW host, NEW from
  PROVE  /\ Checked(s, host, from).how \in {"taken", "refused"}
         /\ Checked(s, host, from).how = "taken" =>
               Checked(s, host, from).addr \in Loopback \cup {BindHost(host)}
  <1>1. s.addr \in Addresses
    BY DEF Socket
  <1>2. Named(Text(host)) \in Addresses => Named(Text(host)) = BindHost(host)
    BY ActivationAssumption DEF BindHost, Named, Bare, Bracketed
  <1>3. QED
    BY <1>1, <1>2, ActivationAssumption DEF Checked, Taken, Refused

LEMMA InheritedAddress ==
  ASSUME NEW e \in Environments
  PROVE  /\ InheritedSocket(e).how \in {"none", "taken", "refused"}
         /\ InheritedSocket(e).how = "taken" =>
               InheritedSocket(e).addr \in Loopback \cup {BindHost(e.host)}
         /\ e.listenPid = "own" \/ e.launchd # "unset" => InheritedSocket(e).how # "none"
  <1>1. e.passed \in Seq(Socket)
    BY DEF Environments
  <1>2. e.passed # <<>> => Head(e.passed) \in Socket
    BY <1>1
  <1>3. Len(e.passed) = 1 => e.passed[1] \in Socket
    BY <1>1
  <1>4. /\ FromSystemd(e).how \in {"none", "taken", "refused"}
        /\ FromSystemd(e).how = "taken" => FromSystemd(e).addr \in Loopback \cup {BindHost(e.host)}
        /\ e.listenPid = "own" => FromSystemd(e).how # "none"
    BY <1>2, CheckedAddress DEF FromSystemd, None, Refused
  <1>5. /\ FromLaunchd(e).how \in {"taken", "refused"}
        /\ FromLaunchd(e).how = "taken" => FromLaunchd(e).addr \in Loopback \cup {BindHost(e.host)}
    BY <1>3, CheckedAddress DEF FromLaunchd, Refused
  <1>6. e.listenPid = "own" => Mentioned(e)
    BY DEF Mentioned
  <1>7. QED
    BY <1>4, <1>5, <1>6 DEF InheritedSocket, None

\* A gateway that starts has its key, and the socket it was asked to take.
LEMMA Started ==
  ASSUME NEW e \in Environments, NEW free, Start(e, free).how \in {"own", "taken"}
  PROVE  /\ Required(e) => SessionKey(e) = "env"
         /\ e.listenPid = "own" \/ e.launchd # "unset" => Start(e, free).how = "taken"
         /\ Start(e, free).addr \in Loopback \cup {BindHost(e.host)}
  <1> DEFINE own == [how |-> "own", addr |-> BindHost(e.host), from |-> "none"]
  <1>1. Required(e) => EnvGuardKey(e) # "error"
    BY DEF Start, Refused
  <1>2. \/ Start(e, free) = InheritedSocket(e) /\ InheritedSocket(e).how # "none"
        \/ Start(e, free) = own /\ InheritedSocket(e).how = "none"
    BY DEF Start, Refused
  <1>3. EnvVarKey(e) \in {"none", "error", "env"}
    BY DEF EnvVarKey
  <1>4. Required(e) => SessionKey(e) = "env"
    BY <1>1, <1>3 DEF EnvGuardKey, SessionKey
  <1>5. QED
    BY <1>2, <1>4, InheritedAddress

\* The init's socket is good enough for a gateway that has its key.
LEMMA PassedIsTaken ==
  ASSUME NEW e \in Environments, NEW free, GatewayAddress(e.host) \in Addresses,
         Start(PassSocket(e, GatewayAddress(e.host)), free).how = "refused"
  PROVE  Required(e) /\ SessionKey(e) # "env"
  <1> DEFINE addr == GatewayAddress(e.host)
             f    == PassSocket(e, addr)
             s    == [addr |-> addr, stream |-> TRUE, listening |-> TRUE]
  <1>1. /\ f.listenPid = "own" /\ f.listenFds = "1" /\ f.passed = <<s>>
        /\ f.host = e.host /\ f.required = e.required /\ f.key = e.key /\ f.file = e.file
        /\ f.ephemeral = e.ephemeral
    BY DEF PassSocket, Environments
  <1>2. addr \in Loopback \cup {Named(Text(e.host))}
    BY ActivationAssumption DEF GatewayAddress
  <1>3. f.passed # <<>> /\ Head(f.passed) = s
    BY <1>1
  <1>4. Checked(s, e.host, Holder(f.names)).how = "taken"
    BY <1>2 DEF Checked, Taken
  <1> HIDE DEF f, s, addr
  <1>5. InheritedSocket(f).how = "taken"
    BY <1>1, <1>3, <1>4 DEF InheritedSocket, FromSystemd, Mentioned, None
  <1>6. Required(f) /\ EnvGuardKey(f) = "error"
    BY <1>5 DEF Start, f, addr
  <1>7. Required(e) /\ EnvVarKey(e) # "env"
    BY <1>1, <1>6 DEF Required, EnvGuardKey, EnvVarKey
  <1>8. SessionKey(e) # "env"
    BY <1>7 DEF SessionKey, FileKey
  <1>9. QED
    BY <1>7, <1>8

-----------------------------------------------------------------------------
(* What the steps do to the process of the gateway.                        *)

\* A step that only goes on with the process that is there, if it changes it at all.
Goes ==
    /\ {"st", "on"} \subseteq DOMAIN gw'
    /\ gw'.on = gw.on
    /\ gw'.st = gw.st \/ (gw'.st # "none" /\ gw.st # "none")
    /\ gw'.st = gw.st \/ Alive \/ (gw.st = "zombie" /\ gw'.st = "reaped")

LEMMA GatewayGoes ==
  ASSUME Shape,
         \/ UNCHANGED gw
         \/ Pass \/ Killed \/ Shutdown \/ GraceOver \/ Exit \/ LimitOver \/ DieOf
         \/ \E s : gw' = [gw EXCEPT !.signals = s] \/ gw' = [gw EXCEPT !.stopped = s]
         \/ gw.st = "zombie" /\ gw' = [gw EXCEPT !.st = "reaped"]
  PROVE  Goes
  <1> USE DEF Shape, Goes
  <1>1. CASE UNCHANGED gw
    BY <1>1
  <1>2. CASE Pass
    BY <1>2 DEF Pass
  <1>3. CASE Killed \/ DieOf
    BY <1>3 DEF Killed, DieOf, Alive, Ended
  <1>4. CASE Shutdown \/ GraceOver
    BY <1>4 DEF Shutdown, GraceOver, Closing, Runs, Alive
  <1>5. CASE Exit \/ LimitOver
    BY <1>5 DEF Exit, LimitOver, Ended, Runs, Alive
  <1>6. CASE \E s : gw' = [gw EXCEPT !.signals = s] \/ gw' = [gw EXCEPT !.stopped = s]
    BY <1>6
  <1>7. CASE gw.st = "zombie" /\ gw' = [gw EXCEPT !.st = "reaped"]
    BY <1>7
  <1>8. QED
    BY <1>1, <1>2, <1>3, <1>4, <1>5, <1>6, <1>7

\* Each step is one of those, or starts a process, or is the process's main().
LEMMA GatewaySteps ==
  ASSUME Shape, [Next]_vars
  PROVE  /\ dep' = dep
         /\ \/ Goes
            \/ /\ gw' = [NoProcess EXCEPT !.st = "starting"]
               /\ \/ Boot /\ MayStart /\ Holding \subseteq Free
                  \/ ManagerStart
            \/ Main(Environment, Free)
  <1>1. /\ UNCHANGED gw => Goes
        /\ \A s : gw' = [gw EXCEPT !.signals = s] \/ gw' = [gw EXCEPT !.stopped = s] => Goes
        /\ Pass \/ Killed \/ Shutdown \/ GraceOver \/ Exit \/ LimitOver \/ DieOf => Goes
        /\ gw.st = "zombie" /\ gw' = [gw EXCEPT !.st = "reaped"] => Goes
    BY GatewayGoes
  <1>2. dep' = dep
    BY DEF Next, vars, InitProcess, Boot, TakeSignal, Reap, EndEveryoneElse, Release, Gone,
           ManagerStart, ManagerReap, ManagerKill, GatewayProcess, GatewayOnly, Serve, IdleOver,
           Clients, Network, Tick, Appear, Die, Leave, Steal, RootEnters, Signal
  <1> DEFINE Starts == /\ gw' = [NoProcess EXCEPT !.st = "starting"]
                       /\ (Boot /\ MayStart /\ Holding \subseteq Free) \/ ManagerStart
             Ok == Goes \/ Starts \/ Main(Environment, Free)
  <1>3. ASSUME Boot PROVE Ok
    <2>1. \/ MayStart /\ Holding \subseteq Free /\ gw' = [NoProcess EXCEPT !.st = "starting"]
          \/ UNCHANGED gw
      BY <1>3 DEF Boot
    <2>2. QED
      BY <1>1, <1>3, <2>1
  <1>4. ASSUME NEW s \in init.signals, TakeSignal(s) PROVE Ok
    <2>1. UNCHANGED gw \/ \E x : gw' = [gw EXCEPT !.signals = x]
      BY <1>4 DEF TakeSignal
    <2>2. QED
      BY <1>1, <2>1
  <1>5. ASSUME Reap PROVE Ok
    <2>1. ReapGateway => Goes
      BY <1>1 DEF ReapGateway
    <2>2. Continue => Goes
      BY <1>1 DEF Continue
    <2>3. (\E p \in Strays : ReapStray(p)) \/ NothingToReap => Goes
      BY <1>1 DEF ReapStray, NothingToReap
    <2>4. QED
      BY <1>5, <2>1, <2>2, <2>3 DEF Reap
  <1>6. ASSUME EndEveryoneElse \/ Release \/ Gone PROVE Ok
    BY <1>1, <1>6 DEF EndEveryoneElse, Release, Gone
  <1>7. ASSUME ManagerStart PROVE Ok
    BY <1>7 DEF ManagerStart
  <1>8. ASSUME ManagerReap \/ ManagerKill PROVE Ok
    BY <1>1, <1>8 DEF ManagerReap, ManagerKill
  <1>9. ASSUME GatewayProcess PROVE Ok
    BY <1>1, <1>9 DEF GatewayProcess
  <1>10. ASSUME (\E c \in Conns : Serve(c)) \/ IdleOver \/ Clients \/ Network PROVE Ok
    BY <1>1, <1>10 DEF Serve, Accept, Read, Answer, IdleOver, KeepAliveOver, Clients, Connect, Send,
                       Network, Reaches, Learn
  <1>11. ASSUME Tick PROVE Ok
    BY <1>1, <1>11 DEF Tick
  <1>12. ASSUME NEW p \in Strays,
                Appear(p) \/ Die(p) \/ Leave(p) \/ \E a \in Addresses : Steal(p, a)
         PROVE  Ok
    BY <1>1, <1>12 DEF Appear, Die, Leave, Steal
  <1>13. ASSUME RootEnters \/ UNCHANGED vars PROVE Ok
    BY <1>1, <1>13 DEF RootEnters, vars
  <1>14. ASSUME Signal PROVE Ok
    <2>1. \/ UNCHANGED gw \/ Killed
          \/ \E x : gw' = [gw EXCEPT !.signals = x] \/ gw' = [gw EXCEPT !.stopped = x]
      BY <1>14 DEF Signal
    <2>2. QED
      BY <1>1, <2>1
  <1>15. Ok
    BY <1>3, <1>4, <1>5, <1>6, <1>7, <1>8, <1>9, <1>10, <1>11, <1>12, <1>13, <1>14 DEF Next, InitProcess
  <1>16. QED
    BY <1>2, <1>15

\* The fields stay.
LEMMA Shaped ==
  ASSUME Shape, [Next]_vars
  PROVE  Shape'
  <1>1. {"st", "on"} \subseteq DOMAIN gw'
    BY GatewaySteps DEF Goes, Main, NoProcess, Shape
  <1>2. {"at", "gaveUp"} \subseteq DOMAIN init'
    BY DEF Shape, Next, vars, InitProcess, Boot, TakeSignal, Reap, ReapGateway, Continue, ReapStray,
           NothingToReap, EndEveryoneElse, Release, Gone, ManagerStart, ManagerReap, ManagerKill,
           GatewayProcess, GatewayOnly, ChildDied, Serve, IdleOver, Clients, Network, Tick, Appear, Die,
           Leave, Steal, RootEnters, Signal
  <1>3. DOMAIN stray' = Strays
    BY DEF Shape, Next, vars, InitProcess, Boot, TakeSignal, Reap, ReapGateway, Continue, ReapStray,
           NothingToReap, EndEveryoneElse, Release, Gone, ManagerStart, ManagerReap, ManagerKill,
           GatewayProcess, GatewayOnly, ChildDied, Serve, IdleOver, Clients, Network, Tick, Appear, Die,
           Leave, Steal, RootEnters, Signal
  <1>4. QED
    BY <1>1, <1>2, <1>3, GatewaySteps DEF Shape

-----------------------------------------------------------------------------
(* Starting.                                                               *)

LEMMA ShapeInit == Init => Shape
  BY DEF Init, DrainInit, NoProcess, Shape

LEMMA FoundInit == Init => Found
  BY DEF Init, DrainInit, NoProcess, Found

LEMMA FoundKept ==
  ASSUME StartInv, [Next]_vars
  PROVE  Found'
  <1>1. dep' = dep /\ dep \in Deployments
    BY GatewaySteps DEF StartInv, Shape
  <1>2. Environment' = Environment
    BY <1>1 DEF Environment
  <1>3. ASSUME Goes PROVE Found'
    BY <1>1, <1>2, <1>3 DEF Goes, Found, StartInv
  <1>4. ASSUME gw' = [NoProcess EXCEPT !.st = "starting"], dep.listen => GatewayAddress(dep.env.host) \in Addresses
        PROVE  Found'
    <2>1. gw'.on = None /\ gw'.st = "starting"
      BY <1>4 DEF NoProcess
    <2>2. QED
      BY <1>1, <1>4, <2>1 DEF Found
  <1>5. ASSUME MayStart, Holding \subseteq Free, dep.listen PROVE GatewayAddress(dep.env.host) \in Addresses
    BY <1>5 DEF Holding, Free
  <1>6. ManagerStart => ~dep.listen
    BY <1>1, DeploymentTyped DEF ManagerStart
  <1>7. ASSUME Main(Environment, Free) PROVE Found'
    <2>1. gw'.on = Start(Environment, Free) /\ gw'.st \in {"zombie", "serving"} /\ gw.st # "none"
      BY <1>7 DEF Main, StartInv, Shape, Runs, Alive
    <2>2. Free \in SUBSET Addresses
      BY DEF Free
    <2>3. QED
      BY <1>1, <1>2, <2>1, <2>2 DEF Found, StartInv
  <1>8. QED
    BY <1>3, <1>4, <1>5, <1>6, <1>7, GatewaySteps DEF StartInv

LEMMA StartInvariant == Spec => []StartInv
  <1>1. Init => StartInv
    BY ShapeInit, FoundInit DEF StartInv
  <1>2. StartInv /\ [Next]_vars => StartInv'
    BY Shaped, FoundKept DEF StartInv
  <1>3. QED
    BY <1>1, <1>2, PTL DEF Spec

LEMMA PassSocketTyped ==
  ASSUME NEW e \in Environments, NEW addr,
         <<[addr |-> addr, stream |-> TRUE, listening |-> TRUE]>> \in Seq(Socket)
  PROVE  PassSocket(e, addr) \in Environments
  <1> DEFINE e1 == [e EXCEPT !.listenPid = "own"]
             e2 == [e1 EXCEPT !.listenFds = "1"]
             e3 == [e2 EXCEPT !.names = {"webspec-init"}]
             e4 == [e3 EXCEPT !.passed = <<[addr |-> addr, stream |-> TRUE, listening |-> TRUE]>>]
  <1>1. PassSocket(e, addr) = e4
    BY DEF PassSocket, Environments
  <1>2. e1 \in Environments
    BY DEF Environments
  <1> HIDE DEF e1
  <1>3. e2 \in Environments
    BY <1>2 DEF Environments
  <1> HIDE DEF e2
  <1>4. e3 \in Environments
    BY <1>3 DEF Environments
  <1> HIDE DEF e3
  <1>5. e4 \in Environments
    BY <1>4 DEF Environments
  <1>6. QED
    BY <1>1, <1>5

\* What the gateway reads is the deployment's, but for the socket that the init passes.
LEMMA EnvironmentKept ==
  ASSUME StartInv, gw.st # "none"
  PROVE  /\ Environment \in Environments
         /\ Environment.host = dep.env.host
         /\ Required(Environment) <=> Required(dep.env)
         /\ SessionKey(Environment) = SessionKey(dep.env)
  <1> DEFINE e    == dep.env
             addr == GatewayAddress(e.host)
  <1>1. dep \in Deployment /\ (dep.listen => dep.holder = "init")
    BY DeploymentTyped DEF StartInv, Shape
  <1>2. e \in Environments
    BY <1>1 DEF Deployment
  <1>3. CASE dep.listen
    <2>1. addr \in Addresses
      BY <1>3 DEF StartInv, Found
    <2>2. <<[addr |-> addr, stream |-> TRUE, listening |-> TRUE]>> \in Seq(Socket)
      BY <2>1 DEF Socket
    <2>3. Environment = PassSocket(e, addr)
      BY <1>1, <1>3 DEF Environment
    <2> HIDE DEF addr, e
    <2>4. PassSocket(e, addr) \in Environments
      BY <1>2, <2>2, PassSocketTyped
    <2>5. /\ PassSocket(e, addr).host = e.host /\ PassSocket(e, addr).required = e.required
          /\ PassSocket(e, addr).key = e.key /\ PassSocket(e, addr).file = e.file
          /\ PassSocket(e, addr).ephemeral = e.ephemeral
      BY <1>2 DEF PassSocket, Environments
    <2>6. QED
      BY <2>3, <2>4, <2>5 DEF Required, SessionKey, EnvVarKey, FileKey, e
  <1>4. CASE ~dep.listen
    BY <1>2, <1>4 DEF Environment
  <1>5. QED
    BY <1>3, <1>4

\* A gateway that serves has the key that is required, is on the socket it was asked to take,
\* and listens where its deployment says; and it never refuses the socket of the init
\* (main() of gateway/webspec/__main__.py, inherited_socket, start() of docker/init.py).
THEOREM DeployedStart == Spec => []StartsAsDeployed
  <1>1. ASSUME StartInv PROVE StartsAsDeployed
    <2>1. CASE gw.on = None
      BY <2>1 DEF None, StartsAsDeployed
    <2>2. ASSUME NEW F \in SUBSET Addresses, gw.on = Start(Environment, F), gw.st # "none"
          PROVE  StartsAsDeployed
      <3>1. Environment \in Environments /\ Environment.host = dep.env.host
        BY <1>1, <2>2, EnvironmentKept
      <3>2. /\ Required(Environment) <=> Required(dep.env)
            /\ SessionKey(Environment) = SessionKey(dep.env)
        BY <1>1, <2>2, EnvironmentKept
      <3>3. ASSUME gw.on.how \in {"own", "taken"}
            PROVE  /\ Required(dep.env) => SessionKey(dep.env) = "env"
                   /\ Asked => gw.on.how = "taken"
                   /\ gw.on.addr \in Loopback \cup {BindHost(dep.env.host)}
        BY <2>2, <3>1, <3>2, <3>3, Started DEF Asked
      <3>4. ASSUME gw.on.how = "refused", dep.listen
            PROVE  Required(dep.env) /\ SessionKey(dep.env) # "env"
        <4>1. dep \in Deployment /\ dep.holder = "init"
          BY <1>1, <3>4, DeploymentTyped DEF StartInv, Shape
        <4>2. dep.env \in Environments
          BY <4>1 DEF Deployment
        <4>3. GatewayAddress(dep.env.host) \in Addresses
          BY <1>1, <2>2, <3>4 DEF StartInv, Found
        <4>4. Environment = PassSocket(dep.env, GatewayAddress(dep.env.host))
          BY <3>4, <4>1 DEF Environment
        <4>5. Start(PassSocket(dep.env, GatewayAddress(dep.env.host)), F).how = "refused"
          BY <2>2, <3>4, <4>4
        <4>6. QED
          BY <4>2, <4>3, <4>5, PassedIsTaken
      <3>5. QED
        BY <3>3, <3>4 DEF StartsAsDeployed
    <2>3. QED
      BY <1>1, <2>1, <2>2 DEF StartInv, Found
  <1>2. QED
    BY <1>1, StartInvariant, PTL

-----------------------------------------------------------------------------
(* The port, in a container whose PID 1 is the init, with --listen.        *)

Ours == dep.listen /\ dep.pid1 = "self"

Rampant(p) == stray[p] \in {"running", "dying"}

Quiet == \A p \in Strays : ~Rampant(p)

Clear == \A a \in stolen, d \in Dialled : ~Covers(a, d)

\* The port is bound before anything runs, and released when nothing is left to take it.
Held ==
    /\ init.at \in {"boot", "waiting", "reaping", "ending", "exiting", "gone"}
    /\ init.at = "boot" => gw.st = "none" /\ Quiet /\ stolen = {}
    /\ init.at \in {"waiting", "reaping", "ending"} => bound = Holding
    /\ init.at \in {"ending", "exiting"} => gw.st = "reaped"
    /\ init.at = "exiting" /\ ~init.gaveUp => Quiet
    /\ init.at = "gone" => gw.st \in {"none", "reaped"} /\ Quiet
    /\ init.gaveUp => init.at \in {"exiting", "gone"}
    /\ ~init.gaveUp => Clear

HeldInv == Shape /\ (Ours => Held)

\* No address that is free beside the init's is one at which Caddy would find its socket.
LEMMA HoldingKeeps ==
  ASSUME dep.listen, bound = Holding, NEW a \in Free, NEW d \in Dialled
  PROVE  ~Covers(a, d)
  <1> DEFINE g == GatewayAddress(dep.env.host)
  <1>1. Holding = {g} \cup OtherWildcard(g)
    BY DEF Holding
  <1>2. Family(a) \in dep.families /\ \A b \in {g} \cup OtherWildcard(g) : ~Conflict(a, b)
    BY <1>1 DEF Free, InUse
  <1>3. Family(a) \in {4, 6} /\ Family("0.0.0.0") = 4 /\ Family("::") = 6
    BY DEF Family
  <1> HIDE DEF g
  <1>4. CASE g \in Wildcards
    <2>1. PICK w \in Wildcards : Family(w) = Family(a)
      BY <1>3 DEF Wildcards
    <2>2. w \in {g} \cup OtherWildcard(g)
      BY <1>2, <1>4, <2>1 DEF OtherWildcard
    <2>3. Conflict(a, w)
      BY <2>1 DEF Conflict, Covers
    <2>4. QED
      BY <1>2, <2>2, <2>3
  <1>5. CASE g \notin Wildcards
    <2>1. d = g
      BY <1>5 DEF Dialled, g
    <2>2. QED
      BY <1>2, <2>1 DEF Conflict
  <1>6. QED
    BY <1>4, <1>5

\* In such a container a gateway that is not running stays so, once the init has forked.
LEMMA StaysEnded ==
  ASSUME HeldInv, Ours, [Next]_vars, gw.st \in {"none", "reaped"}, ~Boot
  PROVE  gw'.st = gw.st
  <1>1. dep.holder = "init"
    BY DeploymentTyped DEF HeldInv, Shape, Ours
  <1>2. ~Alive /\ gw.st # "zombie"
    BY DEF Alive
  <1>3. ~ManagerStart /\ ~Main(Environment, Free)
    BY <1>1, <1>2 DEF ManagerStart, Main, Runs
  <1>4. QED
    BY <1>2, <1>3, GatewaySteps DEF HeldInv, Goes

LEMMA SameDeployment ==
  ASSUME HeldInv, [Next]_vars
  PROVE  Ours' = Ours /\ Holding' = Holding /\ Dialled' = Dialled /\ Shape'
  <1>1. dep' = dep
    BY GatewaySteps DEF HeldInv
  <1>2. QED
    BY <1>1, Shaped DEF HeldInv, Ours, Holding, OtherWildcard, Dialled

\* A step that takes no address and revives no process.
LEMMA HeldOn ==
  ASSUME HeldInv, Ours, [Next]_vars, ~Boot, bound' = bound, stolen' = stolen,
         \A p \in Strays : Rampant(p)' => Rampant(p),
         init'.gaveUp = init.gaveUp,
         \/ init'.at = init.at
         \/ init.at = "waiting" /\ init'.at = "reaping"
         \/ /\ init.at = "reaping" /\ init'.at \in {"waiting", "ending"}
            /\ init'.at = "ending" => gw.st = "reaped"
  PROVE  Held'
  <1>1. Clear' = Clear
    BY SameDeployment DEF Clear
  <1>2. Quiet => Quiet'
    BY DEF Quiet
  <1>3. gw.st \in {"none", "reaped"} => gw'.st = gw.st
    BY StaysEnded
  <1>4. bound' = bound /\ Holding' = Holding
    BY SameDeployment
  <1>5. QED
    BY <1>1, <1>2, <1>3, <1>4 DEF HeldInv, Held

LEMMA HeldByInit ==
  ASSUME HeldInv, Ours, InitProcess
  PROVE  Held'
  <1>1. [Next]_vars
    BY DEF Next
  <1>2. Ours' = Ours /\ Holding' = Holding /\ Dialled' = Dialled
    BY <1>1, SameDeployment
  <1>3. {"at", "gaveUp"} \subseteq DOMAIN init /\ DOMAIN stray = Strays
    BY DEF HeldInv, Shape
  <1>4. Held
    BY DEF HeldInv
  <1>5. ASSUME Boot PROVE Held'
    <2>1. UNCHANGED <<stray, stolen>> /\ init.at = "boot" /\ init'.gaveUp = init.gaveUp
      BY <1>3, <1>5 DEF Boot
    <2>2. \/ init'.at = "waiting" /\ bound' = Holding
          \/ init'.at = "gone" /\ gw' = gw
      BY <1>3, <1>5 DEF Boot
    <2>3. Quiet' /\ Clear'
      BY <1>4, <2>1 DEF Held, Quiet, Rampant, Clear
    <2>4. QED
      BY <1>2, <1>4, <2>1, <2>2, <2>3 DEF Held
  <1>6. ASSUME NEW s \in init.signals, TakeSignal(s) PROVE Held'
    <2>1. UNCHANGED <<bound, stolen, stray>> /\ ~Boot
      BY <1>6 DEF TakeSignal, Boot
    <2>2. /\ init'.gaveUp = init.gaveUp
          /\ init'.at = init.at \/ (init.at = "waiting" /\ init'.at = "reaping")
      BY <1>3, <1>6 DEF TakeSignal
    <2>3. QED
      BY <1>1, <2>1, <2>2, HeldOn DEF Rampant
  <1>7. ASSUME Reap PROVE Held'
    <2>1. UNCHANGED <<bound, stolen>> /\ ~Boot
      BY <1>7 DEF Reap, Boot
    <2>2. \A p \in Strays : stray'[p] = stray[p] \/ stray'[p] = "gone"
      BY <1>3, <1>7 DEF Reap, ReapGateway, Continue, ReapStray, NothingToReap
    <2>3. /\ init'.gaveUp = init.gaveUp
          /\ \/ init'.at = init.at
             \/ /\ init.at = "reaping" /\ init'.at \in {"waiting", "ending"}
                /\ init'.at = "ending" => gw.st = "reaped"
      BY <1>3, <1>7 DEF Reap, ReapGateway, Continue, ReapStray, NothingToReap, AfterReaping, Ours
    <2>4. QED
      BY <1>1, <2>1, <2>2, <2>3, HeldOn DEF Rampant
  <1>8. ASSUME EndEveryoneElse PROVE Held'
    <2>1. UNCHANGED <<bound, stolen, gw>> /\ ~Boot /\ init.at = "ending"
      BY <1>8 DEF EndEveryoneElse, Boot
    <2>2. \A p \in Strays : Rampant(p)' => Rampant(p)
      BY <1>3, <1>8 DEF EndEveryoneElse, Rampant
    <2>3. CASE UNCHANGED init
      BY <1>1, <2>1, <2>2, <2>3, HeldOn
    <2>4. CASE init' = [init EXCEPT !.at = "exiting", !.gaveUp = OthersLeft]
      <3>1. init'.at = "exiting" /\ init'.gaveUp = OthersLeft
        BY <1>3, <2>4
      <3>2. ~OthersLeft => Quiet /\ Quiet'
        BY <2>2 DEF OthersLeft, Quiet, Rampant
      <3>3. Clear' = Clear
        BY <1>2, <2>1 DEF Clear
      <3>4. ~init'.gaveUp => Clear
        BY <1>4, <2>1, <3>1, <3>2 DEF Held
      <3>5. QED
        BY <1>4, <2>1, <3>1, <3>2, <3>3, <3>4 DEF Held
    <2>5. QED
      BY <1>8, <2>3, <2>4 DEF EndEveryoneElse
  <1>9. ASSUME Release PROVE Held'
    <2>1. UNCHANGED <<gw, init, stray, stolen>> /\ init.at = "exiting"
      BY <1>9 DEF Release
    <2>2. Quiet' = Quiet /\ Clear' = Clear
      BY <1>2, <2>1 DEF Quiet, Rampant, Clear
    <2>3. QED
      BY <1>4, <2>1, <2>2 DEF Held
  <1>10. ASSUME Gone PROVE Held'
    <2>1. init'.at = "gone" /\ stolen' = {} /\ gw' = gw /\ init.at = "exiting"
      BY <1>3, <1>10 DEF Gone, Ours
    <2>2. Quiet'
      BY <1>10 DEF Gone, Ours, Quiet, Rampant
    <2>3. Clear'
      BY <2>1 DEF Clear
    <2>4. QED
      BY <1>4, <2>1, <2>2, <2>3 DEF Held
  <1>11. QED
    BY <1>5, <1>6, <1>7, <1>8, <1>9, <1>10 DEF InitProcess

\* The processes that are left behind: a new one, or an address taken, needs a gateway that
\* serves or one of them alive, and then the init holds the port.
LEMMA HeldByStrays ==
  ASSUME HeldInv, Ours, NEW p \in Strays,
         Appear(p) \/ Die(p) \/ Leave(p) \/ \E a \in Addresses : Steal(p, a)
  PROVE  Held'
  <1>1. [Next]_vars
    BY DEF Next
  <1>2. Ours' = Ours /\ Holding' = Holding /\ Dialled' = Dialled
    BY <1>1, SameDeployment
  <1>3. {"at", "gaveUp"} \subseteq DOMAIN init /\ DOMAIN stray = Strays
    BY DEF HeldInv, Shape
  <1>4. Held
    BY DEF HeldInv
  <1>5. ASSUME Appear(p) PROVE Held'
    <2>1. UNCHANGED <<gw, init, bound, stolen>> /\ init.at # "gone"
      BY <1>5 DEF Appear, Up
    <2>2. gw.st = "serving" \/ ~Quiet
      BY <1>5 DEF Appear, Quiet, Rampant
    <2>3. init.at \in {"waiting", "reaping", "ending"} \/ (init.at = "exiting" /\ init.gaveUp)
      BY <1>4, <2>1, <2>2 DEF Held
    <2>4. Clear' = Clear
      BY <1>2, <2>1 DEF Clear
    <2>5. QED
      BY <1>2, <1>4, <2>1, <2>3, <2>4 DEF Held
  <1>6. ASSUME Die(p) \/ Leave(p) PROVE Held'
    <2>1. UNCHANGED <<bound, stolen>> /\ init'.at = init.at /\ init'.gaveUp = init.gaveUp
      BY <1>3, <1>6 DEF Die, Leave
    <2>2. \A q \in Strays : stray'[q] = stray[q] \/ stray'[q] = "zombie"
      BY <1>3, <1>6 DEF Die, Leave
    <2>3. CASE ~Boot
      BY <1>1, <2>1, <2>2, <2>3, HeldOn DEF Rampant
    <2>4. CASE Boot
      BY <1>4, <1>6, <2>4 DEF Boot, Die, Leave, Held, Quiet, Rampant
    <2>5. QED
      BY <2>3, <2>4
  <1>7. ASSUME NEW a \in Addresses, Steal(p, a) PROVE Held'
    <2>1. UNCHANGED <<gw, init, bound, stray>> /\ a \in Free /\ stolen' = stolen \cup {a}
      BY <1>7 DEF Steal
    <2>2. Rampant(p)
      BY <1>7 DEF Steal, Rampant
    <2>3. init.at \in {"waiting", "reaping", "ending"} \/ (init.at = "exiting" /\ init.gaveUp)
      BY <1>4, <2>2 DEF Held, Quiet
    <2>4. bound = Holding => \A d \in Dialled : ~Covers(a, d)
      BY <2>1, HoldingKeeps DEF Ours
    <2>5. ~init.gaveUp => Clear'
      BY <1>2, <1>4, <2>1, <2>3, <2>4 DEF Held, Clear
    <2>6. QED
      BY <1>2, <1>4, <2>1, <2>3, <2>5 DEF Held
  <1>8. QED
    BY <1>5, <1>6, <1>7

LEMMA HeldStep ==
  ASSUME HeldInv, [Next]_vars
  PROVE  HeldInv'
  <1>1. Shape' /\ Ours' = Ours
    BY SameDeployment
  <1>2. {"at", "gaveUp"} \subseteq DOMAIN init
    BY DEF HeldInv, Shape
  <1> SUFFICES ASSUME Ours PROVE Held'
    BY <1>1 DEF HeldInv
  <1>3. ASSUME ~InitProcess, UNCHANGED <<bound, stolen, stray>>,
               init'.at = init.at, init'.gaveUp = init.gaveUp
        PROVE  Held'
    BY <1>3, HeldOn DEF InitProcess, Rampant
  <1>4. ASSUME ManagerStart \/ ManagerReap \/ ManagerKill PROVE UNCHANGED <<init, bound, stolen, stray>>
    BY <1>4 DEF ManagerStart, ManagerReap, ManagerKill
  <1>5. ASSUME GatewayProcess
        PROVE  /\ UNCHANGED <<bound, stolen, stray>>
               /\ init'.at = init.at /\ init'.gaveUp = init.gaveUp
    BY <1>2, <1>5 DEF GatewayProcess, GatewayOnly, ChildDied
  <1>6. ASSUME (\E c \in Conns : Serve(c)) \/ IdleOver \/ Clients \/ Network \/ RootEnters
        PROVE  UNCHANGED <<init, bound, stolen, stray>>
    BY <1>6 DEF Serve, GatewayOnly, IdleOver, Clients, Network, RootEnters
  <1>7. ASSUME Tick \/ Signal
        PROVE  /\ UNCHANGED <<bound, stolen, stray>>
               /\ init'.at = init.at /\ init'.gaveUp = init.gaveUp
    BY <1>2, <1>7 DEF Tick, Signal, ChildDied
  <1>8. ASSUME UNCHANGED vars PROVE UNCHANGED <<init, bound, stolen, stray>>
    BY <1>8 DEF vars
  <1>9. QED
    BY <1>3, <1>4, <1>5, <1>6, <1>7, <1>8, HeldByInit, HeldByStrays DEF Next

LEMMA HeldStart == Init => HeldInv
  <1> SUFFICES ASSUME Init PROVE HeldInv
    OBVIOUS
  <1>1. Shape
    BY ShapeInit
  <1>2. Ours => init.at = "boot"
    BY <1>1, DeploymentTyped DEF Init, Ours, Shape
  <1>3. gw.st = "none" /\ Quiet /\ stolen = {} /\ ~init.gaveUp
    BY DEF Init, DrainInit, NoProcess, Quiet, Rampant
  <1>4. QED
    BY <1>1, <1>2, <1>3 DEF HeldInv, Held, Clear

\* In a container whose PID 1 is the init, given --listen, no process that a stdio server left
\* behind ever listens where Caddy dials, unless one could not be killed in time
\* (start, wait_for_gateway and end_everyone_else of docker/init.py).
THEOREM PortIsHeld == Spec => []PortHeld
  <1>1. HeldInv /\ [Next]_vars => HeldInv'
    BY HeldStep
  <1>2. HeldInv => PortHeld
    BY DEF HeldInv, Held, Ours, Clear, PortHeld
  <1>3. QED
    BY <1>1, <1>2, HeldStart, PTL DEF Spec
-----------------------------------------------------------------------------
(* Types.                                                                  *)

Took == [how: {"none", "refused"}] \cup
        [how: {"own", "taken"}, addr: Addresses,
         from: {"none", "systemd", "launchd", "webspec-init", "other", "several"}]

LEMMA HolderTyped ==
  ASSUME NEW names \in SUBSET {"webspec-gateway.socket", "webspec-init", "other"}
  PROVE  Holder(names) \in {"systemd", "webspec-init", "other", "several"}
  <1>1. CASE names \subseteq {"webspec-gateway.socket"}
    BY <1>1 DEF Holder
  <1>2. CASE ~(names \subseteq {"webspec-gateway.socket"}) /\ Cardinality(names) # 1
    BY <1>2 DEF Holder
  <1>3. CASE ~(names \subseteq {"webspec-gateway.socket"}) /\ Cardinality(names) = 1
    <2>1. PICK m \in names : m # "webspec-gateway.socket"
      BY <1>3
    <2>2. IsFiniteSet({"webspec-gateway.socket"} \cup {"webspec-init"} \cup {"other"})
      <3>1. IsFiniteSet({"webspec-gateway.socket"})
        BY FS_Singleton
      <3>2. IsFiniteSet({"webspec-gateway.socket"} \cup {"webspec-init"})
        BY <3>1, FS_AddElement
      <3>3. QED
        BY <3>2, FS_AddElement
    <2>3. IsFiniteSet(names)
      <3>1. names \in SUBSET ({"webspec-gateway.socket"} \cup {"webspec-init"} \cup {"other"})
        OBVIOUS
      <3>2. QED
        BY <2>2, <3>1, FS_Subset
    <2>4. names = {m}
      BY <1>3, <2>1, <2>3, FS_Singleton
    <2>5. (CHOOSE n \in names : TRUE) = m
      BY <2>4
    <2>6. Holder(names) = m
      BY <1>3, <2>5 DEF Holder
    <2>7. QED
      BY <2>1, <2>6
  <1>4. QED
    BY <1>1, <1>2, <1>3

LEMMA CheckedTyped ==
  ASSUME NEW s \in Socket, NEW host,
         NEW from \in {"systemd", "launchd", "webspec-init", "other", "several"}
  PROVE  Checked(s, host, from) \in Took
  BY DEF Checked, Taken, Refused, Took, Socket

LEMMA StartTyped ==
  ASSUME NEW e \in Environments, NEW free
  PROVE  Start(e, free) \in Took
  <1>1. /\ e.passed \in Seq(Socket)
        /\ e.names \in SUBSET {"webspec-gateway.socket", "webspec-init", "other"}
    BY DEF Environments
  <1>2. e.passed # <<>> => Head(e.passed) \in Socket
    BY <1>1
  <1>3. Len(e.passed) = 1 => e.passed[1] \in Socket
    BY <1>1
  <1>4. Holder(e.names) \in {"systemd", "webspec-init", "other", "several"}
    BY <1>1, HolderTyped
  <1>5. None \in Took /\ Refused \in Took
    BY DEF None, Refused, Took
  <1>6. FromSystemd(e) \in Took
    BY <1>2, <1>4, <1>5, CheckedTyped DEF FromSystemd
  <1>7. FromLaunchd(e) \in Took
    <2>1. FromLaunchd(e) = Refused \/ (Len(e.passed) = 1 /\ FromLaunchd(e) = Checked(e.passed[1], e.host, "launchd"))
      BY Zenon DEF FromLaunchd
    <2>2. QED
      BY <1>3, <1>5, <2>1, CheckedTyped
  <1>8. InheritedSocket(e) \in Took
    BY <1>5, <1>6, <1>7 DEF InheritedSocket
  <1>9. BindHost(e.host) \in Addresses
    <2>1. Loopback \subseteq Addresses /\ "127.0.0.1" \in Loopback /\ Resolved \in Addresses
      BY ActivationAssumption, Zenon
    <2>2. \/ BindHost(e.host) = "127.0.0.1" \/ BindHost(e.host) = Resolved
          \/ BindHost(e.host) = Named(Text(e.host)) /\ Named(Text(e.host)) # NoAddress
      BY Zenon DEF BindHost
    <2>3. Named(Text(e.host)) \in Addresses \cup {NoAddress}
      BY DEF Named
    <2>4. QED
      BY <2>1, <2>2, <2>3
  <1>10. [how |-> "own", addr |-> BindHost(e.host), from |-> "none"] \in Took
    BY <1>9 DEF Took
  <1>11. QED
    BY <1>5, <1>8, <1>10 DEF Start

LEMMA Limits ==
  /\ Transit \in Nat /\ Grace \in Nat /\ CallLimit \in Nat /\ StopLimit \in Nat
  /\ Transit < Grace /\ Grace <= StopLimit /\ Transit <= CallLimit /\ CallLimit < StopLimit
  /\ 0 \in 0 .. CallLimit /\ StopLimit \in 0 .. StopLimit /\ Grace \in 0 .. StopLimit
  BY DrainAssumption

LEMMA TypedShape == TypeOK => Shape
  BY DEF TypeOK, DrainTypeOK, Process, Shape

Stages == {"none", "starting", "serving", "grace", "closing", "zombie", "reaped"}

LEMMA ProcessIs ==
  Process = [st: Stages, on: Took, stopped: BOOLEAN, signals: SUBSET {"TERM", "HUP"},
             left: 0 .. StopLimit, paused: BOOLEAN]
  BY DEF Process, Stages, Took

\* What a step may make of the process keeps it one.
LEMMA ProcessUpdated ==
  ASSUME NEW g \in Process
  PROVE  /\ \A s \in Stages : [g EXCEPT !.st = s] \in Process
         /\ \A s \in Stages, n \in 0 .. StopLimit : [g EXCEPT !.st = s, !.left = n] \in Process
         /\ \A s \in Stages, o \in Took : [g EXCEPT !.on = o, !.st = s] \in Process
         /\ \A x \in SUBSET {"TERM", "HUP"} : [g EXCEPT !.signals = x] \in Process
         /\ \A b \in BOOLEAN : [g EXCEPT !.stopped = b] \in Process
         /\ \A n \in 0 .. StopLimit, b \in BOOLEAN : [g EXCEPT !.left = n, !.paused = b] \in Process
  <1> DEFINE Signals == SUBSET {"TERM", "HUP"}
             Times   == 0 .. StopLimit
  <1>0. Process = [st: Stages, on: Took, stopped: BOOLEAN, signals: Signals, left: Times, paused: BOOLEAN]
    BY ProcessIs
  <1> HIDE DEF Signals, Times
  <1>1. ASSUME NEW h \in Process, NEW s \in Stages PROVE [h EXCEPT !.st = s] \in Process
    BY <1>0
  <1>2. ASSUME NEW h \in Process, NEW o \in Took PROVE [h EXCEPT !.on = o] \in Process
    BY <1>0
  <1>3. ASSUME NEW h \in Process, NEW b \in BOOLEAN PROVE [h EXCEPT !.stopped = b] \in Process
    BY <1>0
  <1>4. ASSUME NEW h \in Process, NEW x \in Signals PROVE [h EXCEPT !.signals = x] \in Process
    BY <1>0
  <1>5. ASSUME NEW h \in Process, NEW n \in Times PROVE [h EXCEPT !.left = n] \in Process
    BY <1>0
  <1>6. ASSUME NEW h \in Process, NEW b \in BOOLEAN PROVE [h EXCEPT !.paused = b] \in Process
    BY <1>0
  <1>7. ASSUME NEW s, NEW n
        PROVE  /\ [g EXCEPT !.st = s, !.left = n] = [[g EXCEPT !.st = s] EXCEPT !.left = n]
               /\ [g EXCEPT !.on = n, !.st = s] = [[g EXCEPT !.on = n] EXCEPT !.st = s]
               /\ [g EXCEPT !.left = n, !.paused = s] = [[g EXCEPT !.left = n] EXCEPT !.paused = s]
    OBVIOUS
  <1>8. QED
    BY <1>1, <1>2, <1>3, <1>4, <1>5, <1>6, <1>7 DEF Signals, Times

LEMMA NewProcess == NoProcess \in Process
  <1>1. 0 \in 0 .. StopLimit
    BY Limits
  <1>2. None \in Took
    BY DEF None, Took
  <1>3. QED
    BY <1>1, <1>2, ProcessIs DEF NoProcess, Stages

LEMMA EndedTyped == gw \in Process => Ended \in Process
  <1>1. 0 \in 0 .. StopLimit
    BY Limits
  <1>2. QED
    BY <1>1, ProcessIs DEF Ended, Stages

LEMMA ProcessAges == gw \in Process /\ Pass => gw' \in Process
  <1> SUFFICES ASSUME gw \in Process, Pass PROVE gw' \in Process
    OBVIOUS
  <1> DEFINE n == IF gw.left = 0 THEN 0 ELSE gw.left - 1
             b == gw.paused \/ (gw.stopped /\ Stopping)
  <1>1. gw.left \in 0 .. StopLimit /\ gw.paused \in BOOLEAN
    BY ProcessIs
  <1>2. n \in 0 .. StopLimit
    BY <1>1, Limits
  <1>3. b \in BOOLEAN
    OBVIOUS
  <1>4. gw' = [gw EXCEPT !.left = n, !.paused = b]
    BY DEF Pass
  <1> HIDE DEF n, b
  <1>5. QED
    BY <1>2, <1>3, <1>4, ProcessUpdated

LEMMA ProcessTyped ==
  ASSUME gw \in Process,
         \/ UNCHANGED gw
         \/ Pass \/ Killed \/ Shutdown \/ GraceOver \/ Exit \/ LimitOver \/ DieOf
         \/ \E x \in SUBSET {"TERM", "HUP"} : gw' = [gw EXCEPT !.signals = x]
         \/ \E b \in BOOLEAN : gw' = [gw EXCEPT !.stopped = b]
         \/ gw' = [gw EXCEPT !.st = "reaped"]
         \/ gw' = [NoProcess EXCEPT !.st = "starting"]
         \/ \E o \in Took, s \in {"zombie", "serving"} : gw' = [gw EXCEPT !.on = o, !.st = s]
  PROVE  gw' \in Process
  <1>1. {"closing", "grace", "reaped", "starting", "zombie", "serving"} \subseteq Stages
    BY DEF Stages
  <1>2. StopLimit \in 0 .. StopLimit /\ Grace \in 0 .. StopLimit
    BY Limits
  <1>3. CASE Pass
    BY <1>3, ProcessAges
  <1>4. CASE Killed \/ DieOf \/ Exit \/ LimitOver
    <2>1. gw' = Ended
      BY <1>4 DEF Killed, DieOf, Exit, LimitOver
    <2>2. QED
      BY <2>1, EndedTyped
  <1>5. CASE Shutdown \/ GraceOver
    <2>1. \/ gw' = [gw EXCEPT !.st = "closing", !.left = StopLimit]
          \/ gw' = [gw EXCEPT !.st = "grace", !.left = Grace]
      BY <1>5 DEF Shutdown, GraceOver, Closing
    <2>2. CASE gw' = [gw EXCEPT !.st = "closing", !.left = StopLimit]
      BY <1>1, <1>2, <2>2, ProcessUpdated
    <2>3. CASE gw' = [gw EXCEPT !.st = "grace", !.left = Grace]
      BY <1>1, <1>2, <2>3, ProcessUpdated
    <2>4. QED
      BY <2>1, <2>2, <2>3
  <1>6. CASE gw' = [NoProcess EXCEPT !.st = "starting"]
    BY <1>1, <1>6, NewProcess, ProcessUpdated
  <1>7. CASE gw' = [gw EXCEPT !.st = "reaped"]
    BY <1>1, <1>7, ProcessUpdated
  <1>8. CASE \E x \in SUBSET {"TERM", "HUP"} : gw' = [gw EXCEPT !.signals = x]
    BY <1>8, ProcessUpdated
  <1>9. CASE \E b \in BOOLEAN : gw' = [gw EXCEPT !.stopped = b]
    BY <1>9, ProcessUpdated
  <1>10. CASE \E o \in Took, s \in {"zombie", "serving"} : gw' = [gw EXCEPT !.on = o, !.st = s]
    <2>1. PICK o \in Took, s \in {"zombie", "serving"} : gw' = [gw EXCEPT !.on = o, !.st = s]
      BY <1>10
    <2>2. s \in Stages
      BY <1>1
    <2>3. QED
      BY <2>1, <2>2, ProcessUpdated
  <1>11. QED
    BY <1>3, <1>4, <1>5, <1>6, <1>7, <1>8, <1>9, <1>10

Whys == {"none", "idle", "drain", "undrained", "limit", "paused", "killed", "reset", "closed"}

LEMMA CutTyped ==
  ASSUME NEW k \in Connection, NEW why \in Whys
  PROVE  Lost(k, why) \in Connection /\ Cut(k, why) \in Connection
  BY DEF Connection, Lost, Cut, Whys

LEMMA CutAllTyped ==
  ASSUME conn \in [Conns -> Connection], NEW cs, NEW why \in Whys
  PROVE  CutAll(cs, why) \in [Conns -> Connection]
  BY CutTyped DEF CutAll

LEMMA NewConnection == NoConnection \in Connection
  BY Limits DEF NoConnection, Connection

LEMMA OlderTyped ==
  ASSUME conn \in [Conns -> Connection], NEW c \in Conns, MayPass
  PROVE  Older(conn[c]) \in Connection
  <1> DEFINE k == conn[c]
  <1>1. k \in Connection
    OBVIOUS
  <1>2. k.age \in 0 .. CallLimit
    BY <1>1 DEF Connection
  <1>3. k.req = "wire" => k.age < CallLimit
    BY <1>2, Limits DEF MayPass
  <1> HIDE DEF k
  <1>4. CASE Older(k) = k
    BY <1>1, <1>4 DEF k
  <1>5. CASE Older(k) # k
    <2>1. k.age < CallLimit /\ Older(k) = [k EXCEPT !.age = k.age + 1]
      BY <1>3, <1>5 DEF Older
    <2>2. k.age + 1 \in 0 .. CallLimit
      BY <1>2, <2>1, Limits
    <2>3. [k EXCEPT !.age = k.age + 1] \in Connection
      BY <1>1, <2>2 DEF Connection
    <2>4. QED
      BY <2>1, <2>3 DEF k
  <1>6. QED
    BY <1>4, <1>5

LEMMA ConnectionUpdated ==
  ASSUME NEW k \in Connection
  PROVE  /\ [k EXCEPT !.at = "queued"] \in Connection /\ [k EXCEPT !.at = "open"] \in Connection
         /\ [k EXCEPT !.req = "running"] \in Connection
         /\ [k EXCEPT !.req = "here", !.age = 0] \in Connection
         /\ \A b \in BOOLEAN : [NoConnection EXCEPT !.at = "open", !.kept = b] \in Connection
         /\ \A b, d \in BOOLEAN :
               [k EXCEPT !.req = "wire", !.age = 0, !.endless = b, !.late = d] \in Connection
  <1> DEFINE Ages == 0 .. CallLimit
  <1>1. Connection =
           [at: {"none", "queued", "open", "fin", "closed"},
            req: {"none", "wire", "here", "running", "lost"}, age: Ages,
            endless: BOOLEAN, late: BOOLEAN, kept: BOOLEAN, why: Whys]
    BY DEF Connection, Whys
  <1>2. 0 \in Ages
    BY Limits
  <1> HIDE DEF Ages
  <1>3. [k EXCEPT !.at = "queued"] \in Connection /\ [k EXCEPT !.at = "open"] \in Connection
    BY <1>1
  <1>4. [k EXCEPT !.req = "running"] \in Connection
    BY <1>1
  <1>5. [k EXCEPT !.req = "here", !.age = 0] \in Connection
    BY <1>1, <1>2
  <1>6. ASSUME NEW b \in BOOLEAN PROVE [NoConnection EXCEPT !.at = "open", !.kept = b] \in Connection
    BY <1>1, NewConnection
  <1>7. ASSUME NEW b \in BOOLEAN, NEW d \in BOOLEAN
        PROVE  [k EXCEPT !.req = "wire", !.age = 0, !.endless = b, !.late = d] \in Connection
    BY <1>1, <1>2
  <1>8. QED
    BY <1>3, <1>4, <1>5, <1>6, <1>7

\* What the client and the gateway do to one connection.
LEMMA ConnectionTyped ==
  ASSUME NEW c \in Conns, conn \in [Conns -> Connection],
         \/ Connect(c) \/ Reaches(c) \/ Learn(c) \/ Accept(c) \/ Read(c)
         \/ Answer(c) \/ KeepAliveOver(c)
         \/ \E endless \in BOOLEAN : Send(c, endless)
  PROVE  conn' \in [Conns -> Connection]
  <1>1. conn[c] \in Connection
    OBVIOUS
  <1>2. ASSUME NEW k \in Connection, conn' = [conn EXCEPT ![c] = k]
        PROVE  conn' \in [Conns -> Connection]
    BY <1>2
  <1>3. CASE Connect(c)
    BY <1>1, <1>2, <1>3, ConnectionUpdated DEF Connect
  <1>4. CASE Accept(c)
    BY <1>1, <1>2, <1>4, ConnectionUpdated DEF Accept
  <1>5. CASE Read(c)
    BY <1>1, <1>2, <1>5, ConnectionUpdated DEF Read
  <1>6. CASE Reaches(c)
    BY <1>1, <1>2, <1>6, ConnectionUpdated DEF Reaches
  <1>7. CASE Learn(c)
    BY <1>2, <1>7, NewConnection DEF Learn
  <1>8. CASE KeepAliveOver(c)
    <2>1. Cut(conn[c], "idle") \in Connection
      BY <1>1, CutTyped DEF Whys
    <2>2. QED
      BY <1>2, <1>8, <2>1 DEF KeepAliveOver
  <1>9. CASE Answer(c)
    <2>1. Stopping \in BOOLEAN
      BY DEF Stopping
    <2>2. [NoConnection EXCEPT !.at = "open", !.kept = Stopping] \in Connection
      BY <1>1, <2>1, ConnectionUpdated
    <2>3. \/ conn' = [conn EXCEPT ![c] = NoConnection]
          \/ conn' = [conn EXCEPT ![c] = [NoConnection EXCEPT !.at = "open", !.kept = Stopping]]
      BY <1>9 DEF Answer
    <2>4. QED
      BY <1>2, <2>2, <2>3, NewConnection
  <1>10. ASSUME NEW endless \in BOOLEAN, Send(c, endless) PROVE conn' \in [Conns -> Connection]
    <2> DEFINE late == gw.st = "closing" \/ (gw.st = "grace" /\ gw.left <= Transit)
               sent == [conn[c] EXCEPT !.req = "wire", !.age = 0, !.endless = endless, !.late = late]
    <2>1. late \in BOOLEAN
      OBVIOUS
    <2> HIDE DEF late
    <2>2. sent \in Connection
      BY <1>1, <2>1, ConnectionUpdated
    <2>3. Lost(conn[c], "closed") \in Connection
      BY <1>1, CutTyped DEF Whys
    <2>4. conn' = [conn EXCEPT ![c] = sent] \/ conn' = [conn EXCEPT ![c] = Lost(conn[c], "closed")]
      BY <1>10 DEF Send, sent, late
    <2> HIDE DEF sent
    <2>5. QED
      BY <1>2, <2>2, <2>3, <2>4
  <1>11. QED
    BY <1>3, <1>4, <1>5, <1>6, <1>7, <1>8, <1>9, <1>10

\* What the gateway, its end and the kernel close.
LEMMA CutsTyped ==
  ASSUME conn \in [Conns -> Connection],
         Killed \/ Shutdown \/ GraceOver \/ LimitOver \/ DieOf \/ conn' = CutAll(At("queued"), "reset")
  PROVE  conn' \in [Conns -> Connection]
  <1>1. {"drain", "undrained", "limit", "paused", "killed", "reset"} \subseteq Whys
    BY DEF Whys
  <1>2. ASSUME NEW cs, NEW why \in Whys, conn' = CutAll(cs, why) PROVE conn' \in [Conns -> Connection]
    BY <1>2, CutAllTyped
  <1>3. CASE Killed \/ DieOf
    <2>1. conn' = CutAll(At("open"), "killed")
      BY <1>3 DEF Killed, DieOf
    <2>2. QED
      BY <1>1, <1>2, <2>1
  <1>4. CASE Shutdown
    <2>1. UNCHANGED conn \/ conn' = CutAll(Unread, "undrained")
      BY <1>4 DEF Shutdown
    <2>2. QED
      BY <1>1, <1>2, <2>1
  <1>5. CASE GraceOver
    <2>1. conn' = CutAll(Unread, "drain")
      BY <1>5 DEF GraceOver
    <2>2. QED
      BY <1>1, <1>2, <2>1
  <1>6. CASE LimitOver
    <2>1. conn' = CutAll(At("open"), "paused") \/ conn' = CutAll(At("open"), "limit")
      BY <1>6 DEF LimitOver
    <2>2. QED
      BY <1>1, <1>2, <2>1
  <1>7. CASE conn' = CutAll(At("queued"), "reset")
    BY <1>1, <1>2, <1>7
  <1>8. QED
    BY <1>3, <1>4, <1>5, <1>6, <1>7

LEMMA ConnectionsTyped ==
  ASSUME DrainTypeOK,
         \/ UNCHANGED conn
         \/ Pass \/ Killed \/ Shutdown \/ GraceOver \/ Exit \/ LimitOver \/ DieOf
         \/ conn' = CutAll(At("queued"), "reset")
         \/ \E c \in Conns : \/ Connect(c) \/ Reaches(c) \/ Learn(c) \/ Accept(c) \/ Read(c)
                             \/ Answer(c) \/ KeepAliveOver(c)
                             \/ \E endless \in BOOLEAN : Send(c, endless)
  PROVE  conn' \in [Conns -> Connection]
  <1>1. conn \in [Conns -> Connection]
    BY DEF DrainTypeOK
  <1>2. CASE UNCHANGED conn \/ Exit
    BY <1>1, <1>2 DEF Exit
  <1>3. CASE Pass
    BY <1>1, <1>3, OlderTyped DEF Pass
  <1>4. CASE Killed \/ Shutdown \/ GraceOver \/ LimitOver \/ DieOf \/ conn' = CutAll(At("queued"), "reset")
    BY <1>1, <1>4, CutsTyped
  <1>5. CASE \E c \in Conns : \/ Connect(c) \/ Reaches(c) \/ Learn(c) \/ Accept(c) \/ Read(c)
                              \/ Answer(c) \/ KeepAliveOver(c)
                              \/ \E endless \in BOOLEAN : Send(c, endless)
    BY <1>1, <1>5, ConnectionTyped
  <1>6. QED
    BY <1>2, <1>3, <1>4, <1>5
\* The steps of the composition, by what they do to the gateway's process.
LEMMA GatewayTyped ==
  ASSUME TypeOK, StartInv, [Next]_vars
  PROVE  gw' \in Process
  <1>1. gw \in Process
    BY DEF TypeOK, DrainTypeOK
  <1>2. gw.signals \in SUBSET {"TERM", "HUP"}
    BY <1>1, ProcessIs
  <1>3. /\ UNCHANGED gw => gw' \in Process
        /\ Pass \/ Killed \/ Shutdown \/ GraceOver \/ Exit \/ LimitOver \/ DieOf => gw' \in Process
        /\ \A x \in SUBSET {"TERM", "HUP"} : gw' = [gw EXCEPT !.signals = x] => gw' \in Process
        /\ \A b \in BOOLEAN : gw' = [gw EXCEPT !.stopped = b] => gw' \in Process
        /\ gw' = [gw EXCEPT !.st = "reaped"] => gw' \in Process
        /\ gw' = [NoProcess EXCEPT !.st = "starting"] => gw' \in Process
        /\ \A o \in Took, s \in {"zombie", "serving"} :
              gw' = [gw EXCEPT !.on = o, !.st = s] => gw' \in Process
    BY <1>1, ProcessTyped
  <1>4. ASSUME NEW s \in {"TERM", "HUP"}, gw' = [gw EXCEPT !.signals = @ \cup {s}] PROVE gw' \in Process
    <2>1. gw.signals \cup {s} \in SUBSET {"TERM", "HUP"}
      BY <1>2
    <2>2. gw' = [gw EXCEPT !.signals = gw.signals \cup {s}]
      BY <1>4
    <2>3. QED
      BY <1>3, <2>1, <2>2
  <1>5. ASSUME Boot \/ EndEveryoneElse \/ Release \/ Gone PROVE gw' \in Process
    BY <1>3, <1>5 DEF Boot, EndEveryoneElse, Release, Gone
  <1>6. ASSUME NEW s \in init.signals, TakeSignal(s) PROVE gw' \in Process
    <2>1. init.signals \subseteq {"TERM", "HUP", "CHLD"}
      BY DEF TypeOK
    <2>2. UNCHANGED gw \/ (s # "CHLD" /\ gw' = [gw EXCEPT !.signals = @ \cup {s}])
      BY <1>6 DEF TakeSignal
    <2>3. QED
      BY <1>3, <1>4, <2>1, <2>2
  <1>7. ASSUME Reap PROVE gw' \in Process
    <2>1. \/ UNCHANGED gw
          \/ gw' = [gw EXCEPT !.st = "reaped"]
          \/ gw' = [gw EXCEPT !.stopped = FALSE]
      BY <1>7 DEF Reap, ReapGateway, Continue, ReapStray, NothingToReap
    <2>2. QED
      BY <1>3, <2>1
  <1>8. ASSUME ManagerStart \/ ManagerReap \/ ManagerKill PROVE gw' \in Process
    BY <1>3, <1>8 DEF ManagerStart, ManagerReap, ManagerKill
  <1>9. ASSUME Main(Environment, Free) PROVE gw' \in Process
    <2>1. gw.st # "none"
      BY <1>9 DEF Main, Runs, Alive
    <2>2. Environment \in Environments
      BY <2>1, EnvironmentKept
    <2>3. Start(Environment, Free) \in Took
      BY <2>2, StartTyped
    <2>4. \E s \in {"zombie", "serving"} : gw' = [gw EXCEPT !.on = Start(Environment, Free), !.st = s]
      BY <1>9 DEF Main
    <2>5. QED
      BY <1>3, <2>3, <2>4
  <1>10. ASSUME GatewayProcess PROVE gw' \in Process
    BY <1>3, <1>9, <1>10 DEF GatewayProcess
  <1>11. ASSUME (\E c \in Conns : Serve(c)) \/ IdleOver \/ Clients \/ Network \/ RootEnters PROVE gw' \in Process
    BY <1>3, <1>11 DEF Serve, Accept, Read, Answer, IdleOver, KeepAliveOver, Clients, Connect, Send,
                       Network, Reaches, Learn, RootEnters
  <1>12. ASSUME NEW p \in Strays,
                Appear(p) \/ Die(p) \/ Leave(p) \/ \E a \in Addresses : Steal(p, a)
         PROVE  gw' \in Process
    BY <1>3, <1>12 DEF Appear, Die, Leave, Steal
  <1>13. ASSUME Tick PROVE gw' \in Process
    BY <1>3, <1>13 DEF Tick
  <1>14. ASSUME Signal PROVE gw' \in Process
    <2>1. \/ UNCHANGED gw \/ Killed
          \/ \E s \in {"TERM", "HUP"} : gw' = [gw EXCEPT !.signals = @ \cup {s}]
          \/ gw' = [gw EXCEPT !.stopped = TRUE]
      BY <1>14 DEF Signal
    <2>2. QED
      BY <1>3, <1>4, <2>1
  <1>15. ASSUME UNCHANGED vars PROVE gw' \in Process
    BY <1>3, <1>15 DEF vars
  <1>16. QED
    BY <1>5, <1>6, <1>7, <1>8, <1>10, <1>11, <1>12, <1>13, <1>14, <1>15 DEF Next, InitProcess

\* And by what they do to the connections.
ConnectionSteps ==
    \/ UNCHANGED conn
    \/ Pass \/ Killed \/ Shutdown \/ GraceOver \/ LimitOver
    \/ ~Listening /\ conn' = CutAll(At("queued"), "reset") /\ UNCHANGED gw
    \/ \E c \in Conns : \/ Connect(c) \/ Reaches(c) \/ Learn(c) \/ Accept(c) \/ Read(c)
                        \/ Answer(c) \/ KeepAliveOver(c)
                        \/ \E endless \in BOOLEAN : Send(c, endless)

LEMMA EachConnectionStep == [Next]_vars => ConnectionSteps
  <1> SUFFICES ASSUME [Next]_vars PROVE ConnectionSteps
    OBVIOUS
  <1>1. ASSUME InitProcess \/ ManagerStart \/ ManagerReap \/ RootEnters \/ UNCHANGED vars
        PROVE  UNCHANGED conn
    BY <1>1 DEF InitProcess, Boot, TakeSignal, Reap, EndEveryoneElse, Release, Gone, ManagerStart, ManagerReap,
                RootEnters, vars
  <1>2. ASSUME ManagerKill PROVE Killed
    BY <1>2 DEF ManagerKill
  <1>3. ASSUME GatewayProcess
        PROVE  UNCHANGED conn \/ Killed \/ Shutdown \/ GraceOver \/ LimitOver
    BY <1>3 DEF GatewayProcess, Main, Exit, DieOf
  <1>4. ASSUME NEW c \in Conns, Serve(c) PROVE Accept(c) \/ Read(c) \/ Answer(c)
    BY <1>4 DEF Serve
  <1>5. ASSUME IdleOver \/ Clients \/ Network PROVE ConnectionSteps
    BY <1>5 DEF IdleOver, Clients, Network, ConnectionSteps
  <1>6. ASSUME Tick PROVE Pass
    BY <1>6 DEF Tick
  <1>7. ASSUME NEW p \in Strays,
               Appear(p) \/ Die(p) \/ Leave(p) \/ \E a \in Addresses : Steal(p, a)
        PROVE  UNCHANGED conn
    BY <1>7 DEF Appear, Die, Leave, Steal
  <1>8. ASSUME Signal PROVE UNCHANGED conn \/ Killed
    BY <1>8 DEF Signal
  <1>9. QED
    BY <1>1, <1>2, <1>3, <1>4, <1>5, <1>6, <1>7, <1>8 DEF Next, ConnectionSteps

InitProcesses ==
    [at: {"none", "boot", "waiting", "reaping", "ending", "exiting", "gone"},
     signals: SUBSET {"TERM", "HUP", "CHLD"}, left: 0 .. EndLimit, gaveUp: BOOLEAN]

LEMMA InitUpdated ==
  ASSUME NEW i \in InitProcesses
  PROVE  /\ \A a \in {"waiting", "reaping", "gone"} : [i EXCEPT !.at = a] \in InitProcesses
         /\ \A s \in {"TERM", "HUP", "CHLD"} : [i EXCEPT !.signals = @ \cup {s}] \in InitProcesses
         /\ \A s \in {"TERM", "HUP", "CHLD"}, a \in {"waiting", "reaping"} :
               [i EXCEPT !.signals = @ \ {s}, !.at = a] \in InitProcesses
         /\ \A a \in {"waiting", "ending", "exiting"}, n \in 0 .. EndLimit :
               [i EXCEPT !.at = a, !.left = n] \in InitProcesses
         /\ \A b \in BOOLEAN : [i EXCEPT !.at = "exiting", !.gaveUp = b] \in InitProcesses
         /\ \A n \in 0 .. EndLimit : [i EXCEPT !.left = n] \in InitProcesses
  <1> DEFINE Places  == {"none", "boot", "waiting", "reaping", "ending", "exiting", "gone"}
             Signals == SUBSET {"TERM", "HUP", "CHLD"}
             Times   == 0 .. EndLimit
  <1>0. InitProcesses = [at: Places, signals: Signals, left: Times, gaveUp: BOOLEAN]
    BY DEF InitProcesses
  <1>1. {"waiting", "reaping", "ending", "exiting", "gone"} \subseteq Places
    OBVIOUS
  <1>2. /\ i.signals \in Signals
        /\ \A s \in {"TERM", "HUP", "CHLD"} : i.signals \cup {s} \in Signals
        /\ \A s : i.signals \ {s} \in Signals
    <2>1. i.signals \in Signals
      BY <1>0
    <2>2. QED
      BY <2>1
  <1> HIDE DEF Places, Signals, Times
  <1>3. ASSUME NEW h \in InitProcesses, NEW a \in Places PROVE [h EXCEPT !.at = a] \in InitProcesses
    BY <1>0
  <1>4. ASSUME NEW h \in InitProcesses, NEW x \in Signals PROVE [h EXCEPT !.signals = x] \in InitProcesses
    BY <1>0
  <1>5. ASSUME NEW h \in InitProcesses, NEW n \in Times PROVE [h EXCEPT !.left = n] \in InitProcesses
    BY <1>0
  <1>6. ASSUME NEW h \in InitProcesses, NEW b \in BOOLEAN PROVE [h EXCEPT !.gaveUp = b] \in InitProcesses
    BY <1>0
  <1>7. ASSUME NEW x, NEW a
        PROVE  /\ [i EXCEPT !.signals = x, !.at = a] = [[i EXCEPT !.signals = x] EXCEPT !.at = a]
               /\ [i EXCEPT !.at = a, !.left = x] = [[i EXCEPT !.at = a] EXCEPT !.left = x]
               /\ [i EXCEPT !.at = a, !.gaveUp = x] = [[i EXCEPT !.at = a] EXCEPT !.gaveUp = x]
    OBVIOUS
  <1>8. \A a \in {"waiting", "reaping", "gone"} : [i EXCEPT !.at = a] \in InitProcesses
    BY <1>1, <1>3
  <1>9. \A s \in {"TERM", "HUP", "CHLD"} : [i EXCEPT !.signals = i.signals \cup {s}] \in InitProcesses
    BY <1>2, <1>4
  <1>10. \A s \in {"TERM", "HUP", "CHLD"}, a \in {"waiting", "reaping"} :
            [i EXCEPT !.signals = i.signals \ {s}, !.at = a] \in InitProcesses
    BY <1>1, <1>2, <1>3, <1>4, <1>7
  <1>11. \A a \in {"waiting", "ending", "exiting"}, n \in Times :
            [i EXCEPT !.at = a, !.left = n] \in InitProcesses
    BY <1>1, <1>3, <1>5, <1>7
  <1>12. \A b \in BOOLEAN : [i EXCEPT !.at = "exiting", !.gaveUp = b] \in InitProcesses
    BY <1>1, <1>3, <1>6, <1>7
  <1>13. \A n \in Times : [i EXCEPT !.left = n] \in InitProcesses
    BY <1>5
  <1>14. QED
    BY <1>8, <1>9, <1>10, <1>11, <1>12, <1>13 DEF Times

\* What the steps do to the init's process.
LEMMA InitTyped ==
  ASSUME TypeOK, [Next]_vars
  PROVE  init' \in InitProcesses
  <1>1. init \in InitProcesses
    BY DEF TypeOK, InitProcesses
  <1>2. UNCHANGED init => init' \in InitProcesses
    BY <1>1
  <1>3. ASSUME NEW s \in {"TERM", "HUP", "CHLD"}, init' = [init EXCEPT !.signals = @ \cup {s}]
        PROVE  init' \in InitProcesses
    BY <1>1, <1>3, InitUpdated
  <1>4. init.left \in 0 .. EndLimit /\ init.signals \subseteq {"TERM", "HUP", "CHLD"}
    BY <1>1 DEF InitProcesses
  <1>5. ASSUME Boot PROVE init' \in InitProcesses
    <2>1. \E a \in {"waiting", "reaping", "gone"} : init' = [init EXCEPT !.at = a]
      BY <1>5 DEF Boot
    <2>2. QED
      BY <1>1, <2>1, InitUpdated
  <1>6. ASSUME NEW s \in init.signals, TakeSignal(s) PROVE init' \in InitProcesses
    <2>1. s \in {"TERM", "HUP", "CHLD"}
      BY <1>4
    <2>2. \E a \in {"waiting", "reaping"} : init' = [init EXCEPT !.signals = @ \ {s}, !.at = a]
      BY <1>6 DEF TakeSignal
    <2>3. QED
      BY <1>1, <2>1, <2>2, InitUpdated
  <1>7. ASSUME Reap PROVE init' \in InitProcesses
    <2>1. 0 \in 0 .. EndLimit /\ EndLimit \in 0 .. EndLimit
      BY ContainerAssumption
    <2>2. CASE NothingToReap
      <3>1. PICK a \in {"waiting", "ending", "exiting"}, n \in 0 .. EndLimit :
               init' = [init EXCEPT !.at = a, !.left = n]
        BY <2>1, <2>2 DEF NothingToReap, AfterReaping
      <3>2. [init EXCEPT !.at = a, !.left = n] \in InitProcesses
        BY <1>1, InitUpdated
      <3>3. QED
        BY <3>1, <3>2
    <2>3. CASE Continue
      BY <1>3, <2>3 DEF Continue
    <2>4. QED
      BY <1>2, <1>7, <2>2, <2>3 DEF Reap, ReapGateway, ReapStray
  <1>8. ASSUME EndEveryoneElse PROVE init' \in InitProcesses
    <2>1. OthersLeft \in BOOLEAN
      BY DEF OthersLeft
    <2>2. UNCHANGED init \/ init' = [init EXCEPT !.at = "exiting", !.gaveUp = OthersLeft]
      BY <1>8 DEF EndEveryoneElse
    <2>3. QED
      BY <1>1, <2>1, <2>2, InitUpdated
  <1>9. ASSUME Release \/ Gone PROVE init' \in InitProcesses
    <2>1. UNCHANGED init \/ init' = [init EXCEPT !.at = "gone"]
      BY <1>9 DEF Release, Gone
    <2>2. QED
      BY <1>1, <2>1, InitUpdated
  <1>10. ASSUME ManagerStart \/ ManagerReap \/ ManagerKill \/ (\E c \in Conns : Serve(c)) \/ IdleOver
                \/ Clients \/ Network \/ RootEnters \/ UNCHANGED vars
         PROVE  init' \in InitProcesses
    BY <1>2, <1>10 DEF ManagerStart, ManagerReap, ManagerKill, Serve, IdleOver, Clients, Network, RootEnters, vars
  <1>11. ASSUME ChildDied PROVE init' \in InitProcesses
    BY <1>2, <1>3, <1>11 DEF ChildDied
  <1>12. ASSUME GatewayProcess PROVE init' \in InitProcesses
    BY <1>11, <1>12 DEF GatewayProcess
  <1>13. ASSUME NEW p \in Strays,
                Appear(p) \/ Die(p) \/ Leave(p) \/ \E a \in Addresses : Steal(p, a)
         PROVE  init' \in InitProcesses
    BY <1>2, <1>3, <1>13 DEF Appear, Die, Leave, Steal
  <1>14. ASSUME Tick PROVE init' \in InitProcesses
    <2>1. (IF init.left = 0 THEN 0 ELSE init.left - 1) \in 0 .. EndLimit
      BY <1>4, ContainerAssumption
    <2>2. init' = [init EXCEPT !.left = IF init.left = 0 THEN 0 ELSE init.left - 1]
      BY <1>14 DEF Tick
    <2>3. QED
      BY <1>1, <2>1, <2>2, InitUpdated
  <1>15. ASSUME Signal PROVE init' \in InitProcesses
    <2>1. \/ UNCHANGED init \/ ChildDied
          \/ \E s \in {"TERM", "HUP", "CHLD"} : init' = [init EXCEPT !.signals = @ \cup {s}]
      BY <1>15 DEF Signal
    <2>2. QED
      BY <1>2, <1>3, <1>11, <2>1
  <1>16. QED
    BY <1>5, <1>6, <1>7, <1>8, <1>9, <1>10, <1>12, <1>13, <1>14, <1>15 DEF Next, InitProcess

\* The port, the processes left behind, the other user's, and the count of signals.
LEMMA OthersTyped ==
  ASSUME TypeOK, [Next]_vars
  PROVE  /\ bound' \subseteq Addresses
         /\ stray' \in [Strays -> {"none", "running", "dying", "zombie", "gone"}]
         /\ stolen' \subseteq Addresses
         /\ root' \in {"none", "running", "gone"}
         /\ hits' \in 0 .. MaxSignals
  <1> DEFINE Strayed == {"none", "running", "dying", "zombie", "gone"}
  <1>0. /\ bound \subseteq Addresses /\ stray \in [Strays -> Strayed] /\ stolen \subseteq Addresses
        /\ root \in {"none", "running", "gone"} /\ hits \in 0 .. MaxSignals
    BY DEF TypeOK
  <1>1. bound' \subseteq Addresses
    <2>1. bound' \in {bound, {}} \/ (Boot /\ bound' = Holding /\ Holding \subseteq Free)
      BY DEF Next, vars, InitProcess, Boot, TakeSignal, Reap, EndEveryoneElse, Release, Gone,
             ManagerStart, ManagerReap, ManagerKill, GatewayProcess, GatewayOnly, Serve, IdleOver,
             Clients, Network, Tick, Appear, Die, Leave, Steal, RootEnters, Signal
    <2>2. Free \subseteq Addresses
      BY DEF Free
    <2>3. QED
      BY <1>0, <2>1, <2>2
  <1>2. stray' \in [Strays -> Strayed]
    <2>1. \/ UNCHANGED stray
          \/ \E p \in Strays, s \in Strayed : stray' = [stray EXCEPT ![p] = s]
          \/ stray' = [p \in Strays |-> "gone"]
          \/ EndEveryoneElse
      BY DEF Next, vars, InitProcess, Boot, TakeSignal, Reap, ReapGateway, Continue, ReapStray, NothingToReap,
             Release, Gone, ManagerStart, ManagerReap, ManagerKill, GatewayProcess, GatewayOnly, Serve, IdleOver,
             Clients, Network, Tick, Appear, Die, Leave, Steal, RootEnters, Signal
    <2>2. CASE EndEveryoneElse
      BY <1>0, <2>2 DEF EndEveryoneElse
    <2>3. QED
      BY <1>0, <2>1, <2>2
  <1>3. stolen' \subseteq Addresses
    <2>1. stolen' \in {stolen, {}} \/ \E a \in Addresses : stolen' = stolen \cup {a}
      BY DEF Next, vars, InitProcess, Boot, TakeSignal, Reap, EndEveryoneElse, Release, Gone,
             ManagerStart, ManagerReap, ManagerKill, GatewayProcess, GatewayOnly, Serve, IdleOver,
             Clients, Network, Tick, Appear, Die, Leave, Steal, RootEnters, Signal
    <2>2. QED
      BY <1>0, <2>1
  <1>4. root' \in {"none", "running", "gone"}
    <2>1. root' \in {root, "gone", "running"}
      BY DEF Next, vars, InitProcess, Boot, TakeSignal, Reap, EndEveryoneElse, Release, Gone,
             ManagerStart, ManagerReap, ManagerKill, GatewayProcess, GatewayOnly, Serve, IdleOver,
             Clients, Network, Tick, Appear, Die, Leave, Steal, RootEnters, Signal
    <2>2. QED
      BY <1>0, <2>1
  <1>5. hits' \in 0 .. MaxSignals
    <2>1. UNCHANGED hits \/ (hits < MaxSignals /\ hits' = hits + 1)
      BY DEF Next, vars, InitProcess, Boot, TakeSignal, Reap, EndEveryoneElse, Release, Gone,
             ManagerStart, ManagerReap, ManagerKill, GatewayProcess, GatewayOnly, Serve, IdleOver,
             Clients, Network, Tick, Appear, Die, Leave, Steal, RootEnters, Signal
    <2>2. QED
      BY <1>0, <2>1, ContainerAssumption
  <1>6. QED
    BY <1>1, <1>2, <1>3, <1>4, <1>5

LEMMA TypesInit == Init => TypeOK
  <1> SUFFICES ASSUME Init PROVE TypeOK
    OBVIOUS
  <1>1. dep \in Deployments
    BY DEF Init
  <1>2. dep \in Deployment
    BY <1>1, DeploymentTyped
  <1>3. dep.env.passed \in Seq(Socket)
    BY <1>2 DEF Deployment, Environments
  <1>4. \A i \in DOMAIN dep.env.passed : dep.env.passed[i] \in Socket
    BY <1>3
  <1>5. bound \subseteq Addresses
    BY <1>4 DEF Init, Socket
  <1>6. DrainTypeOK
    BY NewProcess, NewConnection DEF Init, DrainInit, DrainTypeOK
  <1>7. 0 \in 0 .. EndLimit /\ 0 \in 0 .. MaxSignals
    BY ContainerAssumption
  <1>8. init \in InitProcesses
    BY <1>7 DEF Init, InitProcesses
  <1>9. QED
    BY <1>1, <1>5, <1>6, <1>7, <1>8 DEF Init, TypeOK, InitProcesses

LEMMA TypesKept ==
  ASSUME TypeOK, StartInv, [Next]_vars
  PROVE  TypeOK'
  <1>1. dep' \in Deployments
    BY GatewaySteps DEF StartInv, Shape
  <1>2. ConnectionSteps
    BY EachConnectionStep
  <1>3. conn' \in [Conns -> Connection]
    BY <1>2, ConnectionsTyped DEF TypeOK, ConnectionSteps
  <1>4. QED
    BY <1>1, <1>3, GatewayTyped, InitTyped, OthersTyped DEF TypeOK, DrainTypeOK, InitProcesses

\* Whoever runs the gateway, and whatever is signalled, killed or left behind, the gateway, its
\* connections, the init and the port stay in their types: no timer of the drain (Server.shutdown
\* of gateway/webspec/__main__.py) or of end_everyone_else (docker/init.py) leaves its range, and
\* what inherited_socket finds is a socket that it knows the holder of.
THEOREM TypeCorrect == Spec => []TypeOK
  <1>1. Init => TypeOK /\ StartInv
    BY TypesInit, ShapeInit, FoundInit DEF StartInv
  <1>2. TypeOK /\ StartInv /\ [Next]_vars => (TypeOK /\ StartInv)'
    BY TypesKept, Shaped, FoundKept DEF StartInv
  <1>3. QED
    BY <1>1, <1>2, PTL DEF Spec

-----------------------------------------------------------------------------
(* The calls.                                                              *)

\* What is on its way arrives in time: what was not sent late is older than what is left of the
\* grace allows.
Arrives(k, g) ==
    k.req = "wire" =>
        /\ k.age <= Transit
        /\ g.st = "grace" /\ ~k.late => k.age + g.left > Transit

\* What is still open when uvicorn stops is running, and for as long as the stop takes.
Outruns(k, g) ==
    g.st = "closing" /\ k.at = "open" =>
        /\ k.req = "running"
        /\ ~g.paused /\ ~k.endless => k.age + g.left >= StopLimit

\* How a request may have been lost.
LostFairly(k) ==
    k.req = "lost" =>
        /\ k.at = "closed"
        /\ k.why = "drain" => k.late
        /\ k.why = "limit" => k.endless
        /\ k.why = "reset" => ~Managed

CallOK(k, g) == ~k.kept /\ Arrives(k, g) /\ Outruns(k, g) /\ LostFairly(k)

\* A service manager holds its socket for good.
SocketHeld == Managed => init.at = "none" /\ bound # {}

CallInv == SocketHeld /\ \A c \in Conns : CallOK(conn[c], gw)

LEMMA SocketHeldInit == Init => SocketHeld
  <1> SUFFICES ASSUME Init, Managed PROVE init.at = "none" /\ bound # {}
    BY DEF SocketHeld
  <1>1. dep \in Deployments /\ dep \in Deployment
    BY DeploymentTyped DEF Init
  <1>2. dep.env.passed # <<>>
    BY <1>1, DeploymentTyped DEF Managed
  <1>3. dep.env.passed \in Seq(Socket)
    BY <1>1 DEF Deployment, Environments
  <1>4. 1 \in DOMAIN dep.env.passed
    BY <1>2, <1>3
  <1>5. dep.env.passed[1].addr \in bound
    BY <1>4 DEF Init
  <1>6. init.at = "none"
    BY DEF Init, Managed
  <1>7. QED
    BY <1>5, <1>6

LEMMA SocketHeldKept ==
  ASSUME TypeOK, StartInv, SocketHeld, [Next]_vars
  PROVE  SocketHeld'
  <1> SUFFICES ASSUME Managed PROVE init'.at = "none" /\ bound' # {}
    BY GatewaySteps DEF SocketHeld, Managed, StartInv
  <1>1. init.at = "none" /\ bound # {}
    BY DEF SocketHeld
  <1>2. ~InitProcess
    BY <1>1 DEF InitProcess, Boot, TakeSignal, Reap, EndEveryoneElse, Release, Gone
  <1>3. bound' = bound
    BY <1>2 DEF Next, vars, ManagerStart, ManagerReap, ManagerKill, GatewayProcess, GatewayOnly, Serve, IdleOver,
             Clients, Network, Tick, Appear, Die, Leave, Steal, RootEnters, Signal
  <1>4. init'.at = init.at
    <2>1. init \in InitProcesses
      BY DEF TypeOK, InitProcesses
    <2>2. \/ UNCHANGED init
          \/ \E x : init' = [init EXCEPT !.signals = x] \/ init' = [init EXCEPT !.left = x]
      BY <1>2 DEF Next, vars, ManagerStart, ManagerReap, ManagerKill, GatewayProcess, ChildDied, Serve, IdleOver,
             Clients, Network, Tick, Appear, Die, Leave, Steal, RootEnters, Signal
    <2>3. QED
      BY <2>1, <2>2 DEF InitProcesses
  <1>5. QED
    BY <1>1, <1>3, <1>4
LEMMA ProcessFields ==
  gw \in Process => /\ gw.left \in 0 .. StopLimit /\ gw.st \in Stages /\ gw.paused \in BOOLEAN
                    /\ DOMAIN gw = {"st", "on", "stopped", "signals", "left", "paused"}
  BY ProcessIs

\* A connection that this side closes.
LEMMA CutFairly ==
  ASSUME NEW k \in Connection, NEW why, NEW g, NEW h, CallOK(k, g),
         k.req # "none" => /\ why = "drain" => k.late
                           /\ why = "limit" => k.endless
                           /\ why = "reset" => ~Managed
  PROVE  CallOK(Cut(k, why), h) /\ Cut(k, why).at # "open"
  <1>1. {"at", "req", "age", "endless", "late", "kept", "why"} = DOMAIN k
    BY DEF Connection
  <1>2. ~k.kept
    BY DEF CallOK
  <1>3. CASE k.req = "none"
    <2> DEFINE f == [k EXCEPT !.at = "fin"]
    <2>1. f.at = "fin" /\ f.req = "none" /\ ~f.kept
      BY <1>1, <1>2, <1>3
    <2>2. Cut(k, why) = f
      BY <1>3 DEF Cut
    <2> HIDE DEF f
    <2>3. QED
      BY <2>1, <2>2 DEF CallOK, Arrives, Outruns, LostFairly
  <1>4. CASE k.req # "none"
    <2> DEFINE f == [k EXCEPT !.at = "closed", !.req = "lost", !.why = why]
    <2>1. /\ f.at = "closed" /\ f.req = "lost" /\ f.why = why /\ ~f.kept
          /\ f.late = k.late /\ f.endless = k.endless
      BY <1>1, <1>2
    <2>2. Cut(k, why) = f
      BY <1>4 DEF Cut, Lost
    <2> HIDE DEF f
    <2>3. QED
      BY <1>4, <2>1, <2>2 DEF CallOK, Arrives, Outruns, LostFairly
  <1>5. QED
    BY <1>3, <1>4

\* A call that has just been sent, and was not sent too late, arrives in time.
LEMMA SentArrives ==
  ASSUME NEW n, NEW g, n.age = 0, n.late <=> (g.st = "closing" \/ (g.st = "grace" /\ g.left <= Transit)),
         g.left \in Int
  PROVE  Arrives(n, g)
  <1>1. 0 <= Transit /\ Transit \in Nat
    BY Limits
  <1>2. n.age <= Transit
    BY <1>1
  <1>3. ASSUME g.st = "grace", ~n.late PROVE n.age + g.left > Transit
    <2>1. ~(g.left <= Transit)
      BY <1>3
    <2>2. QED
      BY <1>1, <2>1
  <1>4. QED
    BY <1>2, <1>3, Zenon DEF Arrives
\* What one client, the network or the server does to one connection, while the gateway stands.
LEMMA OneConnection ==
  ASSUME gw \in Process, conn \in [Conns -> Connection], NEW c \in Conns, CallOK(conn[c], gw),
         \/ Connect(c) \/ Reaches(c) \/ Learn(c) \/ Accept(c) \/ Read(c)
         \/ Answer(c) \/ KeepAliveOver(c)
         \/ \E endless \in BOOLEAN : Send(c, endless)
  PROVE  /\ UNCHANGED gw
         /\ \A d \in Conns \ {c} : conn'[d] = conn[d]
         /\ CallOK(conn'[c], gw)
  <1> DEFINE k == conn[c]
  <1>0. gw.left \in Int
    BY ProcessFields, Limits
  <1>1. k \in Connection /\ CallOK(k, gw)
    OBVIOUS
  <1>2. {"at", "req", "age", "endless", "late", "kept", "why"} = DOMAIN k
    BY <1>1 DEF Connection
  <1>3. k.req = "lost" => k.at = "closed"
    BY <1>1 DEF CallOK, LostFairly
  <1>4. ~k.kept
    BY <1>1 DEF CallOK
  <1>5. gw.st = "closing" /\ k.at = "open" => k.req = "running"
    BY <1>1 DEF CallOK, Outruns
  <1>6. ASSUME NEW n, conn' = [conn EXCEPT ![c] = n], UNCHANGED gw, CallOK(n, gw)
        PROVE  /\ UNCHANGED gw
               /\ \A d \in Conns \ {c} : conn'[d] = conn[d]
               /\ CallOK(conn'[c], gw)
    BY <1>6
  <1>7. CallOK(NoConnection, gw)
    BY DEF NoConnection, CallOK, Arrives, Outruns, LostFairly
  <1>8. CASE Connect(c)
    <2> DEFINE n == [k EXCEPT !.at = "queued"]
    <2>1. k.at = "none" /\ conn' = [conn EXCEPT ![c] = n] /\ UNCHANGED gw
      BY <1>8 DEF Connect
    <2>2. n.at = "queued" /\ n.req = k.req /\ n.age = k.age /\ n.late = k.late /\ ~n.kept
      BY <1>2, <1>4
    <2> HIDE DEF n
    <2>3. CallOK(n, gw)
      BY <1>1, <1>3, <2>1, <2>2 DEF CallOK, Arrives, Outruns, LostFairly
    <2>4. QED
      BY <1>6, <2>1, <2>3
  <1>9. CASE Reaches(c)
    <2> DEFINE n == [k EXCEPT !.req = "here", !.age = 0]
    <2>1. k.req = "wire" /\ conn' = [conn EXCEPT ![c] = n] /\ UNCHANGED gw
      BY <1>9 DEF Reaches
    <2>2. n.at = k.at /\ n.req = "here" /\ ~n.kept
      BY <1>2, <1>4
    <2> HIDE DEF n
    <2>3. CallOK(n, gw)
      BY <1>5, <2>1, <2>2 DEF CallOK, Arrives, Outruns, LostFairly
    <2>4. QED
      BY <1>6, <2>1, <2>3
  <1>10. CASE Learn(c)
    BY <1>6, <1>7, <1>10 DEF Learn
  <1>11. CASE Accept(c)
    <2> DEFINE n == [k EXCEPT !.at = "open"]
    <2>1. gw.st = "serving" /\ k.at = "queued" /\ conn' = [conn EXCEPT ![c] = n] /\ UNCHANGED gw
      BY <1>11 DEF Accept
    <2>2. n.at = "open" /\ n.req = k.req /\ n.age = k.age /\ n.late = k.late /\ ~n.kept
      BY <1>2, <1>4
    <2> HIDE DEF n
    <2>3. CallOK(n, gw)
      BY <1>1, <1>3, <2>1, <2>2 DEF CallOK, Arrives, Outruns, LostFairly
    <2>4. QED
      BY <1>6, <2>1, <2>3
  <1>12. CASE Read(c)
    <2> DEFINE n == [k EXCEPT !.req = "running"]
    <2>1. k.at = "open" /\ k.req = "here" /\ conn' = [conn EXCEPT ![c] = n] /\ UNCHANGED gw
      BY <1>12 DEF Read
    <2>2. n.at = k.at /\ n.req = "running" /\ ~n.kept
      BY <1>2, <1>4
    <2> HIDE DEF n
    <2>3. CallOK(n, gw)
      BY <1>5, <2>1, <2>2 DEF CallOK, Arrives, Outruns, LostFairly
    <2>4. QED
      BY <1>6, <2>1, <2>3
  <1>13. CASE Answer(c)
    <2> DEFINE n == [NoConnection EXCEPT !.at = "open", !.kept = Stopping]
    <2>1. CASE SaysClose
      <3>1. conn' = [conn EXCEPT ![c] = NoConnection] /\ UNCHANGED gw
        BY <1>13, <2>1 DEF Answer
      <3>2. QED
        BY <1>6, <1>7, <3>1
    <2>2. CASE ~SaysClose
      <3>1. conn' = [conn EXCEPT ![c] = n] /\ UNCHANGED gw
        BY <1>13, <2>2 DEF Answer
      <3>2. n.at = "open" /\ n.req = "none" /\ ~n.kept /\ gw.st # "closing"
        BY <2>2 DEF NoConnection, SaysClose, Stopping
      <3> HIDE DEF n
      <3>3. CallOK(n, gw)
        BY <3>2 DEF CallOK, Arrives, Outruns, LostFairly
      <3>4. QED
        BY <1>6, <3>1, <3>3
    <2>3. QED
      BY <2>1, <2>2
  <1>14. CASE KeepAliveOver(c)
    <2>1. conn' = [conn EXCEPT ![c] = Cut(k, "idle")] /\ UNCHANGED gw
      BY <1>14 DEF KeepAliveOver
    <2>2. CallOK(Cut(k, "idle"), gw)
      BY <1>1, CutFairly
    <2>3. QED
      BY <1>6, <2>1, <2>2
  <1>15. ASSUME NEW endless \in BOOLEAN, Send(c, endless)
         PROVE  /\ UNCHANGED gw
                /\ \A d \in Conns \ {c} : conn'[d] = conn[d]
                /\ CallOK(conn'[c], gw)
    <2> DEFINE late == gw.st = "closing" \/ (gw.st = "grace" /\ gw.left <= Transit)
               n == [k EXCEPT !.req = "wire", !.age = 0, !.endless = endless, !.late = late]
               l == [k EXCEPT !.at = "closed", !.req = "lost", !.why = "closed"]
    <2>1. UNCHANGED gw /\ k.req = "none"
      BY <1>15 DEF Send
    <2>2. CASE conn' = [conn EXCEPT ![c] = n]
      <3>1. n.at = k.at /\ n.req = "wire" /\ n.age = 0 /\ n.late = late /\ ~n.kept
        BY <1>2, <1>4
      <3> HIDE DEF n
      <3>2. n.late <=> (gw.st = "closing" \/ (gw.st = "grace" /\ gw.left <= Transit))
        BY <3>1, Zenon
      <3>3. Arrives(n, gw)
        <4>1. n.age = 0
          BY <3>1
        <4>2. QED
          BY <1>0, <3>2, <4>1, SentArrives
      <3>4. CallOK(n, gw)
        BY <1>5, <2>1, <3>1, <3>3 DEF CallOK, Outruns, LostFairly
      <3>5. QED
        BY <1>6, <2>1, <2>2, <3>4
    <2>3. CASE conn' = [conn EXCEPT ![c] = l]
      <3>1. l.at = "closed" /\ l.req = "lost" /\ l.why = "closed" /\ ~l.kept
        BY <1>2, <1>4
      <3> HIDE DEF l
      <3>2. CallOK(l, gw)
        BY <3>1 DEF CallOK, Arrives, Outruns, LostFairly
      <3>3. QED
        BY <1>6, <2>1, <2>3, <3>2
    <2>4. QED
      BY <1>15, <2>2, <2>3 DEF Send, Lost
  <1>16. QED
    BY <1>8, <1>9, <1>10, <1>11, <1>12, <1>13, <1>14, <1>15
\* What the server does at the two ends of its stop, and what its own end does.
LEMMA ClosedFairly ==
  ASSUME gw \in Process, conn \in [Conns -> Connection], NEW c \in Conns, CallOK(conn[c], gw),
         Killed \/ Shutdown \/ GraceOver \/ LimitOver
  PROVE  CallOK(conn'[c], gw')
  <1> DEFINE k == conn[c]
  <1>1. k \in Connection /\ CallOK(k, gw) /\ ~k.kept
    BY DEF CallOK
  <1>2. gw.left \in 0 .. StopLimit /\ DOMAIN gw = {"st", "on", "stopped", "signals", "left", "paused"}
    BY ProcessFields
  <1>3. k.age \in 0 .. CallLimit
    BY <1>1 DEF Connection
  <1>4. ASSUME NEW cs, NEW why, conn' = CutAll(cs, why) PROVE conn'[c] = IF c \in cs THEN Cut(k, why) ELSE k
    BY <1>4 DEF CutAll
  <1>5. LostFairly(k) /\ Arrives(k, gw)
    BY <1>1 DEF CallOK
  <1>6. CASE Killed
    <2>1. gw' = Ended /\ conn' = CutAll(At("open"), "killed")
      BY <1>6 DEF Killed
    <2>2. gw'.st = "zombie"
      BY <1>2, <2>1 DEF Ended
    <2>3. CASE c \in At("open")
      BY <1>1, <1>4, <2>1, <2>3, CutFairly
    <2>4. CASE c \notin At("open")
      <3>1. conn'[c] = k
        BY <1>4, <2>1, <2>4
      <3>2. QED
        BY <1>1, <1>5, <2>2, <3>1 DEF CallOK, Arrives, Outruns
    <2>5. QED
      BY <2>3, <2>4
  <1>7. CASE LimitOver
    <2>1. gw' = Ended /\ gw.st = "closing" /\ gw.left = 0
      BY <1>7 DEF LimitOver
    <2>2. conn' = CutAll(At("open"), IF gw.paused THEN "paused" ELSE "limit")
      BY <1>7 DEF LimitOver
    <2>3. gw'.st = "zombie"
      BY <1>2, <2>1 DEF Ended
    <2>4. CASE c \in At("open")
      <3>1. k.at = "open"
        BY <2>4 DEF At
      <3>2. ~gw.paused /\ ~k.endless => k.age + gw.left >= StopLimit
        BY <1>1, <2>1, <3>1 DEF CallOK, Outruns
      <3>3. ~gw.paused => k.endless
        BY <1>3, <2>1, <3>2, Limits
      <3>4. CallOK(Cut(k, IF gw.paused THEN "paused" ELSE "limit"), gw')
        BY <1>1, <3>3, CutFairly
      <3>5. QED
        BY <1>4, <2>2, <2>4, <3>4
    <2>5. CASE c \notin At("open")
      <3>1. conn'[c] = k
        BY <1>4, <2>2, <2>5
      <3>2. QED
        BY <1>1, <1>5, <2>3, <3>1 DEF CallOK, Arrives, Outruns
    <2>6. QED
      BY <2>4, <2>5
  <1>8. CASE GraceOver
    <2>1. gw' = Closing /\ conn' = CutAll(Unread, "drain") /\ gw.st = "grace" /\ gw.left = 0
      BY <1>8 DEF GraceOver
    <2>2. c \in At("open") => k.req # "here"
      BY <1>8 DEF GraceOver
    <2>3. gw'.st = "closing" /\ gw'.left = StopLimit
      BY <1>2, <2>1 DEF Closing
    <2>4. CASE c \in Unread
      <3>1. k.at = "open" /\ k.req # "running" /\ k.req # "here"
        BY <2>2, <2>4 DEF Unread, At
      <3>2. k.req # "lost"
        BY <1>5, <3>1 DEF LostFairly
      <3>3. k.req \in {"none", "wire"}
        BY <1>1, <3>1, <3>2 DEF Connection
      <3>4. k.req = "wire" => k.late
        BY <1>3, <1>5, <2>1, Limits DEF Arrives
      <3>5. CallOK(Cut(k, "drain"), gw')
        BY <1>1, <3>3, <3>4, CutFairly
      <3>6. QED
        BY <1>4, <2>1, <2>4, <3>5
    <2>5. CASE c \notin Unread
      <3>1. conn'[c] = k
        BY <1>4, <2>1, <2>5
      <3>2. k.at = "open" => k.req = "running"
        BY <2>5 DEF Unread, At
      <3>3. k.age + StopLimit >= StopLimit
        BY <1>3, Limits
      <3>4. QED
        BY <1>1, <1>5, <2>3, <3>1, <3>2, <3>3 DEF CallOK, Arrives, Outruns
    <2>6. QED
      BY <2>4, <2>5
  <1>9. CASE Shutdown
    <2>1. k.age + StopLimit >= StopLimit
      BY <1>3, Limits
    <2>2. ASSUME gw' = [gw EXCEPT !.st = "grace", !.left = Grace], UNCHANGED conn
          PROVE  CallOK(conn'[c], gw')
      <3>1. gw'.st = "grace" /\ gw'.left = Grace
        BY <1>2, <2>2
      <3>2. k.age + Grace > Transit
        BY <1>3, Limits
      <3>3. QED
        BY <1>1, <1>5, <2>2, <3>1, <3>2 DEF CallOK, Arrives, Outruns
    <2>3. ASSUME gw' = Closing, k.at = "open" => k.req = "running", conn'[c] = k
          PROVE  CallOK(conn'[c], gw')
      <3>1. gw'.st = "closing" /\ gw'.left = StopLimit
        BY <1>2, <2>3 DEF Closing
      <3>2. QED
        BY <1>1, <1>5, <2>1, <2>3, <3>1 DEF CallOK, Arrives, Outruns
    <2>4. ASSUME At("open") = {}, gw' = Closing, UNCHANGED conn PROVE CallOK(conn'[c], gw')
      <3>1. k.at # "open"
        BY <2>4 DEF At
      <3>2. QED
        BY <2>3, <2>4, <3>1
    <2>5. ASSUME gw' = Closing, conn' = CutAll(Unread, "undrained") PROVE CallOK(conn'[c], gw')
      <3>1. CASE c \in Unread
        BY <1>1, <1>4, <2>5, <3>1, CutFairly
      <3>2. CASE c \notin Unread
        <4>1. conn'[c] = k /\ (k.at = "open" => k.req = "running")
          BY <1>4, <2>5, <3>2 DEF Unread, At
        <4>2. QED
          BY <2>3, <2>5, <4>1
      <3>3. QED
        BY <3>1, <3>2
    <2>6. QED
      BY <1>9, <2>2, <2>4, <2>5 DEF Shutdown
  <1>10. QED
    BY <1>6, <1>7, <1>8, <1>9

\* A second: the timers go on, and so does everything that they are to outlast, unless the
\* gateway was stopped meanwhile, which the drain then shows.
LEMMA AgesFairly ==
  ASSUME gw \in Process, conn \in [Conns -> Connection], NEW c \in Conns, CallOK(conn[c], gw), Pass
  PROVE  CallOK(conn'[c], gw')
  <1> DEFINE k == conn[c]
             n == Older(k)
  <1>1. k \in Connection /\ CallOK(k, gw) /\ ~k.kept
    BY DEF CallOK
  <1>2. gw.left \in 0 .. StopLimit /\ DOMAIN gw = {"st", "on", "stopped", "signals", "left", "paused"}
    BY ProcessFields
  <1>3. k.age \in 0 .. CallLimit /\ DOMAIN k = {"at", "req", "age", "endless", "late", "kept", "why"}
    BY <1>1 DEF Connection
  <1>4. conn'[c] = n
    BY DEF Pass
  <1>5. /\ gw'.st = gw.st
        /\ gw'.left = IF gw.left = 0 THEN 0 ELSE gw.left - 1
        /\ gw'.paused = (gw.paused \/ (gw.stopped /\ Stopping))
    BY <1>2 DEF Pass
  <1>6. /\ n.at = k.at /\ n.req = k.req /\ n.endless = k.endless /\ n.late = k.late /\ n.kept = k.kept
        /\ n.why = k.why
    BY <1>3 DEF Older
  <1>7. n.age \in {k.age, k.age + 1}
    BY <1>3 DEF Older
  <1>8. k.req = "wire" => n.age = k.age + 1 /\ k.age < Transit
    BY <1>3 DEF Older, Pass, MayPass
  <1>9. k.req = "running" /\ ~k.endless /\ Runs => n.age = k.age + 1
    BY <1>3 DEF Older, Pass, MayPass
  <1> HIDE DEF n
  <1>10. Arrives(n, gw')
    <2>1. SUFFICES ASSUME k.req = "wire"
                   PROVE  /\ n.age <= Transit
                          /\ gw.st = "grace" /\ ~k.late => n.age + gw'.left > Transit
      BY <1>5, <1>6 DEF Arrives
    <2>2. n.age = k.age + 1 /\ k.age < Transit
      BY <1>8, <2>1
    <2>3. gw.st = "grace" /\ ~k.late => k.age + gw.left > Transit
      BY <1>1, <2>1 DEF CallOK, Arrives
    <2>4. QED
      BY <1>2, <1>3, <1>5, <2>2, <2>3, Limits
  <1>11. Outruns(n, gw')
    <2>1. SUFFICES ASSUME gw.st = "closing", k.at = "open"
                   PROVE  /\ k.req = "running"
                          /\ ~gw'.paused /\ ~k.endless => n.age + gw'.left >= StopLimit
      BY <1>5, <1>6 DEF Outruns
    <2>2. /\ k.req = "running"
          /\ ~gw.paused /\ ~k.endless => k.age + gw.left >= StopLimit
      BY <1>1, <2>1 DEF CallOK, Outruns
    <2>3. ~gw'.paused => ~gw.paused /\ Runs
      BY <1>5, <2>1 DEF Stopping, Runs, Alive
    <2>4. ASSUME ~gw'.paused, ~k.endless PROVE n.age + gw'.left >= StopLimit
      <3>1. n.age = k.age + 1 /\ k.age + gw.left >= StopLimit
        BY <1>9, <2>2, <2>3, <2>4
      <3>2. QED
        BY <1>2, <1>3, <1>5, <3>1, Limits
    <2>5. QED
      BY <2>2, <2>4
  <1>12. LostFairly(n)
    BY <1>1, <1>6 DEF CallOK, LostFairly
  <1>13. QED
    BY <1>1, <1>4, <1>6, <1>10, <1>11, <1>12 DEF CallOK
\* What else happens to the gateway's process leaves the stage of a stop, and its timer, alone,
\* or makes another process of it.
LEMMA SameStage ==
  ASSUME TypeOK, StartInv, [Next]_vars
  PROVE  \/ Killed \/ Shutdown \/ GraceOver \/ LimitOver \/ Pass
         \/ gw'.st = gw.st /\ gw'.left = gw.left /\ gw'.paused = gw.paused
         \/ gw'.st \notin {"grace", "closing"}
  <1> DEFINE Same == gw'.st = gw.st /\ gw'.left = gw.left /\ gw'.paused = gw.paused
             Off  == gw'.st \notin {"grace", "closing"}
             Ok   == Killed \/ Shutdown \/ GraceOver \/ LimitOver \/ Pass \/ Same \/ Off
  <1>1. gw \in Process /\ DOMAIN gw = {"st", "on", "stopped", "signals", "left", "paused"}
    BY ProcessFields DEF TypeOK, DrainTypeOK
  <1>2. UNCHANGED gw => Ok
    OBVIOUS
  <1>3. ASSUME NEW x, gw' = [gw EXCEPT !.signals = x] \/ gw' = [gw EXCEPT !.stopped = x] PROVE Same
    BY <1>1, <1>3
  <1>4. gw' = [gw EXCEPT !.st = "reaped"] => Off
    BY <1>1
  <1>5. gw' = [NoProcess EXCEPT !.st = "starting"] => Off
    BY DEF NoProcess
  <1>6. Main(Environment, Free) \/ Exit => Off
    BY <1>1 DEF Main, Exit, Ended
  <1>7. ASSUME InitProcess PROVE Ok
    <2>1. ASSUME NEW s \in init.signals, TakeSignal(s) PROVE Ok
      BY <1>2, <1>3, <2>1 DEF TakeSignal
    <2>2. Boot => Ok
      BY <1>2, <1>5 DEF Boot
    <2>3. Reap => Ok
      BY <1>2, <1>3, <1>4 DEF Reap, ReapGateway, Continue, ReapStray, NothingToReap
    <2>4. EndEveryoneElse \/ Release \/ Gone => Ok
      BY <1>2 DEF EndEveryoneElse, Release, Gone
    <2>5. QED
      BY <1>7, <2>1, <2>2, <2>3, <2>4 DEF InitProcess
  <1>8. ASSUME ManagerStart \/ ManagerReap \/ ManagerKill PROVE Ok
    BY <1>4, <1>5, <1>8 DEF ManagerStart, ManagerReap, ManagerKill
  <1>9. ASSUME GatewayProcess PROVE Ok
    BY <1>6, <1>9 DEF GatewayProcess, DieOf
  <1>10. ASSUME (\E c \in Conns : Serve(c)) \/ IdleOver \/ Clients \/ Network \/ RootEnters PROVE UNCHANGED gw
    BY <1>10 DEF Serve, Accept, Read, Answer, IdleOver, KeepAliveOver, Clients, Connect, Send,
                 Network, Reaches, Learn, RootEnters
  <1>11. ASSUME NEW p \in Strays,
                Appear(p) \/ Die(p) \/ Leave(p) \/ \E a \in Addresses : Steal(p, a)
         PROVE  UNCHANGED gw
    BY <1>11 DEF Appear, Die, Leave, Steal
  <1>12. Tick => Pass
    BY DEF Tick
  <1>13. ASSUME Signal PROVE Ok
    BY <1>2, <1>3, <1>13 DEF Signal
  <1>14. UNCHANGED vars => UNCHANGED gw
    BY DEF vars
  <1>15. Ok
    BY <1>2, <1>7, <1>8, <1>9, <1>10, <1>11, <1>12, <1>13, <1>14 DEF Next
  <1>16. QED
    BY <1>15

LEMMA CallsKept ==
  ASSUME TypeOK, StartInv, CallInv, [Next]_vars
  PROVE  CallInv'
  <1>1. gw \in Process /\ conn \in [Conns -> Connection]
    BY DEF TypeOK, DrainTypeOK
  <1>2. Managed' = Managed
    BY GatewaySteps DEF Managed, StartInv
  <1>3. ASSUME NEW c \in Conns PROVE CallOK(conn'[c], gw')
    <2>1. CallOK(conn[c], gw)
      BY DEF CallInv
    <2>2. CASE Killed \/ Shutdown \/ GraceOver \/ LimitOver
      BY <1>1, <2>1, <2>2, ClosedFairly
    <2>3. CASE Pass
      BY <1>1, <2>1, <2>3, AgesFairly
    <2>4. CASE UNCHANGED conn /\ ~(Killed \/ Shutdown \/ GraceOver \/ LimitOver \/ Pass)
      <3>1. \/ gw'.st = gw.st /\ gw'.left = gw.left /\ gw'.paused = gw.paused
            \/ gw'.st \notin {"grace", "closing"}
        BY <2>4, SameStage
      <3>2. QED
        BY <2>1, <2>4, <3>1 DEF CallOK, Arrives, Outruns
    <2>5. ASSUME ~Listening, conn' = CutAll(At("queued"), "reset"), UNCHANGED gw
          PROVE  CallOK(conn'[c], gw')
      <3>1. ~Managed
        BY <2>5 DEF CallInv, SocketHeld, Listening
      <3>2. conn'[c] \in {conn[c], Cut(conn[c], "reset")}
        BY <2>5 DEF CutAll
      <3>3. conn[c] \in Connection
        BY <1>1
      <3>4. CallOK(Cut(conn[c], "reset"), gw)
        BY <2>1, <3>1, <3>3, CutFairly
      <3>5. QED
        BY <2>1, <2>5, <3>2, <3>4
    <2>6. ASSUME NEW d \in Conns,
                 \/ Connect(d) \/ Reaches(d) \/ Learn(d) \/ Accept(d) \/ Read(d)
                 \/ Answer(d) \/ KeepAliveOver(d)
                 \/ \E endless \in BOOLEAN : Send(d, endless)
          PROVE  CallOK(conn'[c], gw')
      <3>1. CallOK(conn[d], gw)
        BY DEF CallInv
      <3>2. UNCHANGED gw /\ (d # c => conn'[c] = conn[c]) /\ CallOK(conn'[d], gw)
        BY <1>1, <2>6, <3>1, OneConnection
      <3>3. QED
        BY <2>1, <3>2
    <2>7. QED
      BY <2>2, <2>3, <2>4, <2>5, <2>6, EachConnectionStep DEF ConnectionSteps
  <1>4. \A c \in Conns : CallOK(conn[c], gw)'
    BY <1>2, <1>3 DEF CallOK, Arrives, Outruns, LostFairly
  <1>5. SocketHeld'
    BY SocketHeldKept DEF CallInv
  <1>6. QED
    BY <1>4, <1>5 DEF CallInv

\* However stops, kills, stopped processes and busy clients interleave, a request is lost to the
\* drain only if it was sent too late to arrive within the grace, to uvicorn's limit only if it
\* never ends, to a closed queue only without a service manager, and none on a connection that
\* an answer of the drain left open (Server.shutdown and Draining of gateway/webspec/__main__.py,
\* for any ACCEPTED_GRACE_SECONDS longer than a request is on its way, and any
\* GRACEFUL_SHUTDOWN_SECONDS longer than DEFAULT_TIMEOUT).
THEOREM CallsKeptByStops == Spec => []NoLostCall
  <1>1. Init => TypeOK /\ StartInv /\ CallInv
    <2>1. SUFFICES ASSUME Init PROVE CallInv
      BY TypesInit, ShapeInit, FoundInit DEF StartInv
    <2>2. ASSUME NEW c \in Conns PROVE CallOK(conn[c], gw)
      BY <2>1 DEF Init, DrainInit, NoConnection, CallOK, Arrives, Outruns, LostFairly
    <2>3. QED
      BY <2>1, <2>2, SocketHeldInit DEF CallInv
  <1>2. TypeOK /\ StartInv /\ CallInv /\ [Next]_vars => (TypeOK /\ StartInv /\ CallInv)'
    BY TypesKept, Shaped, FoundKept, CallsKept DEF StartInv
  <1>3. CallInv => NoLostCall
    BY DEF CallInv, CallOK, LostFairly, NoLostCall
  <1>4. QED
    BY <1>1, <1>2, <1>3, PTL DEF Spec
================================================================================
