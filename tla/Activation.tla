------------------------------ MODULE Activation ------------------------------
(***************************************************************************)
(* What the gateway decides before it serves: which guard key it has       *)
(* (gateway/webspec/config.py), which listening socket it takes            *)
(* (gateway/webspec/activation.py) or binds (gateway/webspec/__main__.py), *)
(* and where the container's init listens for it (docker/init.py).         *)
(*                                                                         *)
(* An environment e is a record of the variables that are read:            *)
(*   host                                 WEBSPEC_HOST                     *)
(*   required, key, file, ephemeral       the guard key and its stand-ins  *)
(*   listenPid, listenFds, names          LISTEN_PID, _FDS, _FDNAMES       *)
(*   launchd                              WEBSPEC_LAUNCHD_SOCKET           *)
(* and of what the kernel or launchd has for them:                         *)
(*   passed                               the sockets that were passed     *)
(***************************************************************************)
EXTENDS FiniteSets, Sequences

CONSTANTS
    Addresses,      \* the IP addresses there are
    Loopback,       \* those that are loopback addresses
    NoAddress,      \* no IP address
    Resolved        \* what a host name resolves to

ASSUME ActivationAssumption ==
    /\ "127.0.0.1" \in Loopback
    /\ Loopback \subseteq Addresses
    /\ Resolved \in Addresses
    /\ NoAddress \notin Addresses
    /\ "" \notin Addresses

\* A socket as _checked looks at it.
Socket == [addr: Addresses, stream: BOOLEAN, listening: BOOLEAN]

Environments ==
    [host: STRING, required: STRING, key: {"unset", "blank", "garbled", "key"}, file: STRING,
     ephemeral: BOOLEAN, listenPid: {"unset", "garbled", "own", "other"},
     listenFds: {"unset", "1", "other"},
     names: SUBSET {"webspec-gateway.socket", "webspec-init", "other"},
     launchd: STRING, passed: Seq(Socket)]

-----------------------------------------------------------------------------
\* The text of WEBSPEC_HOST: what is left of white space counts as unset.
Text(host) == IF host = "blank" THEN "" ELSE host

\* An IPv6 address may be written in brackets.
Bracketed == [t \in {"[::]", "[::1]"} |-> IF t = "[::]" THEN "::" ELSE "::1"]
Bare(text) == IF text \in DOMAIN Bracketed THEN Bracketed[text] ELSE text

\* The address that a text names: a host name names none.
Named(text) == IF Bare(text) \in Addresses THEN Bare(text) ELSE NoAddress

\* Where the init listens, if WEBSPEC_HOST lets it.
GatewayAddress(host) == IF Text(host) = "" THEN "127.0.0.1" ELSE Named(Text(host))

\* Where the gateway listens with a socket of its own: uvicorn resolves a name.
BindHost(host) ==
    IF Text(host) = "" THEN "127.0.0.1"
    ELSE IF Named(Text(host)) = NoAddress THEN Resolved
    ELSE Named(Text(host))

-----------------------------------------------------------------------------
(* The guard key.  A variable is "unset", "blank" (nothing visible in it), *)
(* "garbled" (not UTF-8) or "key"; a file is "unset", "key" or what is     *)
(* wrong with it.                                                          *)

Required(e) == e.required \notin {"unset", "blank", "0"}

EnvVarKey(e) ==
    CASE e.key \in {"unset", "blank"} -> "none"
      [] e.key = "garbled" -> "error"
      [] OTHER -> "env"

EnvGuardKey(e) == IF EnvVarKey(e) = "none" THEN "error" ELSE EnvVarKey(e)

FileKey(e) == IF e.file = "key" THEN "file" ELSE "error"

SessionKey(e) ==
    IF EnvVarKey(e) # "none" THEN EnvVarKey(e)
    ELSE IF e.file \notin {"unset", "blank"} THEN FileKey(e)
    ELSE IF e.ephemeral THEN "ephemeral"
    ELSE "error"

-----------------------------------------------------------------------------
\* What looking for a passed socket comes to.
None == [how |-> "none"]
Refused == [how |-> "refused"]
Taken(s, from) == [how |-> "taken", addr |-> s.addr, from |-> from]

\* Who passed the LISTEN_* socket: systemd names each after its unit.
Holder(names) ==
    IF names \subseteq {"webspec-gateway.socket"} THEN "systemd"
    ELSE IF Cardinality(names) = 1 THEN CHOOSE n \in names : TRUE
    ELSE "several"

\* Mutant: the brackets around an IPv6 address are left on.
CheckedAsWritten(s, host, from) ==
    IF s.stream /\ s.listening /\ s.addr \in Loopback \cup {Text(host)} THEN Taken(s, from) ELSE Refused

Checked(s, host, from) ==
    IF /\ s.stream
       /\ s.listening
       /\ s.addr \in Loopback \cup {Named(Text(host))}
    THEN Taken(s, from)
    ELSE Refused

Mentioned(e) == e.listenPid # "unset" \/ e.listenFds # "unset" \/ e.names # {}

FromSystemd(e) ==
    IF e.listenPid \in {"unset", "other"} THEN None
    ELSE IF e.listenPid = "garbled" THEN Refused
    ELSE IF e.listenFds # "1" \/ e.passed = <<>> THEN Refused
    ELSE Checked(Head(e.passed), e.host, Holder(e.names))

FromLaunchd(e) ==
    IF e.launchd = "" \/ Len(e.passed) # 1 THEN Refused
    ELSE Checked(e.passed[1], e.host, "launchd")

InheritedSocket(e) ==
    LET systemd == IF Mentioned(e) THEN FromSystemd(e) ELSE None
    IN  IF systemd.how # "none" THEN systemd
        ELSE IF e.launchd # "unset" THEN FromLaunchd(e)
        ELSE None

-----------------------------------------------------------------------------
\* How main() of the gateway goes: it fails, or it serves on the socket it was passed, or on
\* one of its own, where that address can be had.
Start(e, free) ==
    LET inherited == InheritedSocket(e)
        own == [how |-> "own", addr |-> BindHost(e.host), from |-> "none"]
    IN  IF Required(e) /\ EnvGuardKey(e) = "error" THEN Refused
        ELSE IF inherited.how # "none" THEN inherited
        ELSE IF own.addr \in free THEN own
        ELSE Refused

\* What the init's child finds: the init passes one listening socket, in its own name, to the
\* process it has become.
PassSocket(e, addr) ==
    [e EXCEPT !.listenPid = "own", !.listenFds = "1", !.names = {"webspec-init"},
              !.passed = <<[addr |-> addr, stream |-> TRUE, listening |-> TRUE]>>]
================================================================================
