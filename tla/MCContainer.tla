----------------------------- MODULE MCContainer -----------------------------
(* Instances of Container for TLC. *)
EXTENDS Container

Nothing ==
    [host |-> "unset", required |-> "unset", key |-> "key", file |-> "unset", ephemeral |-> FALSE,
     listenPid |-> "unset", listenFds |-> "unset", names |-> {}, launchd |-> "unset", passed |-> <<>>]

Passed(addr) == <<[addr |-> addr, stream |-> TRUE, listening |-> TRUE]>>

BySystemd ==
    [Nothing EXCEPT !.required = "1", !.listenPid = "own", !.listenFds = "1",
                    !.names = {"webspec-gateway.socket"}, !.passed = Passed("127.0.0.1")]

InContainer ==
    [holder |-> "init", listen |-> TRUE, pid1 |-> "self", dumpable |-> TRUE, families |-> {4, 6},
     taken |-> {}, env |-> [Nothing EXCEPT !.host = "0.0.0.0"], world |-> {}]

Unit == [InContainer EXCEPT !.holder = "systemd", !.listen = FALSE, !.env = BySystemd]
Shell == [Unit EXCEPT !.holder = "shell", !.env = Nothing]

\* Where something happens.
Busy ==
    {[InContainer EXCEPT !.world = {"clients", "signals"}],
     [InContainer EXCEPT !.world = {"strays", "root", "signals"}],
     [InContainer EXCEPT !.listen = FALSE, !.world = {"strays", "signals"}],
     [InContainer EXCEPT !.pid1 = "hidden", !.world = {"strays", "signals"}],
     [Unit EXCEPT !.world = {"clients", "signals"}],
     [Shell EXCEPT !.world = {"clients", "signals"}]}

\* Starts of every kind, good and bad.
Hosts == {"unset", "blank", "127.0.0.1", "0.0.0.0", "::", "[::]", "[::1]", "10.0.0.5", "gateway"}
Keys == {"unset", "blank", "garbled", "key"}

Starts ==
    {[InContainer EXCEPT !.env.host = h, !.families = f, !.listen = l] :
        h \in Hosts, f \in {{4}, {4, 6}}, l \in BOOLEAN} \cup
    {[InContainer EXCEPT !.taken = {a}, !.listen = l] : a \in Addresses, l \in BOOLEAN} \cup
    {[InContainer EXCEPT !.pid1 = p, !.dumpable = d] : p \in {"hidden", "exposed"}, d \in BOOLEAN} \cup
    {[d EXCEPT !.env.required = r, !.env.key = k, !.env.file = f, !.env.ephemeral = e] :
        d \in {InContainer, Unit, Shell}, r \in {"unset", "blank", "0", "1", "no"}, k \in Keys,
        f \in {"unset", "blank", "short", "key"}, e \in BOOLEAN} \cup
    {[Unit EXCEPT !.env.host = h, !.env.passed = Passed(a)] : h \in Hosts, a \in Addresses} \cup
    {[Unit EXCEPT !.env.passed[1] = [addr |-> "127.0.0.1", stream |-> s, listening |-> l]] :
        s \in BOOLEAN, l \in BOOLEAN} \cup
    {[Shell EXCEPT !.env.listenPid = p, !.env.listenFds = n, !.env.launchd = x, !.env.passed = s] :
        p \in {"unset", "garbled", "own", "other"}, n \in {"unset", "1", "other"},
        x \in {"unset", "", "gateway"}, s \in {<<>>, Passed("127.0.0.1"), Passed("0.0.0.0")}}

MCDeployments == Busy \cup Starts
================================================================================
