--------------------------------- MODULE Setup ---------------------------------
(***************************************************************************)
(* gateway/tools/setup-caddy.sh with the commands of webspec.caddy that it *)
(* runs (listeners, domain, plan, stage, apply), on a host where           *)
(* webspec-ctl, the operator, systemd, reboots and local processes that    *)
(* want a port go on meanwhile: the script takes no lock.                  *)
(*                                                                         *)
(* A command of webspec-ctl is one step here: SiteFiles has its steps.     *)
(***************************************************************************)
EXTENDS Naturals, CaddyFiles

CONSTANTS
    Machines,       \* the [disk, host, services, sockets, tunnel] that there are at first
    Configurations, \* the services that the operator may configure
    Gifts,          \* the values of WEBSPEC_DOMAIN that are given; "unset" is none
    MaxRuns,        \* bound on the runs of the script
    MaxOthers       \* bound on what others do: commands, edits, reboots

VARIABLES
    disk,           \* the Caddyfile and conf.d
    host,           \* the kernel, the loaded unit, the drop-in, gateway.env
    services,       \* the gateway's configuration
    sockets,        \* [from: whose sockets systemd passes, of: who holds the port, by family]
    runs,           \* the disk that Caddy runs, or Down
    tunnel,         \* cloudflared.service: "none", "up", "down"
    run,            \* a run of the script
    switch,         \* where the switch of the listeners is, which outlives the script
    torn,           \* whether a killed run, a failed put back or two writers left a mixture on disk
    due,            \* the hosts that nobody has asked to drop
    base,           \* the disk as it was before the run wrote to it
    done            \* how often there were runs, and commands, edits and reboots

vars == <<disk, host, services, sockets, runs, tunnel, run, switch, torn, due, base, done>>

Host == [v6: BOOLEAN, unit: {"none", "old", "shipped"}, dropin: BOOLEAN, env: Domains \cup {NoDomain, "unset"}]
Sockets == [from: {"none", "old", "shipped"}, of: [{4, 6} -> {"free", "foreign", "caddy", "systemd"}]]
Tunnel == {"none", "up", "down"}

Down == [up |-> FALSE]
Running(d) == [up |-> TRUE, disk |-> d]

Idle == [at |-> "idle", out |-> "none", domain |-> NoDomain, given |-> FALSE, layout |-> "dual",
         allowShrink |-> FALSE, newBinary |-> FALSE, plan |-> PlanSites(NoServices, [caddyfile |-> NoCaddyfile,
         conf |-> [n \in Names |-> NoEntry]], FALSE), left |-> {}, socketChanged |-> FALSE,
         unitChanged |-> FALSE, overtaken |-> FALSE, crossed |-> FALSE]

\* What can be bound: by an earlier Caddy, what it likes; by one of systemd's, what it is passed.
Held == {f \in {4, 6} : sockets.of[f] = "systemd"}
Bindable ==
    IF sockets.from # "shipped" THEN {IF sockets.from = "none" THEN "own" ELSE sockets.from}
    ELSE IF Held = {4, 6} THEN {"ipv4", "dual"}
    ELSE IF Held = {4} THEN {"ipv4"}
    ELSE {}

Used(d) == {d.caddyfile.binds} \cup {d.conf[n].binds : n \in {m \in Names : d.conf[m].by # "none"}}

\* Caddy can start with, or load, these files.
Fits(d) == d.caddyfile.by # "none" /\ Used(d) \subseteq Bindable

Families(layout) == IF layout = "dual" THEN {4, 6} ELSE {4}

\* A socket unit that has its sockets passes port 443 of the IPv4 loopback at least, and of IPv6
\* only where the kernel has it; sockets of the shipped unit mean that it is the one installed.
ASSUME SetupAssumption ==
    /\ Configurations \subseteq [Names -> {"none", "open", "guarded"}]
    /\ Gifts \subseteq Domains \cup {NoDomain, "unset"}
    /\ MaxRuns \in Nat /\ MaxOthers \in Nat
    /\ \A m \in Machines :
        /\ m.disk \in Disk /\ m.host \in Host /\ m.services \in Configurations
        /\ m.sockets \in Sockets /\ m.tunnel \in Tunnel
        /\ m.sockets.from # "none" => m.sockets.of[4] = "systemd"
        /\ m.sockets.of[6] = "systemd" => m.host.v6
        /\ m.sockets.from = "shipped" => m.host.unit = "shipped"

Init ==
    /\ \E m \in Machines :
           /\ disk = m.disk /\ host = m.host /\ services = m.services
           /\ sockets = m.sockets /\ tunnel = m.tunnel
    /\ runs = IF Fits(disk) THEN Running(disk) ELSE Down
    /\ run = Idle
    /\ switch = "none"
    /\ torn = FALSE
    /\ due = ServedToday(disk)
    /\ base = disk
    /\ done = [runs |-> 0, others |-> 0]

Outside == UNCHANGED <<host, services, sockets, runs, tunnel, switch, done>>

-----------------------------------------------------------------------------
(* The script: how it ends.                                                *)

Ended(out) == [run EXCEPT !.at = "idle", !.out = out]

\* From keep_previous until the new binary is in place, a failure or a signal puts the files
\* back; unit_not_kept and a reload that fails do, too, if the binary is the old one.
Writing == {"apply", "move", "write", "remove", "caddyfile", "check", "binary"}

\* Mutant: what the run wrote is not moved out of the way first.
PutBackOver ==
    /\ run' = Ended("put back")
    /\ disk' = [caddyfile |-> IF base.caddyfile.by = "none" THEN disk.caddyfile ELSE base.caddyfile,
                conf |-> [n \in Names |-> IF base.conf[n].by = "none" THEN disk.conf[n] ELSE base.conf[n]]]

PutBack ==
    /\ run' = Ended("put back")
    /\ disk' = base

\* A file cannot be moved back, or SIGKILL comes between.
LeaveTorn ==
    /\ run' = Ended("torn")
    /\ torn' = TRUE
    /\ UNCHANGED disk

Stop ==
    /\ run.at # "idle"
    /\ \/ /\ run.at \in {"plan", "stage", "keep"}
          /\ run' = Ended("refused")
          /\ UNCHANGED <<disk, torn>>
       \/ /\ run.at \in Writing \/ (run.at = "units" /\ ~run.newBinary)
          /\ (PutBack /\ UNCHANGED torn) \/ LeaveTorn
       \/ /\ run.at \in {"units", "switch", "waiting"}
          /\ run' = Ended("late")
          /\ UNCHANGED <<disk, torn>>
    /\ UNCHANGED <<due, base>>
    /\ Outside

-----------------------------------------------------------------------------
(* The script: planning.                                                   *)

\* The operator starts no run while the switch of one that has died goes on: the script tells
\* them to wait (setup-caddy.sh:986, 995 and 1003), and nothing in it enforces that.
Begin(given, allowShrink, newBinary) ==
    LET domain == ResolveDomain(given, disk, host)
    IN  /\ run.at = "idle" /\ switch = "none" /\ done.runs < MaxRuns
        /\ done' = [done EXCEPT !.runs = @ + 1]
        /\ run' = [Idle EXCEPT !.at = IF domain = "error" THEN "idle" ELSE "plan",
                               !.out = IF domain = "error" THEN "refused" ELSE "none",
                               !.domain = IF domain = "error" THEN NoDomain ELSE domain,
                               !.given = given # "unset",
                               !.layout = PlannedListeners(host),
                               !.allowShrink = allowShrink, !.newBinary = newBinary]
        /\ base' = disk
        /\ UNCHANGED <<disk, host, services, sockets, runs, tunnel, switch, torn, due>>

Plan == PlanSites(services, disk, TRUE)
Unasked == Refused(disk, Plan, run.domain, run.allowShrink)

\* The plan, and the staged copy, each from the files as they are then.
Look ==
    /\ run.at \in {"plan", "stage"}
    /\ run' = IF Unasked THEN Ended("refused")
              ELSE [run EXCEPT !.at = IF @ = "plan" THEN "stage" ELSE "keep"]
    /\ UNCHANGED <<disk, torn, due, base>>
    /\ Outside

KeepPrevious ==
    /\ run.at = "keep"
    /\ run' = [run EXCEPT !.at = "apply"]
    /\ base' = disk
    /\ UNCHANGED <<disk, torn, due>>
    /\ Outside

-----------------------------------------------------------------------------
(* The script: writing.  apply plans once more, and asks once more.        *)

Goes(at, names) == [run EXCEPT !.at = at, !.left = names]

\* Mutant: what was planned before is applied to whatever there is now.
ApplyUnasked ==
    /\ run.at = "apply"
    /\ run' = [run EXCEPT !.at = "move", !.plan = Plan, !.left = Plan.untrusted]
    /\ due' = IF run.allowShrink THEN due \cap ServedAfter(Plan, run.domain) ELSE due
    /\ UNCHANGED <<disk, torn, base>>
    /\ Outside

Apply ==
    /\ run.at = "apply"
    /\ \/ /\ Unasked
          /\ PutBack
          /\ UNCHANGED due
       \/ /\ ~Unasked
          /\ run' = [run EXCEPT !.at = "move", !.plan = Plan, !.left = Plan.untrusted]
          /\ due' = IF run.allowShrink THEN due \cap ServedAfter(Plan, run.domain) ELSE due
          /\ UNCHANGED disk
    /\ UNCHANGED <<torn, base>>
    /\ Outside

Put(n, entry) == disk' = [disk EXCEPT !.conf[n] = entry]

\* One file after another: the untrusted ones out, the blocks in, the stale ones away.
WriteOne ==
    \E n \in run.left :
        /\ run' = [run EXCEPT !.left = @ \ {n}]
        /\ CASE run.at = "move" -> Put(n, NoEntry)
             [] run.at = "write" -> Put(n, Rendered(run.plan.sites[n], run.domain, run.layout))
             [] run.at = "remove" -> Put(n, NoEntry)

WriteConfig ==
    /\ run.at \in {"move", "write", "remove", "caddyfile"}
    /\ \/ WriteOne
       \/ /\ run.left = {}
          /\ \/ run.at = "move" /\ run' = Goes("write", Planned(run.plan)) /\ UNCHANGED disk
             \/ run.at = "write" /\ run' = Goes("remove", run.plan.stale) /\ UNCHANGED disk
             \/ run.at = "remove" /\ run' = Goes("caddyfile", {}) /\ UNCHANGED disk
             \/ /\ run.at = "caddyfile" /\ run' = Goes("check", {})
                /\ disk' = [disk EXCEPT !.caddyfile = Generated(run.domain, run.layout)]
    /\ UNCHANGED <<torn, due, base>>
    /\ Outside

\* validate, and the binary's rename: from then on nothing is put back for a signal.
Install ==
    /\ run.at \in {"check", "binary"}
    /\ run' = [run EXCEPT !.at = IF @ = "check" THEN "binary" ELSE "units"]
    /\ UNCHANGED <<disk, torn, due, base>>
    /\ Outside

-----------------------------------------------------------------------------
(* The script: units, and having Caddy run the files.                      *)

Units ==
    /\ run.at = "units"
    /\ host' = [host EXCEPT !.unit = "shipped", !.dropin = FALSE]
    /\ \E other \in BOOLEAN :                   \* whether caddy-webspec.service changes
           run' = [run EXCEPT !.at = "switch", !.unitChanged = other \/ host.unit # "shipped",
                              !.socketChanged = host.unit # "shipped" \/ host.dropin]
    /\ UNCHANGED <<disk, services, sockets, runs, tunnel, switch, torn, due, base, done>>

SystemdHolds == sockets.from = "shipped" /\ Families(run.layout) \subseteq Held

MustSwitch == run.socketChanged \/ ~SystemdHolds

RunCutover ==
    /\ run.at = "switch" /\ MustSwitch
    /\ run' = [run EXCEPT !.at = "waiting"]
    /\ switch' = "start"
    /\ UNCHANGED <<disk, host, services, sockets, runs, tunnel, torn, due, base, done>>

\* A run that ends well mends what was torn before it.
Finish ==
    /\ run' = Ended("ok")
    /\ torn' = run.crossed
    /\ due' = IF torn THEN ServedToday(disk) ELSE due

Restart ==
    /\ run.at = "switch" /\ ~MustSwitch
    /\ \/ /\ Fits(disk)
          /\ runs' = Running(disk)
          /\ Finish
       \/ /\ runs' = Down
          /\ run' = Ended("late")
          /\ UNCHANGED <<torn, due>>
    /\ UNCHANGED <<disk, host, services, sockets, tunnel, switch, base, done>>

\* With the binary, the units and Caddy as they were, a reload does.  One that times out may
\* have loaded the new files, and so may the one that follows putting the others back, if
\* they could be.
Reload ==
    /\ run.at = "switch" /\ ~MustSwitch
    /\ ~run.newBinary /\ ~run.unitChanged /\ runs.up
    /\ \/ /\ Fits(disk)
          /\ runs' = Running(disk)
          /\ Finish
          /\ UNCHANGED disk
       \/ /\ PutBack
          /\ runs' \in {runs} \cup {Running(d) : d \in {x \in {base, disk} : Fits(x)}}
          /\ UNCHANGED <<torn, due>>
       \/ /\ LeaveTorn
          /\ runs' \in {runs} \cup {Running(d) : d \in {x \in {disk} : Fits(x)}}
          /\ UNCHANGED due
    /\ UNCHANGED <<host, services, sockets, tunnel, switch, base, done>>

Switched ==
    /\ run.at = "waiting" /\ switch \in {"ok", "failed"}
    /\ IF switch = "ok" THEN Finish ELSE run' = Ended("late") /\ UNCHANGED <<torn, due>>
    /\ switch' = "none"
    /\ UNCHANGED <<disk, host, services, sockets, runs, tunnel, base, done>>

-----------------------------------------------------------------------------
(* The switch, in a unit of its own.                                       *)

Switching == UNCHANGED <<disk, host, services, run, torn, due, base, done>>

StopTunnel ==
    /\ switch = "start"
    /\ switch' = IF tunnel = "up" THEN "stopped, tunnel" ELSE "stopped"
    /\ tunnel' = IF tunnel = "up" THEN "down" ELSE tunnel
    /\ UNCHANGED <<sockets, runs>>
    /\ Switching

Tunnelled == switch \in {"stopped, tunnel", "free, tunnel"}

StopSocket ==
    /\ switch \in {"stopped", "stopped, tunnel"}
    /\ sockets' = [from |-> "none", of |-> [f \in {4, 6} |-> IF sockets.of[f] = "foreign" THEN "foreign" ELSE "free"]]
    /\ runs' = Down
    /\ switch' = IF Tunnelled THEN "free, tunnel" ELSE "free"
    /\ UNCHANGED tunnel
    /\ Switching

Passed == Families(SystemdListen(host))

\* Mutant: the tunnel is started again whatever came of the sockets.
StartTunnelAnyway == Tunnelled

\* The tunnel comes back only with every listener.
StartTunnel == Tunnelled /\ \A f \in Passed : sockets.of[f] # "foreign"

StartSocket ==
    /\ switch \in {"free", "free, tunnel"}
    /\ tunnel' = IF StartTunnel THEN "up" ELSE tunnel
    /\ \/ /\ \A f \in Passed : sockets.of[f] = "free"
          /\ sockets' = [from |-> "shipped", of |-> [f \in {4, 6} |-> IF f \in Passed THEN "systemd" ELSE sockets.of[f]]]
          /\ switch' = "held"
       \/ /\ \E f \in Passed : sockets.of[f] # "free"
          /\ switch' = "failed"
          /\ UNCHANGED sockets
    /\ UNCHANGED runs
    /\ Switching

StartUnit ==
    /\ switch = "held"
    /\ runs' = IF Fits(disk) THEN Running(disk) ELSE Down
    /\ switch' = IF Fits(disk) THEN "ok" ELSE "failed"
    /\ UNCHANGED <<sockets, tunnel>>
    /\ Switching

\* The script has gone: nobody waits for the switch.
Collected ==
    /\ switch \in {"ok", "failed"} /\ run.at # "waiting"
    /\ switch' = "none"
    /\ UNCHANGED <<sockets, runs, tunnel>>
    /\ Switching

-----------------------------------------------------------------------------
(* The others.                                                             *)

\* A command of webspec-ctl that Caddy takes.
Command(d, domain) ==
    /\ CaddyStatus(disk, host) = "managed" /\ done.others < MaxOthers
    /\ domain # "error"
    /\ runs.up /\ Fits(d)
    /\ disk' = d
    /\ runs' = Running(d)
    /\ due' = ServedToday(d)
    /\ LET crossed == run.at \in Writing \cup {"units", "switch", "waiting"}
       IN  /\ torn' = (torn \/ crossed)
           /\ base' = IF crossed THEN base ELSE d
           /\ run' = [run EXCEPT !.out = "none", !.crossed = @ \/ crossed,
                                 !.overtaken = @ \/ (run.at # "idle" /\ domain # disk.caddyfile.domain)]
    /\ done' = [done EXCEPT !.others = @ + 1]
    /\ UNCHANGED <<host, services, sockets, tunnel, switch>>

CaddySync ==
    \E given \in Gifts :
        LET domain == ResolveDomain(given, disk, host)
        IN  Command(Synced(disk, host, services, domain), domain)

AddDirect ==
    \E n \in Names :
        /\ disk.conf[n].by = "none" /\ services[n] = "none"
        /\ LET domain == ResolveDomain("unset", disk, host)
           IN  Command(WithDirect(disk, host, n, domain), domain)

Edit ==
    /\ done.others < MaxOthers
    /\ \E s \in Configurations : s # services /\ services' = s
    /\ done' = [done EXCEPT !.others = @ + 1]
    /\ UNCHANGED <<disk, host, sockets, runs, tunnel, run, switch, torn, due, base>>

\* Caddy fails or is restarted at any moment, and systemd starts it with the files there are.
\* One of an earlier setup binds its port itself, and frees it when it fails.
CaddyRestarts ==
    LET binds == sockets.from = "none" /\ sockets.of[4] # "foreign"
        starts == Fits(disk) /\ (sockets.from = "none" => binds)
    IN  /\ switch = "none"
        /\ runs' = IF starts THEN Running(disk) ELSE Down
        /\ sockets' = IF binds THEN [sockets EXCEPT !.of[4] = IF starts THEN "caddy" ELSE "free"] ELSE sockets
        /\ UNCHANGED <<disk, host, services, tunnel, run, switch, torn, due, base, done>>

\* A local process takes a port that is free, or leaves it.
Foreign ==
    /\ \E f \in {4, 6} :
           /\ f = 6 => host.v6
           /\ \/ /\ sockets.of[f] = "free"
                 /\ sockets' = [sockets EXCEPT !.of[f] = "foreign"]
              \/ /\ sockets.of[f] = "foreign"
                 /\ sockets' = [sockets EXCEPT !.of[f] = "free"]
    /\ UNCHANGED <<disk, host, services, runs, tunnel, run, switch, torn, due, base, done>>

\* With its kernel's IPv6 on or off.  The enabled socket is bound before anything else runs.
Boot(h, from) ==
    sockets' = [from |-> from,
                of |-> [f \in {4, 6} |-> IF from # "none" /\ f \in Families(SystemdListen(h)) THEN "systemd"
                                          ELSE "free"]]

Reboot ==
    /\ done.others < MaxOthers
    /\ \E v6 \in BOOLEAN : host' = [host EXCEPT !.v6 = v6]
    /\ Boot(host', host.unit)
    /\ run' = Idle
    /\ switch' = "none"
    /\ torn' = (torn \/ run.at \in Writing)
    /\ tunnel' = IF tunnel = "none" THEN "none" ELSE "up"
    /\ runs' = Down
    /\ done' = [done EXCEPT !.others = @ + 1]
    /\ UNCHANGED <<disk, services, due, base>>

Script ==
    \/ \E given \in Gifts, allowShrink, newBinary \in BOOLEAN : Begin(given, allowShrink, newBinary)
    \/ Look \/ KeepPrevious \/ Apply \/ WriteConfig \/ Install \/ Units
    \/ RunCutover \/ Restart \/ Reload \/ Switched
    \/ Stop

Switch == StopTunnel \/ StopSocket \/ StartSocket \/ StartUnit \/ Collected

Next == Script \/ Switch \/ CaddySync \/ AddDirect \/ Edit \/ CaddyRestarts \/ Foreign \/ Reboot

Spec == Init /\ [][Next]_vars

-----------------------------------------------------------------------------
Run ==
    [at: Writing \cup {"idle", "plan", "stage", "keep", "units", "switch", "waiting"},
     out: {"none", "refused", "put back", "torn", "late", "ok"},
     domain: Domains \cup {NoDomain}, given: BOOLEAN, layout: {"ipv4", "dual"},
     allowShrink: BOOLEAN, newBinary: BOOLEAN,
     plan: [sites: [Names -> Sites \cup {"none"}], stale: SUBSET Names, untrusted: SUBSET Names],
     left: SUBSET Names, socketChanged: BOOLEAN, unitChanged: BOOLEAN, overtaken: BOOLEAN,
     crossed: BOOLEAN]

TypeOK ==
    /\ {disk, base} \subseteq Disk
    /\ host \in Host
    /\ services \in Configurations
    /\ sockets \in Sockets
    /\ runs \in {Down} \cup [up: {TRUE}, disk: Disk]
    /\ tunnel \in Tunnel
    /\ run \in Run
    /\ switch \in {"none", "start", "stopped", "stopped, tunnel", "free", "free, tunnel", "held", "ok", "failed"}
    /\ torn \in BOOLEAN
    /\ due \subseteq Names \X (Domains \cup {"localhost"})
    /\ done \in [runs: 0 .. MaxRuns, others: 0 .. MaxOthers]

\* Between runs, every host that was served is still served on disk, unless ALLOW_SHRINK or
\* a command of webspec-ctl has dropped it, or the files were left torn: whatever the operator
\* and webspec-ctl changed while a run was planning.
HostsKept == run.at = "idle" /\ ~torn => due \subseteq ServedToday(disk)

\* The public domain that the configuration records, or that an earlier one serves, is the only
\* one after a run that was given no other, whatever gateway.env says.  (A domain that webspec-ctl
\* is given during the run is overtaken by it.)
DomainKept ==
    /\ run.at \in {"check", "binary", "units", "switch", "waiting"} /\ ~run.given /\ ~run.overtaken /\ ~torn
    /\ RecordedDomain(base) \notin {"none", "error"}
    => /\ disk.caddyfile.domain = RecordedDomain(base)
       /\ \A x \in ServedToday(disk) : x[2] \in {"localhost", disk.caddyfile.domain}

\* A run that succeeds leaves Caddy running exactly the files on disk, on sockets that systemd
\* holds for every family; one that refused or put back leaves the files that were there.
EndsWell ==
    /\ run.out = "ok" /\ ~torn =>
           /\ runs = Running(disk) /\ Used(disk) = {run.layout}
           /\ Families(PlannedListeners(host)) = Held
    /\ run.out \in {"refused", "put back"} /\ ~torn => disk = base

\* After a boot with IPv6 turned on or off, or on a host with the drop-in of an earlier setup,
\* webspec-ctl refuses, or its health check reports, every configuration that Caddy cannot start
\* with, that leaves a socket unserved, or that leaves a family to whoever binds it.
MisfitTold ==
    /\ run.at = "idle" /\ ~torn /\ disk.caddyfile.by = "webspec" /\ disk.caddyfile.safe
    /\ sockets.from = "shipped" /\ Held = Passed
    => \/ Fits(disk) /\ Used(disk) = {SystemdListen(host)} /\ (host.v6 => 6 \in Held)
       \/ CaddyStatus(disk, host) # "managed"
       \/ ListenerMismatch(disk, host)
       \/ UnheldListeners(host)

\* While the tunnel is up, no process but Caddy gets what it sends to Caddy's port: neither once
\* systemd holds the sockets, nor from the moment the switch stops a Caddy that bound its own.
TunnelSafe ==
    tunnel = "up" /\ (sockets.from # "none" \/ switch \notin {"none", "start"}) => sockets.of[4] # "foreign"
================================================================================
