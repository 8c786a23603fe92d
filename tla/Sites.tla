--------------------------------- MODULE Sites ---------------------------------
(***************************************************************************)
(* webspec-ctl add, add --direct, rm and caddy-sync (gateway/webspec/      *)
(* ctl.py): each reads the gateway's configuration, looks at Caddy's       *)
(* files, edits the one (ConfigFile) and changes the others (SiteFiles),   *)
(* and undoes the edit if Caddy does not follow.  Commands run in several  *)
(* processes, are interrupted (Ctrl-C) and killed at any point.            *)
(*                                                                         *)
(* A command that ends before its first write is one that changed nothing, *)
(* so the checks of its arguments are guards of the command.               *)
(***************************************************************************)
EXTENDS Naturals, ConfigFile, SiteFiles

CONSTANT MaxRuns        \* bound on the commands that are run

ASSUME SitesAssumption == MaxRuns \in Nat /\ Entries = {"open", "guarded"}

VARIABLES
    status,         \* caddy_status: "managed", "absent" or "refused", which no command changes
    cmd,            \* the command each process runs and where it is
    runs,           \* number of commands begun
    overlapped      \* whether two commands ever ran at once

cmdVars == <<status, cmd, runs, overlapped>>
vars == <<config, tmp, edit, disk, running, lock, tx, torn, status, cmd, runs, overlapped>>

Command ==
    [at: {"idle", "look", "put", "apply", "undo", "drop"},
     op: {"none", "add", "direct", "rm", "sync"},
     name: Names \cup {Nobody},
     entry: Entries \cup {NoEntry},     \* the one to add
     force: BOOLEAN,
     seen: Services,                    \* the services as the command first read them
     changes: Changes]                  \* of Caddy's files, once they are decided

NoCommand ==
    [at |-> "idle", op |-> "none", name |-> Nobody, entry |-> NoEntry, force |-> FALSE,
     seen |-> NoServices, changes |-> NoChange]

TypeOK ==
    /\ ConfigTypeOK
    /\ SitesTypeOK
    /\ status \in {"managed", "absent", "refused"}
    /\ cmd \in [Procs -> Command]
    /\ runs \in 0 .. MaxRuns
    /\ overlapped \in BOOLEAN
    /\ \A p \in Procs : tx[p].at # "none" => cmd[p].at = "apply" /\ status = "managed"
    /\ \A p \in Procs : edit[p].at # "none" => cmd[p].at \in {"put", "undo", "drop"}

-----------------------------------------------------------------------------
\* As setup-caddy.sh leaves a host: every service has its block, and Caddy runs the files.
Init ==
    \E services \in Services, direct \in SUBSET Names, domain \in Domains :
        /\ \A n \in direct : services[n] = NoEntry
        /\ ConfigInit(services)
        /\ SitesInit([f \in Files |->
               IF f = Caddyfile THEN domain
               ELSE IF f \in direct THEN Render("direct", domain)
               ELSE IF services[f] = NoEntry THEN NoBlock
               ELSE Render(services[f], domain)])
        /\ status \in {"managed", "absent", "refused"}
        /\ cmd = [p \in Procs |-> NoCommand]
        /\ runs = 0
        /\ overlapped = FALSE

-----------------------------------------------------------------------------
(* What the commands decide *)

\* A file that is not whole configures nothing: a command that reads it is an error.
Exists(services, name) == services # Partial /\ services[name] # NoEntry

\* Faulty variant: direct sites are left alone.
PlannedServices(services, name, domain) ==
    IF Exists(services, name) THEN Render(services[name], domain)
    ELSE IF disk[name] # NoBlock /\ disk[name].kind # "direct" /\ \E n \in Names : Exists(services, n)
    THEN NoBlock
    ELSE disk[name]

\* plan_sites and plan_sync: every service and every direct site has a block; a service's
\* block that the configuration no longer lists goes, unless it lists no service at all.
Planned(services, name, domain) ==
    IF Exists(services, name) THEN Render(services[name], domain)
    ELSE IF disk[name] = NoBlock THEN NoBlock
    ELSE IF disk[name].kind # "direct" /\ \E n \in Names : Exists(services, n) THEN NoBlock
    ELSE Render(disk[name].kind, domain)

PlanSync(services, domain) ==
    LET differ == {n \in Names : disk[n] # Planned(services, n, domain)}
    IN  [f \in differ \cup {Caddyfile} |->
            IF f = Caddyfile THEN domain ELSE Planned(services, f, domain)]

\* One block and the recorded domain, which it is for: the Caddyfile does not change
\* unless its record does before the lock is held.
OneBlock(name, kind) ==
    [f \in {name, Caddyfile} |->
        IF f = name THEN Render(kind, disk[Caddyfile]) ELSE disk[Caddyfile]]

-----------------------------------------------------------------------------
(* The commands *)

Begin(p, command) ==
    /\ cmd[p].at = "idle"
    /\ runs < MaxRuns
    /\ config.content # Partial
    /\ runs' = runs + 1
    /\ overlapped' = (overlapped \/ \E q \in Procs \ {p} : cmd[q].at # "idle")
    /\ cmd' = [cmd EXCEPT ![p] = [command EXCEPT !.at = "look", !.seen = config.content]]
    /\ UNCHANGED <<status, configVars, siteVars>>

Add(p, name, entry, force) ==
    /\ status # "refused"
    /\ Exists(config.content, name) => force
    /\ Begin(p, [NoCommand EXCEPT !.op = "add", !.name = name, !.entry = entry, !.force = force])

AddDirect(p, name) ==
    /\ status = "managed"
    /\ ~ Exists(config.content, name)
    /\ Begin(p, [NoCommand EXCEPT !.op = "direct", !.name = name])

Rm(p, name) == Begin(p, [NoCommand EXCEPT !.op = "rm", !.name = name])

CaddySync(p) ==
    /\ status = "managed"
    /\ Begin(p, [NoCommand EXCEPT !.op = "sync"])

Goto(p, at) == cmd' = [cmd EXCEPT ![p].at = at]

Finish(p) == cmd' = [cmd EXCEPT ![p] = NoCommand]

\* add: a direct site is replaced only when asked; then the configuration is written first.
LookAdd(p) ==
    /\ cmd[p].op = "add"
    /\ LET name == cmd[p].name IN
       IF status = "managed" /\ disk[name] # NoBlock /\ disk[name].kind = "direct" /\ ~ cmd[p].force
       THEN Finish(p) /\ UNCHANGED configVars
       ELSE /\ BeginEdit(p, name, cmd[p].entry)
            /\ cmd' = [cmd EXCEPT ![p].at = "put",
                   ![p].changes = IF status = "managed" THEN OneBlock(name, cmd[p].entry)
                                                        ELSE NoChange]
    /\ UNCHANGED siteVars

LookDirect(p) ==
    /\ cmd[p].op = "direct"
    /\ BeginTx(p, OneBlock(cmd[p].name, "direct"))
    /\ Goto(p, "apply")
    /\ UNCHANGED configVars

\* The entry of a name is dropped if the first look found one.
Drop(p) ==
    IF Exists(cmd[p].seen, cmd[p].name)
    THEN BeginEdit(p, cmd[p].name, NoEntry) /\ Goto(p, "drop")
    ELSE Finish(p) /\ UNCHANGED configVars

LookRm(p) ==
    /\ cmd[p].op = "rm"
    /\ IF status = "managed" /\ disk[cmd[p].name] # NoBlock
       THEN /\ BeginTx(p, [f \in {cmd[p].name} |-> NoBlock])
            /\ Goto(p, "apply")
            /\ UNCHANGED configVars
       ELSE Drop(p) /\ UNCHANGED siteVars

\* The domain stays the recorded one, or is the one given (WEBSPEC_DOMAIN, --no-public).
LookSync(p) ==
    /\ cmd[p].op = "sync"
    /\ \E domain \in Domains : BeginTx(p, PlanSync(cmd[p].seen, domain))
    /\ Goto(p, "apply")
    /\ UNCHANGED configVars

Look(p) ==
    /\ cmd[p].at = "look"
    /\ LookAdd(p) \/ LookDirect(p) \/ LookRm(p) \/ LookSync(p)
    /\ UNCHANGED <<status, runs, overlapped>>

\* The entry is written (or the write raised): on to Caddy, where this host has one.
Put(p) ==
    /\ cmd[p].at = "put"
    /\ edit[p].at \in {"done", "raised"}
    /\ edit' = [edit EXCEPT ![p] = NoEdit]
    /\ IF edit[p].at = "done" /\ status = "managed"
       THEN BeginTx(p, cmd[p].changes) /\ Goto(p, "apply")
       ELSE Finish(p) /\ UNCHANGED siteVars
    /\ UNCHANGED <<config, tmp, status, runs, overlapped>>

\* Once a sync is through, the blocks are those of the entries again.
CloseTx(p) ==
    /\ tx' = [tx EXCEPT ![p] = NoTx]
    /\ torn' = IF tx[p].at = "ok" /\ cmd[p].op = "sync" THEN torn \ {"files"} ELSE torn
    /\ UNCHANGED <<disk, running, lock>>

\* Faulty variant: add undoes its entry only for a CaddyError.
AppliedIfRefused(p) ==
    /\ cmd[p].at = "apply"
    /\ tx[p].at \in {"ok", "refused", "raised"}
    /\ CASE cmd[p].op = "add" /\ tx[p].at = "refused" ->
              BeginEdit(p, cmd[p].name, cmd[p].seen[cmd[p].name]) /\ Goto(p, "undo")
         [] cmd[p].op = "rm" /\ tx[p].at # "raised" -> Drop(p)
         [] OTHER -> Finish(p) /\ UNCHANGED configVars
    /\ CloseTx(p)
    /\ UNCHANGED <<status, runs, overlapped>>

\* An add that fails in any way restores the entry that was there, or removes its own.
\* rm goes on to the entry, except when its transaction raised something else than a CaddyError.
Applied(p) ==
    /\ cmd[p].at = "apply"
    /\ tx[p].at \in {"ok", "refused", "raised"}
    /\ CASE cmd[p].op = "add" /\ tx[p].at # "ok" ->
              BeginEdit(p, cmd[p].name, cmd[p].seen[cmd[p].name]) /\ Goto(p, "undo")
         [] cmd[p].op = "rm" /\ tx[p].at # "raised" -> Drop(p)
         [] OTHER -> Finish(p) /\ UNCHANGED configVars
    /\ CloseTx(p)
    /\ UNCHANGED <<status, runs, overlapped>>

\* An undo that fails itself leaves the new entry without its block.
Edited(p) ==
    /\ cmd[p].at \in {"undo", "drop"}
    /\ edit[p].at \in {"done", "raised"}
    /\ edit' = [edit EXCEPT ![p] = NoEdit]
    /\ torn' = IF edit[p].at = "raised" THEN torn \cup {"files"} ELSE torn
    /\ Finish(p)
    /\ UNCHANGED <<config, tmp, disk, running, lock, tx, status, runs, overlapped>>

\* The process is killed, or interrupted where nothing undoes what it did.
Kill(p) ==
    /\ cmd[p].at \in {"put", "apply", "undo", "drop"}
    /\ DropEdit(p)
    /\ DropTx(p)
    /\ Finish(p)
    /\ UNCHANGED <<status, runs, overlapped>>

-----------------------------------------------------------------------------
AllIdle == \A p \in Procs : cmd[p].at = "idle"

\* No command is under way: the only state the system may rest in.
Rest == AllIdle /\ UNCHANGED vars

Step(p) ==
    \/ Look(p) \/ Put(p) \/ Applied(p) \/ Edited(p)
    \/ EditSteps(p) /\ UNCHANGED <<siteVars, cmdVars>>
    \/ TxSteps(p) /\ UNCHANGED <<configVars, cmdVars>>

Next ==
    \/ \E p \in Procs, n \in Names :
           \/ \E e \in Entries, force \in BOOLEAN : Add(p, n, e, force)
           \/ AddDirect(p, n)
           \/ Rm(p, n)
    \/ \E p \in Procs : CaddySync(p) \/ Step(p) \/ Kill(p)
    \/ Rest

Spec == Init /\ [][Next]_vars

-----------------------------------------------------------------------------
(* Properties *)

\* apply_site_changes: whatever its steps met, and whatever other commands ran meanwhile,
\* what Caddy runs is what is on disk once the lock is free again, so that Caddy can be
\* restarted.  The exceptions: a command was killed with files half-written, a file could
\* not be put back, or Caddy loaded the files although the reload failed; they last until
\* the next reload that succeeds.
RunningIsDisk == lock = Nobody /\ "running" \notin torn => running = disk

\* cmd_add, cmd_rm: commands that run one at a time leave every service of the
\* configuration with the block of exactly its entry, guarded or not, however they fail.
\* A command that was killed or could not undo its work may not; a caddy-sync repairs it.
EntryHasBlock ==
    status = "managed" /\ AllIdle /\ ~ overlapped /\ "files" \notin torn =>
        \A n \in Names : Exists(config.content, n) =>
            disk[n] = Render(config.content[n], disk[Caddyfile])

\* _domain_mismatch: a public domain is the configuration's.  Every block, a direct site's
\* too, serves the domain that the Caddyfile records, when commands run one at a time.
OneDomain ==
    AllIdle /\ ~ overlapped /\ "files" \notin torn =>
        \A n \in Names : disk[n] # NoBlock => disk[n] = Render(disk[n].kind, disk[Caddyfile])

\* _write_claude_config: "Atomic write of the config": the file at its path always is a
\* whole configuration.
WholeConfig == config.content # Partial

\* It is when commands run one at a time, wherever each is killed or its write fails.
WholeConfigAlone == ~ overlapped => WholeConfig
================================================================================
