------------------------------- MODULE SiteFiles -------------------------------
(***************************************************************************)
(* The transaction on Caddy's files (apply_site_changes,                   *)
(* gateway/webspec/caddy.py): under the lock on conf.d, what has to change *)
(* is found out, a staged copy is validated, the files are written one by  *)
(* one and Caddy reloads them, or every file goes back as it was.          *)
(*                                                                         *)
(* A file's content is all the code compares it by: a block is its kind    *)
(* and the public domain it serves, the Caddyfile the domain it records.   *)
(***************************************************************************)
EXTENDS CtlProcs

CONSTANTS
    Domains,        \* public domains the configuration may serve, NoDomain among them
    NoDomain,       \* none: *.localhost names only
    Caddyfile,      \* the one file that is not a block
    NoBlock         \* there is no file

ASSUME SiteFilesAssumption == NoDomain \in Domains /\ Caddyfile \notin Names

Kinds == {"open", "guarded", "direct"}

Block == [kind: Kinds, domain: Domains]

\* render_site: an unguarded service is served on the local host only.
Render(kind, domain) ==
    [kind |-> kind, domain |-> IF kind = "open" THEN NoDomain ELSE domain]

Files == Names \cup {Caddyfile}

Disk == [Files -> Block \cup {NoBlock} \cup Domains]

VARIABLES
    disk,           \* the files
    running,        \* the files as Caddy last loaded them
    lock,           \* who holds the lock on conf.d
    tx,             \* where each process is in its transaction
    torn            \* what may be out of step after a crash or a failed restore: "running", "files"

siteVars == <<disk, running, lock, tx, torn>>

\* Some files and their contents.
Changes == UNION {[fs -> Block \cup {NoBlock} \cup Domains] : fs \in SUBSET Files}

NoChange == [f \in {} |-> NoBlock]

Transaction ==
    [at: {"none", "lock", "check", "write", "load", "restore", "ok", "refused", "raised"},
     todo: Changes, snapshots: Changes, left: SUBSET Files, raise: BOOLEAN]

NoTx == [at |-> "none", todo |-> NoChange, snapshots |-> NoChange, left |-> {}, raise |-> FALSE]

SitesTypeOK ==
    /\ disk \in Disk
    /\ running \in Disk
    /\ lock \in Procs \cup {Nobody}
    /\ tx \in [Procs -> Transaction]
    /\ torn \subseteq {"running", "files"}
    /\ \A p \in Procs : tx[p].at \in {"check", "write", "load", "restore"} <=> lock = p

SitesInit(files) ==
    /\ disk = files
    /\ running = files
    /\ lock = Nobody
    /\ tx = [p \in Procs |-> NoTx]
    /\ torn = {}

BeginTx(p, changes) ==
    /\ tx[p].at = "none"
    /\ tx' = [tx EXCEPT ![p] = [NoTx EXCEPT !.at = "lock", !.todo = changes]]
    /\ UNCHANGED <<disk, running, lock, torn>>

EndTx(p, at) ==
    /\ lock' = Nobody
    /\ tx' = [tx EXCEPT ![p] = [NoTx EXCEPT !.at = at]]

\* Faulty variant: the Caddyfile is not kept to be put back.
TakeLockBlocksKept(p) ==
    /\ tx[p].at = "lock"
    /\ lock = Nobody
    /\ LET changes == tx[p].todo
           todo == {f \in DOMAIN changes : disk[f] # changes[f]}
       IN  IF todo = {}
           THEN EndTx(p, "ok")
           ELSE /\ lock' = p
                /\ tx' = [tx EXCEPT ![p] =
                       [@ EXCEPT !.at = "check",
                                 !.todo = [f \in todo |-> changes[f]],
                                 !.snapshots = [f \in todo \ {Caddyfile} |-> disk[f]]]]
    /\ UNCHANGED <<disk, running, torn>>

\* Under the lock, the changes are compared with the files as they are now, which are
\* kept to be put back.  Where nothing has to change, Caddy reloads nothing.
TakeLock(p) ==
    /\ tx[p].at = "lock"
    /\ lock = Nobody
    /\ LET changes == tx[p].todo
           todo == {f \in DOMAIN changes : disk[f] # changes[f]}
       IN  IF todo = {}
           THEN EndTx(p, "ok")
           ELSE /\ lock' = p
                /\ tx' = [tx EXCEPT ![p] =
                       [@ EXCEPT !.at = "check",
                                 !.todo = [f \in todo |-> changes[f]],
                                 !.snapshots = [f \in todo |-> disk[f]]]]
    /\ UNCHANGED <<disk, running, torn>>

\* caddy validate, on the staged copy.
Validate(p) ==
    /\ tx[p].at = "check"
    /\ tx' = [tx EXCEPT ![p].at = "write", ![p].left = DOMAIN tx[p].todo]
    /\ UNCHANGED <<disk, running, lock, torn>>

\* Caddy rejects the copy or the copy is refused (a CaddyError), or making it fails
\* otherwise (an OSError, Ctrl-C): nothing was changed.
Reject(p) ==
    /\ tx[p].at = "check"
    /\ \E result \in {"refused", "raised"} : EndTx(p, result)
    /\ UNCHANGED <<disk, running, torn>>

\* Ctrl-C while the process waits for the lock.
GiveUpLock(p) ==
    /\ tx[p].at = "lock"
    /\ tx' = [tx EXCEPT ![p] = [NoTx EXCEPT !.at = "raised"]]
    /\ UNCHANGED <<disk, running, lock, torn>>

\* The blocks first, the Caddyfile last.
WriteFile(p) ==
    /\ tx[p].at = "write"
    /\ \E f \in tx[p].left :
           /\ f = Caddyfile => tx[p].left = {Caddyfile}
           /\ disk' = [disk EXCEPT ![f] = tx[p].todo[f]]
           /\ tx' = [tx EXCEPT ![p].left = @ \ {f},
                               ![p].at = IF tx[p].left = {f} THEN "load" ELSE "write"]
    /\ UNCHANGED <<running, lock, torn>>

ToRestore(p, raise) ==
    tx' = [tx EXCEPT ![p].at = "restore", ![p].left = DOMAIN tx[p].snapshots, ![p].raise = raise]

\* An OSError or Ctrl-C half-way through the files.
WriteFails(p) ==
    /\ tx[p].at = "write"
    /\ ToRestore(p, TRUE)
    /\ UNCHANGED <<disk, running, lock, torn>>

\* caddy reload
Reload(p) ==
    /\ tx[p].at = "load"
    /\ running' = disk
    /\ torn' = torn \ {"running"}
    /\ EndTx(p, "ok")
    /\ UNCHANGED disk

\* Caddy does not load the files (a CaddyError) or the reload is interrupted (raised); if
\* it timed out or was interrupted, Caddy may have loaded them after all.
ReloadFails(p) ==
    /\ tx[p].at = "load"
    /\ \E raise \in BOOLEAN : ToRestore(p, raise)
    /\ \/ UNCHANGED <<running, torn>>
       \/ running' = disk /\ torn' = torn \cup {"running"}
    /\ UNCHANGED <<disk, lock>>

\* _restore puts the files back one by one and goes on where one cannot be.
RestoreFile(p) ==
    /\ tx[p].at = "restore"
    /\ \E f \in tx[p].left :
           /\ \/ disk' = [disk EXCEPT ![f] = tx[p].snapshots[f]] /\ UNCHANGED torn
              \/ UNCHANGED disk /\ torn' = {"running", "files"}
           /\ IF tx[p].left = {f}
              THEN EndTx(p, IF tx[p].raise THEN "raised" ELSE "refused")
              ELSE tx' = [tx EXCEPT ![p].left = @ \ {f}] /\ UNCHANGED lock
    /\ UNCHANGED running

TxSteps(p) ==
    \/ TakeLock(p) \/ GiveUpLock(p)
    \/ Validate(p) \/ Reject(p)
    \/ WriteFile(p) \/ WriteFails(p)
    \/ Reload(p) \/ ReloadFails(p)
    \/ RestoreFile(p)

\* The process dies: the system drops its lock and nothing else is put right; a reload it
\* had started may still happen.
DropTx(p) ==
    /\ lock' = IF lock = p THEN Nobody ELSE lock
    /\ tx' = [tx EXCEPT ![p] = NoTx]
    /\ torn' = torn \cup {"files"}
           \cup IF tx[p].at \in {"write", "load", "restore"} THEN {"running"} ELSE {}
    /\ running' \in IF tx[p].at = "load" THEN {running, disk} ELSE {running}
    /\ UNCHANGED disk
================================================================================
