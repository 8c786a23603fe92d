------------------------------ MODULE SitesProofs ------------------------------
(***************************************************************************)
(* Sites for any number of processes, names, domains and commands:         *)
(*                                                                         *)
(*   SInv   under every interleaving of the commands the transaction of    *)
(*          SiteFiles leaves Caddy running the files on disk;              *)
(*   TInv   the types;                                                     *)
(*   Alone  commands that run one at a time leave a whole configuration,   *)
(*          and Caddy's files as its entries and the recorded domain say.  *)
(***************************************************************************)
EXTENDS Sites, TLAPS

Busy == {"check", "write", "load", "restore"}

\* A transaction is a record of these fields, a set of files a function of them.
Fields == {"at", "todo", "snapshots", "left", "raise"}

IsTx(t) == DOMAIN t = Fields /\ t = [x \in Fields |-> t[x]]

Shape ==
    /\ disk = [f \in Files |-> disk[f]]
    /\ running = [f \in Files |-> running[f]]
    /\ tx = [p \in Procs |-> tx[p]]
    /\ \A p \in Procs : IsTx(tx[p])

\* Whoever is between the lock and its release, and nobody else, holds the lock.
LockHeld ==
    /\ lock \in Procs \cup {Nobody}
    /\ \A p \in Procs : tx[p].at \in Busy <=> lock = p

\* What is left to write or to put back is among the files that were kept.
LeftKept ==
    \A p \in Procs : tx[p].at = "restore" => tx[p].left \subseteq DOMAIN tx[p].snapshots

\* Under the lock Caddy runs the files as they were when it was taken: those that were
\* kept for a restore, and were not put back yet, as they were kept; the others as they are.
RunsWas(p) ==
    "running" \notin torn =>
        /\ tx[p].at = "check" =>
              /\ running = disk
              /\ \A f \in DOMAIN tx[p].snapshots : tx[p].snapshots[f] = disk[f]
        /\ tx[p].at \in {"write", "load"} =>
              \A f \in Files :
                  running[f] = IF f \in DOMAIN tx[p].snapshots THEN tx[p].snapshots[f] ELSE disk[f]
        /\ tx[p].at = "restore" =>
              \A f \in Files : running[f] = IF f \in tx[p].left THEN tx[p].snapshots[f] ELSE disk[f]

RunsWhatWas == \A p \in Procs : RunsWas(p)

\* Writing changes only files that were kept.
WritesKept ==
    \A p \in Procs :
        /\ tx[p].at = "check" => DOMAIN tx[p].todo = DOMAIN tx[p].snapshots
        /\ tx[p].at = "write" => tx[p].left \subseteq DOMAIN tx[p].snapshots

SInv == Shape /\ LockHeld /\ LeftKept /\ WritesKept /\ RunsWhatWas /\ RunningIsDisk

\* The record of a process without a transaction has the shape of one.
LEMMA NoTxIsTx == IsTx(NoTx) /\ NoTx.at = "none"
<1>1. DOMAIN NoTx = Fields
  BY DEF NoTx, Fields
<1>2. NoTx = [x \in Fields |-> NoTx[x]]
  BY DEF NoTx, Fields
<1>3. NoTx.at = "none"
  BY DEF NoTx
<1> QED
  BY <1>1, <1>2, <1>3 DEF IsTx

\* A transaction that ended, or only names its changes, is one too.
LEMMA EndedIsTx ==
    ASSUME NEW at
    PROVE  IsTx([NoTx EXCEPT !.at = at]) /\ [NoTx EXCEPT !.at = at].at = at
  BY NoTxIsTx DEF IsTx, Fields

\* Initially Caddy runs the files on disk and nobody holds the lock.
LEMMA InitHolds == Init => SInv
<1>1. SUFFICES ASSUME NEW services \in Services, NEW direct \in SUBSET Names,
                      NEW domain \in Domains,
                      SitesInit([f \in Files |->
                          IF f = Caddyfile THEN domain
                          ELSE IF f \in direct THEN Render("direct", domain)
                          ELSE IF services[f] = NoEntry THEN NoBlock
                          ELSE Render(services[f], domain)])
               PROVE  SInv
  BY DEF Init
<1> DEFINE files == [f \in Files |->
                          IF f = Caddyfile THEN domain
                          ELSE IF f \in direct THEN Render("direct", domain)
                          ELSE IF services[f] = NoEntry THEN NoBlock
                          ELSE Render(services[f], domain)]
<1>2. files = [f \in Files |-> files[f]]
  OBVIOUS
<1>3. SitesInit(files)
  BY <1>1
<1> HIDE DEF files
<1>4. /\ \A p \in Procs : tx[p] = NoTx
      /\ tx = [p \in Procs |-> NoTx]
      /\ disk = files /\ running = files /\ lock = Nobody
  BY <1>3 DEF SitesInit
<1>5. \A p \in Procs : tx[p].at = "none"
  BY <1>4, NoTxIsTx
<1>6. Nobody \notin Procs
  BY CtlAssumption
<1>7. Shape
  BY <1>2, <1>4, NoTxIsTx DEF Shape
<1>8. LockHeld
  BY <1>4, <1>5, <1>6 DEF LockHeld, Busy
<1>9. LeftKept /\ WritesKept /\ RunsWhatWas /\ RunningIsDisk
  BY <1>4, <1>5 DEF LeftKept, WritesKept, RunsWhatWas, RunsWas, RunningIsDisk
<1> QED
  BY <1>7, <1>8, <1>9 DEF SInv

-----------------------------------------------------------------------------
(* The steps of a transaction *)

\* A step that leaves the files, what Caddy runs and the lock alone, and takes a process
\* from outside the lock to outside the lock, preserves the invariant.
LEMMA Outside ==
    ASSUME SInv, NEW p \in Procs, NEW t, IsTx(t), t.at \notin Busy, tx[p].at \notin Busy,
           tx' = [tx EXCEPT ![p] = t], UNCHANGED <<disk, running, lock>>,
           "running" \in torn => "running" \in torn'
    PROVE  SInv'
<1>1. /\ tx'[p] = t
      /\ \A q \in Procs \ {p} : tx'[q] = tx[q]
      /\ tx' = [q \in Procs |-> tx'[q]]
  BY DEF SInv, Shape
<1>2. Shape'
  BY <1>1 DEF SInv, Shape
<1>3. LockHeld'
  BY <1>1 DEF SInv, LockHeld
<1>4. LeftKept' /\ WritesKept'
  BY <1>1 DEF SInv, LeftKept, WritesKept, Busy
<1>5. RunsWhatWas'
  <2>1. SUFFICES ASSUME NEW q \in Procs, "running" \notin torn', tx'[q].at \in Busy
                 PROVE  RunsWas(q)'
    BY DEF RunsWhatWas, RunsWas, Busy
  <2>2. q # p /\ tx'[q] = tx[q]
    BY <1>1, <2>1
  <2> QED
    BY <2>1, <2>2 DEF SInv, RunsWhatWas, RunsWas
<1>6. RunningIsDisk'
  BY DEF SInv, RunningIsDisk
<1> QED
  BY <1>2, <1>3, <1>4, <1>5, <1>6 DEF SInv

\* A step of the holder of the lock: the others are outside, and what has to be shown is
\* the invariant of the holder alone.
LEMMA Inside ==
    ASSUME SInv, NEW p \in Procs, NEW t, IsTx(t), t.at \in Busy,
           tx' = [tx EXCEPT ![p] = t], lock = p \/ lock = Nobody, lock' = p,
           disk' = [f \in Files |-> disk'[f]], running' = [f \in Files |-> running'[f]],
           t.at = "restore" => t.left \subseteq DOMAIN t.snapshots,
           t.at = "check" => DOMAIN t.todo = DOMAIN t.snapshots,
           t.at = "write" => t.left \subseteq DOMAIN t.snapshots,
           RunsWas(p)'
    PROVE  SInv'
<1>1. /\ tx'[p] = t
      /\ \A q \in Procs \ {p} : tx'[q] = tx[q]
      /\ tx' = [q \in Procs |-> tx'[q]]
  BY DEF SInv, Shape
<1>2. \A q \in Procs \ {p} : tx'[q].at \notin Busy
  BY <1>1, CtlAssumption DEF SInv, LockHeld
<1>3. Shape'
  BY <1>1 DEF SInv, Shape
<1>4. LockHeld'
  BY <1>1, <1>2 DEF LockHeld
<1>5. LeftKept' /\ WritesKept'
  BY <1>1, <1>2 DEF LeftKept, WritesKept, Busy
<1>6. RunsWhatWas'
  BY <1>2 DEF RunsWhatWas, RunsWas, Busy
<1>7. RunningIsDisk'
  BY CtlAssumption DEF RunningIsDisk
<1> QED
  BY <1>3, <1>4, <1>5, <1>6, <1>7 DEF SInv

\* The holder releases the lock, with Caddy running the files on disk or a note that it
\* may not.
LEMMA Release ==
    ASSUME SInv, NEW p \in Procs, tx[p].at \in Busy, NEW t, IsTx(t), t.at \notin Busy,
           tx' = [tx EXCEPT ![p] = t], lock' = Nobody,
           disk' = [f \in Files |-> disk'[f]], running' = [f \in Files |-> running'[f]],
           "running" \notin torn' => running' = disk'
    PROVE  SInv'
<1>1. /\ tx'[p] = t
      /\ \A q \in Procs \ {p} : tx'[q] = tx[q]
      /\ tx' = [q \in Procs |-> tx'[q]]
  BY DEF SInv, Shape
<1>2. \A q \in Procs : tx'[q].at \notin Busy
  BY <1>1 DEF SInv, LockHeld
<1>3. Shape'
  BY <1>1 DEF SInv, Shape
<1>4. LockHeld'
  BY <1>2, CtlAssumption DEF LockHeld
<1>5. LeftKept' /\ WritesKept' /\ RunsWhatWas'
  BY <1>2 DEF LeftKept, WritesKept, RunsWhatWas, RunsWas, Busy
<1>6. RunningIsDisk'
  BY DEF RunningIsDisk
<1> QED
  BY <1>3, <1>4, <1>5, <1>6 DEF SInv

\* A command hands its changes to the transaction.
LEMMA BeginTxStep ==
    ASSUME SInv, NEW p \in Procs, NEW changes, BeginTx(p, changes)
    PROVE  SInv'
<1> DEFINE t == [NoTx EXCEPT !.at = "lock", !.todo = changes]
<1>1. IsTx(t) /\ t.at = "lock"
  BY NoTxIsTx DEF IsTx, Fields
<1>2. tx' = [tx EXCEPT ![p] = t] /\ UNCHANGED <<disk, running, lock, torn>> /\ tx[p].at = "none"
  BY DEF BeginTx
<1> HIDE DEF t
<1> QED
  BY <1>1, <1>2, Outside DEF Busy

\* The files that have to change are kept as they are: Caddy runs them as kept.
LEMMA TakeLockStep ==
    ASSUME SInv, NEW p \in Procs, TakeLock(p)
    PROVE  SInv'
<1> DEFINE changes == tx[p].todo
           todo == {f \in DOMAIN changes : disk[f] # changes[f]}
           t == [tx[p] EXCEPT !.at = "check",
                              !.todo = [f \in todo |-> changes[f]],
                              !.snapshots = [f \in todo |-> disk[f]]]
           ended == [NoTx EXCEPT !.at = "ok"]
<1>1. /\ tx[p].at = "lock" /\ lock = Nobody
      /\ UNCHANGED <<disk, running, torn>>
  BY DEF TakeLock
<1>2. CASE todo = {}
  <2>1. tx' = [tx EXCEPT ![p] = ended] /\ lock' = lock
    BY <1>1, <1>2 DEF TakeLock, EndTx
  <2>2. IsTx(ended) /\ ended.at = "ok"
    BY EndedIsTx
  <2> HIDE DEF ended
  <2> QED
    BY <1>1, <2>1, <2>2, Outside DEF Busy
<1>3. CASE todo # {}
  <2>1. tx' = [tx EXCEPT ![p] = t] /\ lock' = p
    BY <1>3 DEF TakeLock
  <2>2. /\ IsTx(t) /\ t.at = "check"
        /\ t.todo = [f \in todo |-> changes[f]]
        /\ t.snapshots = [f \in todo |-> disk[f]]
    <3>1. IsTx(tx[p])
      BY DEF SInv, Shape
    <3> HIDE DEF todo
    <3> QED
      BY <3>1 DEF IsTx, Fields
  <2> HIDE DEF t, todo
  <2>3. tx'[p] = t
    BY <2>1 DEF SInv, Shape
  <2>4. "running" \notin torn => running = disk
    BY <1>1 DEF SInv, RunningIsDisk
  <2>5. RunsWas(p)'
    BY <1>1, <2>2, <2>3, <2>4 DEF RunsWas
  <2>6. DOMAIN t.todo = DOMAIN t.snapshots
    BY <2>2
  <2>7. /\ disk' = [f \in Files |-> disk'[f]]
        /\ running' = [f \in Files |-> running'[f]]
    BY <1>1 DEF SInv, Shape
  <2> QED
    BY <1>1, <2>1, <2>2, <2>5, <2>6, <2>7, Inside DEF Busy
<1> QED
  BY <1>2, <1>3

\* All the files to write were kept.
LEMMA ValidateStep ==
    ASSUME SInv, NEW p \in Procs, Validate(p)
    PROVE  SInv'
<1> DEFINE t == [tx[p] EXCEPT !.at = "write", !.left = DOMAIN tx[p].todo]
<1>1. /\ tx[p].at = "check" /\ lock = p
      /\ UNCHANGED <<disk, running, lock, torn>>
  BY DEF Validate, SInv, LockHeld, Busy
<1>2. tx' = [tx EXCEPT ![p] = t]
  BY DEF Validate, SInv, Shape
<1>3. /\ IsTx(t) /\ t.at = "write"
      /\ t.left = DOMAIN tx[p].todo /\ t.snapshots = tx[p].snapshots
  <2>1. IsTx(tx[p])
    BY DEF SInv, Shape
  <2> QED
    BY <2>1 DEF IsTx, Fields
<1> HIDE DEF t
<1>4. tx'[p] = t
  BY <1>2 DEF SInv, Shape
<1>5. DOMAIN tx[p].todo = DOMAIN tx[p].snapshots
  BY <1>1 DEF SInv, WritesKept
<1>6. RunsWas(p)'
  BY <1>1, <1>3, <1>4 DEF SInv, RunsWhatWas, RunsWas
<1>7. /\ disk' = [f \in Files |-> disk'[f]]
      /\ running' = [f \in Files |-> running'[f]]
  BY <1>1 DEF SInv, Shape
<1> QED
  BY <1>1, <1>2, <1>3, <1>5, <1>6, <1>7, Inside DEF Busy

\* Nothing was written yet.
LEMMA RejectStep ==
    ASSUME SInv, NEW p \in Procs, Reject(p)
    PROVE  SInv'
<1>1. PICK result \in {"refused", "raised"} : EndTx(p, result)
  BY DEF Reject
<1> DEFINE t == [NoTx EXCEPT !.at = result]
<1>2. IsTx(t) /\ t.at = result
  BY EndedIsTx
<1>3. tx' = [tx EXCEPT ![p] = t] /\ lock' = Nobody
  BY <1>1 DEF EndTx
<1> HIDE DEF t
<1>4. tx[p].at = "check" /\ UNCHANGED <<disk, running, torn>>
  BY DEF Reject
<1>5. /\ disk' = [f \in Files |-> disk'[f]]
      /\ running' = [f \in Files |-> running'[f]]
  BY <1>4 DEF SInv, Shape
<1>6. "running" \notin torn' => running' = disk'
  BY <1>4 DEF SInv, RunsWhatWas, RunsWas
<1> QED
  BY <1>1, <1>2, <1>3, <1>4, <1>5, <1>6, Release DEF Busy

\* A process that gives up waiting never held the lock.
LEMMA GiveUpLockStep ==
    ASSUME SInv, NEW p \in Procs, GiveUpLock(p)
    PROVE  SInv'
<1> DEFINE t == [NoTx EXCEPT !.at = "raised"]
<1>1. IsTx(t) /\ t.at = "raised"
  BY EndedIsTx
<1>2. tx' = [tx EXCEPT ![p] = t] /\ UNCHANGED <<disk, running, lock, torn>> /\ tx[p].at = "lock"
  BY DEF GiveUpLock
<1> HIDE DEF t
<1> QED
  BY <1>1, <1>2, Outside DEF Busy

\* Only a kept file is written: Caddy runs it as kept, the others as on disk.
LEMMA WriteFileStep ==
    ASSUME SInv, NEW p \in Procs, WriteFile(p)
    PROVE  SInv'
<1>1. PICK f \in tx[p].left :
          /\ disk' = [disk EXCEPT ![f] = tx[p].todo[f]]
          /\ tx' = [tx EXCEPT ![p].left = @ \ {f},
                              ![p].at = IF tx[p].left = {f} THEN "load" ELSE "write"]
  BY DEF WriteFile
<1> DEFINE next == IF tx[p].left = {f} THEN "load" ELSE "write"
           t == [tx[p] EXCEPT !.left = @ \ {f}, !.at = next]
<1>2. /\ tx[p].at = "write" /\ lock = p
      /\ UNCHANGED <<running, lock, torn>>
  BY DEF WriteFile, SInv, LockHeld, Busy
<1>3. tx' = [tx EXCEPT ![p] = t]
  BY <1>1 DEF SInv, Shape
<1>4. next \in {"load", "write"}
  OBVIOUS
<1> HIDE DEF next
<1>5. /\ IsTx(t) /\ t.at = next
      /\ t.left = tx[p].left \ {f} /\ t.snapshots = tx[p].snapshots
  <2>1. IsTx(tx[p])
    BY DEF SInv, Shape
  <2> QED
    BY <2>1 DEF IsTx, Fields
<1> HIDE DEF t
<1>6. tx'[p] = t
  BY <1>3 DEF SInv, Shape
<1>7. tx[p].left \subseteq DOMAIN tx[p].snapshots
  BY <1>2 DEF SInv, WritesKept
<1>8. \A g \in Files \ {f} : disk'[g] = disk[g]
  BY <1>1 DEF SInv, Shape
<1>9. RunsWas(p)'
  BY <1>1, <1>2, <1>4, <1>5, <1>6, <1>7, <1>8 DEF SInv, RunsWhatWas, RunsWas
<1>10. /\ disk' = [g \in Files |-> disk'[g]]
       /\ running' = [g \in Files |-> running'[g]]
  BY <1>1, <1>2 DEF SInv, Shape
<1> QED
  BY <1>2, <1>3, <1>4, <1>5, <1>7, <1>9, <1>10, Inside DEF Busy

\* Turning to the restore, with Caddy running what it ran or with a note that it may not.
LEMMA ToRestoreStep ==
    ASSUME SInv, NEW p \in Procs, tx[p].at \in {"write", "load"}, NEW raise, ToRestore(p, raise),
           UNCHANGED <<disk, lock>>,
           UNCHANGED <<running, torn>> \/ (running' = disk /\ "running" \in torn')
    PROVE  SInv'
<1> DEFINE t == [tx[p] EXCEPT !.at = "restore", !.left = DOMAIN tx[p].snapshots, !.raise = raise]
<1>1. lock = p
  BY DEF SInv, LockHeld, Busy
<1>2. tx' = [tx EXCEPT ![p] = t]
  BY DEF ToRestore, SInv, Shape
<1>3. /\ IsTx(t) /\ t.at = "restore"
      /\ t.left = DOMAIN tx[p].snapshots /\ t.snapshots = tx[p].snapshots
  <2>1. IsTx(tx[p])
    BY DEF SInv, Shape
  <2> QED
    BY <2>1 DEF IsTx, Fields
<1> HIDE DEF t
<1>4. tx'[p] = t
  BY <1>2 DEF SInv, Shape
<1>5. RunsWas(p)'
  BY <1>3, <1>4 DEF SInv, RunsWhatWas, RunsWas
<1>6. /\ disk' = [f \in Files |-> disk'[f]]
      /\ running' = [f \in Files |-> running'[f]]
  BY DEF SInv, Shape
<1> QED
  BY <1>1, <1>2, <1>3, <1>5, <1>6, Inside DEF Busy

\* Caddy loads the files on disk.
LEMMA ReloadStep ==
    ASSUME SInv, NEW p \in Procs, Reload(p)
    PROVE  SInv'
<1> DEFINE t == [NoTx EXCEPT !.at = "ok"]
<1>1. IsTx(t) /\ t.at = "ok"
  BY EndedIsTx
<1>2. /\ tx' = [tx EXCEPT ![p] = t] /\ lock' = Nobody
      /\ tx[p].at = "load" /\ running' = disk /\ disk' = disk
  BY DEF Reload, EndTx
<1> HIDE DEF t
<1>3. /\ disk' = [f \in Files |-> disk'[f]]
      /\ running' = [f \in Files |-> running'[f]]
  BY <1>2 DEF SInv, Shape
<1> QED
  BY <1>1, <1>2, <1>3, Release DEF Busy

\* A file put back is as Caddy runs it, and the last one releases the lock.
LEMMA RestoreFileStep ==
    ASSUME SInv, NEW p \in Procs, RestoreFile(p)
    PROVE  SInv'
<1>1. PICK f \in tx[p].left :
          /\ \/ disk' = [disk EXCEPT ![f] = tx[p].snapshots[f]] /\ UNCHANGED torn
             \/ UNCHANGED disk /\ torn' = {"running", "files"}
          /\ IF tx[p].left = {f}
             THEN EndTx(p, IF tx[p].raise THEN "raised" ELSE "refused")
             ELSE tx' = [tx EXCEPT ![p].left = @ \ {f}] /\ UNCHANGED lock
  BY DEF RestoreFile
<1>2. tx[p].at = "restore" /\ lock = p /\ running' = running
  BY DEF RestoreFile, SInv, LockHeld, Busy
<1>3. /\ disk' = [g \in Files |-> disk'[g]]
      /\ running' = [g \in Files |-> running'[g]]
  BY <1>1, <1>2 DEF SInv, Shape
<1>4. "running" \notin torn' =>
          \A g \in Files :
              running[g] = IF g \in tx[p].left \ {f} THEN tx[p].snapshots[g] ELSE disk'[g]
  BY <1>1, <1>2 DEF SInv, Shape, RunsWhatWas, RunsWas
<1>5. CASE tx[p].left = {f}
  <2> DEFINE result == IF tx[p].raise THEN "raised" ELSE "refused"
             t == [NoTx EXCEPT !.at = result]
  <2>1. tx' = [tx EXCEPT ![p] = t] /\ lock' = Nobody
    BY <1>1, <1>5 DEF EndTx
  <2>2. result \in {"raised", "refused"}
    OBVIOUS
  <2> HIDE DEF result
  <2>3. IsTx(t) /\ t.at = result
    BY EndedIsTx
  <2> HIDE DEF t
  <2>4. "running" \notin torn' => running' = disk'
    BY <1>2, <1>3, <1>4, <1>5
  <2> QED
    BY <1>2, <1>3, <2>1, <2>2, <2>3, <2>4, Release DEF Busy
<1>6. CASE tx[p].left # {f}
  <2> DEFINE t == [tx[p] EXCEPT !.left = @ \ {f}]
  <2>1. tx' = [tx EXCEPT ![p] = t] /\ lock' = lock
    BY <1>1, <1>6 DEF SInv, Shape
  <2>2. /\ IsTx(t) /\ t.at = tx[p].at
        /\ t.left = tx[p].left \ {f} /\ t.snapshots = tx[p].snapshots
    <3>1. IsTx(tx[p])
      BY DEF SInv, Shape
    <3> QED
      BY <3>1 DEF IsTx, Fields
  <2> HIDE DEF t
  <2>3. tx'[p] = t
    BY <2>1 DEF SInv, Shape
  <2>4. RunsWas(p)'
    BY <1>2, <1>4, <2>2, <2>3 DEF RunsWas
  <2>5. t.left \subseteq DOMAIN t.snapshots
    BY <1>2, <2>2 DEF SInv, LeftKept
  <2> QED
    BY <1>2, <1>3, <2>1, <2>2, <2>4, <2>5, Inside DEF Busy
<1> QED
  BY <1>5, <1>6

\* Every step of a transaction preserves the invariant.
LEMMA TxStep ==
    ASSUME SInv, NEW p \in Procs, TxSteps(p)
    PROVE  SInv'
<1>1. CASE WriteFails(p)
  BY <1>1, ToRestoreStep DEF WriteFails
<1>2. CASE ReloadFails(p)
  <2>1. PICK raise \in BOOLEAN : ToRestore(p, raise)
    BY <1>2 DEF ReloadFails
  <2>2. UNCHANGED <<running, torn>> \/ (running' = disk /\ "running" \in torn')
    BY <1>2 DEF ReloadFails
  <2>3. tx[p].at = "load" /\ UNCHANGED <<disk, lock>>
    BY <1>2 DEF ReloadFails
  <2> QED
    BY <2>1, <2>2, <2>3, ToRestoreStep
<1> QED
  BY <1>1, <1>2, TakeLockStep, GiveUpLockStep, ValidateStep, RejectStep, WriteFileStep,
     ReloadStep, RestoreFileStep DEF TxSteps

\* A process that dies under the lock has written nothing, or leaves a note.
LEMMA DropTxStep ==
    ASSUME SInv, NEW p \in Procs, DropTx(p)
    PROVE  SInv'
<1>1. /\ lock' = IF lock = p THEN Nobody ELSE lock
      /\ tx' = [tx EXCEPT ![p] = NoTx]
      /\ disk' = disk
      /\ "running" \in torn => "running" \in torn'
      /\ tx[p].at # "load" => running' = running
      /\ tx[p].at \in {"write", "load", "restore"} => "running" \in torn'
      /\ running' = running \/ running' = disk
  BY DEF DropTx
<1>2. CASE tx[p].at \notin Busy
  <2>1. UNCHANGED <<disk, running, lock>>
    BY <1>1, <1>2 DEF SInv, LockHeld, Busy
  <2> QED
    BY <1>1, <1>2, <2>1, NoTxIsTx, Outside DEF Busy
<1>3. CASE tx[p].at \in Busy
  <2>1. lock' = Nobody
    BY <1>1, <1>3 DEF SInv, LockHeld
  <2>2. /\ disk' = [f \in Files |-> disk'[f]]
        /\ running' = [f \in Files |-> running'[f]]
    BY <1>1 DEF SInv, Shape
  <2>3. "running" \notin torn' => running' = disk'
    BY <1>1, <1>3 DEF SInv, RunsWhatWas, RunsWas, Busy
  <2> QED
    BY <1>1, <1>3, <2>1, <2>2, <2>3, NoTxIsTx, Release DEF Busy
<1> QED
  BY <1>2, <1>3

\* A transaction that ended has released the lock already.
LEMMA CloseTxStep ==
    ASSUME SInv, NEW p \in Procs, tx[p].at \in {"ok", "refused", "raised"}, CloseTx(p)
    PROVE  SInv'
<1>1. /\ tx' = [tx EXCEPT ![p] = NoTx]
      /\ UNCHANGED <<disk, running, lock>>
      /\ "running" \in torn => "running" \in torn'
  BY DEF CloseTx
<1> QED
  BY <1>1, NoTxIsTx, Outside DEF Busy

\* A step that leaves the transactions and the files alone preserves the invariant.
LEMMA Unchanged ==
    ASSUME SInv, UNCHANGED <<disk, running, lock, tx>>,
           "running" \in torn => "running" \in torn'
    PROVE  SInv'
<1>1. Shape' /\ LockHeld' /\ LeftKept' /\ WritesKept'
  BY DEF SInv, Shape, LockHeld, LeftKept, WritesKept
<1>2. RunsWhatWas'
  BY DEF SInv, RunsWhatWas, RunsWas
<1>3. RunningIsDisk'
  BY DEF SInv, RunningIsDisk
<1> QED
  BY <1>1, <1>2, <1>3 DEF SInv

-----------------------------------------------------------------------------
(* The steps of the commands *)

\* Every step of a command leaves SiteFiles alone, begins or closes a transaction, or is
\* a step of one.
LEMMA StepHolds ==
    ASSUME SInv, NEW p \in Procs, Step(p)
    PROVE  SInv'
<1>1. CASE Look(p)
  BY <1>1, BeginTxStep, Unchanged DEF Look, LookAdd, LookDirect, LookRm, LookSync, siteVars
<1>2. CASE Put(p)
  BY <1>2, BeginTxStep, Unchanged DEF Put, siteVars
<1>3. CASE Applied(p)
  BY <1>3, CloseTxStep DEF Applied
<1>4. CASE Edited(p)
  <2>1. UNCHANGED <<disk, running, lock, tx>> /\ ("running" \in torn => "running" \in torn')
    BY <1>4 DEF Edited
  <2> QED
    BY <2>1, Unchanged
<1>5. CASE EditSteps(p) /\ UNCHANGED <<siteVars, cmdVars>>
  BY <1>5, Unchanged DEF siteVars
<1>6. CASE TxSteps(p)
  BY <1>6, TxStep
<1> QED
  BY <1>1, <1>2, <1>3, <1>4, <1>5, <1>6 DEF Step

\* Every step of the system preserves the invariant.
LEMMA NextHolds == SInv /\ [Next]_vars => SInv'
<1>1. ASSUME SInv, NEW p \in Procs, NEW command, Begin(p, command)
      PROVE  SInv'
  BY <1>1, Unchanged DEF Begin, siteVars
<1>2. ASSUME SInv, NEW p \in Procs, Kill(p)
      PROVE  SInv'
  BY <1>2, DropTxStep DEF Kill
<1>3. ASSUME SInv, UNCHANGED vars
      PROVE  SInv'
  BY <1>3, Unchanged DEF vars
<1>4. ASSUME SInv, Next
      PROVE  SInv'
  BY <1>1, <1>2, <1>3, <1>4, StepHolds DEF Next, Add, AddDirect, Rm, CaddySync, Rest
<1> QED
  BY <1>3, <1>4

\* apply_site_changes, for any number of commands, services and domains: once the lock is
\* free, Caddy runs the files on disk, unless a crash or a failed restore is on record.
THEOREM RunningIsDiskHolds == Spec => []RunningIsDisk
<1>1. Init => SInv
  BY InitHolds
<1>2. SInv /\ [Next]_vars => SInv'
  BY NextHolds
<1>3. SInv => RunningIsDisk
  BY DEF SInv
<1> QED
  BY <1>1, <1>2, <1>3, PTL DEF Spec
-----------------------------------------------------------------------------
(* Types *)

\* What each file may hold.
Contents(f) == IF f = Caddyfile THEN Domains ELSE Block \cup {NoBlock}

\* Files and contents that may be written to them.
Settings(ch) ==
    /\ ch \in Changes
    /\ \A f \in DOMAIN ch : ch[f] \in Contents(f)

\* A transaction that names files which it may write and put back.
TxTyped(t) ==
    /\ t \in Transaction
    /\ Settings(t.todo) /\ Settings(t.snapshots)
    /\ t.at = "write" => t.left \subseteq DOMAIN t.todo
    /\ t.at = "restore" => t.left \subseteq DOMAIN t.snapshots
    /\ t.at \in {"check", "write", "load"} => DOMAIN t.todo = DOMAIN t.snapshots

\* A command that has the name and the entry that its kind needs.
CommandTyped(c) ==
    /\ c \in Command
    /\ c.op \in {"add", "direct", "rm"} => c.name \in Names
    /\ c.op = "add" => c.entry \in Entries
    /\ Settings(c.changes)

SiteTypes ==
    /\ disk = [f \in Files |-> disk[f]]
    /\ \A f \in Files : disk[f] \in Contents(f)
    /\ running \in Disk
    /\ tx = [p \in Procs |-> tx[p]]
    /\ \A p \in Procs : TxTyped(tx[p])
    /\ torn \subseteq {"running", "files"}

CommandTypes ==
    /\ status \in {"managed", "absent", "refused"}
    /\ cmd = [p \in Procs |-> cmd[p]]
    /\ \A p \in Procs : CommandTyped(cmd[p])
    /\ runs \in 0 .. MaxRuns
    /\ overlapped \in BOOLEAN

\* A process edits and has a transaction where its command says so; commands that only
\* change Caddy's files run where there are some.
InPlace ==
    \A p \in Procs :
        /\ tx[p].at # "none" => cmd[p].at = "apply" /\ status = "managed"
        /\ edit[p].at # "none" => cmd[p].at \in {"put", "undo", "drop"}
        /\ cmd[p].op \in {"direct", "sync"} => status = "managed"

TInv == ConfigTypeOK /\ SiteTypes /\ CommandTypes /\ InPlace

\* A function from some files to contents that they may hold can be written.
LEMMA SettingsOf ==
    ASSUME NEW ch, ch = [f \in DOMAIN ch |-> ch[f]], DOMAIN ch \subseteq Files,
           \A f \in DOMAIN ch : ch[f] \in Contents(f)
    PROVE  Settings(ch)
<1>1. ch \in [DOMAIN ch -> Block \cup {NoBlock} \cup Domains]
  BY DEF Contents
<1>2. ch \in Changes
  BY <1>1 DEF Changes
<1> QED
  BY <1>2 DEF Settings

\* Settings are of files of the system.
LEMMA SettingsFiles ==
    ASSUME NEW ch, Settings(ch)
    PROVE  /\ DOMAIN ch \subseteq Files
           /\ ch = [f \in DOMAIN ch |-> ch[f]]
           /\ \A f \in DOMAIN ch : ch[f] \in Contents(f)
  BY DEF Settings, Changes

\* Nothing to write is settings too.
LEMMA NoChangeSettings == Settings(NoChange) /\ DOMAIN NoChange = {}
<1>1. NoChange = [f \in DOMAIN NoChange |-> NoChange[f]] /\ DOMAIN NoChange = {}
  BY DEF NoChange
<1> QED
  BY <1>1, SettingsOf

\* A process without a transaction, or at the end of one.
LEMMA EndedTyped ==
    ASSUME NEW at \in {"none", "lock", "ok", "refused", "raised"}
    PROVE  TxTyped([NoTx EXCEPT !.at = at]) /\ TxTyped(NoTx)
<1>1. NoChange \in Changes
  BY NoChangeSettings DEF Settings
<1>2. NoTx \in Transaction /\ [NoTx EXCEPT !.at = at] \in Transaction
  BY <1>1 DEF NoTx, Transaction
<1> QED
  BY <1>2, NoChangeSettings DEF TxTyped, NoTx

\* A process without a command.
LEMMA NoCommandTyped == CommandTyped(NoCommand) /\ NoCommand.at = "idle" /\ NoCommand.op = "none"
<1>1. NoChange \in Changes
  BY NoChangeSettings DEF Settings
<1>2. NoServices \in Services
  BY DEF NoServices, Services
<1>3. NoCommand \in Command
  BY <1>1, <1>2 DEF NoCommand, Command
<1> QED
  BY <1>3, NoChangeSettings DEF CommandTyped, NoCommand

\* A block as the generator renders it.
LEMMA RenderTyped ==
    ASSUME NEW kind \in Kinds, NEW domain \in Domains
    PROVE  Render(kind, domain) \in Block
  BY SiteFilesAssumption DEF Render, Block

\* The file of a service is not the Caddyfile.
LEMMA NamesAreFiles ==
    /\ Caddyfile \in Files
    /\ \A n \in Names : n \in Files /\ n # Caddyfile /\ Contents(n) = Block \cup {NoBlock}
    /\ Contents(Caddyfile) = Domains
    /\ \A f \in Files : f = Caddyfile \/ f \in Names
  BY SiteFilesAssumption DEF Files, Contents

\* The services that a host starts with are typed, and so are its files.
LEMMA InitTyped == Init => TInv
<1>1. SUFFICES ASSUME NEW services \in Services, NEW direct \in SUBSET Names,
                      NEW domain \in Domains,
                      ConfigInit(services),
                      SitesInit([f \in Files |->
                          IF f = Caddyfile THEN domain
                          ELSE IF f \in direct THEN Render("direct", domain)
                          ELSE IF services[f] = NoEntry THEN NoBlock
                          ELSE Render(services[f], domain)]),
                      status \in {"managed", "absent", "refused"},
                      cmd = [p \in Procs |-> NoCommand],
                      runs = 0, overlapped = FALSE
               PROVE  TInv
  BY DEF Init
<1> DEFINE files == [f \in Files |->
                          IF f = Caddyfile THEN domain
                          ELSE IF f \in direct THEN Render("direct", domain)
                          ELSE IF services[f] = NoEntry THEN NoBlock
                          ELSE Render(services[f], domain)]
<1>2. \A f \in Files : files[f] \in Contents(f)
  <2>1. TAKE f \in Files
  <2>2. f # Caddyfile => f \in Names
    BY DEF Files
  <2>3. f \in Names => services[f] \in Entries \cup {NoEntry}
    BY DEF Services
  <2>4. Render("direct", domain) \in Block
    BY RenderTyped DEF Kinds
  <2>5. f \in Names /\ services[f] # NoEntry => Render(services[f], domain) \in Block
    BY <2>3, RenderTyped, SitesAssumption DEF Kinds
  <2> QED
    BY <2>2, <2>4, <2>5 DEF Contents
<1>3. files = [f \in Files |-> files[f]]
  OBVIOUS
<1>4. SitesInit(files)
  BY <1>1
<1> HIDE DEF files
<1>5. ConfigTypeOK
  <2>1. NoServices \in Services /\ NoEdit \in EditType
    BY DEF NoServices, Services, NoEdit, EditType
  <2> QED
    BY <1>1, <2>1 DEF ConfigInit, ConfigTypeOK, File
<1>6. files \in Disk
  BY <1>2, <1>3 DEF Disk, Contents
<1>7. SiteTypes
  BY <1>2, <1>3, <1>4, <1>6, EndedTyped DEF SitesInit, SiteTypes
<1>8. CommandTypes
  <2>1. /\ status \in {"managed", "absent", "refused"}
        /\ cmd = [p \in Procs |-> NoCommand]
        /\ runs = 0 /\ overlapped = FALSE
    BY <1>1
  <2>2. runs \in 0 .. MaxRuns
    BY <2>1, SitesAssumption
  <2> QED
    BY <2>1, <2>2, NoCommandTyped DEF CommandTypes
<1>9. InPlace
  <2>1. \A p \in Procs : tx[p] = NoTx /\ edit[p] = NoEdit
    BY <1>1, <1>4 DEF ConfigInit, SitesInit
  <2>2. NoTx.at = "none" /\ NoEdit.at = "none"
    BY DEF NoTx, NoEdit
  <2> QED
    BY <1>1, <2>1, <2>2, NoCommandTyped DEF InPlace
<1> QED
  BY <1>5, <1>7, <1>8, <1>9 DEF TInv


\* The start of an edit.
LEMMA BeginEditTyped ==
    ASSUME ConfigTypeOK, NEW p \in Procs, NEW name \in Names, NEW entry \in Entries \cup {NoEntry},
           BeginEdit(p, name, entry)
    PROVE  ConfigTypeOK' /\ \A q \in Procs \ {p} : edit'[q] = edit[q]
<1> DEFINE e == [edit[p] EXCEPT !.at = "read", !.name = name, !.entry = entry]
<1>1. e \in EditType
  BY DEF ConfigTypeOK, EditType
<1>2. edit' = [edit EXCEPT ![p] = e]
  BY DEF BeginEdit, ConfigTypeOK
<1> HIDE DEF e
<1> QED
  BY <1>1, <1>2 DEF BeginEdit, ConfigTypeOK

\* The end of one.
LEMMA NoEditTyped ==
    /\ NoEdit \in EditType /\ NoEdit.at = "none"
    /\ \A at \in {"done", "raised"} : Ended(at) \in EditType /\ Ended(at).at = at
<1>1. NoServices \in Services
  BY DEF NoServices, Services
<1> QED
  BY <1>1 DEF NoEdit, EditType, Ended

\* A file that is written, or left as it is, is still a file.
LEMMA FileTyped ==
    ASSUME ConfigTypeOK, NEW p \in Procs, NEW file \in File \cup {NoFile}
    PROVE  /\ Filled(file, p) \in File \cup {NoFile}
           /\ Abandoned(file, p) \in File \cup {NoFile}
           /\ file \in File => Filled(file, p) \in File /\ Abandoned(file, p) \in File
<1>1. edit[p].data \in Services
  BY DEF ConfigTypeOK, EditType
<1>2. [content |-> edit[p].data, by |-> Nobody] \in File
  BY <1>1 DEF File
<1>3. file \in File => [file EXCEPT !.by = Nobody] \in File
  BY DEF File
<1> QED
  BY <1>2, <1>3 DEF Filled, Abandoned

\* Every step of an edit keeps the types, and leaves the other edits alone.
LEMMA EditTyped ==
    ASSUME ConfigTypeOK, NEW p \in Procs, EditSteps(p)
    PROVE  ConfigTypeOK' /\ edit[p].at # "none" /\ \A q \in Procs \ {p} : edit'[q] = edit[q]
<1>1. edit[p] \in EditType /\ config \in File /\ tmp \in File \cup {NoFile}
  BY DEF ConfigTypeOK
<1>2. ASSUME NEW e \in EditType, edit' = [edit EXCEPT ![p] = e],
             config' \in File, tmp' \in File \cup {NoFile}
      PROVE  ConfigTypeOK' /\ \A q \in Procs \ {p} : edit'[q] = edit[q]
  BY <1>2 DEF ConfigTypeOK
<1>3. CASE ReadConfig(p)
  <2> DEFINE data == [config.content EXCEPT ![edit[p].name] = edit[p].entry]
             e == [edit[p] EXCEPT !.at = "unlink", !.data = data]
  <2>1. \/ edit' = [edit EXCEPT ![p] = Ended("raised")]
        \/ edit' = [edit EXCEPT ![p] = Ended("done")]
        \/ config.content # Partial /\ edit' = [edit EXCEPT ![p] = e]
    BY <1>3, <1>1 DEF ReadConfig, ConfigTypeOK
  <2>2. config.content # Partial => data \in Services
    BY <1>1 DEF File, Services, EditType
  <2> HIDE DEF data
  <2>3. config.content # Partial => e \in EditType
    BY <1>1, <2>2 DEF EditType
  <2> HIDE DEF e
  <2>4. config' \in File /\ tmp' \in File \cup {NoFile} /\ edit[p].at = "read"
    BY <1>1, <1>3 DEF ReadConfig
  <2> QED
    BY <1>2, <2>1, <2>3, <2>4, NoEditTyped
<1>4. CASE UnlinkTmp(p)
  <2> DEFINE e == [edit[p] EXCEPT !.at = "create"]
  <2>1. e \in EditType
    BY <1>1 DEF EditType
  <2>2. edit' = [edit EXCEPT ![p] = e]
    BY <1>4 DEF UnlinkTmp
  <2> HIDE DEF e
  <2> QED
    BY <1>1, <1>2, <1>4, <2>1, <2>2 DEF UnlinkTmp
<1>5. CASE CreateTmp(p)
  <2> DEFINE e == [edit[p] EXCEPT !.at = "fill"]
  <2>1. e \in EditType
    BY <1>1 DEF EditType
  <2>2. \/ edit' = [edit EXCEPT ![p] = e]
        \/ edit' = [edit EXCEPT ![p] = Ended("raised")]
    BY <1>5 DEF CreateTmp
  <2>3. [content |-> Partial, by |-> p] \in File
    BY DEF File
  <2>4. config' \in File /\ tmp' \in File \cup {NoFile} /\ edit[p].at = "create"
    BY <1>1, <1>5, <2>3 DEF CreateTmp
  <2> HIDE DEF e
  <2> QED
    BY <1>2, <2>1, <2>2, <2>4, NoEditTyped
<1>6. CASE FillTmp(p)
  <2> DEFINE e == [edit[p] EXCEPT !.at = "replace"]
  <2>1. e \in EditType
    BY <1>1 DEF EditType
  <2>2. edit' = [edit EXCEPT ![p] = e]
    BY <1>6 DEF FillTmp
  <2> HIDE DEF e
  <2> QED
    BY <1>1, <1>2, <1>6, <2>1, <2>2, FileTyped DEF FillTmp
<1>7. CASE FillFails(p)
  BY <1>1, <1>2, <1>7, NoEditTyped, FileTyped DEF FillFails
<1>8. CASE ReplaceConfig(p)
  BY <1>1, <1>2, <1>8, NoEditTyped DEF ReplaceConfig
<1> QED
  BY <1>3, <1>4, <1>5, <1>6, <1>7, <1>8 DEF EditSteps

\* A process that dies leaves its files behind.
LEMMA DropEditTyped ==
    ASSUME ConfigTypeOK, NEW p \in Procs, DropEdit(p)
    PROVE  ConfigTypeOK' /\ edit' = [edit EXCEPT ![p] = NoEdit]
  BY NoEditTyped, FileTyped DEF DropEdit, ConfigTypeOK

\* The files on disk are files.
LEMMA DiskTyped == SiteTypes => disk \in Disk
  BY DEF SiteTypes, Disk, Contents

\* A step that gives one process a typed transaction, and files contents they may hold.
LEMMA SiteTyped ==
    ASSUME SiteTypes, NEW p \in Procs, NEW t, TxTyped(t), tx' = [tx EXCEPT ![p] = t],
           disk' = [f \in Files |-> disk'[f]], \A f \in Files : disk'[f] \in Contents(f),
           running' \in Disk, torn' \subseteq {"running", "files"}
    PROVE  /\ SiteTypes'
           /\ tx'[p] = t
           /\ \A q \in Procs \ {p} : tx'[q] = tx[q]
<1>1. /\ tx'[p] = t
      /\ \A q \in Procs \ {p} : tx'[q] = tx[q]
      /\ tx' = [q \in Procs |-> tx'[q]]
  BY DEF SiteTypes
<1> QED
  BY <1>1 DEF SiteTypes

\* A command hands over changes that can be written.
LEMMA BeginTxTyped ==
    ASSUME SiteTypes, NEW p \in Procs, NEW changes, Settings(changes), BeginTx(p, changes)
    PROVE  SiteTypes' /\ \A q \in Procs \ {p} : tx'[q] = tx[q]
<1> DEFINE t == [NoTx EXCEPT !.at = "lock", !.todo = changes]
<1>1. TxTyped(t)
  <2>1. NoChange \in Changes /\ changes \in Changes
    BY NoChangeSettings DEF Settings
  <2>2. t \in Transaction /\ t.at = "lock" /\ t.todo = changes /\ t.snapshots = NoChange
    BY <2>1 DEF NoTx, Transaction
  <2> QED
    BY <2>2, NoChangeSettings DEF TxTyped
<1>2. tx' = [tx EXCEPT ![p] = t] /\ UNCHANGED <<disk, running, lock, torn>>
  BY DEF BeginTx
<1> HIDE DEF t
<1> QED
  BY <1>1, <1>2, SiteTyped DEF SiteTypes

\* The part of the changes that differs, and what is kept of those files, can be written.
LEMMA TakeLockTyped ==
    ASSUME SiteTypes, NEW p \in Procs, TakeLock(p)
    PROVE  SiteTypes' /\ \A q \in Procs \ {p} : tx'[q] = tx[q]
<1> DEFINE changes == tx[p].todo
           todo == {f \in DOMAIN changes : disk[f] # changes[f]}
           new == [f \in todo |-> changes[f]]
           old == [f \in todo |-> disk[f]]
           t == [tx[p] EXCEPT !.at = "check", !.todo = new, !.snapshots = old]
           ended == [NoTx EXCEPT !.at = "ok"]
<1>1. TxTyped(tx[p])
  BY DEF SiteTypes
<1>2. UNCHANGED <<disk, running, torn>>
  BY DEF TakeLock
<1>3. CASE todo = {}
  <2>1. tx' = [tx EXCEPT ![p] = ended]
    BY <1>3 DEF TakeLock, EndTx
  <2>2. TxTyped(ended)
    BY EndedTyped
  <2> HIDE DEF ended
  <2> QED
    BY <1>2, <2>1, <2>2, SiteTyped DEF SiteTypes
<1>4. CASE todo # {}
  <2>1. tx' = [tx EXCEPT ![p] = t]
    BY <1>4 DEF TakeLock
  <2>2. todo \subseteq Files /\ \A f \in todo : changes[f] \in Contents(f)
    BY <1>1, SettingsFiles DEF TxTyped
  <2> HIDE DEF changes, todo
  <2>3. Settings(new)
    BY <2>2, SettingsOf
  <2>4. Settings(old)
    BY <2>2, SettingsOf DEF SiteTypes
  <2>5. DOMAIN new = DOMAIN old
    OBVIOUS
  <2> HIDE DEF new, old
  <2>6. new \in Changes /\ old \in Changes
    BY <2>3, <2>4 DEF Settings
  <2>7. t \in Transaction /\ t.at = "check" /\ t.todo = new /\ t.snapshots = old
    BY <1>1, <2>6 DEF TxTyped, Transaction
  <2> HIDE DEF t
  <2>8. TxTyped(t)
    BY <2>3, <2>4, <2>5, <2>7 DEF TxTyped
  <2> QED
    BY <1>2, <2>1, <2>8, SiteTyped DEF SiteTypes
<1> QED
  BY <1>3, <1>4

\* A step of a transaction that changes its place and what is left of it.
LEMMA MoveTyped ==
    ASSUME NEW t, TxTyped(t), NEW left, NEW raise \in BOOLEAN,
           NEW at \in {"write", "load", "restore"},
           at = "write" => left \subseteq DOMAIN t.todo,
           at = "restore" => left \subseteq DOMAIN t.snapshots,
           at # "restore" => t.at \in {"check", "write"} /\ left \subseteq DOMAIN t.todo
    PROVE  TxTyped([t EXCEPT !.at = at, !.left = left, !.raise = raise])
<1> DEFINE u == [t EXCEPT !.at = at, !.left = left, !.raise = raise]
<1>1. left \subseteq Files
  BY SettingsFiles DEF TxTyped
<1>2. /\ u \in Transaction
      /\ u.at = at /\ u.left = left /\ u.todo = t.todo /\ u.snapshots = t.snapshots
  BY <1>1 DEF TxTyped, Transaction
<1> HIDE DEF u
<1>3. TxTyped(u)
  BY <1>2 DEF TxTyped
<1> QED
  BY <1>3 DEF u

\* Every step of a transaction keeps the types, and leaves the other transactions alone.
LEMMA TxStepTyped ==
    ASSUME SiteTypes, NEW p \in Procs, TxSteps(p)
    PROVE  SiteTypes' /\ tx[p].at # "none" /\ \A q \in Procs \ {p} : tx'[q] = tx[q]
<1>1. TxTyped(tx[p]) /\ tx[p] \in Transaction
  BY DEF SiteTypes, TxTyped
<1>2. tx[p].at # "none"
  BY DEF TxSteps, TakeLock, GiveUpLock, Validate, Reject, WriteFile, WriteFails, Reload,
         ReloadFails, RestoreFile
<1>3. CASE GiveUpLock(p)
  <2> DEFINE t == [NoTx EXCEPT !.at = "raised"]
  <2>1. TxTyped(t)
    BY EndedTyped
  <2>2. tx' = [tx EXCEPT ![p] = t] /\ UNCHANGED <<disk, running, torn>>
    BY <1>3 DEF GiveUpLock
  <2> HIDE DEF t
  <2> QED
    BY <1>2, <2>1, <2>2, SiteTyped DEF SiteTypes
<1>4. CASE Validate(p)
  <2> DEFINE t == [tx[p] EXCEPT !.at = "write", !.left = DOMAIN tx[p].todo, !.raise = tx[p].raise]
  <2>1. tx[p].at = "check" /\ tx[p].raise \in BOOLEAN
    BY <1>1, <1>4 DEF Validate, Transaction
  <2>2. TxTyped(t)
    BY <1>1, <2>1, MoveTyped
  <2>3. tx' = [tx EXCEPT ![p] = t] /\ UNCHANGED <<disk, running, torn>>
    BY <1>1, <1>4 DEF Validate, SiteTypes, Transaction
  <2> HIDE DEF t
  <2> QED
    BY <1>2, <2>2, <2>3, SiteTyped DEF SiteTypes
<1>5. CASE Reject(p)
  <2>1. PICK result \in {"refused", "raised"} : EndTx(p, result)
    BY <1>5 DEF Reject
  <2> DEFINE t == [NoTx EXCEPT !.at = result]
  <2>2. TxTyped(t)
    BY EndedTyped
  <2>3. tx' = [tx EXCEPT ![p] = t] /\ UNCHANGED <<disk, running, torn>>
    BY <1>5, <2>1 DEF Reject, EndTx
  <2> HIDE DEF t
  <2> QED
    BY <1>2, <2>2, <2>3, SiteTyped DEF SiteTypes
<1>6. CASE WriteFile(p)
  <2>1. PICK f \in tx[p].left :
            /\ disk' = [disk EXCEPT ![f] = tx[p].todo[f]]
            /\ tx' = [tx EXCEPT ![p].left = @ \ {f},
                                ![p].at = IF tx[p].left = {f} THEN "load" ELSE "write"]
    BY <1>6 DEF WriteFile
  <2> DEFINE next == IF tx[p].left = {f} THEN "load" ELSE "write"
             left == tx[p].left \ {f}
             t == [tx[p] EXCEPT !.at = next, !.left = left, !.raise = tx[p].raise]
  <2>2. /\ tx[p].at = "write" /\ tx[p].raise \in BOOLEAN
        /\ tx[p].left \subseteq DOMAIN tx[p].todo
    BY <1>1, <1>6 DEF WriteFile, Transaction, TxTyped
  <2>3. next \in {"load", "write"} /\ left \subseteq tx[p].left
    OBVIOUS
  <2>4. tx' = [tx EXCEPT ![p] = t]
    BY <1>1, <2>1 DEF SiteTypes, Transaction
  <2> HIDE DEF next, left
  <2>5. TxTyped(t)
    BY <1>1, <2>2, <2>3, MoveTyped
  <2> HIDE DEF t
  <2>6. tx[p].todo[f] \in Contents(f) /\ f \in Files
    BY <1>1, <2>2, SettingsFiles DEF TxTyped
  <2>7. disk' = [g \in Files |-> disk'[g]] /\ \A g \in Files : disk'[g] \in Contents(g)
    BY <2>1, <2>6 DEF SiteTypes
  <2>8. UNCHANGED <<running, torn>>
    BY <1>6 DEF WriteFile
  <2> QED
    BY <1>2, <2>4, <2>5, <2>7, <2>8, SiteTyped DEF SiteTypes
<1>7. ASSUME NEW raise \in BOOLEAN, ToRestore(p, raise), disk' = disk, running' \in Disk,
             torn' \subseteq {"running", "files"}
      PROVE  SiteTypes' /\ \A q \in Procs \ {p} : tx'[q] = tx[q]
  <2> DEFINE t == [tx[p] EXCEPT !.at = "restore", !.left = DOMAIN tx[p].snapshots, !.raise = raise]
  <2>1. TxTyped(t)
    BY <1>1, MoveTyped
  <2>2. tx' = [tx EXCEPT ![p] = t]
    BY <1>7 DEF ToRestore, SiteTypes
  <2> HIDE DEF t
  <2> QED
    BY <1>7, <2>1, <2>2, SiteTyped DEF SiteTypes
<1>8. CASE WriteFails(p)
  BY <1>2, <1>7, <1>8 DEF WriteFails, SiteTypes
<1>9. CASE Reload(p)
  <2> DEFINE t == [NoTx EXCEPT !.at = "ok"]
  <2>1. TxTyped(t)
    BY EndedTyped
  <2>2. /\ tx' = [tx EXCEPT ![p] = t]
        /\ running' = disk /\ disk' = disk /\ torn' \subseteq torn
    BY <1>9 DEF Reload, EndTx
  <2> HIDE DEF t
  <2> QED
    BY <1>2, <2>1, <2>2, SiteTyped, DiskTyped DEF SiteTypes
<1>10. CASE ReloadFails(p)
  <2>1. PICK raise \in BOOLEAN : ToRestore(p, raise)
    BY <1>10 DEF ReloadFails
  <2>2. disk' = disk /\ running' \in Disk /\ torn' \subseteq {"running", "files"}
    BY <1>10, DiskTyped DEF ReloadFails, SiteTypes
  <2> QED
    BY <1>2, <1>7, <2>1, <2>2
<1>11. CASE RestoreFile(p)
  <2>1. PICK f \in tx[p].left :
            /\ \/ disk' = [disk EXCEPT ![f] = tx[p].snapshots[f]] /\ UNCHANGED torn
               \/ UNCHANGED disk /\ torn' = {"running", "files"}
            /\ IF tx[p].left = {f}
               THEN EndTx(p, IF tx[p].raise THEN "raised" ELSE "refused")
               ELSE tx' = [tx EXCEPT ![p].left = @ \ {f}] /\ UNCHANGED lock
    BY <1>11 DEF RestoreFile
  <2> DEFINE result == IF tx[p].raise THEN "raised" ELSE "refused"
             left == tx[p].left \ {f}
             ended == [NoTx EXCEPT !.at = result]
             t == [tx[p] EXCEPT !.at = "restore", !.left = left, !.raise = tx[p].raise]
  <2>2. /\ tx[p].at = "restore" /\ tx[p].raise \in BOOLEAN
        /\ tx[p].left \subseteq DOMAIN tx[p].snapshots
    BY <1>1, <1>11 DEF RestoreFile, Transaction, TxTyped
  <2>3. tx' = [tx EXCEPT ![p] = ended] \/ tx' = [tx EXCEPT ![p] = t]
    BY <1>1, <2>1, <2>2 DEF EndTx, SiteTypes, Transaction
  <2>4. result \in {"raised", "refused"} /\ left \subseteq tx[p].left
    OBVIOUS
  <2> HIDE DEF result, left
  <2>5. TxTyped(ended) /\ TxTyped(t)
    BY <1>1, <2>2, <2>4, EndedTyped, MoveTyped
  <2> HIDE DEF ended, t
  <2>6. tx[p].snapshots[f] \in Contents(f) /\ f \in Files
    BY <1>1, <2>2, SettingsFiles DEF TxTyped
  <2>7. /\ disk' = [g \in Files |-> disk'[g]] /\ \A g \in Files : disk'[g] \in Contents(g)
        /\ torn' \subseteq {"running", "files"}
    BY <2>1, <2>6 DEF SiteTypes
  <2>8. running' = running
    BY <1>11 DEF RestoreFile
  <2> QED
    BY <1>2, <2>3, <2>5, <2>7, <2>8, SiteTyped DEF SiteTypes
<1> QED
  BY <1>2, <1>3, <1>4, <1>5, <1>6, <1>8, <1>9, <1>10, <1>11, TakeLockTyped DEF TxSteps

\* The end of a transaction, and the death of its process.
LEMMA CloseTxTyped ==
    ASSUME SiteTypes, NEW p \in Procs, CloseTx(p) \/ DropTx(p)
    PROVE  SiteTypes' /\ tx'[p].at = "none" /\ \A q \in Procs \ {p} : tx'[q] = tx[q]
<1>1. tx' = [tx EXCEPT ![p] = NoTx] /\ disk' = disk
  BY DEF CloseTx, DropTx
<1>2. running' \in Disk
  BY DiskTyped DEF CloseTx, DropTx, SiteTypes
<1>3. torn' \subseteq {"running", "files"}
  BY DEF CloseTx, DropTx, SiteTypes
<1> QED
  BY <1>1, <1>2, <1>3, EndedTyped, NoTxIsTx, SiteTyped DEF SiteTypes

\* A command that goes on to another place, as the one it was.
LEMMA MoveCommandTyped ==
    ASSUME NEW c, CommandTyped(c),
           NEW at \in {"idle", "look", "put", "apply", "undo", "drop"}
    PROVE  CommandTyped([c EXCEPT !.at = at]) /\ [c EXCEPT !.at = at].at = at
  BY DEF CommandTyped, Command

\* A step that gives one process a typed command, and leaves the others alone.
LEMMA CmdTyped ==
    ASSUME CommandTypes, NEW p \in Procs, NEW c, CommandTyped(c), cmd' = [cmd EXCEPT ![p] = c],
           status' = status, runs' \in 0 .. MaxRuns, overlapped' \in BOOLEAN
    PROVE  /\ CommandTypes'
           /\ cmd'[p] = c
           /\ \A q \in Procs \ {p} : cmd'[q] = cmd[q]
<1>1. /\ cmd'[p] = c
      /\ \A q \in Procs \ {p} : cmd'[q] = cmd[q]
      /\ cmd' = [q \in Procs |-> cmd'[q]]
  BY DEF CommandTypes
<1> QED
  BY <1>1 DEF CommandTypes

\* Goto and Finish are such steps.
LEMMA GotoTyped ==
    ASSUME CommandTypes, NEW p \in Procs,
           NEW at \in {"idle", "look", "put", "apply", "undo", "drop"}, Goto(p, at),
           UNCHANGED <<status, runs, overlapped>>
    PROVE  /\ CommandTypes'
           /\ cmd'[p] = [cmd[p] EXCEPT !.at = at]
           /\ cmd'[p].at = at /\ cmd'[p].op = cmd[p].op
           /\ \A q \in Procs \ {p} : cmd'[q] = cmd[q]
<1> DEFINE c == [cmd[p] EXCEPT !.at = at]
<1>1. CommandTyped(cmd[p])
  BY DEF CommandTypes
<1>2. CommandTyped(c) /\ c.at = at /\ c.op = cmd[p].op
  BY <1>1, MoveCommandTyped DEF CommandTyped, Command
<1>3. cmd' = [cmd EXCEPT ![p] = c]
  BY DEF Goto, CommandTypes
<1> HIDE DEF c
<1>4. CommandTypes' /\ cmd'[p] = c /\ \A q \in Procs \ {p} : cmd'[q] = cmd[q]
  BY <1>2, <1>3, CmdTyped DEF CommandTypes
<1>5. cmd'[p].at = at /\ cmd'[p].op = cmd[p].op
  BY <1>2, <1>4
<1> QED
  BY <1>4, <1>5 DEF c

LEMMA FinishTyped ==
    ASSUME CommandTypes, NEW p \in Procs, Finish(p), UNCHANGED <<status, runs, overlapped>>
    PROVE  /\ CommandTypes'
           /\ cmd'[p] = NoCommand
           /\ \A q \in Procs \ {p} : cmd'[q] = cmd[q]
  BY NoCommandTyped, CmdTyped DEF Finish, CommandTypes

\* One block and the recorded domain can be written.
LEMMA OneBlockTyped ==
    ASSUME SiteTypes, NEW name \in Names, NEW kind \in Kinds
    PROVE  Settings(OneBlock(name, kind))
<1> DEFINE ch == OneBlock(name, kind)
<1>1. /\ DOMAIN ch = {name, Caddyfile} /\ ch = [f \in DOMAIN ch |-> ch[f]]
      /\ name # Caddyfile
      /\ ch[name] = Render(kind, disk[Caddyfile]) /\ ch[Caddyfile] = disk[Caddyfile]
  BY NamesAreFiles DEF OneBlock
<1>2. disk[Caddyfile] \in Domains
  BY NamesAreFiles DEF SiteTypes
<1>3. Render(kind, disk[Caddyfile]) \in Block
  BY <1>2, RenderTyped
<1> HIDE DEF ch
<1>4. Settings(ch)
  BY <1>1, <1>2, <1>3, NamesAreFiles, SettingsOf
<1> QED
  BY <1>4 DEF ch

\* So can what a sync has planned.
LEMMA PlanTyped ==
    ASSUME SiteTypes, NEW services \in Services, NEW domain \in Domains
    PROVE  Settings(PlanSync(services, domain))
<1>1. ASSUME NEW n \in Names
      PROVE  Planned(services, n, domain) \in Block \cup {NoBlock}
  <2>1. services[n] \in Entries \cup {NoEntry}
    BY DEF Services
  <2>2. disk[n] \in Block \cup {NoBlock}
    BY NamesAreFiles DEF SiteTypes
  <2>3. disk[n] # NoBlock => disk[n].kind \in Kinds
    BY <2>2 DEF Block
  <2>4. Exists(services, n) => services[n] \in Kinds
    BY <2>1, SitesAssumption DEF Exists, Kinds
  <2> QED
    BY <2>3, <2>4, RenderTyped DEF Planned
<1> DEFINE differ == {n \in Names : disk[n] # Planned(services, n, domain)}
           ch == [f \in differ \cup {Caddyfile} |->
                     IF f = Caddyfile THEN domain ELSE Planned(services, f, domain)]
<1>2. DOMAIN ch = differ \cup {Caddyfile} /\ ch = [f \in DOMAIN ch |-> ch[f]]
  OBVIOUS
<1>3. \A f \in DOMAIN ch : ch[f] \in Contents(f)
  BY <1>1, NamesAreFiles
<1>4. DOMAIN ch \subseteq Files
  BY NamesAreFiles
<1> HIDE DEF ch
<1>5. Settings(ch)
  BY <1>2, <1>3, <1>4, SettingsOf
<1> QED
  BY <1>5 DEF ch, PlanSync

\* Parts of the state that a step leaves alone keep their types.
LEMMA SameTyped ==
    /\ ConfigTypeOK /\ UNCHANGED configVars => ConfigTypeOK'
    /\ SiteTypes /\ UNCHANGED siteVars => SiteTypes'
    /\ CommandTypes /\ UNCHANGED cmdVars => CommandTypes'
  BY DEF ConfigTypeOK, configVars, SiteTypes, siteVars, CommandTypes, cmdVars

\* A step of one process that leaves it where its edit and its transaction may be.
LEMMA InPlaceKept ==
    ASSUME InPlace, NEW p \in Procs, status' = status,
           \A q \in Procs \ {p} : cmd'[q] = cmd[q] /\ tx'[q] = tx[q] /\ edit'[q] = edit[q],
           tx'[p].at # "none" => cmd'[p].at = "apply" /\ status = "managed",
           edit'[p].at # "none" => cmd'[p].at \in {"put", "undo", "drop"},
           cmd'[p].op \in {"direct", "sync"} => status = "managed"
    PROVE  InPlace'
  BY DEF InPlace

-----------------------------------------------------------------------------
(* The steps keep the types *)

\* A command begins with the services as they are in the file.
LEMMA BeginTyped ==
    ASSUME TInv, NEW p \in Procs, NEW command, CommandTyped(command), Begin(p, command),
           command.op \in {"direct", "sync"} => status = "managed"
    PROVE  TInv'
<1> DEFINE c == [command EXCEPT !.at = "look", !.seen = config.content]
<1>1. config.content \in Services
  BY DEF TInv, ConfigTypeOK, File, Begin
<1>2. CommandTyped(c) /\ c.at = "look" /\ c.op = command.op
  BY <1>1 DEF CommandTyped, Command
<1>3. cmd' = [cmd EXCEPT ![p] = c] /\ cmd[p].at = "idle"
  BY DEF Begin
<1>4. UNCHANGED <<status, configVars, siteVars>>
  BY DEF Begin
<1>5. runs' \in 0 .. MaxRuns
  BY SitesAssumption DEF Begin, TInv, CommandTypes
<1>6. overlapped' \in BOOLEAN
  BY DEF Begin, TInv, CommandTypes
<1> HIDE DEF c
<1>7. CommandTypes' /\ cmd'[p] = c /\ \A q \in Procs \ {p} : cmd'[q] = cmd[q]
  BY <1>2, <1>3, <1>4, <1>5, <1>6, CmdTyped DEF TInv
<1>8. UNCHANGED <<tx, edit>> /\ tx[p].at = "none" /\ edit[p].at = "none"
  BY <1>3, <1>4 DEF TInv, InPlace, configVars, siteVars
<1>9. InPlace'
  BY <1>2, <1>4, <1>7, <1>8, InPlaceKept DEF TInv
<1> QED
  BY <1>4, <1>7, <1>9, SameTyped DEF TInv

\* The entry of a name is dropped, or the command is over.
LEMMA DropTyped ==
    ASSUME TInv, NEW p \in Procs, cmd[p].op = "rm", Drop(p),
           UNCHANGED <<status, runs, overlapped>>
    PROVE  /\ ConfigTypeOK' /\ CommandTypes'
           /\ \A q \in Procs \ {p} : cmd'[q] = cmd[q] /\ edit'[q] = edit[q]
           /\ cmd'[p].op \notin {"direct", "sync"}
           /\ \/ cmd'[p].at = "drop"
              \/ cmd'[p].at = "idle" /\ edit' = edit
<1>1. cmd[p].name \in Names
  BY DEF TInv, CommandTypes, CommandTyped
<1>2. CASE Exists(cmd[p].seen, cmd[p].name)
  <2>1. BeginEdit(p, cmd[p].name, NoEntry) /\ Goto(p, "drop")
    BY <1>2 DEF Drop
  <2> QED
    BY <1>1, <2>1, BeginEditTyped, GotoTyped DEF TInv
<1>3. CASE ~ Exists(cmd[p].seen, cmd[p].name)
  <2>1. Finish(p) /\ UNCHANGED configVars
    BY <1>3 DEF Drop
  <2> QED
    BY <2>1, FinishTyped, SameTyped, NoCommandTyped DEF TInv, configVars
<1> QED
  BY <1>2, <1>3

\* What a command decides to do is typed.
LEMMA LookTyped ==
    ASSUME TInv, NEW p \in Procs, Look(p)
    PROVE  TInv'
<1>1. /\ cmd[p].at = "look" /\ tx[p].at = "none" /\ edit[p].at = "none"
      /\ UNCHANGED <<status, runs, overlapped>>
      /\ CommandTyped(cmd[p])
  BY DEF Look, TInv, InPlace, CommandTypes
<1>2. CASE LookAdd(p) /\ Finish(p) /\ UNCHANGED configVars
  <2>1. UNCHANGED siteVars
    BY <1>2 DEF LookAdd
  <2>2. CommandTypes' /\ cmd'[p] = NoCommand /\ \A q \in Procs \ {p} : cmd'[q] = cmd[q]
    BY <1>1, <1>2, FinishTyped DEF TInv
  <2>3. UNCHANGED <<tx, edit>>
    BY <1>2, <2>1 DEF siteVars, configVars
  <2>4. InPlace'
    BY <1>1, <2>2, <2>3, NoCommandTyped, InPlaceKept DEF TInv
  <2> QED
    BY <1>2, <2>1, <2>2, <2>4, SameTyped DEF TInv
<1>3. CASE LookAdd(p) /\ ~ (Finish(p) /\ UNCHANGED configVars)
  <2> DEFINE changes == IF status = "managed" THEN OneBlock(cmd[p].name, cmd[p].entry)
                                              ELSE NoChange
             c == [cmd[p] EXCEPT !.at = "put", !.changes = changes]
  <2>1. /\ cmd[p].op = "add"
        /\ BeginEdit(p, cmd[p].name, cmd[p].entry)
        /\ cmd' = [cmd EXCEPT ![p] = c]
        /\ UNCHANGED siteVars
    BY <1>3 DEF LookAdd, TInv, CommandTypes
  <2>2. cmd[p].name \in Names /\ cmd[p].entry \in Entries /\ cmd[p].entry \in Kinds
    BY <1>1, <2>1, SitesAssumption DEF CommandTyped, Kinds
  <2>3. Settings(changes)
    BY <2>2, OneBlockTyped, NoChangeSettings DEF TInv
  <2> HIDE DEF changes
  <2>4. CommandTyped(c) /\ c.at = "put" /\ c.op = "add"
    BY <1>1, <2>1, <2>3 DEF CommandTyped, Command, Settings
  <2> HIDE DEF c
  <2>5. CommandTypes' /\ cmd'[p] = c /\ \A q \in Procs \ {p} : cmd'[q] = cmd[q]
    BY <1>1, <2>1, <2>4, CmdTyped DEF TInv, CommandTypes
  <2>6. ConfigTypeOK' /\ \A q \in Procs \ {p} : edit'[q] = edit[q]
    BY <2>1, <2>2, BeginEditTyped DEF TInv
  <2>7. tx' = tx
    BY <2>1 DEF siteVars
  <2>8. InPlace'
    BY <1>1, <2>4, <2>5, <2>6, <2>7, InPlaceKept DEF TInv
  <2> QED
    BY <2>1, <2>5, <2>6, <2>8, SameTyped DEF TInv
<1>4. ASSUME NEW changes, Settings(changes), BeginTx(p, changes), Goto(p, "apply"),
             UNCHANGED configVars, status = "managed"
      PROVE  TInv'
  <2>1. SiteTypes' /\ \A q \in Procs \ {p} : tx'[q] = tx[q]
    BY <1>4, BeginTxTyped DEF TInv
  <2>2. CommandTypes' /\ cmd'[p].at = "apply" /\ \A q \in Procs \ {p} : cmd'[q] = cmd[q]
    BY <1>1, <1>4, GotoTyped DEF TInv
  <2>3. edit' = edit
    BY <1>4 DEF configVars
  <2>4. InPlace'
    BY <1>1, <1>4, <2>1, <2>2, <2>3, InPlaceKept DEF TInv
  <2> QED
    BY <1>4, <2>1, <2>2, <2>4, SameTyped DEF TInv
<1>5. CASE LookDirect(p)
  <2>1. Settings(OneBlock(cmd[p].name, "direct")) /\ status = "managed"
    BY <1>1, <1>5, OneBlockTyped DEF LookDirect, TInv, InPlace, CommandTyped, Kinds
  <2> QED
    BY <1>4, <1>5, <2>1 DEF LookDirect
<1>6. CASE LookSync(p)
  <2>1. PICK domain \in Domains : BeginTx(p, PlanSync(cmd[p].seen, domain))
    BY <1>6 DEF LookSync
  <2>2. Settings(PlanSync(cmd[p].seen, domain)) /\ status = "managed"
    BY <1>1, <1>6, PlanTyped DEF LookSync, TInv, InPlace, CommandTyped, Command
  <2> QED
    BY <1>4, <1>6, <2>1, <2>2 DEF LookSync
<1>7. CASE LookRm(p) /\ Drop(p) /\ UNCHANGED siteVars
  <2>1. /\ ConfigTypeOK' /\ CommandTypes'
        /\ \A q \in Procs \ {p} : cmd'[q] = cmd[q] /\ edit'[q] = edit[q]
        /\ cmd'[p].op \notin {"direct", "sync"}
        /\ \/ cmd'[p].at = "drop"
           \/ cmd'[p].at = "idle" /\ edit' = edit
    BY <1>1, <1>7, DropTyped DEF LookRm
  <2>2. tx' = tx
    BY <1>7 DEF siteVars
  <2>3. InPlace'
    BY <1>1, <2>1, <2>2, InPlaceKept DEF TInv
  <2> QED
    BY <1>7, <2>1, <2>3, SameTyped DEF TInv
<1>8. CASE LookRm(p) /\ ~ (Drop(p) /\ UNCHANGED siteVars)
  <2> DEFINE ch == [f \in {cmd[p].name} |-> NoBlock]
  <2>1. /\ cmd[p].op = "rm" /\ status = "managed"
        /\ BeginTx(p, ch) /\ Goto(p, "apply") /\ UNCHANGED configVars
    BY <1>8 DEF LookRm
  <2>2. cmd[p].name \in Names
    BY <1>1, <2>1 DEF CommandTyped
  <2>3. /\ DOMAIN ch = {cmd[p].name} /\ ch = [f \in DOMAIN ch |-> ch[f]]
        /\ ch[cmd[p].name] = NoBlock
    OBVIOUS
  <2> HIDE DEF ch
  <2>4. Settings(ch)
    BY <2>2, <2>3, NamesAreFiles, SettingsOf
  <2> QED
    BY <1>4, <2>1, <2>4
<1> QED
  BY <1>2, <1>3, <1>5, <1>6, <1>7, <1>8 DEF Look

\* A written entry goes on to Caddy, one that was not ends the command.
LEMMA PutTyped ==
    ASSUME TInv, NEW p \in Procs, Put(p)
    PROVE  TInv'
<1>1. /\ cmd[p].at = "put" /\ tx[p].at = "none"
      /\ edit' = [edit EXCEPT ![p] = NoEdit]
      /\ UNCHANGED <<config, tmp, status, runs, overlapped>>
      /\ CommandTyped(cmd[p])
  BY DEF Put, TInv, InPlace, CommandTypes
<1>2. ConfigTypeOK' /\ edit'[p].at = "none" /\ \A q \in Procs \ {p} : edit'[q] = edit[q]
  BY <1>1, NoEditTyped DEF TInv, ConfigTypeOK
<1>3. CASE edit[p].at = "done" /\ status = "managed"
  <2>1. BeginTx(p, cmd[p].changes) /\ Goto(p, "apply")
    BY <1>3 DEF Put
  <2>2. SiteTypes' /\ \A q \in Procs \ {p} : tx'[q] = tx[q]
    BY <1>1, <2>1, BeginTxTyped DEF TInv, CommandTyped
  <2>3. CommandTypes' /\ cmd'[p].at = "apply" /\ \A q \in Procs \ {p} : cmd'[q] = cmd[q]
    BY <1>1, <2>1, GotoTyped DEF TInv
  <2>4. InPlace'
    BY <1>1, <1>2, <1>3, <2>2, <2>3, InPlaceKept DEF TInv
  <2> QED
    BY <1>2, <2>2, <2>3, <2>4 DEF TInv
<1>4. CASE ~ (edit[p].at = "done" /\ status = "managed")
  <2>1. Finish(p) /\ UNCHANGED siteVars
    BY <1>4 DEF Put
  <2>2. CommandTypes' /\ cmd'[p] = NoCommand /\ \A q \in Procs \ {p} : cmd'[q] = cmd[q]
    BY <1>1, <2>1, FinishTyped DEF TInv
  <2>3. tx' = tx
    BY <2>1 DEF siteVars
  <2>4. InPlace'
    BY <1>1, <1>2, <2>2, <2>3, NoCommandTyped, InPlaceKept DEF TInv
  <2> QED
    BY <1>2, <2>1, <2>2, <2>4, SameTyped DEF TInv
<1> QED
  BY <1>3, <1>4

\* After its transaction a command undoes its entry, drops one, or is over.
LEMMA AppliedTyped ==
    ASSUME TInv, NEW p \in Procs, Applied(p)
    PROVE  TInv'
<1>1. /\ cmd[p].at = "apply" /\ edit[p].at = "none"
      /\ CloseTx(p) /\ UNCHANGED <<status, runs, overlapped>>
      /\ CommandTyped(cmd[p])
  BY DEF Applied, TInv, InPlace, CommandTypes
<1>2. SiteTypes' /\ tx'[p].at = "none" /\ \A q \in Procs \ {p} : tx'[q] = tx[q]
  BY <1>1, CloseTxTyped DEF TInv
<1>3. ASSUME ConfigTypeOK', CommandTypes',
             \A q \in Procs \ {p} : cmd'[q] = cmd[q] /\ edit'[q] = edit[q],
             cmd'[p].op \notin {"direct", "sync"},
             cmd'[p].at \in {"undo", "drop"} \/ edit'[p].at = "none"
      PROVE  TInv'
  BY <1>1, <1>2, <1>3, InPlaceKept DEF TInv
<1>4. CASE cmd[p].op = "add" /\ tx[p].at # "ok"
  <2>1. BeginEdit(p, cmd[p].name, cmd[p].seen[cmd[p].name]) /\ Goto(p, "undo")
    BY <1>4 DEF Applied
  <2>2. cmd[p].name \in Names /\ cmd[p].seen[cmd[p].name] \in Entries \cup {NoEntry}
    BY <1>1, <1>4 DEF CommandTyped, Command, Services
  <2>3. ConfigTypeOK' /\ \A q \in Procs \ {p} : edit'[q] = edit[q]
    BY <2>1, <2>2, BeginEditTyped DEF TInv
  <2>4. /\ CommandTypes' /\ cmd'[p].at = "undo" /\ cmd'[p].op = "add"
        /\ \A q \in Procs \ {p} : cmd'[q] = cmd[q]
    BY <1>1, <1>4, <2>1, GotoTyped DEF TInv
  <2> QED
    BY <1>3, <2>3, <2>4
<1>5. CASE cmd[p].op = "rm" /\ tx[p].at # "raised"
  <2>1. Drop(p)
    BY <1>5 DEF Applied
  <2>2. /\ ConfigTypeOK' /\ CommandTypes'
        /\ \A q \in Procs \ {p} : cmd'[q] = cmd[q] /\ edit'[q] = edit[q]
        /\ cmd'[p].op \notin {"direct", "sync"}
        /\ \/ cmd'[p].at = "drop"
           \/ cmd'[p].at = "idle" /\ edit' = edit
    BY <1>1, <1>5, <2>1, DropTyped
  <2> QED
    BY <1>1, <1>3, <2>2
<1>6. CASE ~ (cmd[p].op = "add" /\ tx[p].at # "ok") /\ ~ (cmd[p].op = "rm" /\ tx[p].at # "raised")
  <2>1. Finish(p) /\ UNCHANGED configVars
    BY <1>6 DEF Applied
  <2>2. CommandTypes' /\ cmd'[p] = NoCommand /\ \A q \in Procs \ {p} : cmd'[q] = cmd[q]
    BY <1>1, <2>1, FinishTyped DEF TInv
  <2>3. ConfigTypeOK' /\ edit' = edit
    BY <2>1, SameTyped DEF TInv, configVars
  <2> QED
    BY <1>1, <1>3, <2>2, <2>3, NoCommandTyped
<1> QED
  BY <1>4, <1>5, <1>6

\* An edit that ended, or a process that was killed.
LEMMA OverTyped ==
    ASSUME TInv, NEW p \in Procs, Edited(p) \/ Kill(p)
    PROVE  TInv'
<1>1. Finish(p) /\ UNCHANGED <<status, runs, overlapped>>
  BY DEF Edited, Kill
<1>2. CommandTypes' /\ cmd'[p] = NoCommand /\ \A q \in Procs \ {p} : cmd'[q] = cmd[q]
  BY <1>1, FinishTyped DEF TInv
<1>3. ConfigTypeOK' /\ edit'[p].at = "none" /\ \A q \in Procs \ {p} : edit'[q] = edit[q]
  <2>1. CASE Edited(p)
    <3>1. edit' = [edit EXCEPT ![p] = NoEdit] /\ UNCHANGED <<config, tmp>>
      BY <2>1 DEF Edited
    <3> QED
      BY <3>1, NoEditTyped DEF TInv, ConfigTypeOK
  <2>2. CASE Kill(p)
    <3>1. ConfigTypeOK' /\ edit' = [edit EXCEPT ![p] = NoEdit]
      BY <2>2, DropEditTyped DEF Kill, TInv
    <3> QED
      BY <3>1, NoEditTyped DEF TInv, ConfigTypeOK
  <2> QED
    BY <2>1, <2>2
<1>4. SiteTypes' /\ tx'[p].at = "none" /\ \A q \in Procs \ {p} : tx'[q] = tx[q]
  <2>1. CASE Edited(p)
    <3>1. /\ UNCHANGED <<disk, running, lock, tx>> /\ tx[p].at = "none"
          /\ torn' \subseteq torn \cup {"files"}
      BY <2>1 DEF Edited, TInv, InPlace
    <3> QED
      BY <3>1 DEF TInv, SiteTypes
  <2>2. CASE Kill(p)
    BY <2>2, CloseTxTyped DEF Kill, TInv
  <2> QED
    BY <2>1, <2>2
<1>5. InPlace'
  BY <1>1, <1>2, <1>3, <1>4, NoCommandTyped, InPlaceKept DEF TInv
<1> QED
  BY <1>2, <1>3, <1>4, <1>5 DEF TInv

\* Every step keeps the types.
LEMMA NextTyped == TInv /\ [Next]_vars => TInv'
<1>1. ASSUME TInv, UNCHANGED vars
      PROVE  TInv'
  <2>1. UNCHANGED <<configVars, siteVars, cmdVars>>
    BY <1>1 DEF vars, configVars, siteVars, cmdVars
  <2>2. UNCHANGED <<tx, edit, cmd, status>>
    BY <1>1 DEF vars
  <2>3. InPlace'
    BY <1>1, <2>2 DEF TInv, InPlace
  <2> QED
    BY <1>1, <2>1, <2>3, SameTyped DEF TInv
<1>2. ASSUME TInv, NEW p \in Procs, EditSteps(p), UNCHANGED <<siteVars, cmdVars>>
      PROVE  TInv'
  <2>1. ConfigTypeOK' /\ edit[p].at # "none" /\ \A q \in Procs \ {p} : edit'[q] = edit[q]
    BY <1>2, EditTyped DEF TInv
  <2>2. UNCHANGED <<tx, cmd, status>>
    BY <1>2 DEF siteVars, cmdVars
  <2>3. InPlace'
    BY <1>2, <2>1, <2>2, InPlaceKept DEF TInv, InPlace
  <2> QED
    BY <1>2, <2>1, <2>3, SameTyped DEF TInv
<1>3. ASSUME TInv, NEW p \in Procs, TxSteps(p), UNCHANGED <<configVars, cmdVars>>
      PROVE  TInv'
  <2>1. SiteTypes' /\ tx[p].at # "none" /\ \A q \in Procs \ {p} : tx'[q] = tx[q]
    BY <1>3, TxStepTyped DEF TInv
  <2>2. UNCHANGED <<edit, cmd, status>>
    BY <1>3 DEF configVars, cmdVars
  <2>3. InPlace'
    BY <1>3, <2>1, <2>2, InPlaceKept DEF TInv, InPlace
  <2> QED
    BY <1>3, <2>1, <2>3, SameTyped DEF TInv
<1>4. ASSUME TInv, NEW p \in Procs, Step(p)
      PROVE  TInv'
  BY <1>2, <1>3, <1>4, LookTyped, PutTyped, AppliedTyped, OverTyped DEF Step
<1>5. ASSUME TInv, NEW p \in Procs, NEW n \in Names, NEW e \in Entries, NEW force \in BOOLEAN,
             Add(p, n, e, force)
      PROVE  TInv'
  <2> DEFINE c == [NoCommand EXCEPT !.op = "add", !.name = n, !.entry = e, !.force = force]
  <2>1. CommandTyped(c) /\ c.op = "add"
    BY <1>5, NoCommandTyped DEF CommandTyped, Command
  <2>2. Begin(p, c)
    BY <1>5 DEF Add
  <2> HIDE DEF c
  <2> QED
    BY <1>5, <2>1, <2>2, BeginTyped
<1>6. ASSUME TInv, NEW p \in Procs, NEW n \in Names, AddDirect(p, n)
      PROVE  TInv'
  <2> DEFINE c == [NoCommand EXCEPT !.op = "direct", !.name = n]
  <2>1. CommandTyped(c)
    BY <1>6, NoCommandTyped DEF CommandTyped, Command
  <2>2. Begin(p, c) /\ status = "managed"
    BY <1>6 DEF AddDirect
  <2> HIDE DEF c
  <2> QED
    BY <1>6, <2>1, <2>2, BeginTyped
<1>7. ASSUME TInv, NEW p \in Procs, NEW n \in Names, Rm(p, n)
      PROVE  TInv'
  <2> DEFINE c == [NoCommand EXCEPT !.op = "rm", !.name = n]
  <2>1. CommandTyped(c) /\ c.op = "rm"
    BY <1>7, NoCommandTyped DEF CommandTyped, Command
  <2>2. Begin(p, c)
    BY <1>7 DEF Rm
  <2> HIDE DEF c
  <2> QED
    BY <1>7, <2>1, <2>2, BeginTyped
<1>8. ASSUME TInv, NEW p \in Procs, CaddySync(p)
      PROVE  TInv'
  <2> DEFINE c == [NoCommand EXCEPT !.op = "sync"]
  <2>1. CommandTyped(c)
    BY NoCommandTyped DEF CommandTyped, Command
  <2>2. Begin(p, c) /\ status = "managed"
    BY <1>8 DEF CaddySync
  <2> HIDE DEF c
  <2> QED
    BY <1>8, <2>1, <2>2, BeginTyped
<1>9. ASSUME TInv, Next
      PROVE  TInv'
  BY <1>1, <1>4, <1>5, <1>6, <1>7, <1>8, <1>9, OverTyped DEF Next, Rest
<1> QED
  BY <1>1, <1>9

\* Every variable keeps its type; the lock is held exactly by the process that is inside
\* its transaction, which has one only while its command applies changes on a host with a
\* managed Caddy.
THEOREM TypeCorrect == Spec => []TypeOK
<1>1. Init => SInv /\ TInv
  BY InitHolds, InitTyped
<1>2. SInv /\ TInv /\ [Next]_vars => SInv' /\ TInv'
  BY NextHolds, NextTyped
<1>3. SInv /\ TInv => TypeOK
  <2>1. SUFFICES ASSUME SInv, TInv
                 PROVE  TypeOK
    OBVIOUS
  <2>2. SitesTypeOK
    <3>1. disk \in Disk /\ running \in Disk /\ torn \subseteq {"running", "files"}
      BY <2>1, DiskTyped DEF TInv, SiteTypes
    <3>2. tx \in [Procs -> Transaction]
      BY <2>1 DEF TInv, SiteTypes, TxTyped
    <3>3. /\ lock \in Procs \cup {Nobody}
          /\ \A p \in Procs : tx[p].at \in {"check", "write", "load", "restore"} <=> lock = p
      BY <2>1 DEF SInv, LockHeld, Busy
    <3> QED
      BY <3>1, <3>2, <3>3 DEF SitesTypeOK
  <2>3. cmd \in [Procs -> Command]
    BY <2>1 DEF TInv, CommandTypes, CommandTyped
  <2> QED
    BY <2>1, <2>2, <2>3 DEF TypeOK, TInv, CommandTypes, InPlace
<1> QED
  BY <1>1, <1>2, <1>3, PTL DEF Spec

-----------------------------------------------------------------------------
(* Commands that run one at a time *)

\* What the commands are to leave: every block serves the domain that the Caddyfile of d
\* records, and on a managed host every service has the block of its entry.
OneDomainOn(d) ==
    \A n \in Names : d[n] # NoBlock => d[n] = Render(d[n].kind, d[Caddyfile])

BlocksOn(d, services) ==
    \A n \in Names : Exists(services, n) => d[n] = Render(services[n], d[Caddyfile])

Fits(d, services, host) ==
    OneDomainOn(d) /\ (host = "managed" => BlocksOn(d, services))

\* Unless a crash or a failed undo is on record.
Sound(d, services) == "files" \notin torn => Fits(d, services, status)

\* The files d with some of them as ch says.
Over(d, fs, ch) == [f \in Files |-> IF f \in fs THEN ch[f] ELSE d[f]]

\* The services once the command has done all that it is for.
Want(c) ==
    CASE c.op = "add" -> [c.seen EXCEPT ![c.name] = c.entry]
      [] c.op = "rm" -> [c.seen EXCEPT ![c.name] = NoEntry]
      [] OTHER -> c.seen

\* The services before and after the edit that a command is in, and the entry it writes.
BeforeEdit(c) == IF c.at = "undo" THEN Want(c) ELSE c.seen

AfterEdit(c) == IF c.at = "undo" THEN c.seen ELSE Want(c)

EntryPut(c) ==
    CASE c.at = "put" -> c.entry
      [] c.at = "undo" -> c.seen[c.name]
      [] OTHER -> NoEntry

Editing == {"put", "undo", "drop"}

\* An edit changes the configuration at its last step only, by a file that is whole.
EditAlone(p) ==
    cmd[p].at \in Editing =>
        /\ cmd[p].op = IF cmd[p].at = "drop" THEN "rm" ELSE "add"
        /\ edit[p].at = "done" => config.content = AfterEdit(cmd[p])
        /\ edit[p].at # "done" => config.content = BeforeEdit(cmd[p])
        /\ edit[p].at \notin {"none", "done", "raised"} =>
               edit[p].name = cmd[p].name /\ edit[p].entry = EntryPut(cmd[p])
        /\ edit[p].at \in {"unlink", "create", "fill", "replace"} =>
               edit[p].data = AfterEdit(cmd[p])
        /\ edit[p].at = "create" => tmp = NoFile
        /\ edit[p].at = "fill" => tmp = [content |-> Partial, by |-> p]
        /\ edit[p].at = "replace" => tmp = [content |-> AfterEdit(cmd[p]), by |-> Nobody]

\* The files are as a command found them until it changes them, the configuration too.
CommandAlone(p) ==
    /\ cmd[p].op = "direct" => cmd[p].seen[cmd[p].name] = NoEntry
    /\ cmd[p].at \in {"look", "put", "undo"} => Sound(disk, cmd[p].seen)
    /\ cmd[p].at = "drop" => Sound(disk, Want(cmd[p]))
    /\ cmd[p].at = "look" => config.content = cmd[p].seen
    /\ cmd[p].at = "put" /\ status = "managed" =>
           cmd[p].changes = OneBlock(cmd[p].name, cmd[p].entry)
    /\ cmd[p].at = "apply" =>
           config.content = IF cmd[p].op = "add" THEN Want(cmd[p]) ELSE cmd[p].seen

\* Whether a command leaves the files in order: a sync does so wherever it started from.
Mends(p) == cmd[p].op = "sync" \/ "files" \notin torn

\* The files as they are kept fit the services that the command saw, and the files as they
\* will be fit those it is to leave.
TxAlone(p) ==
    /\ tx[p].at \in {"lock", "check", "refused", "raised"} => Sound(disk, cmd[p].seen)
    /\ tx[p].at = "check" => \A f \in DOMAIN tx[p].snapshots : tx[p].snapshots[f] = disk[f]
    /\ tx[p].at \in {"write", "load"} =>
           Sound(Over(disk, DOMAIN tx[p].snapshots, tx[p].snapshots), cmd[p].seen)
    /\ tx[p].at = "restore" => Sound(Over(disk, tx[p].left, tx[p].snapshots), cmd[p].seen)
    /\ tx[p].at \in {"lock", "check", "write", "load"} /\ Mends(p) =>
           Fits(Over(disk, DOMAIN tx[p].todo, tx[p].todo), Want(cmd[p]), status)
    /\ tx[p].at = "ok" /\ Mends(p) => Fits(disk, Want(cmd[p]), status)
    /\ tx[p].at = "write" => \A f \in DOMAIN tx[p].todo \ tx[p].left : disk[f] = tx[p].todo[f]
    /\ tx[p].at = "load" => \A f \in DOMAIN tx[p].todo : disk[f] = tx[p].todo[f]

Whole == config.by = Nobody /\ config.content # Partial

Running(p) == cmd[p].at # "idle"

Alone ==
    ~ overlapped =>
        /\ \A p, q \in Procs : Running(p) /\ Running(q) => p = q
        /\ Whole
        /\ AllIdle => Sound(disk, config.content)
        /\ \A p \in Procs : Running(p) => EditAlone(p) /\ CommandAlone(p) /\ TxAlone(p)

\* Two commands of one kind for one name are for the same services.
LEMMA SameWant ==
    ASSUME NEW c, NEW d, c.op = d.op, c.name = d.name, c.entry = d.entry, c.seen = d.seen
    PROVE  Want(c) = Want(d)
  BY DEF Want

\* What a command is for, service by service.
LEMMA Wanted ==
    ASSUME NEW c, CommandTyped(c)
    PROVE  /\ Want(c) \in Services /\ c.seen \in Services
           /\ c.op \notin {"add", "rm"} => Want(c) = c.seen
           /\ c.op \in {"add", "rm"} =>
                 /\ c.name \in Names
                 /\ Want(c)[c.name] = IF c.op = "add" THEN c.entry ELSE NoEntry
                 /\ \A n \in Names \ {c.name} : Want(c)[n] = c.seen[n]
<1>1. c.seen \in Services /\ (c.op \in {"add", "rm"} => c.name \in Names)
  BY DEF CommandTyped, Command
<1>2. CASE c.op = "add"
  <2>1. Want(c) = [c.seen EXCEPT ![c.name] = c.entry] /\ c.entry \in Entries
    BY <1>2 DEF Want, CommandTyped
  <2> QED
    BY <1>1, <1>2, <2>1 DEF Services
<1>3. CASE c.op = "rm"
  <2>1. Want(c) = [c.seen EXCEPT ![c.name] = NoEntry]
    BY <1>3 DEF Want
  <2> QED
    BY <1>1, <1>3, <2>1 DEF Services
<1>4. CASE c.op \notin {"add", "rm"}
  BY <1>1, <1>4 DEF Want
<1> QED
  BY <1>2, <1>3, <1>4

\* Services are equal when their entries are.
LEMMA SameServices ==
    ASSUME NEW s \in Services, NEW u \in Services, \A n \in Names : s[n] = u[n]
    PROVE  s = u
  BY DEF Services

\* The edit of a command makes of the services before it those after it, and changes
\* nothing where the entry is not there already.
LEMMA EditMakes ==
    ASSUME NEW c, CommandTyped(c), c.at \in Editing, c.op = IF c.at = "drop" THEN "rm" ELSE "add"
    PROVE  /\ BeforeEdit(c) \in Services /\ AfterEdit(c) \in Services
           /\ [BeforeEdit(c) EXCEPT ![c.name] = EntryPut(c)] = AfterEdit(c)
           /\ BeforeEdit(c)[c.name] = EntryPut(c) => AfterEdit(c) = BeforeEdit(c)
<1> DEFINE made == [BeforeEdit(c) EXCEPT ![c.name] = EntryPut(c)]
<1>1. c.name \in Names /\ BeforeEdit(c) \in Services /\ AfterEdit(c) \in Services
  BY Wanted DEF BeforeEdit, AfterEdit
<1>2. EntryPut(c) \in Entries \cup {NoEntry}
  BY <1>1 DEF EntryPut, CommandTyped, Command, Services
<1>3. /\ AfterEdit(c)[c.name] = EntryPut(c)
      /\ \A n \in Names \ {c.name} : AfterEdit(c)[n] = BeforeEdit(c)[n]
  <2>1. CASE c.at = "undo"
    BY <2>1, Wanted DEF BeforeEdit, AfterEdit, EntryPut
  <2>2. CASE c.at = "put"
    BY <2>2, Wanted DEF BeforeEdit, AfterEdit, EntryPut
  <2>3. CASE c.at = "drop"
    BY <2>3, Wanted DEF BeforeEdit, AfterEdit, EntryPut
  <2> QED
    BY <2>1, <2>2, <2>3 DEF Editing
<1>4. made \in Services /\ \A n \in Names : made[n] = AfterEdit(c)[n]
  BY <1>1, <1>2, <1>3 DEF Services
<1>5. made = AfterEdit(c)
  BY <1>1, <1>4, SameServices
<1>6. BeforeEdit(c)[c.name] = EntryPut(c) => AfterEdit(c) = BeforeEdit(c)
  BY <1>1, <1>3, SameServices
<1> QED
  BY <1>1, <1>5, <1>6

\* Services that list less fit too.
LEMMA FewerFit ==
    ASSUME NEW d, NEW s \in Services, NEW u \in Services, NEW host, Fits(d, s, host),
           \A n \in Names : u[n] = s[n] \/ u[n] = NoEntry
    PROVE  Fits(d, u, host)
<1>1. \A n \in Names : Exists(u, n) => Exists(s, n) /\ u[n] = s[n]
  BY ConfigFileAssumption DEF Exists
<1> QED
  BY <1>1 DEF Fits, BlocksOn

\* Files over which nothing changes, or that are already as they are to be.
LEMMA OverSame ==
    ASSUME NEW d, d = [f \in Files |-> d[f]], NEW fs, NEW ch, \A f \in fs : ch[f] = d[f]
    PROVE  Over(d, fs, ch) = d
<1>1. \A f \in Files : (IF f \in fs THEN ch[f] ELSE d[f]) = d[f]
  OBVIOUS
<1> QED
  BY <1>1 DEF Over

\* The value that a file has in files with some changed.
LEMMA OverAt ==
    ASSUME NEW d, NEW fs, NEW ch
    PROVE  /\ \A n \in Names : Over(d, fs, ch)[n] = IF n \in fs THEN ch[n] ELSE d[n]
           /\ Over(d, fs, ch)[Caddyfile] = IF Caddyfile \in fs THEN ch[Caddyfile] ELSE d[Caddyfile]
  BY NamesAreFiles DEF Over

\* A block as rendered is of the kind that was asked for.
LEMMA RenderKind == \A kind, domain : Render(kind, domain).kind = kind
  BY DEF Render

\* One block for a service: what fitted the services fits them with this entry too, or
\* without one.
LEMMA OneBlockFits ==
    ASSUME NEW s \in Services, NEW u \in Services, NEW name \in Names, NEW kind, NEW host,
           Fits(disk, s, host), \A n \in Names \ {name} : u[n] = s[n],
           u[name] = kind \/ u[name] = NoEntry
    PROVE  Fits(Over(disk, DOMAIN OneBlock(name, kind), OneBlock(name, kind)), u, host)
<1> DEFINE ch == OneBlock(name, kind)
           d == Over(disk, DOMAIN ch, ch)
<1>1. /\ DOMAIN ch = {name, Caddyfile} /\ name # Caddyfile
      /\ ch[name] = Render(kind, disk[Caddyfile]) /\ ch[Caddyfile] = disk[Caddyfile]
  BY NamesAreFiles DEF OneBlock
<1> HIDE DEF ch
<1>2. /\ d[Caddyfile] = disk[Caddyfile]
      /\ d[name] = Render(kind, disk[Caddyfile])
      /\ \A n \in Names \ {name} : d[n] = disk[n]
  BY <1>1, OverAt, NamesAreFiles
<1> HIDE DEF d
<1>3. OneDomainOn(d)
  BY <1>2, RenderKind DEF Fits, OneDomainOn
<1>4. host = "managed" => BlocksOn(d, u)
  <2>1. SUFFICES ASSUME host = "managed", NEW n \in Names, Exists(u, n)
                 PROVE  d[n] = Render(u[n], d[Caddyfile])
    BY DEF BlocksOn
  <2>2. CASE n = name
    BY <1>2, <2>1, <2>2 DEF Exists
  <2>3. CASE n # name
    <3>1. Exists(s, n) /\ u[n] = s[n]
      BY <2>1, <2>3, ConfigFileAssumption DEF Exists
    <3> QED
      BY <1>2, <2>1, <2>3, <3>1 DEF Fits, BlocksOn
  <2> QED
    BY <2>2, <2>3
<1>5. Fits(d, u, host)
  BY <1>3, <1>4 DEF Fits
<1> QED
  BY <1>5 DEF d, ch

\* Without the block of a service, what fitted fits the services without its entry.
LEMMA NoBlockFits ==
    ASSUME NEW s \in Services, NEW u \in Services, NEW name \in Names, NEW host,
           Fits(disk, s, host), \A n \in Names \ {name} : u[n] = s[n], u[name] = NoEntry,
           NEW ch, ch = [f \in {name} |-> NoBlock]
    PROVE  Fits(Over(disk, DOMAIN ch, ch), u, host)
<1> DEFINE d == Over(disk, DOMAIN ch, ch)
<1>1. DOMAIN ch = {name} /\ ch[name] = NoBlock /\ name # Caddyfile
  BY NamesAreFiles
<1>2. /\ d[Caddyfile] = disk[Caddyfile]
      /\ d[name] = NoBlock
      /\ \A n \in Names \ {name} : d[n] = disk[n]
  BY <1>1, OverAt, NamesAreFiles
<1> HIDE DEF d
<1>3. OneDomainOn(d)
  BY <1>2 DEF Fits, OneDomainOn
<1>4. host = "managed" => BlocksOn(d, u)
  BY <1>2, ConfigFileAssumption DEF Fits, BlocksOn, Exists
<1>5. Fits(d, u, host)
  BY <1>3, <1>4 DEF Fits
<1> QED
  BY <1>5 DEF d

\* What a sync has planned fits the services it has read, whatever the files were.
LEMMA PlanFits ==
    ASSUME NEW services \in Services, NEW domain \in Domains, NEW host
    PROVE  Fits(Over(disk, DOMAIN PlanSync(services, domain), PlanSync(services, domain)),
                services, host)
<1> DEFINE ch == PlanSync(services, domain)
           d == Over(disk, DOMAIN ch, ch)
           differ == {n \in Names : disk[n] # Planned(services, n, domain)}
<1>1. /\ DOMAIN ch = differ \cup {Caddyfile}
      /\ ch[Caddyfile] = domain
      /\ \A n \in differ : n # Caddyfile /\ ch[n] = Planned(services, n, domain)
  BY NamesAreFiles DEF PlanSync
<1> HIDE DEF ch
<1>2. /\ d[Caddyfile] = domain
      /\ \A n \in Names : d[n] = Planned(services, n, domain)
  BY <1>1, OverAt, NamesAreFiles
<1> HIDE DEF d
<1>3. OneDomainOn(d)
  <2>1. SUFFICES ASSUME NEW n \in Names, d[n] # NoBlock
                 PROVE  d[n] = Render(d[n].kind, d[Caddyfile])
    BY DEF OneDomainOn
  <2>2. d[n] = Render(services[n], domain) \/ d[n] = Render(disk[n].kind, domain)
    BY <1>2, <2>1 DEF Planned
  <2> QED
    BY <1>2, <2>2, RenderKind
<1>4. BlocksOn(d, services)
  BY <1>2 DEF BlocksOn, Planned
<1>5. Fits(d, services, host)
  BY <1>3, <1>4 DEF Fits
<1> QED
  BY <1>5 DEF d, ch

\* A host as setup-caddy.sh leaves it.
LEMMA InitAlone == Init => Alone
<1>1. SUFFICES ASSUME NEW services \in Services, NEW direct \in SUBSET Names,
                      NEW domain \in Domains,
                      \A n \in direct : services[n] = NoEntry,
                      ConfigInit(services),
                      SitesInit([f \in Files |->
                          IF f = Caddyfile THEN domain
                          ELSE IF f \in direct THEN Render("direct", domain)
                          ELSE IF services[f] = NoEntry THEN NoBlock
                          ELSE Render(services[f], domain)]),
                      cmd = [p \in Procs |-> NoCommand]
               PROVE  Alone
  BY DEF Init
<1> DEFINE files == [f \in Files |->
                          IF f = Caddyfile THEN domain
                          ELSE IF f \in direct THEN Render("direct", domain)
                          ELSE IF services[f] = NoEntry THEN NoBlock
                          ELSE Render(services[f], domain)]
<1>2. /\ files[Caddyfile] = domain
      /\ \A n \in Names : files[n] = IF n \in direct THEN Render("direct", domain)
                                     ELSE IF services[n] = NoEntry THEN NoBlock
                                     ELSE Render(services[n], domain)
  BY NamesAreFiles
<1>3. SitesInit(files)
  BY <1>1
<1> HIDE DEF files
<1>4. disk = files
  BY <1>3 DEF SitesInit
<1>5. \A n \in Names : disk[n] # NoBlock => disk[n] = Render(disk[n].kind, disk[Caddyfile])
  BY <1>2, <1>4, RenderKind
<1>6. \A n \in Names : Exists(services, n) => disk[n] = Render(services[n], disk[Caddyfile])
  BY <1>1, <1>2, <1>4 DEF Exists
<1>7. Fits(disk, services, status)
  BY <1>5, <1>6 DEF Fits, OneDomainOn, BlocksOn
<1>8. config.content = services /\ config.by = Nobody
  BY <1>1 DEF ConfigInit
<1>9. Whole
  BY <1>8, ConfigFileAssumption DEF Whole
<1>10. \A p \in Procs : ~ Running(p)
  BY <1>1, NoCommandTyped DEF Running
<1> QED
  BY <1>7, <1>8, <1>9, <1>10 DEF Alone, Sound

\* A step of the only command that runs.
LEMMA AloneStep ==
    ASSUME TInv, Alone, NEW p \in Procs, Running(p), overlapped' = overlapped,
           \A q \in Procs \ {p} : cmd'[q] = cmd[q],
           ~ overlapped => Whole',
           ~ overlapped /\ Running(p)' => (EditAlone(p) /\ CommandAlone(p) /\ TxAlone(p))',
           ~ overlapped /\ ~ Running(p)' => Sound(disk, config.content)'
    PROVE  Alone'
<1>1. SUFFICES ASSUME ~ overlapped
               PROVE  /\ \A q, r \in Procs : Running(q)' /\ Running(r)' => q = r
                      /\ Whole'
                      /\ AllIdle' => Sound(disk, config.content)'
                      /\ \A q \in Procs : Running(q)' => (EditAlone(q) /\ CommandAlone(q) /\ TxAlone(q))'
  BY DEF Alone
<1>2. \A q \in Procs \ {p} : ~ Running(q) /\ ~ Running(q)'
  BY <1>1 DEF Alone, Running
<1>3. AllIdle' => ~ Running(p)'
  BY DEF AllIdle, Running
<1> QED
  BY <1>1, <1>2, <1>3

\* A command begins: alone, or together with another one from now on.
LEMMA BeginAlone ==
    ASSUME TInv, Alone, NEW p \in Procs, NEW command, CommandTyped(command), Begin(p, command),
           command.op = "direct" => ~ Exists(config.content, command.name)
    PROVE  Alone'
<1> DEFINE c == [command EXCEPT !.at = "look", !.seen = config.content]
<1>1. SUFFICES ASSUME ~ overlapped'
               PROVE  Alone'
  BY DEF Alone
<1>2. /\ cmd[p].at = "idle" /\ config.content # Partial
      /\ cmd' = [cmd EXCEPT ![p] = c]
      /\ UNCHANGED <<status, configVars, siteVars>>
      /\ ~ overlapped
      /\ \A q \in Procs \ {p} : cmd[q].at = "idle"
  BY <1>1 DEF Begin, TInv, CommandTypes
<1>3. c.at = "look" /\ c.seen = config.content /\ c.op = command.op /\ c.name = command.name
  BY DEF CommandTyped, Command
<1> HIDE DEF c
<1>4. cmd'[p] = c /\ \A q \in Procs \ {p} : cmd'[q] = cmd[q]
  BY <1>2 DEF TInv, CommandTypes
<1>5. UNCHANGED <<config, tmp, edit, disk, tx, torn>>
  BY <1>2 DEF configVars, siteVars
<1>6. tx'[p].at = "none"
  BY <1>2, <1>5 DEF TInv, InPlace
<1>7. AllIdle /\ Whole /\ Sound(disk, config.content)
  BY <1>2 DEF AllIdle, Alone
<1>8. \A q \in Procs \ {p} : ~ Running(q)'
  BY <1>2, <1>4 DEF Running
<1>9. Running(p)' /\ ~ AllIdle'
  BY <1>3, <1>4 DEF Running, AllIdle
<1>10. EditAlone(p)'
  BY <1>3, <1>4 DEF EditAlone, Editing
<1>11. TxAlone(p)'
  BY <1>6 DEF TxAlone
<1>12. CommandAlone(p)'
  <2>1. "files" \notin torn => Fits(disk, c.seen, status)
    BY <1>3, <1>7 DEF Sound
  <2>2. c.op = "direct" => c.seen[c.name] = NoEntry
    BY <1>2, <1>3 DEF Exists
  <2> QED
    BY <1>2, <1>3, <1>4, <1>5, <2>1, <2>2 DEF CommandAlone, Sound
<1>13. Whole'
  BY <1>5, <1>7 DEF Whole
<1> QED
  BY <1>8, <1>9, <1>10, <1>11, <1>12, <1>13 DEF Alone

\* A step of an edit leaves everything but the configuration and its temporary file alone.
LEMMA EditStepAlone ==
    ASSUME TInv, Alone, NEW p \in Procs, EditSteps(p), UNCHANGED <<siteVars, cmdVars>>
    PROVE  Alone'
<1>1. UNCHANGED <<disk, tx, torn, status, cmd, overlapped>>
  BY DEF siteVars, cmdVars
<1>2. edit[p].at # "none" /\ ConfigTypeOK'
  BY EditTyped DEF TInv
<1>3. cmd[p].at \in Editing /\ Running(p) /\ Running(p)'
  BY <1>1, <1>2 DEF TInv, InPlace, Editing, Running
<1>4. SUFFICES ASSUME ~ overlapped
               PROVE  Whole' /\ (EditAlone(p) /\ CommandAlone(p) /\ TxAlone(p))'
  BY <1>1, <1>3, AloneStep
<1> DEFINE c == cmd[p]
           e == edit[p]
<1>5. CommandTyped(c) /\ EditAlone(p) /\ CommandAlone(p) /\ TxAlone(p) /\ Whole
  BY <1>3, <1>4 DEF Alone, TInv, CommandTypes
<1>6. c.op = IF c.at = "drop" THEN "rm" ELSE "add"
  BY <1>3, <1>5 DEF EditAlone
<1>7. /\ BeforeEdit(c) \in Services /\ AfterEdit(c) \in Services
      /\ [BeforeEdit(c) EXCEPT ![c.name] = EntryPut(c)] = AfterEdit(c)
      /\ BeforeEdit(c)[c.name] = EntryPut(c) => AfterEdit(c) = BeforeEdit(c)
  BY <1>3, <1>5, <1>6, EditMakes
<1>8. CommandAlone(p)'
  <2>1. cmd[p].at # "look" /\ cmd[p].at # "apply"
    BY <1>3 DEF Editing
  <2>2. OneBlock(cmd[p].name, cmd[p].entry)' = OneBlock(cmd[p].name, cmd[p].entry)
    BY <1>1 DEF OneBlock
  <2> QED
    BY <1>1, <1>5, <2>1, <2>2 DEF CommandAlone, Sound
<1>9. TxAlone(p)'
  BY <1>1, <1>5 DEF TxAlone, Sound, Mends
<1>10. /\ config \in File /\ tmp \in File \cup {NoFile}
       /\ edit = [q \in Procs |-> edit[q]] /\ edit[p] \in EditType
  BY DEF TInv, ConfigTypeOK
<1>11. e.at # "done" => config.content = BeforeEdit(c) /\ config.by = Nobody
  BY <1>3, <1>5 DEF EditAlone, Whole
<1>12. CASE ReadConfig(p)
  <2>1. /\ e.at = "read" /\ UNCHANGED <<config, tmp>>
        /\ config.content = BeforeEdit(c) /\ config.content # Partial
        /\ e.name = c.name /\ e.entry = EntryPut(c)
    BY <1>3, <1>5, <1>12 DEF ReadConfig, EditAlone, Whole
  <2>2. CASE e.entry = NoEntry /\ config.content[e.name] = NoEntry
    <3>1. edit' = [edit EXCEPT ![p] = Ended("done")]
      BY <1>12, <2>1, <2>2 DEF ReadConfig
    <3>2. edit'[p].at = "done"
      BY <1>10, <3>1, NoEditTyped
    <3>3. config.content = AfterEdit(c)
      BY <1>7, <2>1, <2>2
    <3> QED
      BY <1>1, <1>5, <1>6, <1>8, <1>9, <2>1, <3>2, <3>3 DEF EditAlone, Whole
  <2>3. CASE ~ (e.entry = NoEntry /\ config.content[e.name] = NoEntry)
    <3> DEFINE data == [config.content EXCEPT ![e.name] = e.entry]
               next == [e EXCEPT !.at = "unlink", !.data = data]
    <3>1. edit' = [edit EXCEPT ![p] = next]
      BY <1>12, <2>1, <2>3 DEF ReadConfig
    <3>2. data = AfterEdit(c)
      BY <1>7, <2>1
    <3> HIDE DEF data
    <3>3. next.at = "unlink" /\ next.name = e.name /\ next.entry = e.entry /\ next.data = data
      BY <1>10 DEF EditType
    <3> HIDE DEF next
    <3>4. edit'[p] = next
      BY <1>10, <3>1
    <3> QED
      BY <1>1, <1>5, <1>6, <1>8, <1>9, <2>1, <3>2, <3>3, <3>4 DEF EditAlone, Whole
  <2> QED
    BY <2>2, <2>3
<1>13. CASE UnlinkTmp(p)
  <2> DEFINE next == [e EXCEPT !.at = "create"]
  <2>1. /\ e.at = "unlink" /\ config' = config /\ tmp' = NoFile
        /\ edit' = [edit EXCEPT ![p] = next]
    BY <1>10, <1>13 DEF UnlinkTmp
  <2>2. next.at = "create" /\ next.name = e.name /\ next.entry = e.entry /\ next.data = e.data
    BY <1>10 DEF EditType
  <2> HIDE DEF next
  <2>3. edit'[p] = next
    BY <1>10, <2>1
  <2> QED
    BY <1>1, <1>3, <1>5, <1>8, <1>9, <2>1, <2>2, <2>3 DEF EditAlone, Whole
<1>14. CASE CreateTmp(p)
  <2> DEFINE next == [e EXCEPT !.at = "fill"]
  <2>1. e.at = "create" /\ tmp = NoFile
    BY <1>3, <1>5, <1>14 DEF CreateTmp, EditAlone
  <2>2. /\ config' = config /\ tmp' = [content |-> Partial, by |-> p]
        /\ edit' = [edit EXCEPT ![p] = next]
    BY <1>10, <1>14, <2>1 DEF CreateTmp
  <2>3. next.at = "fill" /\ next.name = e.name /\ next.entry = e.entry /\ next.data = e.data
    BY <1>10 DEF EditType
  <2> HIDE DEF next
  <2>4. edit'[p] = next
    BY <1>10, <2>2
  <2> QED
    BY <1>1, <1>3, <1>5, <1>8, <1>9, <2>1, <2>2, <2>3, <2>4 DEF EditAlone, Whole
<1>15. CASE FillTmp(p)
  <2> DEFINE next == [e EXCEPT !.at = "replace"]
  <2>1. e.at = "fill" /\ tmp = [content |-> Partial, by |-> p] /\ e.data = AfterEdit(c)
    BY <1>3, <1>5, <1>15 DEF FillTmp, EditAlone
  <2>2. config' = config
    BY <1>11, <1>15, <2>1, CtlAssumption DEF FillTmp, Filled
  <2>3. tmp # NoFile
    BY <2>1, ConfigFileAssumption DEF File
  <2>4. tmp' = [content |-> AfterEdit(c), by |-> Nobody] /\ edit' = [edit EXCEPT ![p] = next]
    BY <1>10, <1>15, <2>1, <2>3 DEF FillTmp, Filled
  <2>5. next.at = "replace" /\ next.name = e.name /\ next.entry = e.entry /\ next.data = e.data
    BY <1>10 DEF EditType
  <2> HIDE DEF next
  <2>6. edit'[p] = next
    BY <1>10, <2>4
  <2> QED
    BY <1>1, <1>3, <1>5, <1>8, <1>9, <2>1, <2>2, <2>4, <2>5, <2>6 DEF EditAlone, Whole
<1>16. CASE FillFails(p)
  <2>1. e.at = "fill" /\ edit' = [edit EXCEPT ![p] = Ended("raised")]
    BY <1>16 DEF FillFails
  <2>2. config' = config
    BY <1>11, <1>16, <2>1, CtlAssumption DEF FillFails, Abandoned
  <2>3. edit'[p].at = "raised"
    BY <1>10, <2>1, NoEditTyped
  <2> QED
    BY <1>1, <1>3, <1>5, <1>8, <1>9, <2>1, <2>2, <2>3 DEF EditAlone, Whole
<1>17. CASE ReplaceConfig(p)
  <2>1. e.at = "replace" /\ tmp = [content |-> AfterEdit(c), by |-> Nobody]
    BY <1>3, <1>5, <1>17 DEF ReplaceConfig, EditAlone
  <2>2. tmp # NoFile
    BY <1>7, <2>1, ConfigFileAssumption DEF File
  <2>3. config' = tmp /\ edit' = [edit EXCEPT ![p] = Ended("done")]
    BY <1>17, <2>2 DEF ReplaceConfig
  <2>4. edit'[p].at = "done"
    BY <1>10, <2>3, NoEditTyped
  <2>5. config'.content = AfterEdit(c) /\ config'.by = Nobody /\ AfterEdit(c) # Partial
    BY <1>7, <2>1, <2>3, ConfigFileAssumption
  <2> QED
    BY <1>1, <1>5, <1>6, <1>8, <1>9, <2>4, <2>5 DEF EditAlone, Whole
<1> QED
  BY <1>12, <1>13, <1>14, <1>15, <1>16, <1>17 DEF EditSteps

\* Under the lock, the files as kept and the files as they will be stay what they were.
LEMMA TxStepAlone ==
    ASSUME TInv, Alone, NEW p \in Procs, TxSteps(p), UNCHANGED <<configVars, cmdVars>>
    PROVE  Alone'
<1>1. UNCHANGED <<config, tmp, edit, status, cmd, overlapped>>
  BY DEF configVars, cmdVars
<1>2. /\ cmd[p].at = "apply" /\ Running(p) /\ Running(p)'
      /\ TxTyped(tx[p]) /\ tx[p] \in Transaction /\ SiteTypes
  BY <1>1, TxStepTyped DEF TInv, InPlace, Running, SiteTypes, TxTyped
<1>3. SUFFICES ASSUME ~ overlapped
               PROVE  TxAlone(p)'
  <2>1. ~ overlapped => Whole'
    BY <1>1, <1>2 DEF Alone, Whole
  <2>2. EditAlone(p)'
    BY <1>1, <1>2 DEF EditAlone, Editing
  <2>3. ~ overlapped => CommandAlone(p)'
    BY <1>1, <1>2 DEF Alone, CommandAlone
  <2> QED
    BY <1>1, <1>2, <1>3, <2>1, <2>2, <2>3, AloneStep
<1>4. TxAlone(p)
  BY <1>2, <1>3 DEF Alone
<1> DEFINE t == tx[p]
           c == cmd[p]
<1>5. disk = [f \in Files |-> disk[f]] /\ tx = [q \in Procs |-> tx[q]]
  BY <1>2 DEF SiteTypes
\* The end of a transaction, where only the files as they are matter.
<1>6. ASSUME NEW at \in {"ok", "refused", "raised"}, tx' = [tx EXCEPT ![p] = [NoTx EXCEPT !.at = at]],
             at = "ok" /\ (c.op = "sync" \/ "files" \notin torn') => Fits(disk', Want(c), status),
             at # "ok" /\ "files" \notin torn' => Fits(disk', c.seen, status)
      PROVE  TxAlone(p)'
  <2> DEFINE u == [NoTx EXCEPT !.at = at]
  <2>1. u.at = at
    BY EndedIsTx
  <2> HIDE DEF u
  <2>2. tx'[p] = u
    BY <1>5, <1>6 DEF u
  <2> QED
    BY <1>1, <1>6, <2>1, <2>2 DEF TxAlone, Sound, Mends
<1>7. CASE GiveUpLock(p)
  BY <1>4, <1>6, <1>7 DEF GiveUpLock, TxAlone, Sound
<1>8. CASE TakeLock(p)
  <2> DEFINE changes == t.todo
             todo == {f \in DOMAIN changes : disk[f] # changes[f]}
             new == [f \in todo |-> changes[f]]
             old == [f \in todo |-> disk[f]]
             u == [t EXCEPT !.at = "check", !.todo = new, !.snapshots = old]
  <2>1. /\ t.at = "lock" /\ UNCHANGED <<disk, torn>>
        /\ Sound(disk, c.seen)
        /\ Mends(p) => Fits(Over(disk, DOMAIN changes, changes), Want(c), status)
    BY <1>4, <1>8 DEF TakeLock, TxAlone
  <2>2. CASE todo = {}
    <3>1. EndTx(p, "ok")
      BY <1>8, <2>2 DEF TakeLock
    <3>2. Over(disk, DOMAIN changes, changes) = disk
      BY <1>5, <2>2, OverSame
    <3> QED
      BY <1>6, <2>1, <3>1, <3>2 DEF EndTx, Mends
  <2>3. CASE todo # {}
    <3>1. tx' = [tx EXCEPT ![p] = u]
      BY <1>8, <2>3 DEF TakeLock
    <3>2. Over(disk, todo, new) = Over(disk, DOMAIN changes, changes)
      <4>1. \A f \in Files : (IF f \in todo THEN new[f] ELSE disk[f])
                                = (IF f \in DOMAIN changes THEN changes[f] ELSE disk[f])
        OBVIOUS
      <4> QED
        BY <4>1 DEF Over
    <3>3. DOMAIN new = todo /\ \A f \in DOMAIN old : old[f] = disk[f]
      OBVIOUS
    <3> HIDE DEF new, old, todo
    <3>4. u.at = "check" /\ u.todo = new /\ u.snapshots = old
      BY <1>2 DEF Transaction
    <3> HIDE DEF u
    <3>5. tx'[p] = u
      BY <1>5, <3>1
    <3>6. Fits(Over(disk, DOMAIN u.todo, u.todo), Want(c), status) \/ ~ Mends(p)
      BY <2>1, <3>2, <3>3, <3>4
    <3> QED
      BY <1>1, <2>1, <3>3, <3>4, <3>5, <3>6 DEF TxAlone, Sound, Mends
  <2> QED
    BY <2>2, <2>3
<1>9. CASE Validate(p)
  <2> DEFINE u == [t EXCEPT !.at = "write", !.left = DOMAIN t.todo]
  <2>1. /\ t.at = "check" /\ UNCHANGED <<disk, torn>>
        /\ tx' = [tx EXCEPT ![p] = u]
    BY <1>5, <1>9 DEF Validate
  <2>2. u.at = "write" /\ u.left = DOMAIN t.todo /\ u.todo = t.todo /\ u.snapshots = t.snapshots
    BY <1>2 DEF Transaction
  <2> HIDE DEF u
  <2>3. tx'[p] = u
    BY <1>5, <2>1
  <2>4. Over(disk, DOMAIN t.snapshots, t.snapshots) = disk
    BY <1>4, <1>5, <2>1, OverSame DEF TxAlone
  <2> QED
    BY <1>1, <1>4, <2>1, <2>2, <2>3, <2>4 DEF TxAlone, Sound, Mends
<1>10. CASE Reject(p)
  <2>1. PICK result \in {"refused", "raised"} : EndTx(p, result)
    BY <1>10 DEF Reject
  <2>2. t.at = "check" /\ UNCHANGED <<disk, torn>>
    BY <1>10 DEF Reject
  <2> QED
    BY <1>4, <1>6, <2>1, <2>2 DEF EndTx, TxAlone, Sound
<1>11. CASE WriteFile(p)
  <2>1. PICK f \in t.left :
            /\ disk' = [disk EXCEPT ![f] = t.todo[f]]
            /\ tx' = [tx EXCEPT ![p].left = @ \ {f},
                                ![p].at = IF t.left = {f} THEN "load" ELSE "write"]
    BY <1>11 DEF WriteFile
  <2> DEFINE next == IF t.left = {f} THEN "load" ELSE "write"
             left == t.left \ {f}
             u == [t EXCEPT !.left = left, !.at = next]
  <2>2. /\ t.at = "write" /\ torn' = torn
        /\ t.left \subseteq DOMAIN t.todo /\ DOMAIN t.todo = DOMAIN t.snapshots
    BY <1>2, <1>11 DEF WriteFile, TxTyped
  <2>3. f \in Files /\ f \in DOMAIN t.todo
    BY <1>2, <2>2, SettingsFiles DEF TxTyped
  <2>4. disk'[f] = t.todo[f] /\ \A g \in Files \ {f} : disk'[g] = disk[g]
    BY <1>5, <2>1, <2>3
  <2>5. tx' = [tx EXCEPT ![p] = u]
    BY <1>5, <2>1
  <2>6. u.at = next /\ u.left = left /\ u.todo = t.todo /\ u.snapshots = t.snapshots
    BY <1>2 DEF Transaction
  <2> HIDE DEF u
  <2>7. tx'[p] = u
    BY <1>5, <2>5
  <2>8. Over(disk', DOMAIN t.todo, t.todo) = Over(disk, DOMAIN t.todo, t.todo)
    BY <2>3, <2>4 DEF Over
  <2>9. Over(disk', DOMAIN t.snapshots, t.snapshots) = Over(disk, DOMAIN t.snapshots, t.snapshots)
    BY <2>2, <2>3, <2>4 DEF Over
  <2>10. DOMAIN t.todo \subseteq Files
    BY <1>2, SettingsFiles DEF TxTyped
  <2>11. \A g \in DOMAIN t.todo \ left : disk'[g] = t.todo[g]
    BY <1>4, <2>2, <2>4, <2>10 DEF TxAlone
  <2>12. /\ next \in {"write", "load"}
         /\ next = "load" => left = {}
    OBVIOUS
  <2> HIDE DEF next, left
  <2>13. next = "load" => \A g \in DOMAIN t.todo : disk'[g] = t.todo[g]
    BY <2>11, <2>12
  <2>14. "files" \notin torn' => Fits(Over(disk', DOMAIN u.snapshots, u.snapshots), c.seen, status')
    BY <1>1, <1>4, <2>2, <2>6, <2>9 DEF TxAlone, Sound
  <2>15. Mends(p)' => Fits(Over(disk', DOMAIN u.todo, u.todo), Want(c), status')
    BY <1>1, <1>4, <2>2, <2>6, <2>8 DEF TxAlone, Mends
  <2> QED
    BY <1>1, <2>6, <2>7, <2>11, <2>12, <2>13, <2>14, <2>15 DEF TxAlone, Sound
<1>12. ASSUME NEW raise, ToRestore(p, raise), disk' = disk, "files" \in torn => "files" \in torn',
              t.at \in {"write", "load"}
       PROVE  TxAlone(p)'
  <2> DEFINE u == [t EXCEPT !.at = "restore", !.left = DOMAIN t.snapshots, !.raise = raise]
  <2>1. tx' = [tx EXCEPT ![p] = u]
    BY <1>5, <1>12 DEF ToRestore
  <2>2. u.at = "restore" /\ u.left = DOMAIN t.snapshots /\ u.snapshots = t.snapshots
    BY <1>2 DEF Transaction
  <2> HIDE DEF u
  <2>3. tx'[p] = u
    BY <1>5, <2>1
  <2> QED
    BY <1>1, <1>4, <1>12, <2>2, <2>3 DEF TxAlone, Sound
<1>13. CASE WriteFails(p)
  BY <1>12, <1>13 DEF WriteFails
<1>14. CASE Reload(p)
  <2>1. /\ t.at = "load" /\ EndTx(p, "ok") /\ disk' = disk
        /\ "files" \in torn' <=> "files" \in torn
    BY <1>14 DEF Reload
  <2>2. Over(disk, DOMAIN t.todo, t.todo) = disk
    BY <1>4, <1>5, <2>1, OverSame DEF TxAlone
  <2> QED
    BY <1>4, <1>6, <2>1, <2>2 DEF EndTx, TxAlone, Mends
<1>15. CASE ReloadFails(p)
  <2>1. PICK raise \in BOOLEAN : ToRestore(p, raise)
    BY <1>15 DEF ReloadFails
  <2>2. t.at = "load" /\ disk' = disk /\ ("files" \in torn => "files" \in torn')
    BY <1>15 DEF ReloadFails
  <2> QED
    BY <1>12, <2>1, <2>2
<1>16. CASE RestoreFile(p)
  <2>1. PICK f \in t.left :
            /\ \/ disk' = [disk EXCEPT ![f] = t.snapshots[f]] /\ UNCHANGED torn
               \/ UNCHANGED disk /\ torn' = {"running", "files"}
            /\ IF t.left = {f}
               THEN EndTx(p, IF t.raise THEN "raised" ELSE "refused")
               ELSE tx' = [tx EXCEPT ![p].left = @ \ {f}] /\ UNCHANGED lock
    BY <1>16 DEF RestoreFile
  <2>2. t.at = "restore" /\ t.left \subseteq DOMAIN t.snapshots
    BY <1>2, <1>16 DEF RestoreFile, TxTyped
  <2>3. f \in Files
    BY <1>2, <2>2, SettingsFiles DEF TxTyped
  <2>4. "files" \notin torn' => Over(disk', t.left \ {f}, t.snapshots) = Over(disk, t.left, t.snapshots)
    <3>1. SUFFICES ASSUME "files" \notin torn'
                   PROVE  Over(disk', t.left \ {f}, t.snapshots) = Over(disk, t.left, t.snapshots)
      OBVIOUS
    <3>2. disk'[f] = t.snapshots[f] /\ \A g \in Files \ {f} : disk'[g] = disk[g]
      BY <1>5, <2>1, <2>3, <3>1
    <3> QED
      BY <2>1, <2>3, <3>2 DEF Over
  <2>5. "files" \notin torn' => Fits(Over(disk', t.left \ {f}, t.snapshots), c.seen, status)
    BY <1>4, <2>1, <2>2, <2>4 DEF TxAlone, Sound
  <2>6. CASE t.left = {f}
    <3> DEFINE result == IF t.raise THEN "raised" ELSE "refused"
    <3>1. EndTx(p, result) /\ result \in {"raised", "refused"}
      BY <2>1, <2>6
    <3> HIDE DEF result
    <3>2. disk' = [g \in Files |-> disk'[g]]
      BY <1>5, <2>1
    <3>3. Over(disk', t.left \ {f}, t.snapshots) = disk'
      BY <2>6, <3>2, OverSame
    <3> QED
      BY <1>6, <2>5, <3>1, <3>3 DEF EndTx
  <2>7. CASE t.left # {f}
    <3> DEFINE left == t.left \ {f}
               u == [t EXCEPT !.left = left]
    <3>1. tx' = [tx EXCEPT ![p] = u]
      BY <1>5, <2>1, <2>7
    <3>2. u.at = "restore" /\ u.left = left /\ u.snapshots = t.snapshots
      BY <1>2, <2>2 DEF Transaction
    <3> HIDE DEF u
    <3>3. tx'[p] = u
      BY <1>5, <3>1
    <3> QED
      BY <1>1, <2>5, <3>2, <3>3 DEF TxAlone, Sound
  <2> QED
    BY <2>6, <2>7
<1> QED
  BY <1>7, <1>8, <1>9, <1>10, <1>11, <1>13, <1>14, <1>15, <1>16 DEF TxSteps

\* A command that goes on keeps all but its place.
LEMMA GotoFields ==
    ASSUME TInv, NEW p \in Procs, NEW at, Goto(p, at)
    PROVE  /\ cmd'[p].at = at
           /\ cmd'[p].op = cmd[p].op /\ cmd'[p].name = cmd[p].name
           /\ cmd'[p].entry = cmd[p].entry /\ cmd'[p].seen = cmd[p].seen
           /\ cmd'[p].changes = cmd[p].changes
           /\ Want(cmd'[p]) = Want(cmd[p])
           /\ \A q \in Procs \ {p} : cmd'[q] = cmd[q]
<1> DEFINE c == [cmd[p] EXCEPT !.at = at]
<1>1. cmd[p] \in Command
  BY DEF TInv, CommandTypes, CommandTyped
<1>2. /\ c.at = at /\ c.op = cmd[p].op /\ c.name = cmd[p].name /\ c.entry = cmd[p].entry
      /\ c.seen = cmd[p].seen /\ c.changes = cmd[p].changes
  BY <1>1 DEF Command
<1>3. cmd' = [cmd EXCEPT ![p] = c]
  BY DEF Goto, TInv, CommandTypes
<1> HIDE DEF c
<1>4. cmd'[p] = c /\ \A q \in Procs \ {p} : cmd'[q] = cmd[q]
  BY <1>3 DEF TInv, CommandTypes
<1>5. Want(c) = Want(cmd[p])
  BY <1>2, SameWant
<1> QED
  BY <1>2, <1>4, <1>5

\* A command that is over.
LEMMA FinishFields ==
    ASSUME TInv, NEW p \in Procs, Finish(p)
    PROVE  ~ Running(p)' /\ \A q \in Procs \ {p} : cmd'[q] = cmd[q]
  BY NoCommandTyped DEF Finish, TInv, CommandTypes, Running

\* The fields of an edit that begins.
LEMMA BeginEditFields ==
    ASSUME TInv, NEW p \in Procs, NEW name, NEW entry, BeginEdit(p, name, entry)
    PROVE  /\ edit'[p].at = "read" /\ edit'[p].name = name /\ edit'[p].entry = entry
           /\ UNCHANGED <<config, tmp>>
<1> DEFINE e == [edit[p] EXCEPT !.at = "read", !.name = name, !.entry = entry]
<1>1. e.at = "read" /\ e.name = name /\ e.entry = entry
  BY DEF TInv, ConfigTypeOK, EditType
<1>2. edit' = [edit EXCEPT ![p] = e]
  BY DEF BeginEdit, TInv, ConfigTypeOK
<1> HIDE DEF e
<1> QED
  BY <1>1, <1>2 DEF BeginEdit, TInv, ConfigTypeOK

\* And of a transaction that does.
LEMMA BeginTxFields ==
    ASSUME TInv, NEW p \in Procs, NEW changes, BeginTx(p, changes)
    PROVE  /\ tx'[p].at = "lock" /\ tx'[p].todo = changes
           /\ UNCHANGED <<disk, torn>>
<1> DEFINE t == [NoTx EXCEPT !.at = "lock", !.todo = changes]
<1>1. t.at = "lock" /\ t.todo = changes
  BY DEF NoTx
<1>2. tx' = [tx EXCEPT ![p] = t]
  BY DEF BeginTx
<1> HIDE DEF t
<1> QED
  BY <1>1, <1>2 DEF BeginTx, TInv, SiteTypes

\* A command hands its changes over: the files fit what it saw, and will fit what it is for.
LEMMA ApplyAlone ==
    ASSUME TInv, Alone, ~ overlapped, NEW p \in Procs, Running(p), NEW changes,
           BeginTx(p, changes), Goto(p, "apply"), UNCHANGED <<status, overlapped>>,
           config' = config,
           cmd[p].op = "direct" => cmd[p].seen[cmd[p].name] = NoEntry,
           config.content = IF cmd[p].op = "add" THEN Want(cmd[p]) ELSE cmd[p].seen,
           Sound(disk, cmd[p].seen),
           Mends(p) => Fits(Over(disk, DOMAIN changes, changes), Want(cmd[p]), status)
    PROVE  Alone'
<1>1. /\ cmd'[p].at = "apply"
      /\ cmd'[p].op = cmd[p].op /\ cmd'[p].name = cmd[p].name
      /\ cmd'[p].seen = cmd[p].seen /\ Want(cmd'[p]) = Want(cmd[p])
      /\ \A q \in Procs \ {p} : cmd'[q] = cmd[q]
  BY GotoFields
<1>2. tx'[p].at = "lock" /\ tx'[p].todo = changes /\ UNCHANGED <<disk, torn>>
  BY BeginTxFields
<1>3. EditAlone(p)'
  BY <1>1 DEF EditAlone, Editing
<1>4. CommandAlone(p)'
  BY <1>1, <1>2 DEF CommandAlone
<1>5. TxAlone(p)'
  BY <1>1, <1>2 DEF TxAlone, Sound, Mends
<1>6. Whole'
  BY DEF Alone, Whole
<1> QED
  BY <1>1, <1>3, <1>4, <1>5, <1>6, AloneStep DEF Running

\* A command edits its entry, or another: the files fit what the services will be.
LEMMA EditBeginsAlone ==
    ASSUME TInv, Alone, ~ overlapped, NEW p \in Procs, Running(p),
           NEW at \in {"undo", "drop"}, Goto(p, at), UNCHANGED <<status, overlapped, disk>>,
           cmd[p].op = IF at = "drop" THEN "rm" ELSE "add",
           BeginEdit(p, cmd[p].name, IF at = "drop" THEN NoEntry ELSE cmd[p].seen[cmd[p].name]),
           config.content = IF at = "drop" THEN cmd[p].seen ELSE Want(cmd[p]),
           "files" \notin torn' =>
               Fits(disk, IF at = "drop" THEN Want(cmd[p]) ELSE cmd[p].seen, status),
           tx'[p].at = "none"
    PROVE  Alone'
<1>1. /\ cmd'[p].at = at
      /\ cmd'[p].op = cmd[p].op /\ cmd'[p].name = cmd[p].name
      /\ cmd'[p].seen = cmd[p].seen /\ Want(cmd'[p]) = Want(cmd[p])
      /\ \A q \in Procs \ {p} : cmd'[q] = cmd[q]
  BY GotoFields
<1>2. /\ edit'[p].at = "read" /\ edit'[p].name = cmd[p].name
      /\ edit'[p].entry = IF at = "drop" THEN NoEntry ELSE cmd[p].seen[cmd[p].name]
      /\ UNCHANGED <<config, tmp>>
  BY BeginEditFields
<1>3. BeforeEdit(cmd'[p]) = config.content /\ EntryPut(cmd'[p]) = edit'[p].entry
  BY <1>1, <1>2 DEF BeforeEdit, EntryPut
<1>4. EditAlone(p)'
  BY <1>1, <1>2, <1>3 DEF EditAlone
<1>5. CommandAlone(p)'
  BY <1>1, <1>2 DEF CommandAlone, Sound
<1>6. TxAlone(p)'
  BY DEF TxAlone
<1>7. Whole'
  BY <1>2 DEF Alone, Whole
<1> QED
  BY <1>1, <1>4, <1>5, <1>6, <1>7, AloneStep DEF Running

\* A command is over: the files fit the configuration as it is.
LEMMA FinishAlone ==
    ASSUME TInv, Alone, ~ overlapped, NEW p \in Procs, Running(p), Finish(p),
           UNCHANGED <<status, overlapped, disk>>, Whole',
           "files" \notin torn' => Fits(disk, config'.content, status)
    PROVE  Alone'
  BY FinishFields, AloneStep DEF Sound

\* The entry of a name is dropped, or it was not there.
LEMMA DropAlone ==
    ASSUME TInv, Alone, ~ overlapped, NEW p \in Procs, Running(p), Drop(p),
           UNCHANGED <<status, overlapped, disk>>,
           cmd[p].op = "rm", config.content = cmd[p].seen,
           "files" \notin torn' => Fits(disk, Want(cmd[p]), status),
           tx'[p].at = "none"
    PROVE  Alone'
<1>1. CommandTyped(cmd[p])
  BY DEF TInv, CommandTypes
<1>2. CASE Exists(cmd[p].seen, cmd[p].name)
  <2>1. BeginEdit(p, cmd[p].name, NoEntry) /\ Goto(p, "drop")
    BY <1>2 DEF Drop
  <2> QED
    BY <2>1, EditBeginsAlone
<1>3. CASE ~ Exists(cmd[p].seen, cmd[p].name)
  <2>1. Finish(p) /\ UNCHANGED configVars
    BY <1>3 DEF Drop
  <2>2. cmd[p].seen \in Services /\ Want(cmd[p]) \in Services
    BY <1>1, Wanted
  <2>3. cmd[p].seen[cmd[p].name] = NoEntry
    BY <1>3, <2>2, ConfigFileAssumption DEF Exists
  <2>4. Want(cmd[p]) = cmd[p].seen
    BY <1>1, <2>2, <2>3, Wanted, SameServices
  <2>5. config' = config /\ Whole'
    BY <2>1 DEF configVars, Alone, Whole
  <2> QED
    BY <2>1, <2>4, <2>5, FinishAlone
<1> QED
  BY <1>2, <1>3

\* What a command decides from the files as it finds them.
LEMMA LookAlone ==
    ASSUME TInv, Alone, NEW p \in Procs, Look(p)
    PROVE  Alone'
<1>1. /\ cmd[p].at = "look" /\ tx[p].at = "none" /\ UNCHANGED <<status, overlapped>>
      /\ CommandTyped(cmd[p]) /\ Running(p)
  BY DEF Look, TInv, InPlace, CommandTypes, Running
<1>2. SUFFICES ASSUME ~ overlapped
               PROVE  Alone'
  BY <1>1 DEF Alone
<1> DEFINE c == cmd[p]
<1>3. /\ CommandAlone(p) /\ Whole
      /\ Sound(disk, c.seen) /\ config.content = c.seen
  BY <1>1, <1>2 DEF Alone, CommandAlone
<1>4. /\ Want(c) \in Services /\ c.seen \in Services
      /\ c.op \notin {"add", "rm"} => Want(c) = c.seen
      /\ c.op \in {"add", "rm"} =>
            /\ c.name \in Names
            /\ Want(c)[c.name] = IF c.op = "add" THEN c.entry ELSE NoEntry
            /\ \A n \in Names \ {c.name} : Want(c)[n] = c.seen[n]
  BY <1>1, Wanted
<1>5. CASE LookAdd(p) /\ Finish(p) /\ UNCHANGED configVars
  <2>1. UNCHANGED <<disk, torn, config>>
    BY <1>5 DEF LookAdd, siteVars, configVars
  <2> QED
    BY <1>1, <1>2, <1>3, <1>5, <2>1, FinishAlone DEF Sound, Whole
<1>6. CASE LookAdd(p) /\ ~ (Finish(p) /\ UNCHANGED configVars)
  <2> DEFINE changes == IF status = "managed" THEN OneBlock(c.name, c.entry) ELSE NoChange
             d == [c EXCEPT !.at = "put", !.changes = changes]
  <2>1. /\ c.op = "add"
        /\ BeginEdit(p, c.name, c.entry)
        /\ cmd' = [cmd EXCEPT ![p] = d]
        /\ UNCHANGED <<disk, torn, tx>>
    BY <1>6 DEF LookAdd, siteVars, TInv, CommandTypes
  <2>2. status = "managed" => changes = OneBlock(c.name, c.entry)
    OBVIOUS
  <2> HIDE DEF changes
  <2>3. /\ d.at = "put" /\ d.op = "add" /\ d.name = c.name /\ d.entry = c.entry
        /\ d.seen = c.seen /\ d.changes = changes
    BY <1>1, <2>1 DEF CommandTyped, Command
  <2> HIDE DEF d
  <2>4. cmd'[p] = d /\ \A q \in Procs \ {p} : cmd'[q] = cmd[q]
    BY <2>1 DEF TInv, CommandTypes
  <2>5. edit'[p].at = "read" /\ edit'[p].name = c.name /\ edit'[p].entry = c.entry
        /\ UNCHANGED <<config, tmp>>
    BY <2>1, BeginEditFields
  <2>6. BeforeEdit(d) = c.seen /\ EntryPut(d) = c.entry
    BY <2>3 DEF BeforeEdit, EntryPut
  <2>7. EditAlone(p)'
    BY <1>3, <2>3, <2>4, <2>5, <2>6 DEF EditAlone
  <2>8. CommandAlone(p)'
    <3>1. [f \in {c.name, Caddyfile} |->
              IF f = c.name THEN Render(c.entry, disk'[Caddyfile]) ELSE disk'[Caddyfile]]
            = OneBlock(c.name, c.entry)
      BY <2>1 DEF OneBlock
    <3> QED
      BY <1>1, <1>3, <2>1, <2>2, <2>3, <2>4, <3>1 DEF CommandAlone, Sound, OneBlock
  <2>9. TxAlone(p)'
    BY <1>1, <2>1 DEF TxAlone
  <2>10. Whole'
    BY <1>3, <2>5 DEF Whole
  <2> QED
    BY <1>1, <2>3, <2>4, <2>7, <2>8, <2>9, <2>10, AloneStep DEF Running
<1>7. CASE LookDirect(p)
  <2>1. /\ c.op = "direct" /\ BeginTx(p, OneBlock(c.name, "direct")) /\ Goto(p, "apply")
        /\ UNCHANGED configVars
    BY <1>7 DEF LookDirect
  <2>2. c.name \in Names /\ c.seen[c.name] = NoEntry
    BY <1>1, <1>3, <2>1 DEF CommandTyped, CommandAlone
  <2>3. Mends(p) => Fits(Over(disk, DOMAIN OneBlock(c.name, "direct"), OneBlock(c.name, "direct")),
                         Want(c), status)
    BY <1>3, <1>4, <2>1, <2>2, OneBlockFits DEF Sound, Mends
  <2>4. config' = config
    BY <2>1 DEF configVars
  <2> QED
    BY <1>1, <1>2, <1>3, <2>1, <2>2, <2>3, <2>4, ApplyAlone
<1>8. CASE LookSync(p)
  <2>1. PICK domain \in Domains : BeginTx(p, PlanSync(c.seen, domain))
    BY <1>8 DEF LookSync
  <2>2. c.op = "sync" /\ Goto(p, "apply") /\ config' = config
    BY <1>8 DEF LookSync, configVars
  <2>3. Fits(Over(disk, DOMAIN PlanSync(c.seen, domain), PlanSync(c.seen, domain)), Want(c), status)
    BY <1>4, <2>2, PlanFits
  <2> HIDE DEF c
  <2> QED
    BY <1>1, <1>2, <1>3, <2>1, <2>2, <2>3, ApplyAlone DEF c
<1>9. CASE LookRm(p) /\ Drop(p) /\ UNCHANGED siteVars
  <2>1. c.op = "rm" /\ UNCHANGED <<disk, torn, tx>>
    BY <1>9 DEF LookRm, siteVars
  <2>2. \A n \in Names : Want(c)[n] = c.seen[n] \/ Want(c)[n] = NoEntry
    BY <1>4, <2>1
  <2>3. "files" \notin torn => Fits(disk, Want(c), status)
    BY <1>3, <1>4, <2>2, FewerFit DEF Sound
  <2> QED
    BY <1>1, <1>2, <1>3, <1>9, <2>1, <2>3, DropAlone
<1>10. CASE LookRm(p) /\ ~ (Drop(p) /\ UNCHANGED siteVars)
  <2> DEFINE ch == [f \in {c.name} |-> NoBlock]
  <2>1. /\ c.op = "rm" /\ BeginTx(p, ch) /\ Goto(p, "apply") /\ config' = config
    BY <1>10 DEF LookRm, configVars
  <2>2. ch = [f \in {c.name} |-> NoBlock]
    OBVIOUS
  <2> HIDE DEF ch
  <2>3. Mends(p) => Fits(Over(disk, DOMAIN ch, ch), Want(c), status)
    BY <1>3, <1>4, <2>1, <2>2, NoBlockFits DEF Sound, Mends
  <2> QED
    BY <1>1, <1>2, <1>3, <2>1, <2>3, ApplyAlone
<1> QED
  BY <1>1, <1>5, <1>6, <1>7, <1>8, <1>9, <1>10 DEF Look

\* The entry is written, or the configuration is as it was.
LEMMA PutAlone ==
    ASSUME TInv, Alone, NEW p \in Procs, Put(p)
    PROVE  Alone'
<1>1. /\ cmd[p].at = "put" /\ UNCHANGED <<config, status, overlapped>>
      /\ CommandTyped(cmd[p]) /\ Running(p)
  BY DEF Put, TInv, CommandTypes, Running
<1>2. SUFFICES ASSUME ~ overlapped
               PROVE  Alone'
  BY <1>1 DEF Alone
<1> DEFINE c == cmd[p]
<1>3. /\ EditAlone(p) /\ CommandAlone(p) /\ Whole
      /\ Sound(disk, c.seen) /\ c.op = "add"
  BY <1>1, <1>2 DEF Alone, EditAlone, CommandAlone, Editing
<1>4. /\ Want(c) \in Services /\ c.seen \in Services /\ c.name \in Names
      /\ Want(c)[c.name] = c.entry
      /\ \A n \in Names \ {c.name} : Want(c)[n] = c.seen[n]
  BY <1>1, <1>3, Wanted
<1>5. config.content = IF edit[p].at = "done" THEN Want(c) ELSE c.seen
  BY <1>1, <1>3 DEF EditAlone, Editing, BeforeEdit, AfterEdit
<1>6. Whole'
  BY <1>1, <1>3 DEF Whole
<1>7. CASE edit[p].at = "done" /\ status = "managed"
  <2>1. BeginTx(p, c.changes) /\ Goto(p, "apply")
    BY <1>7 DEF Put
  <2>2. c.changes = OneBlock(c.name, c.entry)
    BY <1>1, <1>3, <1>7 DEF CommandAlone
  <2>3. Mends(p) => Fits(Over(disk, DOMAIN c.changes, c.changes), Want(c), status)
    BY <1>3, <1>4, <2>2, OneBlockFits DEF Sound, Mends
  <2> QED
    BY <1>1, <1>2, <1>3, <1>5, <1>7, <2>1, <2>3, ApplyAlone
<1>8. CASE ~ (edit[p].at = "done" /\ status = "managed")
  <2>1. Finish(p) /\ UNCHANGED <<disk, torn>>
    BY <1>8 DEF Put, siteVars
  <2>2. "files" \notin torn => Fits(disk, config.content, status)
    BY <1>3, <1>5, <1>8 DEF Sound, Fits
  <2> QED
    BY <1>1, <1>2, <1>6, <2>1, <2>2, FinishAlone
<1> QED
  BY <1>7, <1>8

\* The transaction left the files as they were, or as they were to be.
LEMMA AppliedAlone ==
    ASSUME TInv, Alone, NEW p \in Procs, Applied(p)
    PROVE  Alone'
<1>1. /\ cmd[p].at = "apply" /\ UNCHANGED <<status, overlapped>>
      /\ tx[p].at \in {"ok", "refused", "raised"} /\ CloseTx(p)
      /\ CommandTyped(cmd[p]) /\ Running(p)
  BY DEF Applied, TInv, CommandTypes, Running
<1>2. SUFFICES ASSUME ~ overlapped
               PROVE  Alone'
  BY <1>1 DEF Alone
<1> DEFINE c == cmd[p]
<1>3. CommandAlone(p) /\ TxAlone(p) /\ Whole
  BY <1>1, <1>2 DEF Alone
<1>4. config.content = IF c.op = "add" THEN Want(c) ELSE c.seen
  BY <1>1, <1>3 DEF CommandAlone
<1>5. disk' = disk /\ tx'[p].at = "none"
  BY <1>1, NoTxIsTx DEF CloseTx, TInv, SiteTypes
<1>6. "files" \notin torn' => Mends(p)
  BY <1>1 DEF CloseTx, Mends
<1>7. tx[p].at = "ok" => ("files" \notin torn' => Fits(disk, Want(c), status))
  BY <1>3, <1>6 DEF TxAlone
<1>8. tx[p].at # "ok" => ("files" \notin torn' => Fits(disk, c.seen, status))
  BY <1>1, <1>3 DEF TxAlone, Sound, CloseTx
<1>9. /\ Want(c) \in Services /\ c.seen \in Services
      /\ c.op \notin {"add", "rm"} => Want(c) = c.seen
      /\ c.op \in {"add", "rm"} =>
            /\ c.name \in Names
            /\ Want(c)[c.name] = IF c.op = "add" THEN c.entry ELSE NoEntry
            /\ \A n \in Names \ {c.name} : Want(c)[n] = c.seen[n]
  BY <1>1, Wanted
<1>10. CASE c.op = "add" /\ tx[p].at # "ok"
  <2>1. BeginEdit(p, c.name, c.seen[c.name]) /\ Goto(p, "undo")
    BY <1>10 DEF Applied
  <2> QED
    BY <1>1, <1>2, <1>4, <1>5, <1>8, <1>10, <2>1, EditBeginsAlone
<1>11. CASE c.op = "rm" /\ tx[p].at # "raised"
  <2>1. Drop(p)
    BY <1>11 DEF Applied
  <2>2. \A n \in Names : Want(c)[n] = c.seen[n] \/ Want(c)[n] = NoEntry
    BY <1>9, <1>11
  <2>3. Fits(disk, c.seen, status) => Fits(disk, Want(c), status)
    BY <1>9, <2>2, FewerFit
  <2>4. "files" \notin torn' => Fits(disk, Want(c), status)
    BY <1>7, <1>8, <2>3
  <2> QED
    BY <1>1, <1>2, <1>4, <1>5, <1>11, <2>1, <2>4, DropAlone
<1>12. CASE ~ (c.op = "add" /\ tx[p].at # "ok") /\ ~ (c.op = "rm" /\ tx[p].at # "raised")
  <2>1. Finish(p) /\ config' = config
    BY <1>12 DEF Applied, configVars
  <2>2. "files" \notin torn' => Fits(disk, config.content, status)
    BY <1>4, <1>7, <1>8, <1>9, <1>12
  <2>3. Whole'
    BY <1>3, <2>1 DEF Whole
  <2> QED
    BY <1>1, <1>2, <1>5, <2>1, <2>2, <2>3, FinishAlone
<1> QED
  BY <1>10, <1>11, <1>12

\* An undo or a removal that went through makes the services fit the files again.
LEMMA EditedAlone ==
    ASSUME TInv, Alone, NEW p \in Procs, Edited(p)
    PROVE  Alone'
<1>1. /\ cmd[p].at \in {"undo", "drop"} /\ edit[p].at \in {"done", "raised"}
      /\ UNCHANGED <<config, disk, status, overlapped>>
      /\ Running(p) /\ Finish(p)
  BY DEF Edited, Running
<1>2. SUFFICES ASSUME ~ overlapped
               PROVE  Alone'
  BY <1>1 DEF Alone
<1>3. EditAlone(p) /\ CommandAlone(p) /\ Whole
  BY <1>1, <1>2 DEF Alone
<1>4. "files" \notin torn' => edit[p].at = "done" /\ "files" \notin torn
  BY <1>1 DEF Edited
<1>5. edit[p].at = "done" => config.content = IF cmd[p].at = "undo" THEN cmd[p].seen ELSE Want(cmd[p])
  BY <1>1, <1>3 DEF EditAlone, Editing, AfterEdit
<1>6. "files" \notin torn' => Fits(disk, config.content, status)
  BY <1>1, <1>3, <1>4, <1>5 DEF CommandAlone, Sound
<1>7. Whole'
  BY <1>1, <1>3 DEF Whole
<1> QED
  BY <1>1, <1>2, <1>6, <1>7, FinishAlone

\* A command that is killed leaves a whole configuration, and a note that the files may
\* not fit it.
LEMMA KillAlone ==
    ASSUME TInv, Alone, NEW p \in Procs, Kill(p)
    PROVE  Alone'
<1>1. /\ Running(p) /\ Finish(p) /\ DropEdit(p)
      /\ UNCHANGED <<status, overlapped, disk>> /\ "files" \in torn'
  BY DEF Kill, DropTx, Running
<1>2. SUFFICES ASSUME ~ overlapped
               PROVE  Alone'
  BY <1>1 DEF Alone
<1>3. config' = config /\ Whole
  BY <1>1, <1>2, CtlAssumption DEF DropEdit, Abandoned, Alone, Whole
<1>4. Whole'
  BY <1>3 DEF Whole
<1> QED
  BY <1>1, <1>2, <1>4, FinishAlone

\* Every step keeps what commands that run one at a time rely on.
LEMMA NextAlone == TInv /\ Alone /\ [Next]_vars => Alone'
<1>1. ASSUME TInv, Alone, UNCHANGED vars
      PROVE  Alone'
  <2>1. UNCHANGED <<config, tmp, edit, disk, tx, torn, status, cmd, overlapped>>
    BY <1>1 DEF vars
  <2>2. \A p \in Procs : EditAlone(p) /\ CommandAlone(p) /\ TxAlone(p)
                            => (EditAlone(p) /\ CommandAlone(p) /\ TxAlone(p))'
    BY <2>1 DEF EditAlone, CommandAlone, TxAlone, Sound, Mends, OneBlock
  <2>3. (\A p \in Procs : Running(p)' <=> Running(p)) /\ (AllIdle' <=> AllIdle)
    BY <2>1 DEF Running, AllIdle
  <2>4. Whole' <=> Whole
    BY <2>1 DEF Whole
  <2>5. Sound(disk, config.content) => Sound(disk, config.content)'
    BY <2>1 DEF Sound
  <2> QED
    BY <1>1, <2>1, <2>2, <2>3, <2>4, <2>5 DEF Alone
<1>2. ASSUME TInv, Alone, NEW p \in Procs, Step(p)
      PROVE  Alone'
  BY <1>2, LookAlone, PutAlone, AppliedAlone, EditedAlone, EditStepAlone, TxStepAlone DEF Step
<1>3. ASSUME TInv, Alone, NEW p \in Procs, NEW n \in Names, NEW e \in Entries,
             NEW force \in BOOLEAN, Add(p, n, e, force)
      PROVE  Alone'
  <2> DEFINE c == [NoCommand EXCEPT !.op = "add", !.name = n, !.entry = e, !.force = force]
  <2>1. CommandTyped(c) /\ c.op = "add"
    BY <1>3, NoCommandTyped DEF CommandTyped, Command
  <2>2. Begin(p, c)
    BY <1>3 DEF Add
  <2> HIDE DEF c
  <2> QED
    BY <1>3, <2>1, <2>2, BeginAlone
<1>4. ASSUME TInv, Alone, NEW p \in Procs, NEW n \in Names, AddDirect(p, n)
      PROVE  Alone'
  <2> DEFINE c == [NoCommand EXCEPT !.op = "direct", !.name = n]
  <2>1. CommandTyped(c) /\ c.name = n
    BY <1>4, NoCommandTyped DEF CommandTyped, Command
  <2>2. Begin(p, c) /\ ~ Exists(config.content, n)
    BY <1>4 DEF AddDirect
  <2> HIDE DEF c
  <2> QED
    BY <1>4, <2>1, <2>2, BeginAlone
<1>5. ASSUME TInv, Alone, NEW p \in Procs, NEW n \in Names, Rm(p, n)
      PROVE  Alone'
  <2> DEFINE c == [NoCommand EXCEPT !.op = "rm", !.name = n]
  <2>1. CommandTyped(c) /\ c.op = "rm"
    BY <1>5, NoCommandTyped DEF CommandTyped, Command
  <2>2. Begin(p, c)
    BY <1>5 DEF Rm
  <2> HIDE DEF c
  <2> QED
    BY <1>5, <2>1, <2>2, BeginAlone
<1>6. ASSUME TInv, Alone, NEW p \in Procs, CaddySync(p)
      PROVE  Alone'
  <2> DEFINE c == [NoCommand EXCEPT !.op = "sync"]
  <2>1. CommandTyped(c) /\ c.op = "sync"
    BY NoCommandTyped DEF CommandTyped, Command
  <2>2. Begin(p, c)
    BY <1>6 DEF CaddySync
  <2> HIDE DEF c
  <2> QED
    BY <1>6, <2>1, <2>2, BeginAlone
<1>7. ASSUME TInv, Alone, Next
      PROVE  Alone'
  BY <1>1, <1>2, <1>3, <1>4, <1>5, <1>6, <1>7, KillAlone DEF Next, Rest
<1> QED
  BY <1>1, <1>7

\* The inductive invariant that the next theorems follow from.
LEMMA Invariance == Spec => [](SInv /\ TInv /\ Alone)
<1>1. Init => SInv /\ TInv /\ Alone
  BY InitHolds, InitTyped, InitAlone
<1>2. SInv /\ TInv /\ Alone /\ [Next]_vars => SInv' /\ TInv' /\ Alone'
  BY NextHolds, NextTyped, NextAlone
<1> QED
  BY <1>1, <1>2, PTL DEF Spec

\* _write_claude_config, for any number of services and commands: while commands run one at
\* a time the file at the configuration's path is a whole one, wherever an edit fails and
\* wherever its process is killed.
THEOREM WholeWhenAlone == Spec => []WholeConfigAlone
<1>1. Alone => WholeConfigAlone
  BY DEF Alone, Whole, WholeConfigAlone, WholeConfig
<1> QED
  BY <1>1, Invariance, PTL

\* _domain_mismatch: when commands have run one at a time, every block on disk, a direct
\* site's too, serves the domain that the Caddyfile records.
THEOREM OneDomainHolds == Spec => []OneDomain
<1>1. Alone => OneDomain
  BY DEF Alone, Sound, Fits, OneDomainOn, OneDomain
<1> QED
  BY <1>1, Invariance, PTL

\* cmd_add, cmd_rm, cmd_caddy_sync: when commands have run one at a time on a managed host,
\* every service of the configuration has the block of exactly its entry, however the
\* commands failed, unless one was killed or could not undo what it did; and a sync that
\* goes through repairs that too.
THEOREM EntryHasBlockHolds == Spec => []EntryHasBlock
<1>1. Alone => EntryHasBlock
  BY DEF Alone, Sound, Fits, BlocksOn, EntryHasBlock
<1> QED
  BY <1>1, Invariance, PTL
================================================================================
