--------------------------------- MODULE Audit ---------------------------------
(***************************************************************************)
(* The hash-chained audit log (gateway/webspec/audit.py): one entry at a   *)
(* time is chained to the last one and appended, while the operator        *)
(* renames the file away, writes fail or come out short (a full disk), and *)
(* the gateway restarts.                                                   *)
(*                                                                         *)
(* An entry is known by its number, which stands for the SHA-256 of its    *)
(* line too.  The hash of a line that is not an entry as it was composed   *)
(* is minus the number of the last entry in it.                            *)
(***************************************************************************)
EXTENDS Integers, Sequences, SequencesExt

CONSTANTS
    MaxEntries,     \* bound on the entries recorded
    MaxFiles,       \* bound on the files the log is rotated through
    NoFile

ASSUME AuditAssumption ==
    /\ MaxEntries \in Nat
    /\ MaxFiles \in Nat
    /\ NoFile \notin Nat

GENESIS == 0

Hash == -MaxEntries .. MaxEntries

\* A line of a file: the entry it ends with, whether it is that entry and nothing else,
\* whether its newline was written; and of that entry, its prev, and whether it was the
\* first one of its process.
Line == [entry: 1 .. MaxEntries, whole: BOOLEAN, ended: BOOLEAN, prev: Hash, first: BOOLEAN]

HashOf(line) == IF line.whole THEN line.entry ELSE -line.entry

VARIABLES
    files,          \* the files so far, in the order of their creation
    path,           \* the file at the log's path
    state,          \* _state: the hash of the last line this process wrote, or 0
    fd,             \* _fds: the file that the cached descriptor was opened on
    number,         \* who has the number of the cached descriptor: "us", "other" or "free"
    writer,         \* where record() is: "idle", "chained" (prev is known) or "open"
    prev,           \* the prev of the entry being recorded
    recorded,       \* number of entries begun so far
    rotated         \* history: how many had been begun at the last rotation

auditVars == <<files, path, state, fd, number, writer, prev, recorded, rotated>>

AuditTypeOK ==
    /\ files \in Seq(Seq(Line)) /\ Len(files) <= MaxFiles
    /\ path \in DOMAIN files \cup {NoFile}
    /\ fd \in DOMAIN files \cup {NoFile}
    /\ number \in {"us", "other", "free"}
    /\ state \in 0 .. recorded
    /\ prev \in Hash
    /\ writer \in {"idle", "chained", "open"}
    /\ writer = "open" => number = "us"
    /\ recorded \in 0 .. MaxEntries
    /\ rotated \in 0 .. recorded

AuditInit ==
    /\ files = <<>>
    /\ path = NoFile
    /\ state = 0
    /\ fd = NoFile
    /\ number = "free"
    /\ writer = "idle"
    /\ prev = GENESIS
    /\ recorded = 0
    /\ rotated = 0

\* _last_hash
LastHash ==
    IF path = NoFile THEN GENESIS
    ELSE IF files[path] = <<>> THEN GENESIS ELSE HashOf(Last(files[path]))

\* record takes the lock, and what its entry follows: this process's last line, or after
\* a start the file's.
Chain ==
    /\ writer = "idle"
    /\ recorded < MaxEntries
    /\ recorded' = recorded + 1
    /\ prev' = IF state # 0 THEN state ELSE LastHash
    /\ writer' = "chained"
    /\ UNCHANGED <<files, path, state, fd, number, rotated>>

\* Faulty variant: a cached descriptor is used whatever became of the path.
OpenCached ==
    /\ writer = "chained"
    /\ path # NoFile \/ fd # NoFile \/ Len(files) < MaxFiles
    /\ LET new == path = NoFile /\ fd = NoFile
       IN /\ files' = IF new THEN Append(files, <<>>) ELSE files
          /\ path' = IF new THEN Len(files') ELSE path
          /\ fd' = IF fd = NoFile THEN path' ELSE fd
    /\ number' = IF fd = NoFile THEN "us" ELSE number
    /\ writer' = "open"
    /\ UNCHANGED <<state, prev, recorded, rotated>>

\* What is cached is of no more use: the path is another file now, or none.
Outdated == fd # NoFile /\ fd # path

\* _append_fd: an outdated descriptor is closed, by its number; then the file at the path
\* is opened, or created.  Closing a number that is free is an error.
Open ==
    /\ writer = "chained"
    /\ path # NoFile \/ Len(files) < MaxFiles
    /\ Outdated => number # "free"
    /\ files' = IF path = NoFile THEN Append(files, <<>>) ELSE files
    /\ path' = IF path = NoFile THEN Len(files') ELSE path
    /\ fd' = path'
    /\ number' = "us"
    /\ writer' = "open"
    /\ UNCHANGED <<state, prev, recorded, rotated>>

\* The close or the open fails: the number of an outdated descriptor is free by then, and
\* _fds still holds it.
OpenFailed ==
    /\ writer = "chained"
    /\ Outdated \/ fd = NoFile
    /\ number' = IF Outdated THEN "free" ELSE number
    /\ writer' = "idle"
    /\ UNCHANGED <<files, path, state, fd, prev, recorded, rotated>>

\* Elsewhere in the gateway a connection gets a number that is free, or gives it back.
Reuse ==
    /\ fd # NoFile
    /\ \/ number = "free" /\ number' = "other"
       \/ number = "other" /\ number' = "free"
    /\ UNCHANGED <<files, path, state, fd, writer, prev, recorded, rotated>>

\* What a file holds after the current entry is appended, whole or not, with its newline
\* or not: a line without its newline goes on.
Appended(file, whole, ended) ==
    LET goesOn == file # <<>> /\ ~Last(file).ended
        line   == [entry |-> recorded, whole |-> whole /\ ~goesOn, ended |-> ended,
                   prev |-> prev, first |-> state = 0]
    IN Append(IF goesOn THEN Front(file) ELSE file, line)

\* os.write: what it returns is not looked at, so a short write passes for a whole one.
Write ==
    /\ writer = "open"
    /\ \E whole \in BOOLEAN, ended \in BOOLEAN :
          /\ ended => whole
          /\ files' = [files EXCEPT ![fd] = Appended(@, whole, ended)]
    /\ state' = recorded
    /\ writer' = "idle"
    /\ UNCHANGED <<path, fd, number, prev, recorded, rotated>>

\* Faulty variant: the entry counts as written before it is.
WriteFailedCounted ==
    /\ writer = "open"
    /\ writer' = "idle"
    /\ state' = recorded
    /\ UNCHANGED <<files, path, fd, number, prev, recorded, rotated>>

\* An OSError: the failure is logged, and nothing changes.
WriteFailed ==
    /\ writer = "open"
    /\ writer' = "idle"
    /\ UNCHANGED <<files, path, state, fd, number, prev, recorded, rotated>>

\* The operator renames the file away; logrotate may put an empty one in its place.
Rotate ==
    /\ path # NoFile
    /\ \/ path' = NoFile /\ UNCHANGED files
       \/ /\ Len(files) < MaxFiles
          /\ files' = Append(files, <<>>)
          /\ path' = Len(files')
    /\ rotated' = recorded
    /\ UNCHANGED <<state, fd, number, writer, prev, recorded>>

Restart ==
    /\ fd' = NoFile
    /\ number' = "free"
    /\ state' = 0
    /\ writer' = "idle"
    /\ UNCHANGED <<files, path, prev, recorded, rotated>>

AuditNext == Chain \/ Open \/ OpenFailed \/ Write \/ WriteFailed \/ Rotate \/ Reuse \/ Restart

AuditSpec == AuditInit /\ [][AuditNext]_auditVars

-----------------------------------------------------------------------------
(* Properties *)

\* A line follows the one before it by its hash, unless a short write tore one of them.
Follows(line, before) == line.whole /\ before.whole => line.prev = before.entry

\* The last line of file g is the one before the first of file f.
Precedes(g, f) ==
    /\ g < f /\ files[g] # <<>>
    /\ \A h \in DOMAIN files : g < h /\ h < f => files[h] = <<>>

\* Each entry follows the line before it, across failed writes, restarts and rotations
\* (AU-3, AU-4).  The chain starts again only at the head of a file, with the first entry
\* a process writes, and is broken only next to an entry that a short write tore.
ChainHolds ==
    \A f \in DOMAIN files : \A i \in DOMAIN files[f] :
        LET line == files[f][i]
        IN  IF i > 1 THEN Follows(line, files[f][i - 1])
            ELSE \/ line.first /\ line.prev = GENESIS
                 \/ \A g \in DOMAIN files : Precedes(g, f) => Follows(line, Last(files[g]))

\* A rotation takes: no entry begun after it goes to a file that was renamed away, whatever
\* descriptor was cached, failed to open again or was lost in a restart in between.  An
\* entry that record() was at when the file was renamed may still go to that file.
RotationTakes ==
    [][\A f \in DOMAIN files : files'[f] # files[f] => f = path \/ recorded <= rotated]_auditVars

\* audit.py:14: "Failures to write are logged and never break a request": the log closes
\* no descriptor but its own.
OthersKept == [][number = "other" /\ writer' # writer => number' = "other" \/ fd' = NoFile]_auditVars
================================================================================
