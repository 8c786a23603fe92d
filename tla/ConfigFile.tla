------------------------------- MODULE ConfigFile ------------------------------
(***************************************************************************)
(* How webspec-ctl edits the gateway's configuration file                  *)
(* (gateway/webspec/config_writer.py): read it, change one entry, write a  *)
(* temporary file beside it and rename that over it.  Nothing locks the    *)
(* file, and the temporary file has one name for every process.            *)
(*                                                                         *)
(* The backup that precedes each write has names of its own and is never   *)
(* read back, so it is left out.                                           *)
(***************************************************************************)
EXTENDS CtlProcs

CONSTANTS
    Entries,        \* what the file can say of a service
    NoEntry,        \* the file does not hold the service
    Partial,        \* what a file holds until its text is written, or the beginning of it
    NoFile

Services == [Names -> Entries \cup {NoEntry}]

\* A file: its content, and the process that still has to write it.
File == [content: Services \cup {Partial}, by: Procs \cup {Nobody}]

ASSUME ConfigFileAssumption ==
    NoEntry \notin Entries /\ Partial \notin Services /\ NoFile \notin File

VARIABLES
    config,         \* the file at the configuration's path
    tmp,            \* the file at the temporary path
    edit            \* where each process is in an edit of the file, and the new content

configVars == <<config, tmp, edit>>

NoServices == [n \in Names |-> NoEntry]

EditType ==
    [at: {"none", "read", "unlink", "create", "fill", "replace", "done", "raised"},
     name: Names \cup {Nobody}, entry: Entries \cup {NoEntry}, data: Services]

NoEdit == [at |-> "none", name |-> Nobody, entry |-> NoEntry, data |-> NoServices]

Ended(at) == [NoEdit EXCEPT !.at = at]

ConfigTypeOK ==
    /\ config \in File
    /\ tmp \in File \cup {NoFile}
    /\ edit \in [Procs -> EditType]

ConfigInit(services) ==
    /\ config = [content |-> services, by |-> Nobody]
    /\ tmp = NoFile
    /\ edit = [p \in Procs |-> NoEdit]

\* add_service, and remove_service where the entry is NoEntry
BeginEdit(p, name, entry) ==
    /\ edit[p].at = "none"
    /\ edit' = [edit EXCEPT ![p].at = "read", ![p].name = name, ![p].entry = entry]
    /\ UNCHANGED <<config, tmp>>

\* A file that does not parse is an error; removing what is not there writes nothing.
ReadConfig(p) ==
    /\ edit[p].at = "read"
    /\ LET content == config.content
           name == edit[p].name
       IN  edit' = [edit EXCEPT ![p] =
               IF content = Partial THEN Ended("raised")
               ELSE IF edit[p].entry = NoEntry /\ content[name] = NoEntry THEN Ended("done")
               ELSE [@ EXCEPT !.at = "unlink",
                              !.data = [content EXCEPT ![name] = edit[p].entry]]]
    /\ UNCHANGED <<config, tmp>>

UnlinkTmp(p) ==
    /\ edit[p].at = "unlink"
    /\ tmp' = NoFile
    /\ edit' = [edit EXCEPT ![p].at = "create"]
    /\ UNCHANGED config

\* Faulty variant: the file is opened and written in place.
CreateInPlace(p) ==
    /\ edit[p].at = "create"
    /\ config' = [content |-> Partial, by |-> p]
    /\ edit' = [edit EXCEPT ![p].at = "fill"]
    /\ UNCHANGED tmp

\* O_EXCL: a file that another process made since is an error.
CreateTmp(p) ==
    /\ edit[p].at = "create"
    /\ IF tmp = NoFile
       THEN /\ tmp' = [content |-> Partial, by |-> p]
            /\ edit' = [edit EXCEPT ![p].at = "fill"]
       ELSE /\ edit' = [edit EXCEPT ![p] = Ended("raised")]
            /\ UNCHANGED tmp
    /\ UNCHANGED config

\* The text goes to the file this process created, whatever path it is at now, if any.
Filled(file, p) ==
    IF file # NoFile /\ file.by = p THEN [content |-> edit[p].data, by |-> Nobody] ELSE file

FillTmp(p) ==
    /\ edit[p].at = "fill"
    /\ config' = Filled(config, p)
    /\ tmp' = Filled(tmp, p)
    /\ edit' = [edit EXCEPT ![p].at = "replace"]

\* The file is left with what was written of it.
Abandoned(file, p) == IF file # NoFile /\ file.by = p THEN [file EXCEPT !.by = Nobody] ELSE file

\* A write that fails (a full disk, Ctrl-C) unlinks the temporary path, whoever's file it is.
FillFails(p) ==
    /\ edit[p].at = "fill"
    /\ config' = Abandoned(config, p)
    /\ tmp' = NoFile
    /\ edit' = [edit EXCEPT ![p] = Ended("raised")]

\* os.replace renames whatever file is at the temporary path.
ReplaceConfig(p) ==
    /\ edit[p].at = "replace"
    /\ IF tmp = NoFile
       THEN edit' = [edit EXCEPT ![p] = Ended("raised")] /\ UNCHANGED <<config, tmp>>
       ELSE /\ config' = tmp
            /\ tmp' = NoFile
            /\ edit' = [edit EXCEPT ![p] = Ended("done")]

EditSteps(p) ==
    ReadConfig(p) \/ UnlinkTmp(p) \/ CreateTmp(p) \/ FillTmp(p) \/ FillFails(p) \/ ReplaceConfig(p)

\* The process dies: nothing is cleaned up.
DropEdit(p) ==
    /\ config' = Abandoned(config, p)
    /\ tmp' = Abandoned(tmp, p)
    /\ edit' = [edit EXCEPT ![p] = NoEdit]
================================================================================
