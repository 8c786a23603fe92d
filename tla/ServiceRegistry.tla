---------------------------- MODULE ServiceRegistry ----------------------------
(***************************************************************************)
(* The live registry (ServiceRegistry, gateway/webspec/config.py) and the  *)
(* poll loop that keeps it up to date with the configuration file          *)
(* (_config_reload_loop, app.py), for one service.  Other processes write  *)
(* the file at any moment, between any two looks at it.                    *)
(***************************************************************************)
EXTENDS Naturals

CONSTANTS
    Entries,        \* what the file may configure the service as
    NoEntry,        \* the file is good and does not hold the service
    Rejected,       \* the file cannot be loaded: half-written, malformed, unreadable
    MaxWrites       \* bound on the writes of the file

ASSUME RegistryAssumption ==
    /\ NoEntry \notin Entries
    /\ Rejected \notin Entries \cup {NoEntry}
    /\ MaxWrites \in Nat

Services == Entries \cup {NoEntry}

VARIABLES
    file,           \* what the file says of the service
    writes,         \* number of writes so far, which tells versions of the file apart
    services,       \* ServiceRegistry._services
    signature,      \* ServiceRegistry._signature, as a number of writes
    poll            \* where the poll loop is: "asleep", "parsing", "removing"

registryVars == <<file, writes, services, signature, poll>>

RegistryTypeOK ==
    /\ file \in Services \cup {Rejected}
    /\ writes \in 0 .. MaxWrites
    /\ services \in Services
    /\ signature \in 0 .. writes
    /\ poll \in {"asleep", "parsing", "removing"}

\* What a load makes of the services that apply: a file that is rejected changes nothing.
Loaded(content, current) == IF content = Rejected THEN current ELSE content

\* The registry is loaded once before anything is served; a file that is rejected then
\* leaves it empty.
RegistryInit ==
    /\ file \in Services \cup {Rejected}
    /\ writes = 0
    /\ services = Loaded(file, NoEntry)
    /\ signature = 0
    /\ poll = "asleep"

\* An operator's edit, config_writer, or any other program that shares the file.
Write(content) ==
    /\ writes < MaxWrites
    /\ writes' = writes + 1
    /\ file' = content
    /\ UNCHANGED <<services, signature, poll>>

\* check_reload goes on only when the file has changed, and reload records the signature
\* before it reads: a later write is seen by the next poll.  The two looks at the file's
\* signature are one step, for a write between them would only make it later.
CheckReload ==
    /\ poll = "asleep"
    /\ writes # signature
    /\ signature' = writes
    /\ poll' = "parsing"
    /\ UNCHANGED <<file, writes, services>>

\* Faulty variant: a file without services does not apply.
ParseIfAny ==
    /\ poll = "parsing"
    /\ services' = IF file \in Entries THEN file ELSE services
    /\ poll' = IF services # NoEntry /\ services' = NoEntry THEN "removing" ELSE "asleep"
    /\ UNCHANGED <<file, writes, signature>>

\* Then the loop removes the service from the pool if the file no longer holds it.
Parse ==
    /\ poll = "parsing"
    /\ services' = Loaded(file, services)
    /\ poll' = IF services # NoEntry /\ services' = NoEntry THEN "removing" ELSE "asleep"
    /\ UNCHANGED <<file, writes, signature>>

Reload == CheckReload \/ Parse
================================================================================
