-------------------------------- MODULE CtlProcs -------------------------------
(* The processes that run webspec-ctl, and the services it is asked about. *)
CONSTANTS
    Procs,          \* processes, each with one command at a time
    Names,          \* service names, normalized
    Nobody          \* none of them

ASSUME CtlAssumption == Nobody \notin Procs \cup Names
================================================================================
