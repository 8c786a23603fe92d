-------------------------------- MODULE OneShot --------------------------------
(***************************************************************************)
(* What the commit of a call promises (docs/spec/levels.md, CO-1), without *)
(* headers, challenges, verifications or records: the credentials a call   *)
(* uses are all unspent before it starts and all spent by the step that    *)
(* starts it.  No other step spends one.                                   *)
(***************************************************************************)
CONSTANTS
    Attempts,       \* those that make calls
    Credentials     \* what a call can spend

VARIABLES
    used,           \* the credentials that are spent
    open            \* the calls that have started and not ended

Call == [by: Attempts, uses: SUBSET Credentials]

Init == used = {} /\ open = {}

Start(c) ==
    /\ c.uses \cap used = {}
    /\ used' = used \cup c.uses
    /\ open' = open \cup {c}

End(c) ==
    /\ open' = open \ {c}
    /\ UNCHANGED used

Next == (\E c \in Call : Start(c)) \/ (\E c \in open : End(c))

Spec == Init /\ [][Next]_<<used, open>>
===============================================================================
