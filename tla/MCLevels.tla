------------------------------- MODULE MCLevels -------------------------------
(* Instances of Guard, Approval and Audit for TLC.  The three share no state, so each *)
(* behaviour explores one of them, and the others stay where they began.             *)
EXTENDS Guard, Approval, Audit, TLC

VARIABLE
    explored        \* which of the three components moves

levelsVars == <<explored, guardVars, vars, auditVars>>

\* Two requests for one destination, and one for another.
MCAsks == {[service |-> "mail", what |-> "send a"], [service |-> "mail", what |-> "send b"],
           [service |-> "files", what |-> "remove a"]}

LevelsInit ==
    /\ explored \in {"guard", "approval", "audit"}
    /\ GuardInit
    /\ explored # "guard" => lead = [t \in Tokens |-> 0]
    /\ Init
    /\ AuditInit

LevelsNext ==
    /\ \/ explored = "guard" /\ GuardNext /\ UNCHANGED <<vars, auditVars>>
       \/ explored = "approval" /\ Next /\ UNCHANGED <<guardVars, auditVars>>
       \/ explored = "audit" /\ AuditNext /\ UNCHANGED <<guardVars, vars>>
    /\ UNCHANGED explored

LevelsSpec == LevelsInit /\ [][LevelsNext]_levelsVars

MCSymmetry ==
    Permutations(Audiences) \cup Permutations(Waiters) \cup Permutations(Verifiers)
===============================================================================
