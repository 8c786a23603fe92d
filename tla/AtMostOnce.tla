------------------------------ MODULE AtMostOnce ------------------------------
(***************************************************************************)
(* What the Idempotency-Key of one destination promises (docs/spec/        *)
(* levels.md, ID-3 and ID-5), without records, ages or concurrent lookups: *)
(* a key is free, open under one call, or closed by a call that completed  *)
(* or whose outcome is unknown.                                            *)
(***************************************************************************)
CONSTANT Keys

VARIABLE phase

Phases == {"free", "open", "done", "unknown"}

Init == phase = [k \in Keys |-> "free"]

\* A call starts under a free key.  It may push out one completed key, never an
\* open one or one whose outcome is unknown.
Grant(k) ==
    /\ phase[k] = "free"
    /\ \/ phase' = [phase EXCEPT ![k] = "open"]
       \/ \E e \in Keys : /\ phase[e] = "done"
                         /\ phase' = [phase EXCEPT ![k] = "open", ![e] = "free"]

\* The call ends: refused by the server, completed, or with an unknown outcome.
End(k) ==
    /\ phase[k] = "open"
    /\ \E p \in {"free", "done", "unknown"} : phase' = [phase EXCEPT ![k] = p]

\* Time runs out for keys that are closed.
Lapse ==
    \E gone \in SUBSET {k \in Keys : phase[k] \in {"done", "unknown"}} :
        phase' = [k \in Keys |-> IF k \in gone THEN "free" ELSE phase[k]]

Next == (\E k \in Keys : Grant(k) \/ End(k)) \/ Lapse

Spec == Init /\ [][Next]_phase
===============================================================================
