---------------------------- MODULE MCIdempotency ----------------------------
(* Instances of Idempotency for TLC. *)
EXTENDS Idempotency, TLC

\* One body reaching two tools, as a POST does with another definer: the two
\* requests differ in nothing but the tool.
MCTwoTools == {[fingerprint |-> "f1", tool |-> "t1"],
               [fingerprint |-> "f1", tool |-> "t2"]}

MCSymmetry == Permutations(Keys) \cup Permutations(Callers)
===============================================================================
