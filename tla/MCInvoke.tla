------------------------------- MODULE MCInvoke -------------------------------
(* Instances of Invoke for TLC. *)
EXTENDS Invoke, TLC

\* At level 4: a tool that sends needs a key, a clearance and an approval; an
\* idempotent one that removes needs no key.
MCSend == [service |-> "mail", what |-> "send"]
MCRemove == [service |-> "mail", what |-> "remove"]

MCRequests == {MCSend, MCRemove}
MCKeyed == {MCSend}

CONSTANTS t1, t2, t3

MCMintedFor == t1 :> MCSend @@ t2 :> MCSend @@ t3 :> MCRemove
===============================================================================
