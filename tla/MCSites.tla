-------------------------------- MODULE MCSites --------------------------------
(* Instances of Sites for TLC. *)
EXTENDS Sites, TLC

\* The hosts that runs start from: one guarded service, whatever the other name is, and a
\* public domain.
MCInit ==
    /\ Init
    /\ \E n \in Names : config.content[n] = "guarded"
    /\ disk[Caddyfile] # NoDomain

MCSpec == MCInit /\ [][Next]_vars

Symmetry == Permutations(Procs) \cup Permutations(Names)
================================================================================
