----------------------------- MODULE GuardNonces -----------------------------
(***************************************************************************)
(* The nonces that a guard signs (NonceStore, gateway/webspec/guard.py).   *)
(*                                                                         *)
(* A nonce keeps its age, saturated at NonceTTL + CleanupInterval, when it *)
(* is due whatever came before.  Nonce values are random and never come    *)
(* back, so the n-th nonce is number n.                                    *)
(***************************************************************************)
EXTENDS Integers

CONSTANTS
    Audiences,          \* destinations that nonces are bound to
    NobodyHome,         \* no audience
    NonceTTL,           \* NONCE_TTL
    CleanupInterval,    \* NONCE_CLEANUP_INTERVAL
    MaxNonces           \* bound of the model: nonces issued in one behaviour

ASSUME NonceAssumption ==
    /\ NonceTTL \in Nat
    /\ CleanupInterval \in Nat \ {0}
    /\ MaxNonces \in Nat
    /\ NobodyHome \notin Audiences

-----------------------------------------------------------------------------

Nonces == 1 .. MaxNonces

NonceAges == 0 .. NonceTTL + CleanupInterval

Nonce == [state: {"absent", "fresh", "used"}, audience: Audiences \cup {NobodyHome},
          age: NonceAges]

NoNonce == [state |-> "absent", audience |-> NobodyHome, age |-> 0]

NonceStore == [Nonces -> Nonce]

NoNonces == [n \in Nonces |-> NoNonce]

OlderNonces(ns) ==
    [n \in Nonces |-> IF ns[n].state # "absent" /\ ns[n].age < NonceTTL + CleanupInterval
                      THEN [ns[n] EXCEPT !.age = @ + 1]
                      ELSE ns[n]]

Cleanup(ns) == [n \in Nonces |-> IF ns[n].age > NonceTTL THEN NoNonce ELSE ns[n]]

\* Faulty variant: every call starts the interval again.
MaybeCleanupPutOff(ns, since) ==
    [nonces |-> IF since >= CleanupInterval THEN Cleanup(ns) ELSE ns, since |-> 0]

\* _maybe_cleanup: the nonces it leaves, and the seconds since the last cleanup.
MaybeCleanup(ns, since) ==
    IF since < CleanupInterval
    THEN [nonces |-> ns, since |-> since]
    ELSE [nonces |-> Cleanup(ns), since |-> 0]

JudgeNonce(n, audience) ==
    IF n.state = "absent" THEN "unknown_nonce"
    ELSE IF n.state = "used" THEN "nonce_reused"
    ELSE IF n.age > NonceTTL THEN "nonce_expired"
    ELSE IF n.audience # audience THEN "nonce_audience_mismatch"
    ELSE "ok"

\* Faulty variants: a nonce is used up by a request that fails for its audience; it
\* is not marked.
UseUpAnyway(ns, n, audience) ==
    IF JudgeNonce(ns[n], audience) \in {"ok", "nonce_audience_mismatch"}
    THEN [ns EXCEPT ![n].state = "used"]
    ELSE ns

UseUpUnmarked(ns, n, audience) == ns

\* What consume() makes of a nonce that has been looked up.
UseUp(ns, n, audience) ==
    IF JudgeNonce(ns[n], audience) = "ok" THEN [ns EXCEPT ![n].state = "used"] ELSE ns
==============================================================================
