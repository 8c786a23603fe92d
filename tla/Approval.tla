------------------------------- MODULE Approval -------------------------------
(***************************************************************************)
(* Level 4 of one gateway: requests that ask for approval and requests     *)
(* that bring one, running concurrently (handle_service_invoke, gateway/   *)
(* webspec/handlers.py, steps 4b and 5, over the challenges of             *)
(* ApprovalStore).  verify() awaits ssh-keygen between marking a challenge *)
(* and judging it; everything after the await, up to the tool call, runs   *)
(* without another await and is one step here.                             *)
(***************************************************************************)
EXTENDS ApprovalStore

CONSTANTS
    Verifiers,      \* request handlers that can be verifying at the same time
    VerifyLimit     \* the longest a verification takes: SSH_KEYGEN_TIMEOUT per call

ASSUME VerifyAssumption == VerifyLimit \in Nat

VARIABLES
    challenges,     \* the dictionary
    issued,         \* how many challenges have been issued
    verifying,      \* verifications that are awaiting ssh-keygen
    calls           \* per challenge, the tool calls that were committed with it

vars == <<challenges, issued, verifying, calls>>

Verification == [by: Verifiers, id: Ids, ask: Asks, signature: Signatures,
                 age: 0 .. VerifyLimit]

Call == [ask: Asks, signature: Signatures]

Errors == {"unknown", "expired", "reused", "in_progress", "mismatch", "invalid"}

Free(v) == \A n \in verifying : n.by # v

TypeOK ==
    /\ challenges \in Pool
    /\ issued \in 0 .. MaxIssued
    /\ verifying \in SUBSET Verification
    /\ calls \in [Ids -> [count: 0 .. 2, of: Call \cup {Nobody}]]

Init ==
    /\ challenges = NoChallenges
    /\ issued = 0
    /\ verifying = {}
    /\ calls = [i \in Ids |-> [count |-> 0, of |-> Nobody]]

-----------------------------------------------------------------------------
\* A request without an approval gets a challenge, or 429 and no challenge (id 0).
AskFor(ask) ==
    /\ \E r \in Issue(challenges, ask, issued + 1) :
          /\ challenges' = r.pool
          /\ issued' = IF r.id > issued THEN r.id ELSE issued
    /\ UNCHANGED <<verifying, calls>>

\* The commit of a request whose approval has been verified: it spends the approval
\* and calls the tool, or is refused because the clearance is spent, the key is
\* claimed by another attempt, or the challenge is gone.
Commit(pool, i, ask, sig) ==
    \/ /\ CanSpend(pool, i)
       /\ challenges' = Spend(pool, i)
       /\ calls' = [calls EXCEPT ![i] =
             [count |-> IF @.count < 2 THEN @.count + 1 ELSE 2,
              of |-> [ask |-> ask, signature |-> sig]]]
    \/ /\ challenges' = pool
       /\ UNCHANGED calls

\* A request brings an approval.
Present(v, i, ask, sig) ==
    LET judged == Judge(challenges[i], ask, sig)
        pool   == Presented(challenges, i, ask, sig)
    IN /\ Free(v)
       /\ \/ /\ judged = "ok"
             /\ Commit(pool, i, ask, sig)
             /\ UNCHANGED verifying
          \/ /\ judged = "verify"
             /\ challenges' = pool
             /\ verifying' = verifying \cup
                   {[by |-> v, id |-> i, ask |-> ask, signature |-> sig, age |-> 0]}
             /\ UNCHANGED calls
          \/ /\ judged \in Errors
             /\ challenges' = pool
             /\ UNCHANGED <<verifying, calls>>
       /\ UNCHANGED issued

\* ssh-keygen accepts the signature, and the request goes on to its commit.
Verified(n) ==
    /\ Genuine(n.signature, n.id, n.ask)
    /\ Commit(Approve(challenges, n.id, n.signature), n.id, n.ask, n.signature)
    /\ verifying' = verifying \ {n}
    /\ UNCHANGED issued

\* It does not, times out or crashes, or the request is cancelled: the same
\* finally block runs.
Unverified(n) ==
    /\ challenges' = Fail(challenges, n.id)
    /\ verifying' = verifying \ {n}
    /\ UNCHANGED <<issued, calls>>

Tick ==
    /\ \A n \in verifying : n.age < VerifyLimit
    /\ challenges' = OlderPool(challenges)
    /\ verifying' = {[n EXCEPT !.age = @ + 1] : n \in verifying}
    /\ UNCHANGED <<issued, calls>>

Next ==
    \/ \E ask \in Asks : AskFor(ask)
    \/ \E v \in Verifiers, i \in Ids, ask \in Asks, sig \in Signatures : Present(v, i, ask, sig)
    \/ \E n \in verifying : Verified(n) \/ Unverified(n)
    \/ Tick

Spec == Init /\ [][Next]_vars

-----------------------------------------------------------------------------
(* Properties *)

\* An approval runs at most one call, whatever retries, concurrent verifications,
\* purges and lost races come between its verification and its commit.
SpentOnce ==
    \A i \in Ids : /\ calls[i].count <= 1
                   /\ calls[i].count = 1 => challenges[i].state \in {"used", "absent"}

\* A call runs only with an approver's signature over this challenge and the
\* very request that runs.
Witnessed ==
    \A i \in Ids : calls[i].count > 0 => Genuine(calls[i].of.signature, i, calls[i].of.ask)

\* A challenge is marked "verifying" exactly while one request verifies it: two
\* never verify it at once, and none is left marked when its request is gone.
MarkedWhileVerified ==
    \A i \in Ids : Known(challenges, i) =>
        Cardinality({n \in verifying : n.id = i})
            = IF challenges[i].state = "verifying" THEN 1 ELSE 0

\* A challenge that is not yet too old is never removed to make room or by another
\* request: only its own last failed verification burns it (AP-6).
LiveChallengesKept ==
    [][\A i \in Ids : Known(challenges, i) /\ ~TooOld(challenges[i]) /\ ~Known(challenges', i) =>
          /\ challenges[i].failures = MaxFailures - 1
          /\ \E n \in verifying \ verifying' : n.id = i
      ]_vars

===============================================================================
