-------------------------------- MODULE Guard --------------------------------
(***************************************************************************)
(* Levels 1 and 3 of one gateway: requests that fetch nonces and use them  *)
(* (_service_dispatch and _handle_nonce, gateway/webspec/app.py), and      *)
(* requests that validate a clearance early and spend it at their commit   *)
(* (handle_service_invoke, gateway/webspec/handlers.py, steps 4 and 5).    *)
(* Between the two a request of level 4 awaits the verification of its     *)
(* approval, while other requests and the clock go on.                     *)
(***************************************************************************)
EXTENDS GuardNonces, Clearances

CONSTANTS
    Waiters,        \* requests that can be between validating and committing
    WaitLimit       \* the longest that takes: SSH_KEYGEN_TIMEOUT at level 4, per call

ASSUME WaitAssumption == WaitLimit \in Nat

VARIABLES
    nonces,         \* NonceStore._nonces
    sinceCleanup,   \* seconds since NonceStore._last_cleanup, up to CleanupInterval
    issuedNonces,   \* how many nonces have been issued
    accepted,       \* per nonce, the requests let through with it, and how old it was
    lead,           \* how far each token's timestamp lies ahead of the clock
    spent,          \* _SpentClearances._spent
    waiting,        \* validated requests that have not committed
    paid            \* per token, the calls committed with it

nonceVars == <<nonces, sinceCleanup, issuedNonces, accepted>>
clearanceVars == <<lead, spent, waiting, paid>>
guardVars == <<nonces, sinceCleanup, issuedNonces, accepted, lead, spent, waiting, paid>>

Waiting == [by: Waiters, token: Tokens, age: 0 .. WaitLimit]

GuardTypeOK ==
    /\ nonces \in NonceStore
    /\ sinceCleanup \in 0 .. CleanupInterval
    /\ issuedNonces \in 0 .. MaxNonces
    /\ accepted \in [Nonces -> [count: 0 .. 2, audience: Audiences \cup {NobodyHome},
                                stale: BOOLEAN]]
    /\ lead \in [Tokens -> Leads]
    /\ spent \in SpentTokens
    /\ waiting \in SUBSET Waiting
    /\ paid \in [Tokens -> 0 .. 2]

GuardInit ==
    /\ nonces = NoNonces
    /\ sinceCleanup = 0
    /\ issuedNonces = 0
    /\ accepted = [n \in Nonces |-> [count |-> 0, audience |-> NobodyHome, stale |-> FALSE]]
    /\ lead \in [Tokens -> Leads]
    /\ spent = NoneSpent
    /\ waiting = {}
    /\ paid = [t \in Tokens |-> 0]

UpToTwo(count) == IF count < 2 THEN count + 1 ELSE 2

-----------------------------------------------------------------------------
(* Nonces *)

\* GET /__nonce with a valid tag.
IssueNonce(audience) ==
    LET kept == MaybeCleanup(nonces, sinceCleanup)
    IN /\ issuedNonces < MaxNonces
       /\ issuedNonces' = issuedNonces + 1
       /\ nonces' = [kept.nonces EXCEPT ![issuedNonces + 1] =
                        [state |-> "fresh", audience |-> audience, age |-> 0]]
       /\ sinceCleanup' = kept.since
       /\ UNCHANGED accepted
       /\ UNCHANGED clearanceVars

\* A request whose tag is valid for it: a request with another tag is refused before
\* its nonce is looked at, and changes nothing.
GuardedRequest(n, audience) ==
    LET kept == MaybeCleanup(nonces, sinceCleanup)
        found == kept.nonces[n]
    IN /\ nonces' = UseUp(kept.nonces, n, audience)
       /\ sinceCleanup' = kept.since
       /\ accepted' = IF JudgeNonce(found, audience) = "ok"
                      THEN [accepted EXCEPT ![n] =
                              [count |-> UpToTwo(@.count), audience |-> audience,
                               stale |-> found.age > NonceTTL]]
                      ELSE accepted
       /\ UNCHANGED issuedNonces
       /\ UNCHANGED clearanceVars

-----------------------------------------------------------------------------
(* Clearances *)

\* Validated, but not spent: the request may still be refused, and its retry
\* needs the token.
Validate(w, t) ==
    /\ \A m \in waiting : m.by # w
    /\ InTime(lead[t])
    /\ waiting' = waiting \cup {[by |-> w, token |-> t, age |-> 0]}
    /\ UNCHANGED <<lead, spent, paid>>
    /\ UNCHANGED nonceVars

\* The request is refused for another reason before or at its commit.
GiveUp(m) ==
    /\ waiting' = waiting \ {m}
    /\ UNCHANGED <<lead, spent, paid>>
    /\ UNCHANGED nonceVars

\* The commit: the spent tokens are looked up again, and the token is spent in the
\* step that starts the call.
PayAtCommit(m) ==
    /\ waiting' = waiting \ {m}
    /\ \/ /\ IsSpent(spent, m.token)
          /\ spent' = PurgeSpent(spent)
          /\ UNCHANGED paid
       \/ /\ ~IsSpent(spent, m.token)
          /\ spent' = SpendToken(spent, m.token)
          /\ paid' = [paid EXCEPT ![m.token] = UpToTwo(@)]
    /\ UNCHANGED lead
    /\ UNCHANGED nonceVars

-----------------------------------------------------------------------------
\* A second passes.  No request waits longer than WaitLimit.
GuardTick ==
    /\ \A m \in waiting : m.age < WaitLimit
    /\ nonces' = OlderNonces(nonces)
    /\ sinceCleanup' = IF sinceCleanup < CleanupInterval THEN sinceCleanup + 1 ELSE sinceCleanup
    /\ lead' = [t \in Tokens |-> IF lead[t] > -(ClearanceTTL + 1) THEN lead[t] - 1 ELSE lead[t]]
    /\ spent' = OlderSpent(spent)
    /\ waiting' = {[m EXCEPT !.age = @ + 1] : m \in waiting}
    /\ UNCHANGED <<issuedNonces, accepted, paid>>

GuardNext ==
    \/ \E audience \in Audiences : IssueNonce(audience)
    \/ \E n \in Nonces, audience \in Audiences : GuardedRequest(n, audience)
    \/ \E w \in Waiters, t \in Tokens : Validate(w, t)
    \/ \E m \in waiting : GiveUp(m) \/ PayAtCommit(m)
    \/ GuardTick

GuardSpec == GuardInit /\ [][GuardNext]_guardVars

-----------------------------------------------------------------------------
(* Properties *)

\* A nonce lets one request through, for the destination it was issued to and in its
\* time (GD-4), even when cleanups forget it in between.
NonceUsedOnce ==
    \A n \in Nonces : accepted[n].count > 0 =>
        /\ accepted[n].count = 1
        /\ ~accepted[n].stale
        /\ nonces[n].state # "absent" => nonces[n].state = "used"
                                      /\ nonces[n].audience = accepted[n].audience

\* A nonce that was issued and has let no request through stays good for NonceTTL: no
\* cleanup and no failed request of another destination takes it away.
UnusedNonceKept ==
    [][\A n \in Nonces : (nonces[n].state = "fresh" /\ nonces[n].age <= NonceTTL) =>
          nonces'[n].state = "fresh" \/ accepted'[n].count > accepted[n].count]_guardVars

\* Nonces are forgotten in the end, though only lookups clean up, and seldom: whatever
\* came in before, none is NonceTTL + CleanupInterval old when one is issued or lets a
\* request through.  The store holds the nonces issued in that time at most.
NoncesForgotten ==
    [][issuedNonces' # issuedNonces \/ accepted' # accepted =>
          \A n \in Nonces : nonces'[n].age < NonceTTL + CleanupInterval]_guardVars

\* A clearance that has paid for a call pays again only for a request that took more
\* than a second from validating it to its commit: none below level 4, and at level 4
\* only one whose approval took that long to verify.  It holds from whichever side of
\* the clearance's timestamp it was first spent.
PaysAgainOnlyLate ==
    [][\A t \in Tokens : paid[t] > 0 /\ paid'[t] > paid[t] =>
          \E m \in waiting \ waiting' : m.token = t /\ m.age > 1]_guardVars

\* levels.md:175: a clearance "can be spent once".
ClearanceSpentOnce == \A t \in Tokens : paid[t] <= 1
===============================================================================
