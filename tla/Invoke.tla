-------------------------------- MODULE Invoke --------------------------------
(***************************************************************************)
(* Concurrent attempts at one destination, from the early look at their    *)
(* Idempotency-Key to their answer (handle_service_invoke, gateway/        *)
(* webspec/handlers.py, steps 3 to 6), over the three stores they share:   *)
(* idempotency records, approval challenges and spent clearances.          *)
(*                                                                         *)
(* A handler gives way to others where it awaits: while ssh-keygen         *)
(* verifies its approval and while the tool is called.  Everything between *)
(* two awaits is one step.  How long things take does not matter here and  *)
(* no clock runs: Idempotency, Approval and Guard model what time does to  *)
(* each store.                                                             *)
(***************************************************************************)
EXTENDS IdempotencyStore, ApprovalStore, Clearances

CONSTANTS
    Attempts,       \* request handlers running at the same time
    Keyed,          \* requests that carry an Idempotency-Key
    Cleared,        \* requests that need a clearance
    Witnessed,      \* requests that need a human's approval
    MintedFor       \* the request each clearance token was computed for

\* requirements(): what needs an approval needs a clearance as well.
ASSUME InvokeAssumption ==
    /\ Asks = Requests
    /\ None \notin Keys
    /\ Keyed \subseteq Requests
    /\ Cleared \subseteq Requests
    /\ Witnessed \subseteq Cleared
    /\ MintedFor \in [Tokens -> Requests]

VARIABLES
    store,          \* the idempotency records of the destination
    challenges,     \* the approval challenges
    issued,         \* how many challenges have been issued
    spent,          \* the spent clearances
    active,         \* attempts that await a verification or a tool call
    turnedAway      \* the attempt that the last step refused, as it arrived, over its
                    \* clearance or its approval

vars == <<store, challenges, issued, spent, active, turnedAway>>

\* An attempt and the headers it brings: no key when it needs none, and id 0 without
\* a WebSpec-Approval.
Attempt == [by: Attempts, phase: {"arriving", "verifying", "calling"}, ask: Requests,
            key: Keys \cup {None}, token: Tokens, id: Ids \cup {0}, signature: Signatures \cup {Nobody}]

NoOne == [ask |-> None, key |-> None]

Others(r) == {o \in active : o.by # r.by}

\* The attempt is answered, for any other reason.
Leave(r) ==
    /\ active' = Others(r)
    /\ turnedAway' = NoOne

TurnAway(r) ==
    /\ active' = Others(r)
    /\ turnedAway' = [ask |-> r.ask, key |-> r.key]

TypeOK ==
    /\ store \in Store
    /\ challenges \in Pool
    /\ issued \in 0 .. MaxIssued
    /\ spent \in SpentTokens
    /\ active \in SUBSET {r \in Attempt : r.phase # "arriving"}
    /\ turnedAway \in [ask: Requests \cup {None}, key: Keys \cup {None}]

Init ==
    /\ store = NoRecords
    /\ challenges = NoChallenges
    /\ issued = 0
    /\ spent = NoneSpent
    /\ active = {}
    /\ turnedAway = NoOne

-----------------------------------------------------------------------------
(* The commit: check, claim, spend and start the call, without an await *)

\* Another attempt has spent its clearance, or its challenge is no longer approved.
\* (That takes a challenge that expires while it is verified: see Approval.)
CredentialsGone(r, pool) ==
    \/ r.ask \in Cleared /\ IsSpent(spent, r.token)
    \/ r.ask \in Witnessed /\ ~CanSpend(pool, r.id)

\* The possible claims of its key; an attempt without a key claims nothing.
Claim(r) ==
    IF r.ask \in Keyed
    THEN Begin(store, r.key, r.ask)
    ELSE {[kind |-> "proceed", store |-> store]}

Start(r, pool) ==
    /\ spent' = IF r.ask \in Cleared THEN SpendToken(spent, r.token) ELSE spent
    /\ challenges' = IF r.ask \in Witnessed THEN Spend(pool, r.id) ELSE pool
    /\ active' = Others(r) \cup {[r EXCEPT !.phase = "calling"]}
    /\ turnedAway' = NoOne

\* Looking a clearance up drops those that need no longer be remembered.
SpentSeen(r) == IF r.ask \in Cleared THEN PurgeSpent(spent) ELSE spent

\* Faulty variants: the clearance is spent before the key is claimed; whether it is
\* still unspent is not asked again.
CommitSpendsFirst(r, pool) ==
    IF CredentialsGone(r, pool)
    THEN /\ Leave(r)
         /\ challenges' = pool
         /\ UNCHANGED <<store, spent>>
    ELSE \E claim \in Claim(r) :
            /\ store' = claim.store
            /\ IF claim.kind = "proceed"
               THEN Start(r, pool)
               ELSE /\ Leave(r)
                    /\ challenges' = pool
                    /\ spent' = IF r.ask \in Cleared THEN SpendToken(spent, r.token) ELSE spent

CommitUnchecked(r, pool) ==
    \E claim \in Claim(r) :
        /\ store' = claim.store
        /\ IF claim.kind = "proceed"
           THEN Start(r, pool)
           ELSE /\ Leave(r)
                /\ challenges' = pool
                /\ UNCHANGED spent

Commit(r, pool) ==
    \/ /\ CredentialsGone(r, pool)
       /\ IF r.phase = "arriving" THEN TurnAway(r) ELSE Leave(r)
       /\ challenges' = pool
       /\ spent' = SpentSeen(r)
       /\ UNCHANGED store
    \/ /\ ~CredentialsGone(r, pool)
       /\ \E claim \in Claim(r) :
            /\ store' = claim.store
            /\ \/ /\ claim.kind = "proceed"
                  /\ Start(r, pool)
               \/ /\ claim.kind # "proceed"
                  /\ Leave(r)
                  /\ challenges' = pool
                  /\ spent' = SpentSeen(r)

-----------------------------------------------------------------------------
(* An attempt arrives *)

\* The early look at its key, which an attempt without one does not take.
Seen(r) == IF r.ask \in Keyed THEN Peek(store, r.key, r.ask) ELSE "proceed"

StoreSeen(r) == IF r.ask \in Keyed THEN LookUp(store, r.key) ELSE store

\* A replay, or a key that is taken, is answered before any credential is looked at.
AnswerFromRecord(r) ==
    /\ Seen(r) # "proceed"
    /\ Leave(r)
    /\ store' = StoreSeen(r)
    /\ UNCHANGED <<challenges, issued, spent>>

ClearanceWrong(r) == r.ask \in Cleared /\ MintedFor[r.token] # r.ask

\* Faulty variant: the clearance is looked at before the key, and for being spent.
RefuseClearanceFirst(r) ==
    /\ r.ask \in Cleared
    /\ MintedFor[r.token] # r.ask \/ IsSpent(spent, r.token)
    /\ TurnAway(r)
    /\ store' = StoreSeen(r)
    /\ UNCHANGED <<challenges, issued, spent>>

RefuseClearance(r) ==
    /\ Seen(r) = "proceed"
    /\ ClearanceWrong(r)
    /\ TurnAway(r)
    /\ store' = StoreSeen(r)
    /\ UNCHANGED <<challenges, issued, spent>>

\* No approvers are configured, or their file is gone.
Unapprovable(r) ==
    /\ Seen(r) = "proceed"
    /\ ~ClearanceWrong(r)
    /\ r.ask \in Witnessed
    /\ TurnAway(r)
    /\ store' = StoreSeen(r)
    /\ UNCHANGED <<challenges, issued, spent>>

\* Without an approval it gets a challenge, or none when the queue is full.
AskForApproval(r) ==
    /\ Seen(r) = "proceed"
    /\ ~ClearanceWrong(r)
    /\ r.ask \in Witnessed
    /\ r.id = 0
    /\ \E end \in Issue(challenges, r.ask, issued + 1) :
          /\ challenges' = end.pool
          /\ issued' = IF end.id > issued THEN end.id ELSE issued
          /\ TurnAway(r)
    /\ store' = StoreSeen(r)
    /\ UNCHANGED spent

\* With one it is refused, or waits for its verification.
PresentApproval(r) ==
    LET judged == Judge(challenges[r.id], r.ask, r.signature)
    IN /\ Seen(r) = "proceed"
       /\ ~ClearanceWrong(r)
       /\ r.ask \in Witnessed
       /\ r.id # 0
       /\ judged # "ok"
       /\ challenges' = Presented(challenges, r.id, r.ask, r.signature)
       /\ \/ /\ judged = "verify"
             /\ active' = active \cup {[r EXCEPT !.phase = "verifying"]}
             /\ turnedAway' = NoOne
          \/ /\ judged # "verify"
             /\ TurnAway(r)
       /\ store' = StoreSeen(r)
       /\ UNCHANGED <<issued, spent>>

\* It needs no approval, or brings one that an earlier attempt had verified.
CommitAtOnce(r) ==
    /\ Seen(r) = "proceed"
    /\ ~ClearanceWrong(r)
    /\ r.ask \in Witnessed =>
          r.id # 0 /\ Judge(challenges[r.id], r.ask, r.signature) = "ok"
    /\ Commit(r, challenges)
    /\ UNCHANGED issued

Arrive(r) ==
    /\ \A o \in active : o.by # r.by
    /\ \/ AnswerFromRecord(r)
       \/ RefuseClearance(r)
       \/ Unapprovable(r)
       \/ AskForApproval(r)
       \/ PresentApproval(r)
       \/ CommitAtOnce(r)

-----------------------------------------------------------------------------
(* The verification ends *)

Verified(r) ==
    /\ r.phase = "verifying"
    /\ Genuine(r.signature, r.id, r.ask)
    /\ Commit(r, Approve(challenges, r.id, r.signature))
    /\ UNCHANGED issued

Unverified(r) ==
    /\ r.phase = "verifying"
    /\ challenges' = Fail(challenges, r.id)
    /\ Leave(r)
    /\ UNCHANGED <<store, issued, spent>>

-----------------------------------------------------------------------------
(* The call ends *)

Completed(r) ==
    /\ r.phase = "calling"
    /\ store' = IF r.ask \in Keyed THEN Complete(store, r.key, r.ask) ELSE store
    /\ Leave(r)
    /\ UNCHANGED <<challenges, issued, spent>>

\* Faulty variant: one of the ways out does not settle the key.
LostUnsettled(r) ==
    /\ r.phase = "calling"
    /\ Leave(r)
    /\ UNCHANGED <<store, challenges, issued, spent>>

\* A timeout, a closed connection, any other exception, or a result that cannot be
\* returned.
Lost(r) ==
    /\ r.phase = "calling"
    /\ store' = IF r.ask \in Keyed THEN MarkUnknown(store, r.key) ELSE store
    /\ Leave(r)
    /\ UNCHANGED <<challenges, issued, spent>>

\* The server answered with a JSON-RPC error: the tool did not run.
Rejected(r) ==
    /\ r.phase = "calling"
    /\ store' = IF r.ask \in Keyed THEN Abandon(store, r.key) ELSE store
    /\ Leave(r)
    /\ UNCHANGED <<challenges, issued, spent>>

GoOn(r) == Verified(r) \/ Unverified(r) \/ Completed(r) \/ Lost(r) \/ Rejected(r)

\* An attempt without an approval, and with a key if its request takes one.
Bare(a) ==
    [by: {a}, phase: {"arriving"}, ask: Keyed, key: Keys, token: Tokens, id: {0},
     signature: {Nobody}]
    \cup [by: {a}, phase: {"arriving"}, ask: Requests \ Keyed, key: {None}, token: Tokens,
          id: {0}, signature: {Nobody}]

\* It brings a signature, by anyone, over the challenge it names and its own request;
\* Approval also tries every other one.
Bringing(r, i, s) ==
    [r EXCEPT !.id = i, !.signature = [signer |-> s, id |-> i, ask |-> r.ask]]

Arrivals(a) ==
    Bare(a) \cup {Bringing(r, i, s) : r \in Bare(a), i \in Ids, s \in Signers}

Next ==
    \/ \E a \in Attempts : \E r \in Arrivals(a) : Arrive(r)
    \/ \E r \in active : GoOn(r)

Spec == Init /\ [][Next]_vars

Ends(a, phase) == \E r \in active : r.by = a /\ r.phase = phase /\ GoOn(r)

\* A verification ends: ssh-keygen runs under SSH_KEYGEN_TIMEOUT.
Fairness == \A a \in Attempts : WF_vars(Ends(a, "verifying"))

\* A call ends too, if the pool's awaits do.  Only call_tool_mcp has a timeout: closing a
\* stale client, connecting, and closing the client after a timeout or an error have none.
PoolAnswers == \A a \in Attempts : WF_vars(Ends(a, "calling"))

FairSpec == Spec /\ Fairness

-----------------------------------------------------------------------------
(* Properties *)

Calling == {r \in active : r.phase = "calling"}

\* An open call holds everything it needed, and holds it alone: the record of its key
\* is in flight for it, its clearance and its approval are spent, and no other open
\* call relies on one of the three.
CallsBacked ==
    \A r \in Calling :
        /\ r.ask \in Keyed =>
              /\ store[r.key].state = "in_flight" /\ store[r.key].request = r.ask
              /\ \A o \in Calling \ {r} : o.ask \in Keyed => o.key # r.key
        /\ r.ask \in Cleared =>
              /\ spent[r.token] # -1 /\ MintedFor[r.token] = r.ask
              /\ \A o \in Calling \ {r} : o.ask \in Cleared => o.token # r.token
        /\ r.ask \in Witnessed =>
              /\ challenges[r.id].state = "used" /\ challenges[r.id].ask = r.ask
              /\ Genuine(challenges[r.id].signature, r.id, r.ask)
              /\ \A o \in Calling \ {r} : o.ask \in Witnessed => o.id # r.id

\* A retry that arrives after its request has completed is answered from the record,
\* whatever has become of the clearance and the approval it brings (ID-4).
ReplayNeedsNoCredential ==
    [][\A k \in Keys : (turnedAway' # turnedAway /\ turnedAway'.key = k) =>
          ~(store[k].state = "done" /\ store[k].request = turnedAway'.ask)]_vars

\* No challenge stays marked, and no key stays in flight unless the pool keeps its call
\* waiting: whatever way an attempt leaves by, it settles what it holds (CO-2).
EverythingSettles ==
    /\ \A i \in Ids : challenges[i].state = "verifying" ~> challenges[i].state # "verifying"
    /\ PoolAnswers =>
          \A k \in Keys : store[k].state = "in_flight" ~> store[k].state # "in_flight"

Clearance(t) == <<"clearance", t>>

ApprovalBy(i) == <<"approval", i>>

Uses(r) ==
    {Clearance(t) : t \in IF r.ask \in Cleared THEN {r.token} ELSE {}}
    \cup {ApprovalBy(i) : i \in IF r.ask \in Witnessed THEN {r.id} ELSE {}}

OpenCalls == {[by |-> r.by, uses |-> Uses(r)] : r \in Calling}

SpentCredentials ==
    {Clearance(t) : t \in {u \in Tokens : spent[u] # -1}}
    \cup {ApprovalBy(i) : i \in {j \in Ids : challenges[j].state = "used"}}

Commitment == INSTANCE OneShot WITH
    Credentials <- {Clearance(t) : t \in Tokens} \cup {ApprovalBy(i) : i \in Ids},
    used <- SpentCredentials,
    open <- OpenCalls

\* The commit is what CO-1 says: nothing is spent unless a call starts, everything
\* that call needs is spent with it, and nothing twice.
ImplementsOneShot == Commitment!Spec
===============================================================================
