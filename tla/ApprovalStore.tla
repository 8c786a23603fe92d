---------------------------- MODULE ApprovalStore ----------------------------
(***************************************************************************)
(* The approval challenges of level 4 (ApprovalStore, gateway/webspec/     *)
(* approval.py) and what each method of the class does to them.            *)
(*                                                                         *)
(* Challenge ids are random and never come back, so the n-th challenge is  *)
(* simply number n: the order of the numbers is the insertion order of the *)
(* dictionary, and its age order.  An id without a challenge holds         *)
(* NoChallenge, whether it was never issued, has expired or was burned.    *)
(***************************************************************************)
EXTENDS Naturals, FiniteSets

CONSTANTS
    Asks,           \* requests, as far as summary_fingerprint() tells them apart:
                    \* records with the field "service" and others
    Signers,        \* holders of SSH keys
    Approvers,      \* those that the allowed-signers file names
    Nobody,         \* no request, no signature
    ApprovalTTL,    \* APPROVAL_TTL
    MaxPending,     \* MAX_PENDING_PER_SERVICE
    MaxFailures,    \* MAX_FAILED_ATTEMPTS
    MaxIssued       \* bound of the model: challenges issued in one behaviour

ASSUME ApprovalAssumption ==
    /\ Approvers \subseteq Signers
    /\ ApprovalTTL \in Nat
    /\ MaxPending \in Nat \ {0}
    /\ MaxFailures \in Nat \ {0}
    /\ MaxIssued \in Nat
    /\ Nobody \notin Asks

Ids == 1 .. MaxIssued

\* The signature in a WebSpec-Approval header: whose it is, and the challenge and
\* request in the message it signs.
Signatures == [signer: Signers, id: Ids, ask: Asks]

\* ssh-keygen accepts the signature of an approver over this very sign_message.
Genuine(sig, id, ask) == sig.signer \in Approvers /\ sig.id = id /\ sig.ask = ask

ChallengeStates == {"absent", "pending", "verifying", "approved", "used"}

\* Ages saturate beyond ApprovalTTL, where all of them are too old.
ChallengeAges == 0 .. ApprovalTTL + 1

Challenge == [state: ChallengeStates, ask: Asks \cup {Nobody}, age: ChallengeAges,
              failures: 0 .. MaxFailures - 1, signature: Signatures \cup {Nobody}]

NoChallenge == [state |-> "absent", ask |-> Nobody, age |-> 0, failures |-> 0,
                signature |-> Nobody]

NewChallenge(ask) == [NoChallenge EXCEPT !.state = "pending", !.ask = ask]

Pool == [Ids -> Challenge]

NoChallenges == [i \in Ids |-> NoChallenge]

Known(ch, i) == ch[i].state # "absent"

OlderPool(ch) ==
    [i \in Ids |-> IF Known(ch, i) /\ ch[i].age <= ApprovalTTL
                   THEN [ch[i] EXCEPT !.age = @ + 1]
                   ELSE ch[i]]

TooOld(c) == c.age > ApprovalTTL

\* Faulty variant: challenges are purged a second early.
PurgeEarly(ch) ==
    [i \in Ids |-> IF ch[i].age >= ApprovalTTL THEN NoChallenge ELSE ch[i]]

\* _purge stops at the first challenge that is not too old: those after it are younger.
Purge(ch) == [i \in Ids |-> IF TooOld(ch[i]) THEN NoChallenge ELSE ch[i]]

-----------------------------------------------------------------------------
(* issue() *)

\* The oldest pending challenge of the same request, if there is one.
Reusable(ch, ask) ==
    LET same == {i \in Ids : ch[i].state = "pending" /\ ch[i].ask = ask}
    IN {i \in same : \A j \in same : i <= j}

Queued(ch, service) == {i \in Ids : Known(ch, i) /\ ch[i].ask.service = service}

QueueFull(ch, ask) == Cardinality(Queued(ch, ask.service)) >= MaxPending

\* The possible ends of issue() for the n-th new challenge: the id (0 when the
\* queue is full) and the challenges left.  The model has no id beyond MaxIssued.
Issue(ch, ask, n) ==
    LET live == Purge(ch)
    IN IF Reusable(live, ask) # {}
       THEN {[id |-> i, pool |-> live] : i \in Reusable(live, ask)}
       ELSE IF QueueFull(live, ask)
            THEN {[id |-> 0, pool |-> live]}
            ELSE {[id |-> m, pool |-> [live EXCEPT ![m] = NewChallenge(ask)]] : m \in {n} \cap Ids}

-----------------------------------------------------------------------------
(* verify(), up to its await *)

\* Faulty variant: the request is not compared.
JudgeAnyRequest(c, ask, sig) ==
    IF c.state = "absent" THEN "unknown"
    ELSE IF TooOld(c) THEN "expired"
    ELSE IF c.state = "used" THEN "reused"
    ELSE IF c.state = "verifying" THEN "in_progress"
    ELSE IF c.state = "approved" THEN IF c.signature = sig THEN "ok" ELSE "invalid"
    ELSE "verify"

\* What a presented approval comes to before any signature is checked.
Judge(c, ask, sig) ==
    IF c.state = "absent" THEN "unknown"
    ELSE IF TooOld(c) THEN "expired"
    ELSE IF c.state = "used" THEN "reused"
    ELSE IF c.state = "verifying" THEN "in_progress"
    ELSE IF c.ask # ask THEN "mismatch"
    ELSE IF c.state # "approved" THEN "verify"
    ELSE IF c.signature = sig THEN "ok" ELSE "invalid"

\* Faulty variant: the challenge is not marked while ssh-keygen runs.
PresentedUnmarked(ch, i, ask, sig) ==
    IF Judge(ch[i], ask, sig) = "expired" THEN [ch EXCEPT ![i] = NoChallenge] ELSE ch

\* The challenges after that: an expired one is deleted, one to be verified is
\* marked, so that no other request can verify it at the same time.
Presented(ch, i, ask, sig) ==
    CASE Judge(ch[i], ask, sig) = "expired" -> [ch EXCEPT ![i] = NoChallenge]
      [] Judge(ch[i], ask, sig) = "verify" -> [ch EXCEPT ![i].state = "verifying"]
      [] OTHER -> ch

-----------------------------------------------------------------------------
(* verify(), after its await *)

\* A challenge purged in the meantime is no longer in the dictionary: the
\* verification changes an object that nothing else can see.
Approve(ch, i, sig) ==
    IF Known(ch, i) THEN [ch EXCEPT ![i].state = "approved", ![i].signature = sig] ELSE ch

\* Faulty variant: a failed or cancelled verification leaves its mark.
FailStranded(ch, i) ==
    IF ~Known(ch, i) THEN ch
    ELSE IF ch[i].failures + 1 >= MaxFailures
         THEN [ch EXCEPT ![i] = NoChallenge]
         ELSE [ch EXCEPT ![i].failures = @ + 1]

Fail(ch, i) ==
    IF ~Known(ch, i) THEN ch
    ELSE IF ch[i].failures + 1 >= MaxFailures
         THEN [ch EXCEPT ![i] = NoChallenge]
         ELSE [ch EXCEPT ![i].state = "pending", ![i].failures = @ + 1]

-----------------------------------------------------------------------------
(* Spending *)

CanSpend(ch, i) == ch[i].state = "approved"

Spend(ch, i) == IF CanSpend(ch, i) THEN [ch EXCEPT ![i].state = "used"] ELSE ch
==============================================================================
