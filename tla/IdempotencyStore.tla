--------------------------- MODULE IdempotencyStore ---------------------------
(***************************************************************************)
(* The records one destination's Idempotency-Keys leave in                 *)
(* IdempotencyStore (gateway/webspec/idempotency.py), and what each method *)
(* of the class does to them.  The records of a destination are a function *)
(* from keys to records; a key without a record holds Absent.              *)
(*                                                                         *)
(* A record keeps its age (time.monotonic() - updated_at) instead of the   *)
(* time itself, in whole seconds and saturated at AgeCap, beyond which no  *)
(* comparison of the code can tell two ages apart.                         *)
(***************************************************************************)
EXTENDS Naturals, FiniteSets

CONSTANTS
    Keys,           \* Idempotency-Key values
    Requests,       \* what a record is compared on: a fingerprint and a tool
    None,           \* no request, no response
    TTL,            \* IDEMPOTENCY_TTL: how long a settled record is kept
    InFlightTTL,    \* IN_FLIGHT_TTL: when an in-flight record becomes unknown
    MaxEntries      \* MAX_ENTRIES: records one destination may hold

ASSUME StoreAssumption ==
    /\ TTL \in Nat
    /\ InFlightTTL \in Nat
    /\ MaxEntries \in Nat \ {0}
    /\ None \notin Requests

States == {"absent", "in_flight", "done", "unknown"}

AgeCap == InFlightTTL + TTL + 1

Ages == 0 .. AgeCap

\* A stored response is known by the request whose call produced it.  Whether its
\* body was small enough to keep only changes the wording of the answer.
Record == [state: States, request: Requests \cup {None}, age: Ages,
           response: Requests \cup {None}]

Absent == [state |-> "absent", request |-> None, age |-> 0, response |-> None]

InFlight(q) == [state |-> "in_flight", request |-> q, age |-> 0, response |-> None]

Store == [Keys -> Record]

NoRecords == [k \in Keys |-> Absent]

Holds(st, k) == st[k].state # "absent"

Held(st) == {k \in Keys : Holds(st, k)}

-----------------------------------------------------------------------------
(* Time *)

Older(a) == IF a < AgeCap THEN a + 1 ELSE a

OlderRecord(r) == IF r.state = "absent" THEN r ELSE [r EXCEPT !.age = Older(@)]

OlderStore(st) == [k \in Keys |-> OlderRecord(st[k])]

\* Faulty variants: the age of an aged-out record goes on instead of starting
\* again, and every look at an unknown record starts it again.
AgeOutKeepsAge(r) ==
    IF r.state = "in_flight" /\ r.age > InFlightTTL THEN [r EXCEPT !.state = "unknown"] ELSE r

AgeOutRefreshes(r) ==
    IF r.state \in {"in_flight", "unknown"} /\ r.age > InFlightTTL
    THEN [r EXCEPT !.state = "unknown", !.age = 0]
    ELSE r

\* An in-flight record that is too old becomes unknown, and its age starts again.
AgeOut(r) ==
    IF r.state = "in_flight" /\ r.age > InFlightTTL
    THEN [r EXCEPT !.state = "unknown", !.age = 0]
    ELSE r

Expired(r) == r.state \in {"done", "unknown"} /\ r.age > TTL

\* What a record is found to be when it is looked up now.
Current(r) == IF Expired(AgeOut(r)) THEN Absent ELSE AgeOut(r)

\* _lookup ages, or deletes, the one record it looks up.
LookUp(st, k) == [st EXCEPT ![k] = Current(@)]

\* _make_room ages, or deletes, every record of the destination.
Sweep(st) == [k \in Keys |-> Current(st[k])]

-----------------------------------------------------------------------------
(* Decisions *)

\* Faulty variant: the tool is not compared (against ID-2).
ClassifyByFingerprint(r, q) ==
    IF r.state = "absent" THEN "proceed"
    ELSE IF r.request.fingerprint # q.fingerprint THEN "mismatch"
    ELSE IF r.state = "done" THEN "replay"
    ELSE r.state

Classify(r, q) ==
    IF r.state = "absent" THEN "proceed"
    ELSE IF r.request # q THEN "mismatch"
    ELSE IF r.state = "done" THEN "replay"
    ELSE r.state

Peek(st, k, q) == Classify(Current(st[k]), q)

\* Faulty variants: any record may be the victim; the newest completed one is; the
\* oldest record is considered, and only if it is completed.
OldestOfAny(st) ==
    {k \in Keys : Holds(st, k) /\ \A j \in Keys : Holds(st, j) => st[j].age <= st[k].age}

NewestDone(st) ==
    {k \in Keys : /\ st[k].state = "done"
                  /\ \A j \in Keys : st[j].state = "done" => st[j].age >= st[k].age}

\* The completed record that has been settled longest: the first "done" record
\* in the order of the last state change.  Records settled in the same second
\* are not told apart, so any of them may come first.
Oldest(st) ==
    {k \in Keys : /\ st[k].state = "done"
                  /\ \A j \in Keys : st[j].state = "done" => st[j].age <= st[k].age}

\* The records after _make_room, or nothing when there is no room.  A record is
\* added only where there is room, so one victim is always enough.
Roomy(st) ==
    LET swept == Sweep(st)
    IN IF Cardinality(Held(swept)) < MaxEntries
       THEN {swept}
       ELSE {[swept EXCEPT ![v] = Absent] : v \in Oldest(swept)}

\* begin(): the decision and the records it leaves.
Begin(st, k, q) ==
    LET kind == Peek(st, k, q)
    IN IF kind # "proceed"
       THEN {[kind |-> kind, store |-> LookUp(st, k)]}
       ELSE IF Roomy(st) = {}
            THEN {[kind |-> "full", store |-> Sweep(st)]}
            ELSE {[kind |-> "proceed", store |-> [room EXCEPT ![k] = InFlight(q)]] :
                      room \in Roomy(st)}

-----------------------------------------------------------------------------
(* Settling.  The record under the key is changed whoever began it. *)

Settle(st, k, state, response) ==
    IF Holds(st, k)
    THEN [st EXCEPT ![k].state = state, ![k].response = response, ![k].age = 0]
    ELSE st

Complete(st, k, response) == Settle(st, k, "done", response)

\* Faulty variant: a call that may have run frees its key.
MarkUnknownFrees(st, k) == IF st[k].state = "in_flight" THEN [st EXCEPT ![k] = Absent] ELSE st

MarkUnknown(st, k) == Settle(st, k, "unknown", None)

Abandon(st, k) == IF st[k].state = "in_flight" THEN [st EXCEPT ![k] = Absent] ELSE st
===============================================================================
