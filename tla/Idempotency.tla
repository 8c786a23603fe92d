----------------------------- MODULE Idempotency -----------------------------
(***************************************************************************)
(* One destination's Idempotency-Keys shared by concurrent requests.  A    *)
(* caller is the part of handle_service_invoke (gateway/webspec/           *)
(* handlers.py) from the claim of its key to the line that settles it.     *)
(* Between the two the tool is being called and other requests run, so     *)
(* every interleaving of claims, settlements and the passing of time is a  *)
(* behaviour.  One behaviour is one life of the gateway process: the       *)
(* records are in memory, and a restart begins again at Init.              *)
(***************************************************************************)
EXTENDS IdempotencyStore

CONSTANTS
    Callers,        \* request handlers running at the same time
    CallLimit       \* the longest a claim stays open: connecting, then DEFAULT_TIMEOUT

ASSUME CallAssumption == CallLimit \in Nat /\ CallLimit <= AgeCap

VARIABLES
    store,          \* the records of the destination
    claims,         \* the keys granted to callers that have not settled them
    reply,          \* the decision taken in the last step, if it took one
    last            \* how the last settled call of a key ended, and how long ago

vars == <<store, claims, reply, last>>

Claims == [caller: Callers, key: Keys, request: Requests, age: Ages]

Kinds == {"proceed", "replay", "mismatch", "in_flight", "unknown", "full"}

Replies == [kind: Kinds, key: Keys, request: Requests]

Endings == {"never", "done", "unknown", "refused"}

NoReply == [kind |-> "none"]

Idle(c) == \A m \in claims : m.caller # c

TypeOK ==
    /\ store \in Store
    /\ claims \in SUBSET Claims
    /\ reply \in Replies \cup {NoReply}
    /\ last \in [Keys -> [how: Endings, age: Ages]]

Init ==
    /\ store = NoRecords
    /\ claims = {}
    /\ reply = NoReply
    /\ last = [k \in Keys |-> [how |-> "never", age |-> 0]]

-----------------------------------------------------------------------------
\* The early look at a key, which answers a retry before its one-shot
\* credentials are checked again.
PeekAt(k, q) ==
    /\ store' = LookUp(store, k)
    /\ reply' = [kind |-> Peek(store, k, q), key |-> k, request |-> q]
    /\ UNCHANGED <<claims, last>>

\* The commit: the caller goes on only if the decision is "proceed".
Claim(c, k, q) ==
    /\ Idle(c)
    /\ \E d \in Begin(store, k, q) :
          /\ store' = d.store
          /\ reply' = [kind |-> d.kind, key |-> k, request |-> q]
          /\ claims' = IF d.kind = "proceed"
                       THEN claims \cup {[caller |-> c, key |-> k, request |-> q, age |-> 0]}
                       ELSE claims
    /\ UNCHANGED last

Close(m, how) ==
    /\ claims' = claims \ {m}
    /\ reply' = NoReply
    /\ last' = [last EXCEPT ![m.key] = [how |-> how, age |-> 0]]

\* The tool answered and its result was serialized.
Completed(m) ==
    /\ store' = Complete(store, m.key, m.request)
    /\ Close(m, "done")

\* A timeout, a lost connection, a cancellation or a result that cannot be
\* returned: the tool may have run.
Lost(m) ==
    /\ store' = MarkUnknown(store, m.key)
    /\ Close(m, "unknown")

\* A JSON-RPC error response: the server did not run the tool.
Refused(m) ==
    /\ store' = Abandon(store, m.key)
    /\ Close(m, "refused")

Finish(m) == Completed(m) \/ Lost(m) \/ Refused(m)

\* A second passes.  No call stays open beyond CallLimit.
Tick ==
    /\ \A m \in claims : m.age < CallLimit
    /\ store' = OlderStore(store)
    /\ claims' = {[m EXCEPT !.age = @ + 1] : m \in claims}
    /\ last' = [k \in Keys |-> IF last[k].how = "never" THEN last[k]
                               ELSE [last[k] EXCEPT !.age = Older(@)]]
    /\ reply' = NoReply

Next ==
    \/ \E k \in Keys, q \in Requests : PeekAt(k, q)
    \/ \E c \in Callers, k \in Keys, q \in Requests : Claim(c, k, q)
    \/ \E m \in claims : Finish(m)
    \/ Tick

Spec == Init /\ [][Next]_vars

-----------------------------------------------------------------------------
(* Refinement *)

PhaseOf(k) ==
    LET state == Current(store[k]).state
    IN IF \E m \in claims : m.key = k THEN "open"
       ELSE IF state \in {"done", "unknown"} THEN state
       ELSE "free"

Promise == INSTANCE AtMostOnce WITH phase <- [k \in Keys |-> PhaseOf(k)]

\* The records, their ages and the lazy lookups implement the promise: a key is
\* granted to one call at a time and, once a call may have run under it, only
\* time (or, for a completed call, the capacity) makes it free again.
ImplementsAtMostOnce == Promise!Spec

-----------------------------------------------------------------------------
(* Properties *)

\* Two calls are never open under one key: no interleaving of a long call, the
\* ageing of its record and the claims of other requests lets begin() grant a
\* key whose call has not been settled.
OneCallPerKey ==
    \A m, n \in claims : m.key = n.key => m = n

\* An open call is always protected by a record of its own request, still in
\* flight or aged into "unknown", which every other request is answered from.
OpenCallHoldsKey ==
    \A m \in claims :
        /\ store[m.key].state \in {"in_flight", "unknown"}
        /\ store[m.key].request = m.request

\* A retry is never let through blindly: a key whose last call ended with an
\* unknown outcome (mark_unknown) is granted again only after TTL, whatever was
\* evicted for capacity or looked up in between.
NoBlindRetry ==
    (reply.kind = "proceed" /\ last[reply.key].how = "unknown")
        => last[reply.key].age > TTL

\* A replay returns the response of a call made for the same request, so a late
\* settlement never files its response under another request's key.
ReplayIsItsOwn ==
    reply.kind = "replay" => store[reply.key].response = reply.request

\* A key is refused as in use only while something stands against it: a call of
\* the key that is still open, one that ended less than TTL ago, or one whose
\* record had aged into "unknown" before the server refused the call.
BlockedForCause ==
    reply.kind \in {"in_flight", "unknown", "mismatch", "replay"} =>
        \/ \E m \in claims : m.key = reply.key
        \/ last[reply.key].how # "never" /\ last[reply.key].age <= TTL

\* A record that is not yet due is dropped only when its own call was refused by
\* the server, or, if it is completed, to make room in a store that is full of
\* records no older than it.
Dropped(k) == Current(store[k]).state # "absent" /\ store'[k].state = "absent"

RecordsAreKept ==
    [][\A k \in Keys : Dropped(k) =>
          \/ /\ \E m \in claims \ claims' : m.key = k
             /\ last'[k].how = "refused"
          \/ /\ store[k].state = "done"
             /\ reply'.kind = "proceed"
             /\ Cardinality(Held(Sweep(store))) = MaxEntries
             /\ \A j \in Keys : Current(store[j]).state = "done" => store[j].age <= store[k].age
      ]_vars
===============================================================================
