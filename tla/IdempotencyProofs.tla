-------------------------- MODULE IdempotencyProofs --------------------------
(***************************************************************************)
(* Theorems about Idempotency, for every set of keys, callers and requests *)
(* and every value of the limits that the assumptions allow.               *)
(***************************************************************************)
EXTENDS Idempotency, FiniteSetTheorems, TLAPS

-----------------------------------------------------------------------------
(* The inductive invariant *)

\* An open call's record is in flight and as old as the call, or was aged into
\* "unknown" by a lookup more than InFlightTTL seconds after the claim.  Its age
\* shows that it cannot have expired yet.
Backs(r, m) ==
    /\ r.request = m.request
    /\ \/ r.state = "in_flight" /\ r.age = m.age
       \/ r.state = "unknown" /\ r.age + InFlightTTL < m.age

ClaimsBacked == \A m \in claims : m.age <= CallLimit /\ Backs(store[m.key], m)

\* A record without an open call is settled, and was settled or aged no later than
\* the last call of its key ended.
Unclaimed(k) == \A m \in claims : m.key # k

SettledOnly ==
    \A k \in Keys : Unclaimed(k) /\ Holds(store, k) =>
        /\ store[k].state \in {"done", "unknown"}
        /\ last[k].how # "never"
        /\ last[k].age <= store[k].age

\* A key that ended with an unknown outcome keeps its record for TTL.
UnknownKept ==
    \A k \in Keys : last[k].how = "unknown" /\ last[k].age <= TTL =>
        /\ Unclaimed(k)
        /\ store[k].state = "unknown"
        /\ store[k].age <= last[k].age

DoneIsAnswered ==
    \A k \in Keys : store[k].state = "done" => store[k].response = store[k].request

IInv ==
    /\ TypeOK
    /\ ClaimsBacked
    /\ OneCallPerKey
    /\ SettledOnly
    /\ UnknownKept
    /\ DoneIsAnswered

-----------------------------------------------------------------------------
(* Lemmas about the records *)

LEMMA AgeCapNat == AgeCap \in Nat /\ AgeCap > TTL /\ AgeCap > InFlightTTL
BY StoreAssumption DEF AgeCap

LEMMA AbsentType == Absent \in Record
BY AgeCapNat DEF Absent, Record, States, Ages

LEMMA InFlightType ==
    ASSUME NEW q \in Requests
    PROVE  InFlight(q) \in Record
BY AgeCapNat DEF InFlight, Record, States, Ages

LEMMA OlderType ==
    ASSUME NEW a \in Ages
    PROVE  Older(a) \in Ages /\ Older(a) >= a /\ (a < AgeCap => Older(a) = a + 1)
BY AgeCapNat DEF Ages, Older

\* What a lookup makes of a record.
LEMMA CurrentCases ==
    ASSUME NEW r \in Record
    PROVE  /\ Current(r) \in Record
           /\ \/ Current(r) = r /\ ~Expired(r) /\ ~(r.state = "in_flight" /\ r.age > InFlightTTL)
              \/ /\ r.state = "in_flight" /\ r.age > InFlightTTL
                 /\ Current(r) = [r EXCEPT !.state = "unknown", !.age = 0]
              \/ Current(r) = Absent /\ Expired(r)
<1> USE StoreAssumption, AgeCapNat
<1>1. r.age \in Nat /\ r.age \in Ages /\ r.state \in States
  BY DEF Record, Ages
<1>2. CASE r.state = "in_flight" /\ r.age > InFlightTTL
  <2> DEFINE s == [r EXCEPT !.state = "unknown", !.age = 0]
  <2>1. AgeOut(r) = s
    BY <1>2 DEF AgeOut
  <2>4. 0 \in Ages /\ "unknown" \in States
    BY DEF States, Ages
  <2>2. s \in Record /\ s.age = 0
    BY <2>4 DEF Record
  <2>3. ~Expired(s)
    BY <2>2 DEF Expired
  <2> QED BY <1>2, <2>1, <2>2, <2>3 DEF Current
<1>3. CASE ~(r.state = "in_flight" /\ r.age > InFlightTTL)
  <2>1. AgeOut(r) = r
    BY <1>3 DEF AgeOut
  <2> QED BY <1>3, <2>1, AbsentType DEF Current
<1> QED BY <1>2, <1>3

LEMMA CurrentState ==
    ASSUME NEW r \in Record
    PROVE  \/ Current(r) = r
           \/ r.state = "in_flight" /\ Current(r).state = "unknown" /\ Current(r).age = 0
           \/ r.state \in {"done", "unknown"} /\ Current(r).state = "absent"
<1>1. CASE r.state = "in_flight" /\ Current(r) = [r EXCEPT !.state = "unknown", !.age = 0]
  BY <1>1 DEF Record
<1>2. CASE Current(r) = Absent /\ Expired(r)
  BY <1>2 DEF Absent, Expired
<1> QED BY <1>1, <1>2, CurrentCases

\* A second lookup at the same moment finds the same.
LEMMA CurrentTwice ==
    ASSUME NEW r \in Record
    PROVE  Current(Current(r)) = Current(r)
<1> USE StoreAssumption
<1>1. CASE Current(r) = r
  BY <1>1
<1>2. CASE Current(r) = [r EXCEPT !.state = "unknown", !.age = 0]
  BY <1>2 DEF Current, AgeOut, Expired, Record
<1>3. CASE Current(r) = Absent
  BY <1>3 DEF Current, AgeOut, Expired, Absent
<1> QED BY <1>1, <1>2, <1>3, CurrentCases

\* The records after any number of lookups at one moment.
Looked(st, sw) == sw \in Store /\ \A k \in Keys : sw[k] \in {st[k], Current(st[k])}

LEMMA LookUpLooks ==
    ASSUME NEW st \in Store, NEW k \in Keys
    PROVE  Looked(st, LookUp(st, k)) /\ LookUp(st, k)[k] = Current(st[k])
<1>1. st[k] \in Record
  BY DEF Store
<1>2. Current(st[k]) \in Record
  BY <1>1, CurrentCases
<1> QED BY <1>2 DEF Looked, LookUp, Store

LEMMA SweepLooks ==
    ASSUME NEW st \in Store
    PROVE  Looked(st, Sweep(st)) /\ \A k \in Keys : Sweep(st)[k] = Current(st[k])
<1>1. \A k \in Keys : Current(st[k]) \in Record
  BY CurrentCases DEF Store
<1> QED BY <1>1 DEF Looked, Sweep, Store

LEMMA ClassifyKind ==
    ASSUME NEW r \in Record, NEW q \in Requests
    PROVE  /\ Classify(r, q) \in Kinds
           /\ Classify(r, q) = "proceed" <=> r.state = "absent"
           /\ Classify(r, q) = "replay" => r.state = "done" /\ r.request = q
<1>1. r.state \in States
  BY DEF Record
<1> QED BY <1>1 DEF Classify, Kinds, States

\* What begin() leaves: the records as it looked them up, or those with a new
\* record under a key that had none, and perhaps a completed one gone.
Granted(st, k, q, new) ==
    /\ new \in Store
    /\ Current(st[k]).state = "absent"
    /\ new[k] = InFlight(q)
    /\ \A j \in Keys \ {k} :
          \/ new[j] = Current(st[j])
          \/ new[j] = Absent /\ Current(st[j]).state = "done"

LEMMA RoomyCases ==
    ASSUME NEW st \in Store, NEW room \in Roomy(st)
    PROVE  /\ room \in Store
           /\ \A j \in Keys :
                 \/ room[j] = Current(st[j])
                 \/ room[j] = Absent /\ Current(st[j]).state = "done"
<1> DEFINE swept == Sweep(st)
<1>1. swept \in Store /\ \A j \in Keys : swept[j] = Current(st[j])
  BY SweepLooks DEF Looked
<1>2. CASE room = swept
  BY <1>1, <1>2
<1>3. CASE \E v \in Oldest(swept) : room = [swept EXCEPT ![v] = Absent]
  <2>1. PICK v \in Oldest(swept) : room = [swept EXCEPT ![v] = Absent]
    BY <1>3
  <2>2. v \in Keys /\ swept[v].state = "done"
    BY DEF Oldest
  <2> HIDE DEF swept
  <2> QED BY <1>1, <2>1, <2>2, AbsentType DEF Store
<1> QED BY <1>2, <1>3 DEF Roomy

LEMMA BeginCases ==
    ASSUME NEW st \in Store, NEW k \in Keys, NEW q \in Requests, NEW d \in Begin(st, k, q)
    PROVE  /\ d.kind \in Kinds
           /\ \/ d.kind = "proceed" /\ Granted(st, k, q, d.store)
              \/ /\ d.kind # "proceed"
                 /\ Looked(st, d.store)
                 /\ \/ d.kind = "full"
                    \/ d.kind = Peek(st, k, q) /\ d.store[k] = Current(st[k])
<1> DEFINE kind == Peek(st, k, q)
<1>1. Current(st[k]) \in Record
  BY CurrentCases DEF Store
<1>2. kind \in Kinds /\ (kind = "proceed" <=> Current(st[k]).state = "absent")
  BY <1>1, ClassifyKind DEF Peek
<1>3. CASE kind # "proceed"
  <2>1. d = [kind |-> kind, store |-> LookUp(st, k)]
    BY <1>3 DEF Begin
  <2> QED BY <1>2, <1>3, <2>1, LookUpLooks
<1>4. CASE kind = "proceed" /\ Roomy(st) = {}
  <2>1. d = [kind |-> "full", store |-> Sweep(st)]
    BY <1>4 DEF Begin
  <2> QED BY <2>1, SweepLooks DEF Kinds
<1>5. CASE kind = "proceed" /\ Roomy(st) # {}
  <2>1. PICK room \in Roomy(st) :
            d = [kind |-> "proceed", store |-> [room EXCEPT ![k] = InFlight(q)]]
    BY <1>5 DEF Begin
  <2>2. d.kind = "proceed" /\ d.store = [room EXCEPT ![k] = InFlight(q)]
    BY <2>1
  <2>3. room \in Store /\ InFlight(q) \in Record
    BY RoomyCases, InFlightType
  <2>4. d.store \in Store /\ d.store[k] = InFlight(q) /\ \A j \in Keys \ {k} : d.store[j] = room[j]
    BY <2>2, <2>3 DEF Store
  <2>5. Granted(st, k, q, d.store)
    BY <1>2, <1>5, <2>4, RoomyCases DEF Granted
  <2> QED BY <2>2, <2>5 DEF Kinds
<1> QED BY <1>3, <1>4, <1>5

-----------------------------------------------------------------------------
(* The parts of the invariant that a lookup could disturb *)

\* An open call's record survives every lookup.
LEMMA BackedLooks ==
    ASSUME NEW r \in Record, NEW m \in Claims, m.age <= CallLimit, Backs(r, m)
    PROVE  Backs(Current(r), m) /\ Current(r).state \in {"in_flight", "unknown"}
<1> USE StoreAssumption, CallAssumption
<1>1. r.age \in Nat /\ m.age \in Nat
  BY AgeCapNat DEF Record, Claims, Ages
<1>2. CASE Current(r) = r
  BY <1>2 DEF Backs
<1>3. CASE r.state = "in_flight" /\ r.age > InFlightTTL
                 /\ Current(r) = [r EXCEPT !.state = "unknown", !.age = 0]
  BY <1>1, <1>3 DEF Backs, Record
<1>4. ~Expired(r)
  BY <1>1 DEF Backs, Expired, AgeCap
<1> QED BY <1>2, <1>3, <1>4, CurrentCases

\* A record that a claim finds gone was not an open call's.
LEMMA FreeUnclaimed ==
    ASSUME IInv, NEW k \in Keys, Current(store[k]).state = "absent"
    PROVE  Unclaimed(k)
BY BackedLooks DEF IInv, TypeOK, Store, Claims, ClaimsBacked, Unclaimed

LEMMA LookedKeeps ==
    ASSUME IInv, Looked(store, store'), UNCHANGED <<claims, last>>
    PROVE  ClaimsBacked' /\ SettledOnly' /\ UnknownKept' /\ DoneIsAnswered'
<1>1. \A k \in Keys : store[k] \in Record /\ store'[k] \in Record
  BY DEF IInv, TypeOK, Looked, Store
<1>2. \A k \in Keys : last[k].age \in Nat /\ store[k].age \in Nat
  BY <1>1, AgeCapNat DEF IInv, TypeOK, Ages, Record
<1>3. ClaimsBacked'
  BY <1>1, BackedLooks DEF IInv, TypeOK, Claims, ClaimsBacked, Looked
<1>4. SettledOnly'
  <2> SUFFICES ASSUME NEW k \in Keys, Unclaimed(k), Holds(store', k)
               PROVE  /\ store'[k].state \in {"done", "unknown"}
                      /\ last[k].how # "never" /\ last[k].age <= store'[k].age
    BY DEF SettledOnly, Unclaimed, Holds
  <2>1. store'[k] = store[k] \/ store'[k] = Current(store[k])
    BY DEF Looked
  <2>2. Holds(store, k) => store[k].state \in {"done", "unknown"}
    BY DEF IInv, SettledOnly
  <2>3. store'[k] = store[k]
    BY <1>1, <2>1, <2>2, CurrentState DEF Holds
  <2> QED BY <2>3 DEF IInv, SettledOnly, Holds
<1>5. UnknownKept'
  <2> SUFFICES ASSUME NEW k \in Keys, last[k].how = "unknown", last[k].age <= TTL
               PROVE  Unclaimed(k) /\ store'[k].state = "unknown" /\ store'[k].age <= last[k].age
    BY DEF UnknownKept, Unclaimed
  <2>1. Unclaimed(k) /\ store[k].state = "unknown" /\ store[k].age <= last[k].age
    BY DEF IInv, UnknownKept
  <2>2. ~Expired(store[k])
    BY <1>2, <2>1, StoreAssumption DEF Expired
  <2>3. store'[k] = store[k]
    BY <1>1, <2>1, <2>2, CurrentCases DEF Looked
  <2> QED BY <2>1, <2>3
<1>6. DoneIsAnswered'
  <2> SUFFICES ASSUME NEW k \in Keys, store'[k].state = "done"
               PROVE  store'[k].response = store'[k].request
    BY DEF DoneIsAnswered
  <2>1. store'[k] = store[k]
    BY <1>1, CurrentState DEF Looked
  <2> QED BY <2>1 DEF IInv, DoneIsAnswered
<1> QED BY <1>3, <1>4, <1>5, <1>6

-----------------------------------------------------------------------------
(* Every step preserves the invariant *)

LEMMA InitOK == Init => IInv
<1>1. NoRecords \in Store
  BY AbsentType DEF NoRecords, Store
<1>2. 0 \in Ages
  BY AgeCapNat DEF Ages
<1>3. Init => TypeOK
  BY <1>1, <1>2 DEF Init, TypeOK, Endings
<1> QED
  BY <1>3 DEF Init, IInv, ClaimsBacked, OneCallPerKey, SettledOnly, UnknownKept,
     DoneIsAnswered, NoRecords, Absent, Holds

LEMMA PeekOK ==
    ASSUME IInv, NEW k \in Keys, NEW q \in Requests, PeekAt(k, q)
    PROVE  IInv'
<1>1. Looked(store, store') /\ UNCHANGED <<claims, last>>
  BY LookUpLooks DEF PeekAt, IInv, TypeOK
<1>2. Current(store[k]) \in Record
  BY CurrentCases DEF IInv, TypeOK, Store
<1>3. reply' \in Replies
  BY <1>2, ClassifyKind DEF PeekAt, Peek, Replies
<1>4. TypeOK'
  BY <1>1, <1>3 DEF IInv, TypeOK, Looked
<1>5. OneCallPerKey'
  BY <1>1 DEF IInv, OneCallPerKey
<1> QED BY <1>1, <1>4, <1>5, LookedKeeps DEF IInv

\* A claim that begin() grants.
LEMMA GrantOK ==
    ASSUME IInv, NEW c \in Callers, NEW k \in Keys, NEW q \in Requests,
           Granted(store, k, q, store'),
           claims' = claims \cup {[caller |-> c, key |-> k, request |-> q, age |-> 0]},
           reply' \in Replies, UNCHANGED last
    PROVE  IInv'
<1> DEFINE n == [caller |-> c, key |-> k, request |-> q, age |-> 0]
<1>1. 0 \in Ages /\ 0 <= CallLimit
  BY AgeCapNat, CallAssumption DEF Ages
<1>2. n \in Claims
  BY <1>1 DEF Claims
<1>3. TypeOK'
  BY <1>2 DEF IInv, TypeOK, Granted
<1>4. Unclaimed(k)
  BY FreeUnclaimed DEF Granted
<1>5. OneCallPerKey'
  BY <1>4 DEF IInv, OneCallPerKey, Unclaimed
<1>6. \A j \in Keys : store[j] \in Record
  BY DEF IInv, TypeOK, Store
<1>7. ClaimsBacked'
  <2> SUFFICES ASSUME NEW m \in claims'
               PROVE  m.age <= CallLimit /\ Backs(store'[m.key], m)
    BY DEF ClaimsBacked
  <2>1. CASE m = n
    BY <1>1, <2>1 DEF Backs, Granted, InFlight
  <2>2. CASE m \in claims
    <3>1. m \in Claims /\ m.key \in Keys \ {k} /\ m.age <= CallLimit /\ Backs(store[m.key], m)
      BY <1>4, <2>2 DEF IInv, TypeOK, Claims, ClaimsBacked, Unclaimed
    <3>2. Backs(Current(store[m.key]), m) /\ Current(store[m.key]).state # "done"
      BY <1>6, <3>1, BackedLooks
    <3> QED BY <3>1, <3>2 DEF Granted
  <2> QED BY <2>1, <2>2
<1>8. SettledOnly'
  <2> SUFFICES ASSUME NEW j \in Keys, Unclaimed(j)', Holds(store', j)
               PROVE  /\ store'[j].state \in {"done", "unknown"}
                      /\ last[j].how # "never" /\ last[j].age <= store'[j].age
    BY DEF SettledOnly
  <2>1. j # k /\ Unclaimed(j)
    <3>1. n \in claims' /\ n.key = k /\ claims \subseteq claims'
      OBVIOUS
    <3>2. \A m \in claims' : m.key # j
      BY DEF Unclaimed
    <3> HIDE DEF n
    <3> QED BY <3>1, <3>2 DEF Unclaimed
  <2>2. store'[j] = Current(store[j])
    BY <2>1 DEF Granted, Holds, Absent
  <2>3. Holds(store, j) => store[j].state \in {"done", "unknown"}
    BY <2>1 DEF IInv, SettledOnly
  <2>4. store'[j] = store[j]
    BY <1>6, <2>2, <2>3, CurrentState DEF Holds
  <2> QED BY <2>1, <2>4 DEF IInv, SettledOnly, Holds
<1>9. UnknownKept'
  <2> SUFFICES ASSUME NEW j \in Keys, last[j].how = "unknown", last[j].age <= TTL
               PROVE  /\ Unclaimed(j)' /\ store'[j].state = "unknown"
                      /\ store'[j].age <= last[j].age
    BY DEF UnknownKept
  <2>1. Unclaimed(j) /\ store[j].state = "unknown" /\ store[j].age <= last[j].age
    BY DEF IInv, UnknownKept
  <2>2. last[j].age \in Nat /\ store[j].age \in Nat
    BY <1>6, AgeCapNat DEF IInv, TypeOK, Ages, Record
  <2>3. ~Expired(store[j])
    BY <2>1, <2>2, StoreAssumption DEF Expired
  <2>4. Current(store[j]) = store[j]
    BY <1>6, <2>1, <2>3, CurrentCases
  <2>5. j # k
    BY <2>1, <2>4 DEF Granted
  <2> QED BY <2>1, <2>4, <2>5 DEF Granted, Unclaimed
<1>10. DoneIsAnswered'
  <2> SUFFICES ASSUME NEW j \in Keys, store'[j].state = "done"
               PROVE  store'[j].response = store'[j].request
    BY DEF DoneIsAnswered
  <2>1. j # k /\ store'[j] = Current(store[j])
    BY DEF Granted, InFlight, Absent
  <2>2. store'[j] = store[j]
    BY <1>6, <2>1, CurrentState
  <2> QED BY <2>2 DEF IInv, DoneIsAnswered
<1> QED BY <1>3, <1>5, <1>7, <1>8, <1>9, <1>10 DEF IInv

LEMMA ClaimOK ==
    ASSUME IInv, NEW c \in Callers, NEW k \in Keys, NEW q \in Requests, Claim(c, k, q)
    PROVE  IInv'
<1>1. store \in Store
  BY DEF IInv, TypeOK
<1>2. PICK d \in Begin(store, k, q) :
          /\ store' = d.store
          /\ reply' = [kind |-> d.kind, key |-> k, request |-> q]
          /\ claims' = IF d.kind = "proceed"
                       THEN claims \cup {[caller |-> c, key |-> k, request |-> q, age |-> 0]}
                       ELSE claims
  BY DEF Claim
<1>3. UNCHANGED last
  BY DEF Claim
<1>4. d.kind \in Kinds
  BY <1>1, BeginCases
<1>5. reply' \in Replies
  BY <1>2, <1>4 DEF Replies
<1>6. CASE d.kind = "proceed"
  BY <1>1, <1>2, <1>3, <1>5, <1>6, BeginCases, GrantOK
<1>7. CASE d.kind # "proceed"
  <2>1. Looked(store, store') /\ UNCHANGED <<claims, last>>
    BY <1>1, <1>2, <1>3, <1>7, BeginCases
  <2>2. TypeOK' /\ OneCallPerKey'
    BY <1>5, <2>1 DEF IInv, TypeOK, OneCallPerKey, Looked
  <2> QED BY <2>1, <2>2, LookedKeeps DEF IInv
<1> QED BY <1>6, <1>7

\* The end of a call, by what it does to the record of its key.
LEMMA CloseOK ==
    ASSUME IInv, NEW m \in claims, NEW how \in Endings \ {"never"}, Close(m, how),
           store' \in Store,
           \A j \in Keys \ {m.key} : store'[j] = store[j],
           Holds(store', m.key) => store'[m.key].state \in {"done", "unknown"},
           store'[m.key].state = "done" => store'[m.key].response = store'[m.key].request,
           how = "unknown" => store'[m.key].state = "unknown" /\ store'[m.key].age = 0
    PROVE  IInv'
<1>1. m \in Claims /\ m.key \in Keys
  BY DEF IInv, TypeOK, Claims
<1>2. claims' = claims \ {m} /\ reply' = NoReply /\ 0 \in Ages
  BY AgeCapNat DEF Close, Ages
<1>3. /\ last' \in [Keys -> [how: Endings, age: Ages]]
      /\ last'[m.key].how = how /\ last'[m.key].age = 0
      /\ \A j \in Keys \ {m.key} : last'[j] = last[j]
  BY <1>1, <1>2 DEF Close, IInv, TypeOK
<1>4. \A j \in Keys : store'[j].age \in Nat /\ store'[j].age >= 0
  BY AgeCapNat DEF Store, Record, Ages
<1>5. TypeOK'
  BY <1>2, <1>3 DEF IInv, TypeOK
<1>6. \A n \in claims' : n \in claims /\ n.key \in Keys \ {m.key}
  BY <1>2 DEF IInv, TypeOK, Claims, OneCallPerKey
<1>7. ClaimsBacked' /\ OneCallPerKey'
  BY <1>6 DEF IInv, ClaimsBacked, OneCallPerKey
<1>8. \A j \in Keys \ {m.key} : Unclaimed(j)' <=> Unclaimed(j)
  BY <1>2 DEF Unclaimed
<1>9. Unclaimed(m.key)'
  BY <1>6 DEF Unclaimed
<1>10. SettledOnly'
  <2> SUFFICES ASSUME NEW j \in Keys, Unclaimed(j)', Holds(store', j)
               PROVE  /\ store'[j].state \in {"done", "unknown"}
                      /\ last'[j].how # "never" /\ last'[j].age <= store'[j].age
    BY DEF SettledOnly
  <2>1. CASE j = m.key
    BY <1>3, <1>4, <2>1
  <2>2. CASE j # m.key
    BY <1>3, <1>8, <2>2 DEF IInv, SettledOnly, Holds
  <2> QED BY <2>1, <2>2
<1>11. UnknownKept'
  <2> SUFFICES ASSUME NEW j \in Keys, last'[j].how = "unknown", last'[j].age <= TTL
               PROVE  /\ Unclaimed(j)' /\ store'[j].state = "unknown"
                      /\ store'[j].age <= last'[j].age
    BY DEF UnknownKept
  <2>1. CASE j = m.key
    BY <1>3, <1>9, <2>1
  <2>2. CASE j # m.key
    BY <1>3, <1>8, <2>2 DEF IInv, UnknownKept
  <2> QED BY <2>1, <2>2
<1>12. DoneIsAnswered'
  <2> SUFFICES ASSUME NEW j \in Keys, store'[j].state = "done"
               PROVE  store'[j].response = store'[j].request
    BY DEF DoneIsAnswered
  <2>1. CASE j = m.key
    BY <2>1
  <2>2. CASE j # m.key
    BY <2>2 DEF IInv, DoneIsAnswered
  <2> QED BY <2>1, <2>2
<1> QED BY <1>5, <1>7, <1>10, <1>11, <1>12 DEF IInv

LEMMA FinishOK ==
    ASSUME IInv, NEW m \in claims, Finish(m)
    PROVE  IInv'
<1> DEFINE r == store[m.key]
<1>1. m \in Claims /\ m.key \in Keys /\ m.request \in Requests
  BY DEF IInv, TypeOK, Claims
<1>2. store \in Store /\ r \in Record /\ 0 \in Ages
  BY <1>1, AgeCapNat DEF IInv, TypeOK, Store, Ages
<1>3. r.request = m.request /\ r.state \in {"in_flight", "unknown"} /\ Holds(store, m.key)
  BY DEF IInv, ClaimsBacked, Backs, Holds
<1>4. CASE Completed(m)
  <2>1. store' = [store EXCEPT ![m.key].state = "done", ![m.key].response = m.request,
                               ![m.key].age = 0]
    BY <1>3, <1>4 DEF Completed, Complete, Settle
  <2>2. /\ store'[m.key].state = "done" /\ store'[m.key].response = m.request
        /\ store'[m.key].request = m.request
    BY <1>1, <1>2, <1>3, <2>1 DEF Store, Record
  <2>3. store' \in Store
    BY <1>1, <1>2, <2>1 DEF Store, Record, States
  <2>4. \A j \in Keys \ {m.key} : store'[j] = store[j]
    BY <1>2, <2>1 DEF Store
  <2>5. Close(m, "done")
    BY <1>4 DEF Completed
  <2> QED BY <2>2, <2>3, <2>4, <2>5, CloseOK DEF Endings
<1>5. CASE Lost(m)
  <2>1. store' = [store EXCEPT ![m.key].state = "unknown", ![m.key].response = None,
                               ![m.key].age = 0]
    BY <1>3, <1>5 DEF Lost, MarkUnknown, Settle
  <2>2. store'[m.key].state = "unknown" /\ store'[m.key].age = 0
    BY <1>1, <1>2, <2>1 DEF Store, Record
  <2>3. store' \in Store
    BY <1>1, <1>2, <2>1 DEF Store, Record, States
  <2>4. \A j \in Keys \ {m.key} : store'[j] = store[j]
    BY <1>2, <2>1 DEF Store
  <2>5. Close(m, "unknown")
    BY <1>5 DEF Lost
  <2> QED BY <2>2, <2>3, <2>4, <2>5, CloseOK DEF Endings
<1>6. CASE Refused(m)
  <2>1. store' = IF r.state = "in_flight" THEN [store EXCEPT ![m.key] = Absent] ELSE store
    BY <1>6 DEF Refused, Abandon
  <2>2. store' \in Store /\ \A j \in Keys \ {m.key} : store'[j] = store[j]
    BY <1>2, <2>1, AbsentType DEF Store
  <2>3. store'[m.key].state \in {"absent", "unknown"}
    BY <1>1, <1>2, <1>3, <2>1 DEF Store, Absent
  <2>4. Close(m, "refused")
    BY <1>6 DEF Refused
  <2> QED BY <2>2, <2>3, <2>4, CloseOK DEF Endings, Holds
<1> QED BY <1>4, <1>5, <1>6 DEF Finish

LEMMA TickOK == ASSUME IInv, Tick PROVE IInv'
<1> USE StoreAssumption, CallAssumption
<1> DEFINE aged(m) == [m EXCEPT !.age = @ + 1]
<1>1. \A k \in Keys : store[k] \in Record /\ store[k].age \in Ages /\ last[k].age \in Ages
  BY DEF IInv, TypeOK, Store, Record
<1>2. /\ store' = [k \in Keys |-> OlderRecord(store[k])]
      /\ claims' = {aged(m) : m \in claims}
      /\ reply' = NoReply
      /\ last' = [k \in Keys |-> IF last[k].how = "never" THEN last[k]
                                  ELSE [last[k] EXCEPT !.age = Older(@)]]
  BY DEF Tick, OlderStore
<1>3. \A k \in Keys : /\ store'[k] \in Record
                      /\ store'[k].state = store[k].state
                      /\ store'[k].request = store[k].request
                      /\ store'[k].response = store[k].response
                      /\ store'[k].age = IF Holds(store, k) THEN Older(store[k].age)
                                         ELSE store[k].age
  <2> SUFFICES ASSUME NEW k \in Keys
               PROVE  /\ store'[k] \in Record
                      /\ store'[k].state = store[k].state
                      /\ store'[k].request = store[k].request
                      /\ store'[k].response = store[k].response
                      /\ store'[k].age = IF Holds(store, k) THEN Older(store[k].age)
                                         ELSE store[k].age
    OBVIOUS
  <2>1. Older(store[k].age) \in Ages
    BY <1>1, OlderType
  <2> QED BY <1>1, <1>2, <2>1 DEF OlderRecord, Record, Holds
<1>4. \A k \in Keys : /\ last'[k].how = last[k].how
                      /\ last'[k] \in [how: Endings, age: Ages]
                      /\ last'[k].age = IF last[k].how = "never" THEN last[k].age
                                        ELSE Older(last[k].age)
  <2> SUFFICES ASSUME NEW k \in Keys
               PROVE  /\ last'[k].how = last[k].how
                      /\ last'[k] \in [how: Endings, age: Ages]
                      /\ last'[k].age = IF last[k].how = "never" THEN last[k].age
                                        ELSE Older(last[k].age)
    OBVIOUS
  <2>1. last[k] \in [how: Endings, age: Ages] /\ Older(last[k].age) \in Ages
    BY <1>1, OlderType DEF IInv, TypeOK
  <2> QED BY <1>2, <2>1
<1>5. \A m \in claims : /\ m \in Claims /\ m.key \in Keys
                         /\ m.age \in Nat /\ m.age < CallLimit /\ m.age < AgeCap
  BY AgeCapNat DEF Tick, IInv, TypeOK, Claims, Ages
<1>6. \A m \in claims : /\ aged(m) \in Claims /\ aged(m).age = m.age + 1
                        /\ aged(m).key = m.key /\ aged(m).request = m.request
  BY <1>5, AgeCapNat DEF Claims, Ages
<1>7. TypeOK'
  BY <1>2, <1>3, <1>4, <1>6 DEF TypeOK, Store
<1> HIDE DEF aged
<1>8. ClaimsBacked'
  <2> SUFFICES ASSUME NEW m \in claims
               PROVE  aged(m).age <= CallLimit /\ Backs(store'[m.key], aged(m))
    BY <1>2, <1>6 DEF ClaimsBacked
  <2> DEFINE r == store[m.key]
  <2>1. Backs(r, m) /\ Holds(store, m.key)
    BY DEF IInv, ClaimsBacked, Backs, Holds
  <2>2. r.age \in Nat /\ m.age \in Nat /\ m.age < AgeCap
    BY <1>1, <1>5, AgeCapNat DEF Ages
  <2>3. r.age = m.age \/ r.age + InFlightTTL < m.age
    BY <2>1 DEF Backs
  <2> HIDE DEF r
  <2>4. r.age <= m.age /\ r.age < AgeCap
    BY <2>2, <2>3, AgeCapNat
  <2>5. Older(r.age) = r.age + 1
    BY <2>4 DEF Older
  <2>6. store'[m.key].age = r.age + 1
    BY <1>3, <1>5, <2>1, <2>5 DEF r
  <2> USE DEF r
  <2> QED BY <1>1, <1>3, <1>5, <1>6, <2>1, <2>6, AgeCapNat DEF Backs, Ages
<1>9. \A k \in Keys : Unclaimed(k)' <=> Unclaimed(k)
  BY <1>2, <1>5, <1>6 DEF Unclaimed
<1>10. OneCallPerKey'
  <2>1. \A m, n \in claims : aged(m).key = aged(n).key => m = n
    BY <1>6 DEF IInv, OneCallPerKey
  <2>2. \A m \in claims' : \E n \in claims : m = aged(n)
    BY <1>2
  <2> QED BY <2>1, <2>2 DEF OneCallPerKey
<1>11. SettledOnly'
  <2> SUFFICES ASSUME NEW k \in Keys, Unclaimed(k), Holds(store, k)
               PROVE  /\ store'[k].state \in {"done", "unknown"}
                      /\ last'[k].how # "never" /\ last'[k].age <= store'[k].age
    BY <1>3, <1>9 DEF SettledOnly, Holds
  <2>1. /\ store[k].state \in {"done", "unknown"} /\ last[k].how # "never"
        /\ last[k].age <= store[k].age
    BY DEF IInv, SettledOnly
  <2>2. Older(last[k].age) <= Older(store[k].age)
    BY <1>1, <2>1, AgeCapNat DEF Older, Ages
  <2> QED BY <1>3, <1>4, <2>1, <2>2
<1>12. UnknownKept'
  <2> SUFFICES ASSUME NEW k \in Keys, last'[k].how = "unknown", last'[k].age <= TTL
               PROVE  /\ Unclaimed(k)' /\ store'[k].state = "unknown"
                      /\ store'[k].age <= last'[k].age
    BY DEF UnknownKept
  <2>1. last[k].how = "unknown" /\ last'[k].age = Older(last[k].age)
    BY <1>4
  <2>2. last[k].age <= TTL
    BY <1>1, <2>1, OlderType, AgeCapNat DEF Ages
  <2>3. Unclaimed(k) /\ store[k].state = "unknown" /\ store[k].age <= last[k].age
    BY <2>1, <2>2 DEF IInv, UnknownKept
  <2>4. Older(store[k].age) <= Older(last[k].age)
    BY <1>1, <2>3, AgeCapNat DEF Older, Ages
  <2> QED BY <1>3, <1>9, <2>1, <2>3, <2>4 DEF Holds
<1>13. DoneIsAnswered'
  BY <1>3 DEF IInv, DoneIsAnswered
<1> QED BY <1>7, <1>8, <1>10, <1>11, <1>12, <1>13 DEF IInv

-----------------------------------------------------------------------------
(* What the decisions say *)

Answers == NoBlindRetry /\ ReplayIsItsOwn /\ BlockedForCause

LEMMA AnswerOK ==
    ASSUME IInv, NEW k \in Keys, NEW q \in Requests,
           reply'.key = k, reply'.request = q, UNCHANGED last, claims \subseteq claims',
           \/ reply'.kind = Peek(store, k, q) /\ store'[k] = Current(store[k])
           \/ reply'.kind = "proceed" /\ Current(store[k]).state = "absent"
           \/ reply'.kind = "full"
    PROVE  Answers'
<1> DEFINE r == store[k]
<1>1. r \in Record /\ Current(r) \in Record
  BY CurrentCases DEF IInv, TypeOK, Store
<1>2. r.age \in Nat /\ last[k].age \in Nat
  BY <1>1, AgeCapNat DEF IInv, TypeOK, Record, Ages
<1>3. /\ reply'.kind = "proceed" => Current(r).state = "absent"
      /\ reply'.kind = "replay" => store'[k] = Current(r) /\ Current(r).state = "done"
                                   /\ Current(r).request = q
      /\ reply'.kind \notin {"proceed", "full"} => Current(r).state # "absent"
  BY <1>1, ClassifyKind DEF Peek
<1>4. NoBlindRetry'
  <2> SUFFICES ASSUME Current(r).state = "absent", last[k].how = "unknown", last[k].age <= TTL
               PROVE  FALSE
    BY <1>2, <1>3, StoreAssumption DEF NoBlindRetry
  <2>1. r.state = "unknown" /\ r.age <= last[k].age
    BY DEF IInv, UnknownKept
  <2>2. ~Expired(r)
    BY <1>2, <2>1, StoreAssumption DEF Expired
  <2> QED BY <1>1, <2>1, <2>2, CurrentCases
<1>5. ReplayIsItsOwn'
  <2> SUFFICES ASSUME reply'.kind = "replay"
               PROVE  store'[k].response = q
    BY DEF ReplayIsItsOwn
  <2>1. Current(r) = r
    BY <1>1, <1>3, CurrentState
  <2> QED BY <1>3, <2>1 DEF IInv, DoneIsAnswered
<1>6. BlockedForCause'
  <2> SUFFICES ASSUME reply'.kind \notin {"proceed", "full"}, Unclaimed(k)
               PROVE  last[k].how # "never" /\ last[k].age <= TTL
    BY DEF BlockedForCause, Unclaimed
  <2>1. Holds(store, k)
    BY <1>1, <1>3, CurrentState DEF Holds
  <2>2. /\ r.state \in {"done", "unknown"} /\ last[k].how # "never"
        /\ last[k].age <= r.age
    BY <2>1 DEF IInv, SettledOnly
  <2>3. ~Expired(r)
    BY <1>3, <2>2 DEF Current, AgeOut, Absent
  <2>4. r.age <= TTL
    BY <1>2, <2>2, <2>3, StoreAssumption DEF Expired
  <2> QED BY <1>2, <2>2, <2>4, StoreAssumption
<1> QED BY <1>4, <1>5, <1>6 DEF Answers

LEMMA StepAnswers == ASSUME IInv, Answers, [Next]_vars PROVE Answers'
<1>1. CASE reply' = NoReply
  BY <1>1 DEF NoReply, Answers, NoBlindRetry, ReplayIsItsOwn, BlockedForCause
<1>2. ASSUME NEW k \in Keys, NEW q \in Requests, PeekAt(k, q)
      PROVE  Answers'
  BY <1>2, LookUpLooks, AnswerOK DEF PeekAt, IInv, TypeOK
<1>3. ASSUME NEW c \in Callers, NEW k \in Keys, NEW q \in Requests, Claim(c, k, q)
      PROVE  Answers'
  <2>1. PICK d \in Begin(store, k, q) :
            /\ store' = d.store
            /\ reply' = [kind |-> d.kind, key |-> k, request |-> q]
            /\ claims \subseteq claims'
    BY <1>3 DEF Claim
  <2>2. UNCHANGED last /\ store \in Store
    BY <1>3 DEF Claim, IInv, TypeOK
  <2>3. \/ reply'.kind = Peek(store, k, q) /\ store'[k] = Current(store[k])
        \/ reply'.kind = "proceed" /\ Current(store[k]).state = "absent"
        \/ reply'.kind = "full"
    BY <2>1, <2>2, BeginCases DEF Granted
  <2> QED BY <2>1, <2>2, <2>3, AnswerOK
<1>4. ASSUME NEW m \in claims, Finish(m)
      PROVE  Answers'
  BY <1>1, <1>4 DEF Finish, Completed, Lost, Refused, Close
<1>5. CASE Tick
  BY <1>1, <1>5 DEF Tick
<1>6. CASE UNCHANGED vars
  BY <1>6 DEF vars, Answers, NoBlindRetry, ReplayIsItsOwn, BlockedForCause
<1> QED BY <1>2, <1>3, <1>4, <1>5, <1>6 DEF Next

-----------------------------------------------------------------------------
(* The theorems *)

LEMMA StepOK == ASSUME IInv, [Next]_vars PROVE IInv'
<1>1. ASSUME NEW k \in Keys, NEW q \in Requests, PeekAt(k, q)
      PROVE  IInv'
  BY <1>1, PeekOK
<1>2. ASSUME NEW c \in Callers, NEW k \in Keys, NEW q \in Requests, Claim(c, k, q)
      PROVE  IInv'
  BY <1>2, ClaimOK
<1>3. ASSUME NEW m \in claims, Finish(m)
      PROVE  IInv'
  BY <1>3, FinishOK
<1>4. CASE Tick
  BY <1>4, TickOK
<1>5. CASE UNCHANGED vars
  BY <1>5 DEF vars, IInv, TypeOK, ClaimsBacked, OneCallPerKey, SettledOnly, UnknownKept,
              DoneIsAnswered, Unclaimed, Holds
<1> QED BY <1>1, <1>2, <1>3, <1>4, <1>5 DEF Next

\* The invariant that carries the others: how the record, the open call and the
\* last settled call of a key are related (begin, _age_out, _settle, abandon).
THEOREM Invariance == Spec => []IInv
<1>1. Init => IInv
  BY InitOK
<1>2. IInv /\ [Next]_vars => IInv'
  BY StepOK
<1> QED BY <1>1, <1>2, PTL DEF Spec

\* Types: no record or age leaves its range, and an open call never outlives the
\* ages the records can have.
THEOREM TypeCorrect == Spec => []TypeOK
<1>1. IInv => TypeOK
  BY DEF IInv
<1> QED BY <1>1, Invariance, PTL

\* begin() never grants a key whose call is open (ID-3: "in flight" answers 409),
\* whatever lookups aged, expired or evicted meanwhile.
THEOREM MutualExclusion == Spec => []OneCallPerKey
<1>1. IInv => OneCallPerKey
  BY DEF IInv
<1> QED BY <1>1, Invariance, PTL

\* The record that protects an open call is never evicted, expired or taken over
\* by another request (ID-5).
THEOREM CallsProtected == Spec => []OpenCallHoldsKey
<1>1. IInv => OpenCallHoldsKey
  BY DEF IInv, ClaimsBacked, Backs, OpenCallHoldsKey
<1> QED BY <1>1, Invariance, PTL

LEMMA InitAnswers == Init => Answers
BY DEF Init, NoReply, Answers, NoBlindRetry, ReplayIsItsOwn, BlockedForCause

LEMMA AnswersHold == Spec => []Answers
<1>1. IInv /\ Answers /\ [Next]_vars => Answers'
  BY StepAnswers
<1> QED BY <1>1, InitAnswers, Invariance, PTL DEF Spec

\* mark_unknown() blocks its key for TTL: no peek or begin says "proceed" in
\* that time, so a retry is never sent while the first call may have run.
THEOREM UnknownBlocks == Spec => []NoBlindRetry
<1>1. Answers => NoBlindRetry
  BY DEF Answers
<1> QED BY <1>1, AnswersHold, PTL

\* What a replay returns was stored by complete() for the same request.
THEOREM ReplayCorrect == Spec => []ReplayIsItsOwn
<1>1. Answers => ReplayIsItsOwn
  BY DEF Answers
<1> QED BY <1>1, AnswersHold, PTL

\* A key is never refused as used once every trace of a call of it is TTL old.
THEOREM RefusalsJustified == Spec => []BlockedForCause
<1>1. Answers => BlockedForCause
  BY DEF Answers
<1> QED BY <1>1, AnswersHold, PTL

-----------------------------------------------------------------------------
(* The refinement: each step is a step of AtMostOnce, or changes no phase *)

Claimed(k) == \E m \in claims : m.key = k

LEMMA PhaseCases ==
    ASSUME NEW k \in Keys
    PROVE  PhaseOf(k) = IF Claimed(k) THEN "open"
                        ELSE IF Current(store[k]).state \in {"done", "unknown"}
                             THEN Current(store[k]).state
                             ELSE "free"
BY DEF PhaseOf, Claimed

\* What only lets settled keys go is a Lapse, of no key if nothing goes.
LEMMA LapseStep ==
    ASSUME \A k \in Keys : \/ PhaseOf(k)' = PhaseOf(k)
                           \/ PhaseOf(k) \in {"done", "unknown"} /\ PhaseOf(k)' = "free"
    PROVE  Promise!Lapse
<1> DEFINE gone == {k \in Keys : PhaseOf(k)' # PhaseOf(k)}
<1>1. gone \in SUBSET {k \in Keys : [j \in Keys |-> PhaseOf(j)][k] \in {"done", "unknown"}}
  OBVIOUS
<1>2. [k \in Keys |-> PhaseOf(k)']
          = [k \in Keys |-> IF k \in gone THEN "free" ELSE [j \in Keys |-> PhaseOf(j)][k]]
  OBVIOUS
<1> QED BY <1>1, <1>2 DEF Promise!Lapse

LEMMA GrantStep ==
    ASSUME NEW k \in Keys, PhaseOf(k) = "free", PhaseOf(k)' = "open",
           NEW e \in Keys,
           \/ PhaseOf(e)' = PhaseOf(e)
           \/ PhaseOf(e) = "done" /\ PhaseOf(e)' = "free",
           \A j \in Keys \ {k, e} : PhaseOf(j)' = PhaseOf(j)
    PROVE  Promise!Grant(k)
<1> DEFINE P == [j \in Keys |-> PhaseOf(j)]
           Q == [j \in Keys |-> PhaseOf(j)']
<1>1. P[k] = "free" /\ Q = [j \in Keys |-> Q[j]]
  OBVIOUS
<1>2. CASE PhaseOf(e) = "done" /\ PhaseOf(e)' = "free"
  <2>1. P[e] = "done" /\ Q = [P EXCEPT ![k] = "open", ![e] = "free"]
    BY <1>2
  <2> QED BY <1>1, <2>1 DEF Promise!Grant
<1>3. CASE e = k \/ PhaseOf(e)' = PhaseOf(e)
  <2>1. Q = [P EXCEPT ![k] = "open"]
    BY <1>3
  <2> QED BY <1>1, <2>1 DEF Promise!Grant
<1> QED BY <1>2, <1>3

LEMMA EndStep ==
    ASSUME NEW k \in Keys, PhaseOf(k) = "open", PhaseOf(k)' \in {"free", "done", "unknown"},
           \A j \in Keys \ {k} : PhaseOf(j)' = PhaseOf(j)
    PROVE  Promise!End(k)
<1> DEFINE P == [j \in Keys |-> PhaseOf(j)]
           Q == [j \in Keys |-> PhaseOf(j)']
<1>1. P[k] = "open" /\ Q = [P EXCEPT ![k] = PhaseOf(k)']
  OBVIOUS
<1> QED BY <1>1 DEF Promise!End

\* Looking a record up changes no phase: it was already seen as it is now.
LEMMA LookedPhases ==
    ASSUME IInv, Looked(store, store'), UNCHANGED claims
    PROVE  Promise!Lapse
<1> SUFFICES ASSUME NEW k \in Keys PROVE PhaseOf(k)' = PhaseOf(k)
  BY LapseStep
<1>1. store[k] \in Record /\ store'[k] \in {store[k], Current(store[k])}
  BY DEF IInv, TypeOK, Looked, Store
<1>2. Current(store'[k]) = Current(store[k])
  BY <1>1, CurrentTwice
<1> QED BY <1>2 DEF PhaseOf

\* The records of a granted claim, with the one that made room for it.
LEMMA GrantedRoom ==
    ASSUME NEW st \in Store, NEW k \in Keys, NEW q \in Requests, NEW d \in Begin(st, k, q),
           d.kind = "proceed"
    PROVE  \E e \in Keys :
              /\ \/ e = k
                 \/ d.store[e] = Absent /\ Current(st[e]).state = "done"
              /\ \A j \in Keys \ {k, e} : d.store[j] = Current(st[j])
<1>1. Roomy(st) # {} /\ Peek(st, k, q) = "proceed"
  BY DEF Begin
<1>2. PICK room \in Roomy(st) :
          d = [kind |-> "proceed", store |-> [room EXCEPT ![k] = InFlight(q)]]
  BY <1>1 DEF Begin
<1>3. d.store = [room EXCEPT ![k] = InFlight(q)] /\ room \in Store
  BY <1>2, RoomyCases
<1>4. \A j \in Keys \ {k} : d.store[j] = room[j]
  BY <1>3 DEF Store
<1> DEFINE swept == Sweep(st)
<1>5. swept \in Store /\ \A j \in Keys : swept[j] = Current(st[j])
  BY SweepLooks DEF Looked
<1>6. CASE room = swept
  BY <1>4, <1>5, <1>6
<1>7. CASE \E v \in Oldest(swept) : room = [swept EXCEPT ![v] = Absent]
  <2>1. PICK v \in Oldest(swept) : room = [swept EXCEPT ![v] = Absent]
    BY <1>7
  <2>2. v \in Keys /\ swept[v].state = "done"
    BY DEF Oldest
  <2> HIDE DEF swept
  <2>3. room[v] = Absent /\ \A j \in Keys \ {v} : room[j] = swept[j]
    BY <1>5, <2>1, <2>2 DEF Store
  <2> QED BY <1>4, <1>5, <2>2, <2>3
<1> QED BY <1>6, <1>7 DEF Roomy

LEMMA ClaimPhases ==
    ASSUME IInv, NEW c \in Callers, NEW k \in Keys, NEW q \in Requests, Claim(c, k, q)
    PROVE  Promise!Next
<1>1. store \in Store /\ \A j \in Keys : store[j] \in Record
  BY DEF IInv, TypeOK, Store
<1>2. PICK d \in Begin(store, k, q) :
          /\ store' = d.store
          /\ claims' = IF d.kind = "proceed"
                       THEN claims \cup {[caller |-> c, key |-> k, request |-> q, age |-> 0]}
                       ELSE claims
  BY DEF Claim
<1>3. CASE d.kind # "proceed"
  BY <1>1, <1>2, <1>3, BeginCases, LookedPhases DEF Promise!Next
<1>4. CASE d.kind = "proceed"
  <2> DEFINE n == [caller |-> c, key |-> k, request |-> q, age |-> 0]
  <2>1. n.key = k /\ claims' = claims \cup {n}
    BY <1>2, <1>4
  <2> HIDE DEF n
  <2>2. Claimed(k)' /\ \A j \in Keys \ {k} : Claimed(j)' <=> Claimed(j)
    BY <2>1 DEF Claimed
  <2>3. Granted(store, k, q, store')
    BY <1>1, <1>2, <1>4, BeginCases
  <2>4. Current(store[k]).state = "absent" /\ Unclaimed(k)
    BY <2>3, FreeUnclaimed DEF Granted
  <2>5. PhaseOf(k) = "free"
    BY <2>4, PhaseCases DEF Claimed, Unclaimed
  <2>6. PhaseOf(k)' = "open"
    BY <2>2 DEF PhaseOf, Claimed
  <2>7. PICK e \in Keys :
            /\ \/ e = k
               \/ store'[e] = Absent /\ Current(store[e]).state = "done"
            /\ \A j \in Keys \ {k, e} : store'[j] = Current(store[j])
    BY <1>1, <1>2, <1>4, GrantedRoom
  <2>8. \A j \in Keys \ {k, e} : PhaseOf(j)' = PhaseOf(j)
    <3> SUFFICES ASSUME NEW j \in Keys \ {k, e} PROVE PhaseOf(j)' = PhaseOf(j)
      OBVIOUS
    <3>1. Current(store'[j]) = Current(store[j])
      BY <1>1, <2>7, CurrentTwice
    <3> QED BY <2>2, <3>1 DEF PhaseOf, Claimed
  <2>9. CASE e = k
    <3>1. \A j \in Keys \ {k} : PhaseOf(j)' = PhaseOf(j)
      BY <2>8, <2>9
    <3>2. Promise!Grant(k)
      <4> DEFINE P == [j \in Keys |-> PhaseOf(j)]
                 Q == [j \in Keys |-> PhaseOf(j)']
      <4>1. P[k] = "free" /\ Q = [P EXCEPT ![k] = "open"]
        BY <2>5, <2>6, <3>1
      <4> QED BY <4>1 DEF Promise!Grant
    <3> QED BY <3>2 DEF Promise!Next
  <2>10. CASE e # k
    <3>1. store'[e] = Absent /\ Current(store[e]).state = "done"
      BY <2>7, <2>10
    <3>2. Unclaimed(e)
      BY <1>1, <3>1, BackedLooks DEF IInv, TypeOK, Claims, ClaimsBacked, Unclaimed
    <3>3. PhaseOf(e) = "done"
      BY <3>1, <3>2, PhaseCases DEF Claimed, Unclaimed
    <3>4. Current(store'[e]).state = "absent" /\ ~Claimed(e)'
      BY <2>2, <2>10, <3>1, <3>2 DEF Claimed, Unclaimed, Current, AgeOut, Expired, Absent
    <3>5. PhaseOf(e)' = "free"
      BY <3>4 DEF PhaseOf, Claimed
    <3> QED BY <2>5, <2>6, <2>8, <3>3, <3>5, GrantStep DEF Promise!Next
  <2> QED BY <2>9, <2>10
<1> QED BY <1>3, <1>4

LEMMA FinishPhases ==
    ASSUME IInv, NEW m \in claims, Finish(m)
    PROVE  Promise!Next
<1>1. m.key \in Keys /\ claims' = claims \ {m}
  BY DEF Finish, Completed, Lost, Refused, Close, IInv, TypeOK, Claims
<1>2. \A j \in Keys \ {m.key} : store'[j] = store[j]
  BY <1>1 DEF Finish, Completed, Lost, Refused, Complete, MarkUnknown, Abandon, Settle,
              IInv, TypeOK, Store
<1>3. Claimed(m.key) /\ ~Claimed(m.key)'
  BY <1>1 DEF IInv, OneCallPerKey, Claimed
<1>4. \A j \in Keys \ {m.key} : Claimed(j)' <=> Claimed(j)
  BY <1>1 DEF Claimed
<1>5. PhaseOf(m.key) = "open" /\ PhaseOf(m.key)' \in {"free", "done", "unknown"}
  BY <1>3 DEF PhaseOf, Claimed
<1>6. \A j \in Keys \ {m.key} : PhaseOf(j)' = PhaseOf(j)
  BY <1>2, <1>4 DEF PhaseOf, Claimed
<1>7. Promise!End(m.key)
  BY <1>1, <1>5, <1>6, EndStep
<1> QED BY <1>1, <1>7 DEF Promise!Next

LEMMA TickPhases == ASSUME IInv, Tick PROVE Promise!Lapse
<1> DEFINE aged(m) == [m EXCEPT !.age = @ + 1]
<1>1. claims' = {aged(m) : m \in claims} /\ \A k \in Keys : store'[k] = OlderRecord(store[k])
  BY DEF Tick, OlderStore
<1>2. \A m \in claims : aged(m).key = m.key
  BY DEF IInv, TypeOK, Claims
<1> HIDE DEF aged
<1> SUFFICES ASSUME NEW k \in Keys
             PROVE  \/ PhaseOf(k)' = PhaseOf(k)
                    \/ PhaseOf(k) \in {"done", "unknown"} /\ PhaseOf(k)' = "free"
  BY LapseStep
<1>3. Claimed(k)' <=> Claimed(k)
  BY <1>1, <1>2 DEF Claimed
<1>4. CASE Claimed(k)
  BY <1>3, <1>4 DEF PhaseOf, Claimed
<1>5. CASE ~Claimed(k) /\ store[k].state = "absent"
  <2>1. store'[k] = store[k]
    BY <1>1, <1>5 DEF OlderRecord
  <2> QED BY <1>3, <2>1 DEF PhaseOf, Claimed
<1>6. CASE ~Claimed(k) /\ store[k].state # "absent"
  <2> DEFINE r == store[k]
             s == store'[k]
  <2>1. r.state \in {"done", "unknown"}
    BY <1>6 DEF IInv, SettledOnly, Unclaimed, Claimed, Holds
  <2>2. r \in Record /\ r.age \in Ages
    BY DEF IInv, TypeOK, Store, Record
  <2>3. s.state = r.state /\ s.age = Older(r.age)
    BY <1>1, <2>1, <2>2 DEF OlderRecord, Record
  <2>4. Older(r.age) >= r.age /\ r.age \in Nat /\ Older(r.age) \in Nat
    BY <2>2, OlderType, AgeCapNat DEF Ages
  <2> HIDE DEF r, s
  <2>5. Expired(r) => Expired(s)
    BY <2>1, <2>3, <2>4, StoreAssumption DEF Expired
  <2>6. Current(r).state = IF Expired(r) THEN "absent" ELSE r.state
    BY <2>1 DEF Current, AgeOut, Absent
  <2>7. Current(s).state = IF Expired(s) THEN "absent" ELSE r.state
    BY <2>1, <2>3 DEF Current, AgeOut, Absent
  <2>8. /\ PhaseOf(k) = IF Expired(r) THEN "free" ELSE r.state
        /\ PhaseOf(k)' = IF Expired(s) THEN "free" ELSE r.state
    BY <1>3, <1>6, <2>1, <2>6, <2>7 DEF PhaseOf, Claimed, r, s
  <2> QED BY <2>1, <2>5, <2>8
<1> QED BY <1>4, <1>5, <1>6

LEMMA StepPhases == ASSUME IInv, [Next]_vars PROVE Promise!Next
<1>1. ASSUME NEW k \in Keys, NEW q \in Requests, PeekAt(k, q)
      PROVE  Promise!Next
  <2>1. Looked(store, store') /\ UNCHANGED claims
    BY <1>1, LookUpLooks DEF PeekAt, IInv, TypeOK
  <2> QED BY <2>1, LookedPhases DEF Promise!Next
<1>2. ASSUME NEW c \in Callers, NEW k \in Keys, NEW q \in Requests, Claim(c, k, q)
      PROVE  Promise!Next
  BY <1>2, ClaimPhases
<1>3. ASSUME NEW m \in claims, Finish(m)
      PROVE  Promise!Next
  BY <1>3, FinishPhases
<1>4. CASE Tick
  BY <1>4, TickPhases DEF Promise!Next
<1>5. CASE UNCHANGED vars
  <2>1. \A k \in Keys : PhaseOf(k)' = PhaseOf(k)
    BY <1>5 DEF vars, PhaseOf
  <2> QED BY <2>1, LapseStep DEF Promise!Next
<1> QED BY <1>1, <1>2, <1>3, <1>4, <1>5 DEF Next

\* The records with their ages, lazy lookups and evictions implement AtMostOnce: a key
\* is granted to one call at a time, and only time, or for a completed call the
\* capacity, frees it once that call may have run (begin, _lookup, _make_room, _settle).
THEOREM AtMostOnceImplemented == Spec => ImplementsAtMostOnce
<1>1. Init => Promise!Init
  <2> SUFFICES ASSUME Init, NEW k \in Keys PROVE PhaseOf(k) = "free"
    BY DEF Promise!Init
  <2> QED BY DEF Init, NoRecords, PhaseOf, Current, AgeOut, Expired, Absent
<1>2. IInv /\ [Next]_vars => Promise!Next
  BY StepPhases
<1> QED BY <1>1, <1>2, Invariance, PTL DEF Spec, ImplementsAtMostOnce, Promise!Spec

-----------------------------------------------------------------------------
(* Capacity *)

\* The destination never holds more records than MaxEntries.
Bounded == IsFiniteSet(Held(store)) /\ Cardinality(Held(store)) <= MaxEntries

\* A step that adds no record keeps the bound.
LEMMA FewerHeld ==
    ASSUME Bounded, \A k \in Keys : Holds(store', k) => Holds(store, k)
    PROVE  Bounded'
<1>1. Held(store') \in SUBSET Held(store)
  BY DEF Held
<1> QED BY <1>1, FS_Subset, FS_CardinalityType, StoreAssumption DEF Bounded

\* What looking up finds was there.
LEMMA LooksHold ==
    ASSUME NEW st \in Store, NEW k \in Keys
    PROVE  /\ Current(st[k]).state # "absent" => Holds(st, k)
           /\ Current(st[k]).state = "done" => Current(st[k]) = st[k]
<1>1. st[k] \in Record
  BY DEF Store
<1> QED BY <1>1, CurrentState DEF Holds

LEMMA SweptBounded ==
    ASSUME store \in Store, Bounded
    PROVE  /\ IsFiniteSet(Held(Sweep(store)))
           /\ Cardinality(Held(Sweep(store))) \in Nat
           /\ Cardinality(Held(Sweep(store))) <= MaxEntries
<1>1. \A k \in Keys : Sweep(store)[k] = Current(store[k])
  BY SweepLooks
<1>2. Held(Sweep(store)) \in SUBSET Held(store)
  BY <1>1, LooksHold DEF Held, Holds
<1> QED BY <1>2, FS_Subset, FS_CardinalityType, StoreAssumption DEF Bounded

\* begin() adds a record where there is room, or in the place of a completed one of a full
\* store, which none that is completed is older than.
LEMMA RoomMade ==
    ASSUME store \in Store, Bounded, NEW room \in Roomy(store)
    PROVE  /\ IsFiniteSet(Held(room)) /\ Cardinality(Held(room)) \in Nat
           /\ Cardinality(Held(room)) < MaxEntries
           /\ \A k \in Keys :
                 \/ room[k] = Current(store[k])
                 \/ /\ store[k].state = "done" /\ room[k] = Absent
                    /\ Cardinality(Held(Sweep(store))) = MaxEntries
                    /\ \A j \in Keys : Current(store[j]).state = "done" => store[j].age <= store[k].age
<1> DEFINE swept == Sweep(store)
<1>1. swept \in Store /\ \A k \in Keys : swept[k] = Current(store[k])
  BY SweepLooks DEF Looked
<1>2. /\ IsFiniteSet(Held(swept)) /\ Cardinality(Held(swept)) \in Nat
      /\ Cardinality(Held(swept)) <= MaxEntries
  BY SweptBounded
<1>3. CASE Cardinality(Held(swept)) < MaxEntries /\ room = swept
  BY <1>1, <1>2, <1>3
<1>4. CASE ~(Cardinality(Held(swept)) < MaxEntries) /\ \E v \in Oldest(swept) : room = [swept EXCEPT ![v] = Absent]
  <2>1. PICK v \in Oldest(swept) : room = [swept EXCEPT ![v] = Absent]
    BY <1>4
  <2>2. /\ v \in Keys /\ swept[v].state = "done"
        /\ \A j \in Keys : swept[j].state = "done" => swept[j].age <= swept[v].age
    BY DEF Oldest
  <2>3. Cardinality(Held(swept)) = MaxEntries
    BY <1>2, <1>4, StoreAssumption
  <2> HIDE DEF swept
  <2>4. room[v] = Absent /\ \A j \in Keys \ {v} : room[j] = swept[j]
    BY <1>1, <2>1, <2>2 DEF Store
  <2>5. Held(room) = Held(swept) \ {v} /\ v \in Held(swept)
    BY <2>2, <2>4 DEF Held, Holds, Absent
  <2>6. Cardinality(Held(room)) = Cardinality(Held(swept)) - 1 /\ IsFiniteSet(Held(room))
    BY <1>2, <2>5, FS_RemoveElement
  <2>7. store[v].state = "done" /\ \A j \in Keys : Current(store[j]).state = "done" => store[j].age <= store[v].age
    BY <1>1, <2>2, LooksHold
  <2>8. /\ Cardinality(Held(room)) \in Nat /\ Cardinality(Held(room)) < MaxEntries
    BY <2>3, <2>6, StoreAssumption
  <2>9. Cardinality(Held(Sweep(store))) = MaxEntries
    BY <2>3 DEF swept
  <2> QED BY <1>1, <2>4, <2>6, <2>7, <2>8, <2>9
<1> QED BY <1>3, <1>4 DEF Roomy

\* What a claim leaves: no more than it looked up, or a new record in the room it made.
LEMMA ClaimRoom ==
    ASSUME IInv, NEW k \in Keys, NEW q \in Requests, NEW d \in Begin(store, k, q)
    PROVE  \/ d.kind # "proceed" /\ Looked(store, d.store)
           \/ /\ d.kind = "proceed"
              /\ \E room \in Roomy(store) : d.store = [room EXCEPT ![k] = InFlight(q)]
<1>1. CASE d.kind # "proceed"
  BY <1>1, BeginCases DEF IInv, TypeOK
<1>2. CASE d.kind = "proceed"
  BY <1>2 DEF Begin
<1> QED BY <1>1, <1>2

\* A lookup adds no record, and drops only one that is due.
LEMMA LookedRecords ==
    ASSUME store \in Store, Looked(store, store'), NEW k \in Keys
    PROVE  (Holds(store', k) => Holds(store, k)) /\ ~Dropped(k)
<1>1. store[k] \in Record /\ store'[k] \in {store[k], Current(store[k])}
  BY DEF Looked, Store
<1> QED BY <1>1, LooksHold DEF Dropped, Holds

\* Settling adds no record.
LEMMA FinishHolds ==
    ASSUME IInv, NEW m \in claims, Finish(m), NEW k \in Keys
    PROVE  /\ Holds(store', k) => Holds(store, k)
           /\ store'[k].state = "absent" /\ Holds(store, k) => Refused(m) /\ m.key = k
<1>1. m.key \in Keys /\ store \in Store
  BY DEF IInv, TypeOK, Claims
<1>2. ASSUME NEW s \in {"done", "unknown"}, NEW response, store' = Settle(store, m.key, s, response)
      PROVE  /\ Holds(store', k) => Holds(store, k)
             /\ store'[k].state = "absent" => ~Holds(store, k)
  BY <1>1, <1>2 DEF Settle, Store, Record, Holds
<1>3. CASE Completed(m)
  BY <1>2, <1>3 DEF Completed, Complete
<1>4. CASE Lost(m)
  BY <1>2, <1>4 DEF Lost, MarkUnknown
<1>5. CASE Refused(m)
  BY <1>1, <1>5 DEF Refused, Abandon, Store, Holds, Absent
<1> QED BY <1>3, <1>4, <1>5 DEF Finish

LEMMA TickHolds ==
    ASSUME IInv, Tick, NEW k \in Keys
    PROVE  Holds(store', k) <=> Holds(store, k)
<1>1. store[k] \in Record /\ store'[k] = OlderRecord(store[k])
  BY DEF IInv, TypeOK, Store, Tick, OlderStore
<1> QED BY <1>1 DEF OlderRecord, Holds, Record

LEMMA BoundedStep ==
    ASSUME IInv, Bounded, [Next]_vars
    PROVE  Bounded'
<1>1. store \in Store
  BY DEF IInv, TypeOK
<1>2. ASSUME NEW k \in Keys, NEW q \in Requests, PeekAt(k, q)
      PROVE  Bounded'
  BY <1>1, <1>2, LookUpLooks, LookedRecords, FewerHeld DEF PeekAt
<1>3. ASSUME NEW c \in Callers, NEW k \in Keys, NEW q \in Requests, Claim(c, k, q)
      PROVE  Bounded'
  <2>1. PICK d \in Begin(store, k, q) : store' = d.store
    BY <1>3 DEF Claim
  <2>2. CASE d.kind # "proceed" /\ Looked(store, d.store)
    BY <1>1, <2>1, <2>2, LookedRecords, FewerHeld
  <2>3. CASE \E room \in Roomy(store) : d.store = [room EXCEPT ![k] = InFlight(q)]
    <3>1. PICK room \in Roomy(store) : store' = [room EXCEPT ![k] = InFlight(q)]
      BY <2>1, <2>3
    <3>2. room \in Store
      BY <1>1, RoomyCases
    <3>3. Held(store') = Held(room) \cup {k}
      BY <3>1, <3>2 DEF Held, Holds, Store, InFlight
    <3>4. /\ IsFiniteSet(Held(room)) /\ Cardinality(Held(room)) \in Nat
          /\ Cardinality(Held(room)) < MaxEntries
      BY <1>1, RoomMade
    <3> DEFINE before == Held(room)
               after  == before \cup {k}
    <3>5. /\ IsFiniteSet(after)
          /\ Cardinality(after) = IF k \in before THEN Cardinality(before) ELSE Cardinality(before) + 1
      <4> HIDE DEF before
      <4> QED BY <3>4, FS_AddElement, Zenon DEF before
    <3> HIDE DEF before, after
    <3>6. Cardinality(after) <= MaxEntries
      BY <3>4, <3>5, StoreAssumption DEF before
    <3> QED BY <3>3, <3>5, <3>6 DEF Bounded, before, after
  <2> QED BY <2>2, <2>3, ClaimRoom
<1>4. ASSUME NEW m \in claims, Finish(m)
      PROVE  Bounded'
  BY <1>4, FinishHolds, FewerHeld
<1>5. CASE Tick
  BY <1>5, TickHolds, FewerHeld
<1>6. CASE UNCHANGED vars
  BY <1>6 DEF vars, Bounded
<1> QED BY <1>2, <1>3, <1>4, <1>5, <1>6 DEF Next

\* However many requests claim keys, a destination never holds more than MAX_ENTRIES records
\* (_make_room).
THEOREM NeverOverfull == Spec => []Bounded
<1>1. Init => Bounded
  <2>1. ASSUME Init PROVE Held(store) = {}
    BY <2>1 DEF Init, NoRecords, Held, Holds, Absent
  <2> QED BY <2>1, FS_EmptySet, StoreAssumption DEF Bounded
<1>2. IInv /\ Bounded /\ [Next]_vars => Bounded'
  BY BoundedStep
<1> QED BY <1>1, <1>2, Invariance, PTL DEF Spec

\* A record that is not yet due is dropped only when the server refused its own call, or,
\* when it is completed, to make room in a store that is full of records no older than it.
THEOREM RecordsKept == Spec => RecordsAreKept
<1> DEFINE ForCause(k) ==
             \/ /\ \E m \in claims \ claims' : m.key = k
                /\ last'[k].how = "refused"
             \/ /\ store[k].state = "done"
                /\ reply'.kind = "proceed"
                /\ Cardinality(Held(Sweep(store))) = MaxEntries
                /\ \A j \in Keys : Current(store[j]).state = "done" => store[j].age <= store[k].age
<1>1. ASSUME IInv, Bounded, Next, NEW k \in Keys, Dropped(k)
      PROVE  ForCause(k)
  <2>1. /\ store \in Store /\ Holds(store, k) /\ ~Holds(store', k)
        /\ Current(store[k]).state # "absent" /\ store'[k].state = "absent"
    BY <1>1, LooksHold DEF IInv, TypeOK, Dropped, Holds
  <2>2. ASSUME NEW j \in Keys, NEW q \in Requests, PeekAt(j, q)
        PROVE  FALSE
    BY <1>1, <2>1, <2>2, LookUpLooks, LookedRecords DEF PeekAt
  <2>3. ASSUME NEW c \in Callers, NEW j \in Keys, NEW q \in Requests, Claim(c, j, q)
        PROVE  /\ store[k].state = "done"
               /\ reply'.kind = "proceed"
               /\ Cardinality(Held(Sweep(store))) = MaxEntries
               /\ \A i \in Keys : Current(store[i]).state = "done" => store[i].age <= store[k].age
    <3>1. PICK d \in Begin(store, j, q) : store' = d.store /\ reply'.kind = d.kind
      BY <2>3 DEF Claim
    <3>2. CASE d.kind # "proceed" /\ Looked(store, d.store)
      BY <1>1, <2>1, <3>1, <3>2, LookedRecords
    <3>3. CASE d.kind = "proceed" /\ \E room \in Roomy(store) : d.store = [room EXCEPT ![j] = InFlight(q)]
      <4>1. PICK room \in Roomy(store) : store' = [room EXCEPT ![j] = InFlight(q)]
        BY <3>1, <3>3
      <4>2. room \in Store
        BY <2>1, RoomyCases
      <4>3. room[k] # Current(store[k])
        BY <2>1, <4>1, <4>2 DEF Store, InFlight
      <4> QED BY <1>1, <2>1, <3>1, <3>3, <4>3, RoomMade
    <3> QED BY <1>1, <3>2, <3>3, ClaimRoom
  <2>4. ASSUME NEW m \in claims, Finish(m)
        PROVE  (\E n \in claims \ claims' : n.key = k) /\ last'[k].how = "refused"
    <3>1. Refused(m) /\ m.key = k
      BY <1>1, <2>1, <2>4, FinishHolds
    <3> QED BY <1>1, <3>1 DEF Refused, Close, IInv, TypeOK
  <2>5. CASE Tick
    BY <1>1, <2>1, <2>5, TickHolds
  <2> QED BY <1>1, <2>2, <2>3, <2>4, <2>5 DEF Next
<1>2. IInv /\ Bounded /\ [Next]_vars => [\A k \in Keys : Dropped(k) => ForCause(k)]_vars
  <2> SUFFICES ASSUME IInv, Bounded, Next, NEW k \in Keys, Dropped(k) PROVE ForCause(k)
    OBVIOUS
  <2> QED BY <1>1
<1> QED BY <1>2, Invariance, NeverOverfull, PTL DEF Spec, RecordsAreKept
=============================================================================
