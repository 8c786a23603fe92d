----------------------------- MODULE InvokeProofs -----------------------------
(***************************************************************************)
(* What the commit of Invoke promises for any number of attempts, keys,    *)
(* tokens and challenges.                                                  *)
(***************************************************************************)
EXTENDS Invoke, TLAPS

\* No clock runs, so nothing that is kept ever has an age.
FreshRecord == {rec \in Record : rec.age = 0}

FreshChallenge == {c \in Challenge : c.age = 0}

Types ==
    /\ store \in [Keys -> FreshRecord]
    /\ challenges \in [Ids -> FreshChallenge]
    /\ issued \in 0 .. MaxIssued
    /\ spent \in [Tokens -> {-1, 0}]
    /\ active \in SUBSET {r \in Attempt : r.phase # "arriving"}
    /\ turnedAway \in [ask: Requests \cup {None}, key: Keys \cup {None}]

\* What an attempt brings that has passed its first checks.
Brings(r) ==
    /\ r \in Attempt
    /\ r.ask \in Keyed => r.key \in Keys
    /\ r.ask \notin Keyed => r.key = None
    /\ r.ask \in Cleared => MintedFor[r.token] = r.ask
    /\ r.ask \in Witnessed => r.id \in Ids /\ r.signature \in Signatures

AllBring == \A r \in active : Brings(r)

\* A handler runs one attempt.
OneEach == \A r \in active, o \in active : r.by = o.by => r = o

\* An attempt that verifies has marked the challenge of its own request, alone.
Marked ==
    \A r \in active : r.phase = "verifying" =>
        /\ r.ask \in Witnessed
        /\ challenges[r.id].state = "verifying" /\ challenges[r.id].ask = r.ask
        /\ \A o \in active : o.phase = "verifying" /\ o.id = r.id => o = r

\* What is approved or used was signed by an approver for that challenge and its request.
Signed ==
    \A i \in Ids : challenges[i].state \in {"approved", "used"} =>
        Genuine(challenges[i].signature, i, challenges[i].ask)

NotYetIssued == \A i \in Ids : i > issued => challenges[i].state = "absent"

IInv ==
    /\ Types /\ AllBring /\ OneEach /\ Marked /\ Signed /\ NotYetIssued
    /\ CallsBacked

-----------------------------------------------------------------------------
(* Looking something up changes nothing as long as nothing has an age. *)

LEMMA RecordsStay ==
  ASSUME NEW rec \in FreshRecord
  PROVE  Current(rec) = rec
  BY StoreAssumption DEF FreshRecord, Current, AgeOut, Expired, Record

LEMMA RecordShapes ==
  /\ Absent \in FreshRecord /\ Absent.state = "absent"
  /\ \A q \in Requests : /\ InFlight(q) \in FreshRecord
                         /\ InFlight(q).state = "in_flight" /\ InFlight(q).request = q
  <1>1. 0 \in Ages
    BY StoreAssumption DEF Ages, AgeCap
  <1>2. Absent \in FreshRecord /\ Absent.state = "absent"
    BY <1>1 DEF Absent, FreshRecord, Record, States
  <1>3. ASSUME NEW q \in Requests
        PROVE  /\ InFlight(q) \in FreshRecord
               /\ InFlight(q).state = "in_flight" /\ InFlight(q).request = q
    BY <1>1 DEF InFlight, FreshRecord, Record, States
  <1> QED BY <1>2, <1>3

LEMMA LooksStay ==
  ASSUME Types
  PROVE  /\ \A k \in Keys : LookUp(store, k) = store /\ Current(store[k]) = store[k]
         /\ Sweep(store) = store
         /\ PurgeSpent(spent) = spent
         /\ Purge(challenges) = challenges
  <1>1. \A k \in Keys : Current(store[k]) = store[k]
    BY RecordsStay DEF Types
  <1>2. \A k \in Keys : LookUp(store, k) = store
    BY <1>1 DEF LookUp, Types
  <1>3. Sweep(store) = store
    BY <1>1 DEF Sweep, Types
  <1>4. PurgeSpent(spent) = spent
    BY ClearanceAssumption DEF PurgeSpent, Types, Remembered
  <1>5. \A i \in Ids : ~TooOld(challenges[i])
    BY ApprovalAssumption DEF TooOld, Types, FreshChallenge
  <1>6. Purge(challenges) = challenges
    BY <1>5 DEF Purge, Types
  <1> QED BY <1>1, <1>2, <1>3, <1>4, <1>6

\* What begin() may do to the records: nothing, or claim a free key and push out completed
\* records.
LEMMA BeginGrants ==
  ASSUME Types, NEW k \in Keys, NEW q \in Requests, NEW claim \in Begin(store, k, q)
  PROVE  /\ claim.kind # "proceed" => claim.store = store
         /\ claim.kind = "proceed" =>
               /\ claim.store \in [Keys -> FreshRecord]
               /\ store[k].state = "absent"
               /\ claim.store[k].state = "in_flight" /\ claim.store[k].request = q
               /\ \A j \in Keys : j # k /\ store[j].state = "in_flight" => claim.store[j] = store[j]
  <1>1. Peek(store, k, q) = Classify(store[k], q)
    BY LooksStay DEF Peek
  <1>2. CASE Peek(store, k, q) # "proceed"
    BY <1>2, LooksStay DEF Begin
  <1>3. CASE Peek(store, k, q) = "proceed" /\ Roomy(store) = {}
    BY <1>3, LooksStay DEF Begin
  <1>4. CASE Peek(store, k, q) = "proceed" /\ Roomy(store) # {}
    <2>1. PICK room \in Roomy(store) :
             claim = [kind |-> "proceed", store |-> [room EXCEPT ![k] = InFlight(q)]]
      BY <1>4 DEF Begin
    <2>2. store[k].state = "absent"
      BY <1>1, <1>4 DEF Classify, Types, FreshRecord, Record, States
    <2>3. \/ room = store
          \/ \E v \in Oldest(store) : room = [store EXCEPT ![v] = Absent]
      BY <2>1, LooksStay DEF Roomy
    <2>4. /\ room \in [Keys -> FreshRecord]
          /\ \A j \in Keys : store[j].state = "in_flight" => room[j] = store[j]
      BY <2>3, RecordShapes DEF Types, Oldest
    <2>5. claim.store = [room EXCEPT ![k] = InFlight(q)] /\ claim.kind = "proceed"
      BY <2>1
    <2> QED
      BY <2>2, <2>4, <2>5, RecordShapes
  <1> QED BY <1>2, <1>3, <1>4

LEMMA ArrivalsBring ==
  ASSUME NEW a \in Attempts, NEW r \in Arrivals(a)
  PROVE  /\ r \in Attempt /\ r.by = a /\ r.phase = "arriving"
         /\ r.ask \in Keyed => r.key \in Keys
         /\ r.ask \notin Keyed => r.key = None
         /\ r.id # 0 => r.id \in Ids /\ r.signature \in Signatures
  <1>1. ASSUME NEW b \in Bare(a)
        PROVE  /\ b \in Attempt /\ b.by = a /\ b.phase = "arriving" /\ b.id = 0
               /\ b.ask \in Keyed => b.key \in Keys
               /\ b.ask \notin Keyed => b.key = None
    BY InvokeAssumption DEF Attempt, Bare
  <1>2. ASSUME NEW b \in Bare(a), NEW i \in Ids, NEW s \in Signers, r = Bringing(b, i, s)
        PROVE  /\ r \in Attempt /\ r.by = b.by /\ r.phase = b.phase /\ r.ask = b.ask /\ r.key = b.key
               /\ r.id = i /\ r.signature \in Signatures
    <2> DEFINE sig == [signer |-> s, id |-> i, ask |-> b.ask]
    <2>1. sig \in Signatures
      BY <1>1, InvokeAssumption DEF Signatures, Attempt
    <2>2. r = [b EXCEPT !.id = i, !.signature = sig]
      BY <1>2 DEF Bringing
    <2> HIDE DEF sig
    <2> QED BY <1>1, <2>1, <2>2 DEF Attempt
  <1>3. CASE r \in Bare(a)
    BY <1>1, <1>3
  <1>4. CASE r \notin Bare(a)
    <2>1. PICK b \in Bare(a), i \in Ids, s \in Signers : r = Bringing(b, i, s)
      BY <1>4 DEF Arrivals
    <2> QED BY <1>1, <1>2, <2>1
  <1> QED BY <1>3, <1>4

\* An attempt that goes on keeps all but its phase.
LEMMA PhaseChanges ==
  ASSUME NEW r \in Attempt, NEW p \in {"verifying", "calling"}, NEW c, c = [r EXCEPT !.phase = p]
  PROVE  /\ c \in Attempt /\ c.phase = p /\ c.by = r.by /\ c.ask = r.ask /\ c.key = r.key
         /\ c.token = r.token /\ c.id = r.id /\ c.signature = r.signature
         /\ Brings(r) => Brings(c)
  BY DEF Attempt, Brings

-----------------------------------------------------------------------------
(* The kinds of steps.  Whatever an attempt does, its step is one of three. *)

Rest == Types /\ AllBring /\ OneEach /\ Marked /\ Signed /\ NotYetIssued

\* What is used stays as it is, and nothing else becomes used.
SameUsed ==
    \A i \in Ids : /\ challenges[i].state = "used" => challenges'[i] = challenges[i]
                   /\ challenges'[i].state = "used" => challenges[i].state = "used"

\* No call starts or ends.
Passive ==
    /\ Calling' = Calling
    /\ store' = store
    /\ spent' = spent
    /\ SameUsed

\* The call of r ends, and only the record of its key changes.
Ending(r) ==
    /\ r \in Calling
    /\ active' = active \ {r}
    /\ \A k \in Keys : ~(r.ask \in Keyed /\ k = r.key) => store'[k] = store[k]
    /\ spent' = spent
    /\ challenges' = challenges

\* The call of r starts: it claims its key, and spends its clearance and its approval.
Starting(r) ==
    /\ Brings(r) /\ r.phase # "calling"
    /\ \A o \in active : o.by = r.by => o = r
    /\ active' = Others(r) \cup {[r EXCEPT !.phase = "calling"]}
    /\ IF r.ask \in Keyed
       THEN /\ store[r.key].state = "absent"
            /\ store'[r.key].state = "in_flight" /\ store'[r.key].request = r.ask
            /\ \A k \in Keys : k # r.key /\ store[k].state = "in_flight" => store'[k] = store[k]
       ELSE store' = store
    /\ IF r.ask \in Cleared
       THEN spent[r.token] = -1 /\ spent' = [spent EXCEPT ![r.token] = 0]
       ELSE spent' = spent
    /\ IF r.ask \in Witnessed
       THEN /\ challenges[r.id].state # "used"
            /\ challenges'[r.id].state = "used" /\ challenges'[r.id].ask = r.ask
            /\ \A i \in Ids : i # r.id => challenges'[i] = challenges[i]
       ELSE challenges' = challenges

Kind == Passive \/ \E r \in Attempt : Ending(r) \/ Starting(r)

LEMMA OthersOfNew ==
  ASSUME NEW r, \A o \in active : o.by # r.by
  PROVE  Others(r) = active
  BY DEF Others

LEMMA OthersOfOld ==
  ASSUME OneEach, NEW r \in active
  PROVE  Others(r) = active \ {r}
  BY DEF Others, OneEach

\* A step that only answers an attempt.
LEMMA AnsweredStep ==
  ASSUME IInv, active' = active, UNCHANGED <<store, challenges, issued, spent>>,
         turnedAway' \in [ask: Requests \cup {None}, key: Keys \cup {None}]
  PROVE  Rest' /\ Kind
  <1>1. Rest'
    BY DEF IInv, Rest, Types, AllBring, OneEach, Marked, Signed, NotYetIssued
  <1>2. Passive
    BY DEF Passive, Calling, SameUsed
  <1> QED BY <1>1, <1>2 DEF Kind

LEMMA TurnedAwayTyped ==
  ASSUME NEW r, Brings(r), Leave(r) \/ TurnAway(r)
  PROVE  turnedAway' \in [ask: Requests \cup {None}, key: Keys \cup {None}]
  BY DEF Brings, Attempt, Leave, TurnAway, NoOne

LEMMA IssueKeeps ==
  ASSUME Types, NotYetIssued, NEW q \in Requests, NEW end \in Issue(challenges, q, issued + 1),
         NEW n, n = IF end.id > issued THEN end.id ELSE issued
  PROVE  /\ n \in 0 .. MaxIssued
         /\ end.pool \in [Ids -> FreshChallenge]
         /\ \A i \in Ids : i > n => end.pool[i].state = "absent"
         /\ \A i \in Ids : \/ end.pool[i] = challenges[i]
                           \/ challenges[i].state = "absent" /\ end.pool[i].state = "pending"
  <1>1. Purge(challenges) = challenges
    BY LooksStay
  <1>2. CASE end.id \in Ids /\ challenges[end.id].state = "pending" /\ end.pool = challenges
    <2>1. end.id <= issued
      BY <1>2 DEF NotYetIssued, Types, Ids
    <2>2. n = issued
      BY <2>1, <1>2 DEF Types, Ids
    <2> QED BY <1>2, <2>2 DEF Types, NotYetIssued
  <1>3. CASE end.id = 0 /\ end.pool = challenges
    <2>1. n = issued
      BY <1>3 DEF Types
    <2> QED BY <1>3, <2>1 DEF Types, NotYetIssued
  <1>4. CASE issued + 1 \in Ids /\ end.id = issued + 1
             /\ end.pool = [challenges EXCEPT ![issued + 1] = NewChallenge(q)]
    <2>1. NewChallenge(q) \in FreshChallenge /\ NewChallenge(q).state = "pending"
      <3>1. q \in Asks
        BY InvokeAssumption
      <3>2. 0 \in ChallengeAges /\ 0 \in 0 .. MaxFailures - 1
        BY ApprovalAssumption DEF ChallengeAges
      <3>3. NoChallenge \in FreshChallenge
        BY <3>2 DEF NoChallenge, FreshChallenge, Challenge, ChallengeStates
      <3>4. NewChallenge(q) = [NoChallenge EXCEPT !.state = "pending", !.ask = q]
        BY DEF NewChallenge
      <3> QED
        BY <3>1, <3>3, <3>4 DEF FreshChallenge, Challenge, ChallengeStates
    <2>2. n = issued + 1
      BY <1>4 DEF Types
    <2>3. challenges[issued + 1].state = "absent"
      BY <1>4 DEF NotYetIssued, Types
    <2> QED BY <1>4, <2>1, <2>2, <2>3 DEF Types, NotYetIssued, Ids
  <1>5. \/ \E i \in Reusable(challenges, q) : end = [id |-> i, pool |-> challenges]
        \/ end = [id |-> 0, pool |-> challenges]
        \/ \E m \in {issued + 1} \cap Ids :
              end = [id |-> m, pool |-> [challenges EXCEPT ![m] = NewChallenge(q)]]
    BY <1>1 DEF Issue
  <1> QED BY <1>2, <1>3, <1>4, <1>5 DEF Reusable

\* What holds when an attempt commits: of an attempt that arrives with what it needs, or of
\* one whose challenge was approved in pool, and not touched in any other way, as it verified.
Ready(r, pool) ==
    /\ Brings(r) /\ r.phase # "calling"
    /\ \A o \in active : o.by = r.by => o = r
    /\ r.phase = "arriving" \/ r \in active
    /\ pool \in [Ids -> FreshChallenge]
    /\ \A i \in Ids :
          \/ pool[i] = challenges[i]
          \/ /\ r \in active /\ r.phase = "verifying" /\ i = r.id
             /\ challenges[i].state = "verifying" /\ pool[i].state = "approved"
    /\ \A i \in Ids : pool[i].state \in {"approved", "used"} => Genuine(pool[i].signature, i, pool[i].ask)
    /\ r.ask \in Witnessed => pool[r.id].ask = r.ask

\* An attempt that is Ready leaves, with pool as it is.
LEMMA LeavingStep ==
  ASSUME IInv, NEW r, NEW pool, Ready(r, pool), Leave(r) \/ TurnAway(r), challenges' = pool,
         UNCHANGED <<store, issued, spent>>
  PROVE  Rest' /\ Kind
  <1>1. active' = Others(r) /\ turnedAway' \in [ask: Requests \cup {None}, key: Keys \cup {None}]
    BY TurnedAwayTyped DEF Leave, TurnAway, Ready
  <1>2. Types' /\ AllBring' /\ OneEach'
    BY <1>1 DEF IInv, Types, AllBring, OneEach, Others, Ready
  <1>3. Signed' /\ NotYetIssued'
    BY DEF Signed, NotYetIssued, Ready, IInv
  <1>4. Marked'
    <2> SUFFICES ASSUME NEW o \in active', o.phase = "verifying"
                 PROVE  /\ o.ask \in Witnessed
                        /\ challenges'[o.id].state = "verifying" /\ challenges'[o.id].ask = o.ask
                        /\ \A x \in active' : x.phase = "verifying" /\ x.id = o.id => x = o
      BY DEF Marked
    <2>1. o \in active /\ o # r /\ o.id \in Ids
      BY <1>1 DEF Others, IInv, Marked, AllBring, Brings
    <2>2. pool[o.id] = challenges[o.id]
      BY <2>1 DEF Ready, IInv, Marked
    <2> QED BY <1>1, <2>1, <2>2 DEF IInv, Marked, Others
  <1>5. Passive
    BY <1>1 DEF Passive, Calling, SameUsed, Ready, Others
  <1> QED BY <1>2, <1>3, <1>4, <1>5 DEF Kind, Rest

LEMMA StartingStep ==
  ASSUME IInv, NEW r, NEW pool, Ready(r, pool), Start(r, pool), ~CredentialsGone(r, pool),
         NEW claim \in Claim(r), claim.kind = "proceed", store' = claim.store, issued' = issued
  PROVE  Rest' /\ Kind
  <1> DEFINE c == [r EXCEPT !.phase = "calling"]
  <1>1. /\ r \in Attempt /\ r.ask \in Requests /\ r.token \in Tokens
        /\ r.ask \in Keyed => r.key \in Keys
        /\ r.ask \in Witnessed => r.id \in Ids
    BY DEF Ready, Brings, Attempt
  <1>2. /\ c \in Attempt /\ c.phase = "calling" /\ c.by = r.by
        /\ Brings(c)
    BY <1>1, PhaseChanges DEF Ready
  <1>3. IF r.ask \in Keyed
        THEN /\ store[r.key].state = "absent"
             /\ store'[r.key].state = "in_flight" /\ store'[r.key].request = r.ask
             /\ \A k \in Keys : k # r.key /\ store[k].state = "in_flight" => store'[k] = store[k]
        ELSE store' = store
    BY <1>1, BeginGrants DEF Claim, IInv
  <1>4. store' \in [Keys -> FreshRecord]
    BY <1>1, BeginGrants DEF Claim, IInv, Types
  <1>5. PurgeSpent(spent) = spent
    BY LooksStay DEF IInv
  <1>6. IF r.ask \in Cleared
        THEN spent[r.token] = -1 /\ spent' = [spent EXCEPT ![r.token] = 0]
        ELSE spent' = spent
    BY <1>5 DEF Start, CredentialsGone, IsSpent, SpendToken
  <1>7. spent' \in [Tokens -> {-1, 0}]
    BY <1>1, <1>6 DEF IInv, Types
  <1>8. challenges' = IF r.ask \in Witnessed THEN [pool EXCEPT ![r.id].state = "used"] ELSE pool
    BY DEF Start, CredentialsGone, Spend
  <1>9. r.ask \in Witnessed => pool[r.id].state = "approved" /\ pool[r.id].ask = r.ask
    BY DEF CredentialsGone, CanSpend, Ready
  <1>10. pool \in [Ids -> FreshChallenge]
    BY DEF Ready
  <1>11. ASSUME r.ask \in Witnessed
         PROVE  /\ challenges' \in [Ids -> FreshChallenge]
                /\ challenges'[r.id].state = "used" /\ challenges'[r.id].ask = r.ask
                /\ challenges'[r.id].signature = pool[r.id].signature
                /\ \A i \in Ids : i # r.id => challenges'[i] = pool[i]
    <2> DEFINE u == [pool[r.id] EXCEPT !.state = "used"]
    <2>1. u \in FreshChallenge /\ u.state = "used" /\ u.ask = r.ask /\ u.signature = pool[r.id].signature
      BY <1>1, <1>9, <1>10, <1>11 DEF FreshChallenge, Challenge, ChallengeStates
    <2>2. challenges' = [pool EXCEPT ![r.id] = u]
      BY <1>8, <1>11
    <2> HIDE DEF u
    <2> QED BY <1>1, <1>10, <1>11, <2>1, <2>2
  <1>12. IF r.ask \in Witnessed
         THEN /\ challenges[r.id].state # "used"
              /\ challenges'[r.id].state = "used" /\ challenges'[r.id].ask = r.ask
              /\ \A i \in Ids : i # r.id => challenges'[i] = challenges[i]
         ELSE challenges' = challenges
    <2>1. CASE r.ask \in Witnessed
      BY <1>1, <1>9, <1>11, <2>1 DEF Ready
    <2>2. CASE r.ask \notin Witnessed
      <3>1. \A i \in Ids : pool[i] = challenges[i]
        BY <2>2 DEF Ready, IInv, Marked
      <3> QED BY <1>8, <1>10, <2>2, <3>1 DEF IInv, Types
    <2> QED BY <2>1, <2>2
  <1>13. challenges' \in [Ids -> FreshChallenge]
    BY <1>8, <1>10, <1>11
  <1>14. active' = Others(r) \cup {c} /\ turnedAway' = NoOne
    BY DEF Start
  <1>15. Starting(r)
    BY <1>3, <1>6, <1>12, <1>14 DEF Starting, Ready
  <1> HIDE DEF c
  <1>16. Types'
    BY <1>2, <1>4, <1>7, <1>13, <1>14 DEF IInv, Types, Others, NoOne
  <1>17. AllBring' /\ OneEach'
    BY <1>2, <1>14 DEF IInv, AllBring, OneEach, Others
  <1>18. Marked'
    <2> SUFFICES ASSUME NEW o \in active', o.phase = "verifying"
                 PROVE  /\ o.ask \in Witnessed
                        /\ challenges'[o.id].state = "verifying" /\ challenges'[o.id].ask = o.ask
                        /\ \A x \in active' : x.phase = "verifying" /\ x.id = o.id => x = o
      BY DEF Marked
    <2>1. o \in active /\ o # r /\ o.id \in Ids
      BY <1>2, <1>14 DEF Others, IInv, Marked, AllBring, Brings
    <2>2. pool[o.id] = challenges[o.id]
      BY <2>1 DEF Ready, IInv, Marked
    <2>3. r.ask \in Witnessed => o.id # r.id
      BY <2>1, <2>2, <1>9 DEF IInv, Marked
    <2>4. challenges'[o.id] = challenges[o.id]
      BY <1>12, <2>1, <2>3
    <2> QED BY <1>2, <1>14, <2>1, <2>4 DEF IInv, Marked, Others
  <1>19. Signed'
    <2> SUFFICES ASSUME NEW i \in Ids, challenges'[i].state \in {"approved", "used"}
                 PROVE  Genuine(challenges'[i].signature, i, challenges'[i].ask)
      BY DEF Signed
    <2>1. CASE r.ask \in Witnessed /\ i = r.id
      BY <1>9, <1>11, <2>1 DEF Ready
    <2>2. CASE ~(r.ask \in Witnessed /\ i = r.id)
      BY <1>12, <2>2 DEF IInv, Signed
    <2> QED BY <2>1, <2>2
  <1>20. NotYetIssued'
    <2> SUFFICES ASSUME NEW i \in Ids, i > issued
                 PROVE  challenges'[i].state = "absent"
      BY DEF NotYetIssued
    <2>1. challenges[i].state = "absent"
      BY DEF IInv, NotYetIssued
    <2>2. pool[i] = challenges[i]
      BY <2>1 DEF Ready
    <2>3. r.ask \in Witnessed => i # r.id
      BY <2>1, <2>2, <1>9
    <2> QED BY <1>12, <2>1, <2>3
  <1> QED BY <1>1, <1>15, <1>16, <1>17, <1>18, <1>19, <1>20 DEF Kind, Rest

LEMMA CommitStep ==
  ASSUME IInv, NEW r, NEW pool, Ready(r, pool), Commit(r, pool), issued' = issued
  PROVE  Rest' /\ Kind
  <1>1. SpentSeen(r) = spent
    BY LooksStay DEF SpentSeen, IInv
  <1>2. CASE CredentialsGone(r, pool)
    BY <1>1, <1>2, LeavingStep DEF Commit
  <1>3. ASSUME ~CredentialsGone(r, pool), NEW claim \in Claim(r), store' = claim.store,
               claim.kind = "proceed", Start(r, pool)
        PROVE  Rest' /\ Kind
    BY <1>3, StartingStep
  <1>4. ASSUME NEW claim \in Claim(r), store' = claim.store, claim.kind # "proceed", Leave(r),
               challenges' = pool, spent' = SpentSeen(r)
        PROVE  Rest' /\ Kind
    <2>1. r.ask \in Keyed
      BY <1>4 DEF Claim
    <2>2. store' = store
      BY <1>4, <2>1, BeginGrants, InvokeAssumption DEF Claim, IInv, Ready, Brings
    <2> QED BY <1>1, <1>4, <2>2, LeavingStep
  <1> QED BY <1>2, <1>3, <1>4 DEF Commit

-----------------------------------------------------------------------------
(* The steps *)

LEMMA ArriveStep ==
  ASSUME IInv, NEW a \in Attempts, NEW r \in Arrivals(a), Arrive(r)
  PROVE  Rest' /\ Kind
  <1>1. /\ r \in Attempt /\ r.by = a /\ r.phase = "arriving" /\ r.ask \in Requests
        /\ r.ask \in Keyed => r.key \in Keys
        /\ r.ask \notin Keyed => r.key = None
        /\ r.id # 0 => r.id \in Ids /\ r.signature \in Signatures
    BY ArrivalsBring DEF Attempt
  <1>2. \A o \in active : o.by # r.by
    BY DEF Arrive
  <1>3. Others(r) = active
    BY <1>2, OthersOfNew
  <1>4. StoreSeen(r) = store
    BY <1>1, LooksStay DEF StoreSeen, IInv
  <1>5. Leave(r) \/ TurnAway(r) => turnedAway' \in [ask: Requests \cup {None}, key: Keys \cup {None}]
    BY <1>1 DEF Leave, TurnAway, NoOne, Attempt
  <1>6. CASE AnswerFromRecord(r) \/ RefuseClearance(r) \/ Unapprovable(r)
    <2>1. active' = active /\ UNCHANGED <<store, challenges, issued, spent>>
      BY <1>3, <1>4, <1>6 DEF AnswerFromRecord, RefuseClearance, Unapprovable, Leave, TurnAway
    <2> QED
      BY <1>5, <1>6, <2>1, AnsweredStep DEF AnswerFromRecord, RefuseClearance, Unapprovable
  <1>7. CASE AskForApproval(r)
    <2>1. PICK end \in Issue(challenges, r.ask, issued + 1) :
             /\ challenges' = end.pool
             /\ issued' = IF end.id > issued THEN end.id ELSE issued
             /\ TurnAway(r)
      BY <1>7 DEF AskForApproval
    <2>2. /\ issued' \in 0 .. MaxIssued
          /\ challenges' \in [Ids -> FreshChallenge]
          /\ \A i \in Ids : i > issued' => challenges'[i].state = "absent"
          /\ \A i \in Ids : \/ challenges'[i] = challenges[i]
                            \/ challenges[i].state = "absent" /\ challenges'[i].state = "pending"
      BY <1>1, <2>1, IssueKeeps DEF IInv
    <2>3. active' = active /\ store' = store /\ spent' = spent
      BY <1>3, <1>4, <1>7, <2>1 DEF AskForApproval, TurnAway
    <2>4. Types'
      BY <1>5, <2>1, <2>2, <2>3 DEF IInv, Types
    <2>5. AllBring' /\ OneEach' /\ Signed' /\ NotYetIssued'
      BY <2>2, <2>3 DEF IInv, AllBring, OneEach, Signed, NotYetIssued
    <2>6. Marked'
      BY <2>2, <2>3 DEF IInv, Marked, AllBring, Brings
    <2>7. Passive
      BY <2>2, <2>3 DEF Passive, Calling, SameUsed
    <2> QED BY <2>4, <2>5, <2>6, <2>7 DEF Kind, Rest
  <1>8. CASE PresentApproval(r) /\ Judge(challenges[r.id], r.ask, r.signature) = "verify"
    <2> DEFINE c == [r EXCEPT !.phase = "verifying"]
               old == challenges[r.id]
               new == [old EXCEPT !.state = "verifying"]
    <2>1. /\ r.id \in Ids /\ r.ask \in Witnessed /\ r.signature \in Signatures
          /\ r.ask \in Cleared => MintedFor[r.token] = r.ask
      BY <1>1, <1>8 DEF PresentApproval, ClearanceWrong
    <2>2. old \in FreshChallenge
      BY <2>1 DEF IInv, Types
    <2>3. old.state = "pending" /\ old.ask = r.ask
      BY <1>8, <2>2 DEF Judge, FreshChallenge, Challenge, ChallengeStates
    <2>4. challenges' = [challenges EXCEPT ![r.id] = new]
      BY <1>8 DEF PresentApproval, Presented
    <2>5. new \in FreshChallenge /\ new.state = "verifying" /\ new.ask = r.ask
      BY <2>2, <2>3 DEF FreshChallenge, Challenge, ChallengeStates
    <2>6. /\ c \in Attempt /\ c.phase = "verifying" /\ c.by = r.by /\ c.ask = r.ask /\ c.id = r.id
          /\ Brings(r) => Brings(c)
      BY <1>1, PhaseChanges
    <2>7. Brings(r)
      BY <1>1, <2>1 DEF Brings
    <2>8. active' = active \cup {c} /\ turnedAway' = NoOne /\ UNCHANGED <<store, issued, spent>>
      <3>1. active' = active \cup {c} /\ turnedAway' = NoOne
        BY <1>8 DEF PresentApproval
      <3>2. UNCHANGED <<store, issued, spent>>
        BY <1>4, <1>8 DEF PresentApproval
      <3> QED BY <3>1, <3>2
    <2> HIDE DEF c, new, old
    <2>9. /\ challenges' \in [Ids -> FreshChallenge]
          /\ challenges'[r.id] = new /\ challenges[r.id] = old
          /\ \A i \in Ids : i # r.id => challenges'[i] = challenges[i]
      BY <2>1, <2>4, <2>5 DEF IInv, Types, old
    <2>10. Types'
      BY <2>6, <2>8, <2>9 DEF IInv, Types, NoOne
    <2>11. AllBring' /\ OneEach'
      BY <1>2, <2>6, <2>7, <2>8 DEF IInv, AllBring, OneEach
    <2>12. Signed' /\ NotYetIssued'
      BY <2>1, <2>3, <2>5, <2>8, <2>9 DEF IInv, Signed, NotYetIssued
    <2>13. Marked'
      <3> SUFFICES ASSUME NEW o \in active', o.phase = "verifying"
                   PROVE  /\ o.ask \in Witnessed
                          /\ challenges'[o.id].state = "verifying" /\ challenges'[o.id].ask = o.ask
                          /\ \A x \in active' : x.phase = "verifying" /\ x.id = o.id => x = o
        BY DEF Marked
      <3>1. \A x \in active : x.phase = "verifying" => x.id # r.id
        BY <2>3, <2>9 DEF IInv, Marked
      <3>2. CASE o = c
        BY <2>1, <2>5, <2>6, <2>8, <2>9, <3>1, <3>2
      <3>3. CASE o \in active
        BY <2>6, <2>8, <2>9, <3>1, <3>3 DEF IInv, Marked, AllBring, Brings
      <3> QED BY <2>8, <3>2, <3>3
    <2>14. Passive
      <3>1. Calling' = Calling
        BY <2>6, <2>8 DEF Calling
      <3> QED BY <2>3, <2>5, <2>8, <2>9, <3>1 DEF Passive, SameUsed
    <2> QED BY <2>10, <2>11, <2>12, <2>13, <2>14 DEF Kind, Rest
  <1>9. CASE PresentApproval(r) /\ Judge(challenges[r.id], r.ask, r.signature) # "verify"
    <2>1. r.id \in Ids
      BY <1>1, <1>9 DEF PresentApproval
    <2>2. ~TooOld(challenges[r.id])
      BY <2>1, ApprovalAssumption DEF TooOld, IInv, Types, FreshChallenge
    <2>3. Judge(challenges[r.id], r.ask, r.signature) # "expired"
      BY <2>2 DEF Judge
    <2>4. challenges' = challenges
      BY <1>9, <2>3 DEF PresentApproval, Presented
    <2>5. TurnAway(r) /\ UNCHANGED <<store, issued, spent>>
      BY <1>4, <1>9 DEF PresentApproval
    <2>6. active' = active
      BY <1>3, <2>5 DEF TurnAway
    <2> QED BY <1>5, <2>4, <2>5, <2>6, AnsweredStep
  <1>10. CASE CommitAtOnce(r)
    <2>1. /\ r.ask \in Cleared => MintedFor[r.token] = r.ask
          /\ r.ask \in Witnessed => /\ r.id \in Ids /\ r.signature \in Signatures
                                    /\ Judge(challenges[r.id], r.ask, r.signature) = "ok"
      BY <1>1, <1>10 DEF CommitAtOnce, ClearanceWrong
    <2>2. Brings(r)
      BY <1>1, <2>1 DEF Brings
    <2>3. r.ask \in Witnessed => challenges[r.id].ask = r.ask
      BY <2>1 DEF Judge
    <2>4. Ready(r, challenges)
      BY <1>1, <1>2, <2>2, <2>3 DEF Ready, IInv, Types, Signed
    <2> QED BY <1>10, <2>4, CommitStep DEF CommitAtOnce
  <1> QED BY <1>6, <1>7, <1>8, <1>9, <1>10 DEF Arrive

LEMMA VerifiedStep ==
  ASSUME IInv, NEW r \in active, Verified(r)
  PROVE  Rest' /\ Kind
  <1> DEFINE old == challenges[r.id]
             new == [old EXCEPT !.state = "approved", !.signature = r.signature]
             pool == Approve(challenges, r.id, r.signature)
  <1>1. /\ r.phase = "verifying" /\ Brings(r) /\ r.ask \in Witnessed /\ r.id \in Ids
        /\ r.signature \in Signatures
        /\ old.state = "verifying" /\ old.ask = r.ask
        /\ Genuine(r.signature, r.id, r.ask)
    BY DEF Verified, IInv, AllBring, Brings, Marked
  <1>2. old \in FreshChallenge
    BY <1>1 DEF IInv, Types
  <1>3. pool = [challenges EXCEPT ![r.id] = new]
    BY <1>1 DEF Approve, Known
  <1>4. new \in FreshChallenge /\ new.state = "approved" /\ new.signature = r.signature /\ new.ask = r.ask
    BY <1>1, <1>2 DEF FreshChallenge, Challenge, ChallengeStates
  <1>5. Commit(r, pool) /\ issued' = issued
    BY DEF Verified
  <1> HIDE DEF pool, new
  <1>6. /\ pool \in [Ids -> FreshChallenge] /\ pool[r.id] = new
        /\ \A i \in Ids : i # r.id => pool[i] = challenges[i]
    BY <1>1, <1>3, <1>4 DEF IInv, Types
  <1>7. \A i \in Ids : pool[i].state \in {"approved", "used"} => Genuine(pool[i].signature, i, pool[i].ask)
    BY <1>1, <1>4, <1>6 DEF IInv, Signed
  <1>8. Ready(r, pool)
    BY <1>1, <1>4, <1>6, <1>7 DEF Ready, IInv, OneEach
  <1> QED BY <1>5, <1>8, CommitStep

LEMMA UnverifiedStep ==
  ASSUME IInv, NEW r \in active, Unverified(r)
  PROVE  Rest' /\ Kind
  <1> DEFINE old == challenges[r.id]
             again == [old EXCEPT !.state = "pending", !.failures = @ + 1]
  <1>1. /\ r.phase = "verifying" /\ Brings(r) /\ r.id \in Ids
        /\ old.state = "verifying"
        /\ challenges' = Fail(challenges, r.id) /\ Leave(r) /\ UNCHANGED <<store, issued, spent>>
    BY DEF Unverified, IInv, AllBring, Brings, Marked
  <1>2. old \in FreshChallenge
    BY <1>1 DEF IInv, Types
  <1>3. PICK new : /\ challenges' = [challenges EXCEPT ![r.id] = new]
                   /\ new = NoChallenge \/ (new = again /\ old.failures + 1 < MaxFailures)
    <2>1. CASE old.failures + 1 >= MaxFailures
      BY <1>1, <2>1 DEF Fail, Known
    <2>2. CASE ~(old.failures + 1 >= MaxFailures)
      <3>1. challenges' = [challenges EXCEPT ![r.id] = again]
        BY <1>1, <2>2 DEF Fail, Known
      <3>2. old.failures + 1 < MaxFailures
        BY <1>2, <2>2, ApprovalAssumption DEF FreshChallenge, Challenge
      <3> QED BY <3>1, <3>2
    <2> QED BY <2>1, <2>2
  <1>4. new \in FreshChallenge /\ new.state \in {"absent", "pending"}
    <2>1. CASE new = NoChallenge
      <3>1. 0 \in ChallengeAges /\ 0 \in 0 .. MaxFailures - 1
        BY ApprovalAssumption DEF ChallengeAges
      <3> QED BY <2>1, <3>1 DEF NoChallenge, FreshChallenge, Challenge, ChallengeStates
    <2>2. CASE new = again /\ old.failures + 1 < MaxFailures
      <3>1. old.failures + 1 \in 0 .. MaxFailures - 1
        BY <1>2, <2>2, ApprovalAssumption DEF FreshChallenge, Challenge
      <3> QED BY <1>2, <2>2, <3>1 DEF FreshChallenge, Challenge, ChallengeStates
    <2> QED BY <1>3, <2>1, <2>2
  <1>5. /\ challenges' \in [Ids -> FreshChallenge] /\ challenges'[r.id] = new
        /\ \A i \in Ids : i # r.id => challenges'[i] = challenges[i]
    BY <1>1, <1>3, <1>4 DEF IInv, Types
  <1>6. active' = active \ {r} /\ turnedAway' = NoOne
    BY <1>1, OthersOfOld DEF Leave, IInv
  <1>7. Types'
    BY <1>1, <1>5, <1>6 DEF IInv, Types, NoOne
  <1>8. AllBring' /\ OneEach'
    BY <1>6 DEF IInv, AllBring, OneEach
  <1>9. Signed'
    BY <1>4, <1>5 DEF IInv, Signed
  <1>10. NotYetIssued'
    <2>1. r.id <= issued
      BY <1>1 DEF IInv, NotYetIssued, Types, Ids
    <2> QED BY <1>1, <1>5, <2>1 DEF IInv, NotYetIssued, Types, Ids
  <1>11. Marked'
    BY <1>1, <1>5, <1>6 DEF IInv, Marked, AllBring, Brings
  <1>12. Passive
    <2>1. Calling' = Calling
      BY <1>1, <1>6 DEF Calling
    <2> QED BY <1>1, <1>4, <1>5, <2>1 DEF Passive, SameUsed
  <1> QED BY <1>7, <1>8, <1>9, <1>10, <1>11, <1>12 DEF Kind, Rest

\* The ways a call may settle its record.
LEMMA SettlesTyped ==
  ASSUME Types, NEW k \in Keys, NEW q \in Requests,
         NEW st \in {Complete(store, k, q), MarkUnknown(store, k), Abandon(store, k)}
  PROVE  st \in [Keys -> FreshRecord] /\ \A j \in Keys : j # k => st[j] = store[j]
  <1> DEFINE done == [store[k] EXCEPT !.state = "done", !.response = q, !.age = 0]
             unknown == [store[k] EXCEPT !.state = "unknown", !.response = None, !.age = 0]
  <1>1. 0 \in Ages
    BY StoreAssumption DEF Ages, AgeCap
  <1>2. done \in FreshRecord /\ unknown \in FreshRecord
    BY <1>1 DEF Types, FreshRecord, Record, States
  <1>3. Complete(store, k, q) \in {store, [store EXCEPT ![k] = done]}
    BY DEF Complete, Settle
  <1>4. MarkUnknown(store, k) \in {store, [store EXCEPT ![k] = unknown]}
    BY DEF MarkUnknown, Settle
  <1>5. Abandon(store, k) \in {store, [store EXCEPT ![k] = Absent]}
    BY DEF Abandon
  <1> HIDE DEF done, unknown
  <1> QED BY <1>2, <1>3, <1>4, <1>5, RecordShapes DEF Types

LEMMA EndingStep ==
  ASSUME IInv, NEW r \in active, Completed(r) \/ Lost(r) \/ Rejected(r)
  PROVE  Rest' /\ Kind
  <1>1. /\ r \in Attempt /\ r.phase = "calling" /\ r.ask \in Requests
        /\ r.ask \in Keyed => r.key \in Keys
        /\ Leave(r) /\ UNCHANGED <<challenges, issued, spent>>
    BY DEF Completed, Lost, Rejected, IInv, AllBring, Brings, Attempt
  <1>2. active' = active \ {r} /\ turnedAway' = NoOne
    BY <1>1, OthersOfOld DEF Leave, IInv
  <1>3. /\ store' \in [Keys -> FreshRecord]
        /\ \A k \in Keys : ~(r.ask \in Keyed /\ k = r.key) => store'[k] = store[k]
    <2>1. CASE r.ask \in Keyed
      BY <1>1, <2>1, SettlesTyped DEF Completed, Lost, Rejected, IInv
    <2>2. CASE r.ask \notin Keyed
      BY <2>2 DEF Completed, Lost, Rejected, IInv, Types
    <2> QED BY <2>1, <2>2
  <1>4. Types'
    BY <1>1, <1>2, <1>3 DEF IInv, Types, NoOne
  <1>5. AllBring' /\ OneEach' /\ Marked' /\ Signed' /\ NotYetIssued'
    BY <1>1, <1>2 DEF IInv, AllBring, OneEach, Marked, Signed, NotYetIssued
  <1>6. Ending(r)
    BY <1>1, <1>2, <1>3 DEF Ending, Calling
  <1> QED BY <1>1, <1>4, <1>5, <1>6 DEF Kind, Rest

LEMMA NextStep ==
  ASSUME IInv, Next
  PROVE  Rest' /\ Kind
  BY ArriveStep, VerifiedStep, UnverifiedStep, EndingStep DEF Next, GoOn

-----------------------------------------------------------------------------
(* What each kind of step does to the calls *)

LEMMA KindKeepsBacked ==
  ASSUME IInv, Rest', Kind
  PROVE  CallsBacked'
  <1> SUFFICES ASSUME NEW r \in Calling'
               PROVE  /\ r.ask \in Keyed =>
                            /\ store'[r.key].state = "in_flight" /\ store'[r.key].request = r.ask
                            /\ \A o \in Calling' \ {r} : o.ask \in Keyed => o.key # r.key
                      /\ r.ask \in Cleared =>
                            /\ spent'[r.token] # -1 /\ MintedFor[r.token] = r.ask
                            /\ \A o \in Calling' \ {r} : o.ask \in Cleared => o.token # r.token
                      /\ r.ask \in Witnessed =>
                            /\ challenges'[r.id].state = "used" /\ challenges'[r.id].ask = r.ask
                            /\ Genuine(challenges'[r.id].signature, r.id, r.ask)
                            /\ \A o \in Calling' \ {r} : o.ask \in Witnessed => o.id # r.id
    BY DEF CallsBacked
  <1>1. \A o \in Calling : /\ o \in Attempt /\ o.token \in Tokens
                           /\ o.ask \in Keyed => o.key \in Keys
                           /\ o.ask \in Witnessed => o.id \in Ids
    BY DEF IInv, AllBring, Brings, Calling, Attempt
  <1>2. CASE Passive
    BY <1>1, <1>2 DEF Passive, IInv, CallsBacked, SameUsed
  <1>3. ASSUME NEW e \in Attempt, Ending(e)
        PROVE  /\ r \in Calling /\ r # e /\ Calling' = Calling \ {e}
               /\ r.ask \in Keyed => store'[r.key] = store[r.key]
    <2>1. Calling' = Calling \ {e}
      BY <1>3 DEF Ending, Calling
    <2>2. r.ask \in Keyed /\ e.ask \in Keyed => r.key # e.key
      BY <1>3, <2>1 DEF Ending, IInv, CallsBacked
    <2> QED BY <1>1, <1>3, <2>1, <2>2 DEF Ending
  <1>4. CASE \E e \in Attempt : Ending(e)
    BY <1>3, <1>4 DEF Ending, IInv, CallsBacked
  <1>5. ASSUME NEW b \in Attempt, Starting(b)
        PROVE  /\ r.ask \in Keyed =>
                     /\ store'[r.key].state = "in_flight" /\ store'[r.key].request = r.ask
                     /\ \A o \in Calling' \ {r} : o.ask \in Keyed => o.key # r.key
               /\ r.ask \in Cleared =>
                     /\ spent'[r.token] # -1 /\ MintedFor[r.token] = r.ask
                     /\ \A o \in Calling' \ {r} : o.ask \in Cleared => o.token # r.token
               /\ r.ask \in Witnessed =>
                     /\ challenges'[r.id].state = "used" /\ challenges'[r.id].ask = r.ask
                     /\ Genuine(challenges'[r.id].signature, r.id, r.ask)
                     /\ \A o \in Calling' \ {r} : o.ask \in Witnessed => o.id # r.id
    <2> DEFINE c == [b EXCEPT !.phase = "calling"]
    <2>1. /\ c \in Attempt /\ c.phase = "calling" /\ c.by = b.by /\ c.ask = b.ask /\ c.key = b.key
          /\ c.token = b.token /\ c.id = b.id /\ Brings(c)
      BY <1>5, PhaseChanges DEF Starting
    <2>2. active' = Others(b) \cup {c}
      BY <1>5 DEF Starting
    <2> HIDE DEF c
    <2>3. Calling' = Calling \cup {c}
      BY <1>5, <2>1, <2>2 DEF Calling, Others, Starting
    <2>4. /\ c.token \in Tokens
          /\ c.ask \in Keyed => c.key \in Keys
          /\ c.ask \in Witnessed => c.id \in Ids
      BY <2>1 DEF Brings, Attempt
    <2>5. \A o \in Calling : o.ask \in Keyed /\ c.ask \in Keyed => o.key # c.key
      BY <1>5, <2>1 DEF Starting, IInv, CallsBacked
    <2>6. \A o \in Calling : o.ask \in Cleared /\ c.ask \in Cleared => o.token # c.token
      BY <1>5, <2>1 DEF Starting, IInv, CallsBacked
    <2>7. \A o \in Calling : o.ask \in Witnessed /\ c.ask \in Witnessed => o.id # c.id
      BY <1>5, <2>1 DEF Starting, IInv, CallsBacked
    <2>8. CASE r = c
      <3>1. r.ask \in Keyed =>
               /\ store'[r.key].state = "in_flight" /\ store'[r.key].request = r.ask
               /\ \A o \in Calling' \ {r} : o.ask \in Keyed => o.key # r.key
        BY <1>5, <2>1, <2>3, <2>5, <2>8 DEF Starting
      <3>2. r.ask \in Cleared =>
               /\ spent'[r.token] # -1 /\ MintedFor[r.token] = r.ask
               /\ \A o \in Calling' \ {r} : o.ask \in Cleared => o.token # r.token
        BY <1>5, <2>1, <2>3, <2>4, <2>6, <2>8 DEF Starting, Brings, IInv, Types
      <3>3. r.ask \in Witnessed =>
               /\ challenges'[r.id].state = "used" /\ challenges'[r.id].ask = r.ask
               /\ \A o \in Calling' \ {r} : o.ask \in Witnessed => o.id # r.id
        BY <1>5, <2>1, <2>3, <2>7, <2>8 DEF Starting
      <3>4. r.ask \in Witnessed => Genuine(challenges'[r.id].signature, r.id, r.ask)
        BY <2>4, <2>8, <3>3 DEF Rest, Signed
      <3> QED BY <3>1, <3>2, <3>3, <3>4
    <2>9. CASE r \in Calling
      <3>1. r.ask \in Keyed =>
               /\ store'[r.key].state = "in_flight" /\ store'[r.key].request = r.ask
               /\ \A o \in Calling' \ {r} : o.ask \in Keyed => o.key # r.key
        <4>1. r.ask \in Keyed => store'[r.key] = store[r.key]
          BY <1>1, <1>5, <2>1, <2>5, <2>9 DEF Starting, IInv, CallsBacked
        <4> QED BY <2>3, <2>5, <2>9, <4>1 DEF IInv, CallsBacked
      <3>2. r.ask \in Cleared =>
               /\ spent'[r.token] # -1 /\ MintedFor[r.token] = r.ask
               /\ \A o \in Calling' \ {r} : o.ask \in Cleared => o.token # r.token
        <4>1. r.ask \in Cleared => spent'[r.token] = spent[r.token]
          BY <1>1, <1>5, <2>1, <2>6, <2>9 DEF Starting, IInv, Types
        <4> QED BY <2>3, <2>6, <2>9, <4>1 DEF IInv, CallsBacked
      <3>3. r.ask \in Witnessed =>
               /\ challenges'[r.id].state = "used" /\ challenges'[r.id].ask = r.ask
               /\ Genuine(challenges'[r.id].signature, r.id, r.ask)
               /\ \A o \in Calling' \ {r} : o.ask \in Witnessed => o.id # r.id
        <4>1. r.ask \in Witnessed => challenges'[r.id] = challenges[r.id]
          BY <1>1, <1>5, <2>1, <2>7, <2>9 DEF Starting
        <4> QED BY <2>3, <2>7, <2>9, <4>1 DEF IInv, CallsBacked
      <3> QED BY <3>1, <3>2, <3>3
    <2> QED BY <2>3, <2>8, <2>9
  <1> QED BY <1>2, <1>4, <1>5 DEF Kind

LEMMA InitIInv == Init => IInv
  <1> SUFFICES ASSUME Init PROVE IInv
    OBVIOUS
  <1>1. 0 \in ChallengeAges /\ 0 \in 0 .. MaxFailures - 1 /\ 0 \in 0 .. MaxIssued
    BY ApprovalAssumption DEF ChallengeAges
  <1>2. NoChallenge \in FreshChallenge /\ NoChallenge.state = "absent"
    BY <1>1 DEF NoChallenge, FreshChallenge, Challenge, ChallengeStates
  <1>3. Types
    BY <1>1, <1>2, RecordShapes DEF Init, Types, NoRecords, NoChallenges, NoneSpent, NoOne
  <1>4. Signed /\ NotYetIssued
    BY <1>2 DEF Init, Signed, NotYetIssued, NoChallenges
  <1> QED BY <1>3, <1>4 DEF Init, IInv, AllBring, OneEach, Marked, CallsBacked, Calling

LEMMA NextKeepsIInv ==
  ASSUME IInv, [Next]_vars
  PROVE  IInv'
  <1>1. CASE Next
    BY <1>1, NextStep, KindKeepsBacked DEF IInv, Rest
  <1>2. CASE UNCHANGED vars
    BY <1>2 DEF vars, IInv, Types, AllBring, OneEach, Marked, Signed, NotYetIssued, CallsBacked, Calling
  <1> QED BY <1>1, <1>2

\* The inductive invariant of the commit: what an attempt that verifies has marked, and
\* what an open call has claimed and spent, stays its own.
THEOREM Invariance == Spec => []IInv
  <1>1. IInv /\ [Next]_vars => IInv'
    BY NextKeepsIInv
  <1> QED BY <1>1, InitIInv, PTL DEF Spec

\* Every variable of the commit stays in its type.
THEOREM TypeCorrect == Spec => []TypeOK
  <1>1. IInv => TypeOK
    <2>1. {-1, 0} \subseteq SpentAges \cup {-1}
      BY ClearanceAssumption DEF SpentAges, Remembered
    <2>2. FreshRecord \subseteq Record /\ FreshChallenge \subseteq Challenge
      BY DEF FreshRecord, FreshChallenge
    <2> QED BY <2>1, <2>2 DEF IInv, Types, TypeOK, Store, Pool, SpentTokens
  <1> QED BY <1>1, Invariance, PTL

\* An open call holds everything it needed, and holds it alone: the in-flight record of its
\* key, its clearance and its approval, however many attempts run between each other's awaits.
THEOREM CallsHoldAll == Spec => []CallsBacked
  <1>1. IInv => CallsBacked
    BY DEF IInv
  <1> QED BY <1>1, Invariance, PTL

\* A retry that arrives after its request has completed is answered from the record,
\* whatever has become of the clearance and the approval it brings (ID-4).
THEOREM ReplaysNeedNothing == Spec => ReplayNeedsNoCredential
  <1>1. ASSUME IInv, NEW a \in Attempts, NEW r \in Arrivals(a), Arrive(r), NEW k \in Keys,
               turnedAway' # turnedAway, turnedAway'.key = k,
               store[k].state = "done", store[k].request = turnedAway'.ask
        PROVE  FALSE
    <2>1. turnedAway' = NoOne => FALSE
      BY <1>1, InvokeAssumption DEF NoOne
    <2>2. TurnAway(r) /\ Seen(r) = "proceed"
      BY <1>1, <2>1 DEF Arrive, AnswerFromRecord, RefuseClearance, Unapprovable, AskForApproval,
                        PresentApproval, CommitAtOnce, Commit, Leave, Start
    <2>3. r.key = k /\ r.ask = turnedAway'.ask
      BY <1>1, <2>2 DEF TurnAway
    <2>4. r.ask \in Keyed
      BY <1>1, <2>3, ArrivalsBring, InvokeAssumption
    <2>5. Seen(r) = Classify(store[k], r.ask)
      BY <1>1, <2>3, <2>4, LooksStay DEF Seen, Peek, IInv
    <2> QED BY <1>1, <2>2, <2>3, <2>5 DEF Classify
  <1>2. ASSUME IInv, NEW r \in active, GoOn(r)
        PROVE  turnedAway' = NoOne
    <2>1. r.phase # "arriving"
      BY <1>2 DEF IInv, Types
    <2> QED BY <1>2, <2>1 DEF GoOn, Verified, Unverified, Completed, Lost, Rejected, Commit, Leave, Start
  <1>3. \A k \in Keys : NoOne.key # k
    BY InvokeAssumption DEF NoOne
  <1>4. IInv /\ [Next]_vars =>
          [\A k \in Keys : (turnedAway' # turnedAway /\ turnedAway'.key = k) =>
              ~(store[k].state = "done" /\ store[k].request = turnedAway'.ask)]_vars
    BY <1>1, <1>2, <1>3 DEF Next
  <1> QED BY <1>4, Invariance, PTL DEF Spec, ReplayNeedsNoCredential

-----------------------------------------------------------------------------
(* The refinement *)

LEMMA CredentialNames ==
  /\ \A t, u : Clearance(t) = Clearance(u) => t = u
  /\ \A i, j : ApprovalBy(i) = ApprovalBy(j) => i = j
  /\ \A t, i : Clearance(t) # ApprovalBy(i)
  BY DEF Clearance, ApprovalBy

LEMMA PassiveRefines ==
  ASSUME IInv, Passive
  PROVE  UNCHANGED <<SpentCredentials, OpenCalls>>
  <1>1. OpenCalls' = OpenCalls
    BY DEF Passive, OpenCalls
  <1>2. \A i \in Ids : challenges'[i].state = "used" <=> challenges[i].state = "used"
    BY DEF Passive, SameUsed
  <1>3. SpentCredentials' = SpentCredentials
    BY <1>2 DEF Passive, SpentCredentials
  <1> QED BY <1>1, <1>3

LEMMA EndingRefines ==
  ASSUME IInv, NEW r \in Attempt, Ending(r)
  PROVE  Commitment!Next
  <1> DEFINE call(o) == [by |-> o.by, uses |-> Uses(o)]
  <1>1. Calling' = Calling \ {r} /\ r \in Calling
    BY DEF Ending, Calling
  <1>2. \A o, q : call(o) = call(q) => o.by = q.by
    OBVIOUS
  <1>3. OpenCalls = {call(o) : o \in Calling} /\ OpenCalls' = {call(o) : o \in Calling'}
    BY DEF OpenCalls
  <1> HIDE DEF call
  <1>4. \A o \in Calling : call(o) = call(r) => o = r
    BY <1>1, <1>2 DEF IInv, OneEach, Calling
  <1>5. OpenCalls' = OpenCalls \ {call(r)} /\ call(r) \in OpenCalls
    BY <1>1, <1>3, <1>4
  <1>6. SpentCredentials' = SpentCredentials
    BY DEF Ending, SpentCredentials
  <1> QED BY <1>5, <1>6 DEF Commitment!Next, Commitment!End

LEMMA StartingRefines ==
  ASSUME IInv, NEW r \in Attempt, Starting(r)
  PROVE  Commitment!Next
  <1> DEFINE c == [r EXCEPT !.phase = "calling"]
             call(o) == [by |-> o.by, uses |-> Uses(o)]
  <1>1. /\ c \in Attempt /\ c.phase = "calling" /\ c.by = r.by /\ c.ask = r.ask
        /\ c.token = r.token /\ c.id = r.id /\ c.by \in Attempts
        /\ r.token \in Tokens /\ (r.ask \in Witnessed => r.id \in Ids)
    BY PhaseChanges DEF Attempt, Starting, Brings
  <1>2. active' = Others(r) \cup {c}
    BY DEF Starting
  <1> HIDE DEF c
  <1>3. Calling' = Calling \cup {c}
    BY <1>1, <1>2 DEF Calling, Others, Starting
  <1>4. OpenCalls = {call(o) : o \in Calling} /\ OpenCalls' = {call(o) : o \in Calling'}
    BY DEF OpenCalls
  <1>5. call(c).uses = Uses(r) /\ call(c).by = r.by /\ call(c) = [by |-> r.by, uses |-> Uses(r)]
    BY <1>1 DEF Uses
  <1>6. Uses(r) \in SUBSET ({Clearance(t) : t \in Tokens} \cup {ApprovalBy(i) : i \in Ids})
    BY <1>1 DEF Uses
  <1>7. call(c) \in Commitment!Call
    BY <1>1, <1>5, <1>6 DEF Commitment!Call
  <1> HIDE DEF call
  <1>8. OpenCalls' = OpenCalls \cup {call(c)}
    BY <1>3, <1>4
  <1>9. Uses(r) \cap SpentCredentials = {}
    BY <1>1, CredentialNames DEF Uses, SpentCredentials, Starting
  <1>10. SpentCredentials' = SpentCredentials \cup Uses(r)
    <2>1. \A t \in Tokens : spent'[t] # -1 <=> (spent[t] # -1 \/ (r.ask \in Cleared /\ t = r.token))
      BY <1>1 DEF Starting, IInv, Types
    <2>2. \A i \in Ids : challenges'[i].state = "used" <=>
             (challenges[i].state = "used" \/ (r.ask \in Witnessed /\ i = r.id))
      BY <1>1 DEF Starting
    <2> QED BY <1>1, <2>1, <2>2 DEF SpentCredentials, Uses
  <1>11. Commitment!Start(call(c))
    BY <1>5, <1>8, <1>9, <1>10 DEF Commitment!Start
  <1> QED BY <1>7, <1>11 DEF Commitment!Next

\* The commit is what CO-1 says, for any number of attempts: nothing is spent unless a call
\* starts, everything that call needs is unspent before that step and spent by it, and
\* nothing is spent twice.
THEOREM OneShotImplemented == Spec => ImplementsOneShot
  <1>1. Init => Commitment!Init
    BY DEF Init, Commitment!Init, SpentCredentials, OpenCalls, Calling, NoneSpent, NoChallenges,
           NoChallenge
  <1>2. IInv /\ [Next]_vars => [Commitment!Next]_<<SpentCredentials, OpenCalls>>
    <2> SUFFICES ASSUME IInv, [Next]_vars
                 PROVE  Commitment!Next \/ UNCHANGED <<SpentCredentials, OpenCalls>>
      OBVIOUS
    <2>1. CASE Next
      BY <2>1, NextStep, PassiveRefines, EndingRefines, StartingRefines DEF Kind
    <2>2. CASE UNCHANGED vars
      BY <2>2 DEF vars, SpentCredentials, OpenCalls, Calling
    <2> QED BY <2>1, <2>2
  <1> QED BY <1>1, <1>2, Invariance, PTL DEF Spec, ImplementsOneShot, Commitment!Spec
===============================================================================
