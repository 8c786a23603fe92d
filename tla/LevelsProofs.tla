----------------------------- MODULE LevelsProofs -----------------------------
(***************************************************************************)
(* What the guarded levels promise, each of its own store, and the log     *)
(* that every decision goes to, for every set of destinations, tokens,     *)
(* signers, requests and handlers, and for every value of the limits that  *)
(* the assumptions allow.                                                  *)
(*                                                                         *)
(* Guard (levels 1 and 3): a nonce and a clearance let one request         *)
(* through; an unused nonce is kept for its time and forgotten after it.   *)
(* Approval (level 4): an approval runs one call, as signed; a challenge   *)
(* is marked while one request verifies it, and only then; and only its    *)
(* own last failure removes one that is not too old.                       *)
(* Audit: each entry follows the line before it, whatever fails, is        *)
(* renamed away or restarts.                                               *)
(***************************************************************************)
EXTENDS Guard, Approval, Audit, FiniteSetTheorems, SequenceTheorems, TLAPS

-----------------------------------------------------------------------------
(* Types *)

LEMMA NonceAgesNat == NonceAges \subseteq Nat /\ 0 \in NonceAges
BY NonceAssumption, ClearanceAssumption DEF NonceAges

LEMMA NoNonceType == NoNonce \in Nonce
BY NonceAgesNat DEF NoNonce, Nonce

LEMMA MaybeCleanupType ==
    ASSUME NEW ns \in NonceStore, NEW since \in 0 .. CleanupInterval
    PROVE  /\ MaybeCleanup(ns, since).nonces \in NonceStore
           /\ MaybeCleanup(ns, since).since \in 0 .. CleanupInterval
           /\ \A n \in Nonces : MaybeCleanup(ns, since).nonces[n] \in {ns[n], NoNonce}
BY NonceAssumption, ClearanceAssumption, NoNonceType DEF MaybeCleanup, Cleanup, NonceStore

LEMMA UseUpType ==
    ASSUME NEW ns \in NonceStore, NEW n \in Nonces, NEW audience \in Audiences
    PROVE  /\ UseUp(ns, n, audience) \in NonceStore
           /\ \A k \in Nonces \ {n} : UseUp(ns, n, audience)[k] = ns[k]
           /\ JudgeNonce(ns[n], audience) # "ok" => UseUp(ns, n, audience) = ns
           /\ JudgeNonce(ns[n], audience) = "ok" =>
                 /\ UseUp(ns, n, audience)[n] = [ns[n] EXCEPT !.state = "used"]
                 /\ ns[n].state = "fresh" /\ ns[n].audience = audience /\ ns[n].age <= NonceTTL
<1>1. ns[n] \in Nonce
  BY DEF NonceStore
<1>2. CASE JudgeNonce(ns[n], audience) # "ok"
  BY <1>2 DEF UseUp
<1>3. CASE JudgeNonce(ns[n], audience) = "ok"
  <2> DEFINE u == [ns[n] EXCEPT !.state = "used"]
  <2>1. UseUp(ns, n, audience) = [ns EXCEPT ![n] = u]
    BY <1>3 DEF UseUp
  <2>2. u \in Nonce
    BY <1>1 DEF Nonce
  <2>3. ns[n].age \in Nat /\ NonceTTL \in Nat
    BY <1>1, NonceAgesNat, NonceAssumption, ClearanceAssumption DEF Nonce
  <2>4. ns[n].state = "fresh" /\ ns[n].audience = audience /\ ns[n].age <= NonceTTL
    BY <1>1, <1>3, <2>3 DEF JudgeNonce, Nonce
  <2> HIDE DEF u
  <2>5. /\ UseUp(ns, n, audience) \in NonceStore
        /\ \A k \in Nonces \ {n} : UseUp(ns, n, audience)[k] = ns[k]
        /\ UseUp(ns, n, audience)[n] = u
    BY <2>1, <2>2 DEF NonceStore
  <2> QED BY <1>3, <2>4, <2>5 DEF u
<1> QED BY <1>2, <1>3

LEMMA LeadsInt ==
    /\ Leads \subseteq Int
    /\ SpentAges \subseteq Nat
    /\ Remembered \in Nat
    /\ \A l \in Leads : -(ClearanceTTL + 1) <= l /\ l <= ClearanceTTL + 1
BY NonceAssumption, ClearanceAssumption DEF Leads, SpentAges, Remembered

LEMMA SpentType ==
    ASSUME NEW sp \in SpentTokens
    PROVE  /\ PurgeSpent(sp) \in SpentTokens
           /\ \A t \in Tokens : SpendToken(sp, t) \in SpentTokens
           /\ OlderSpent(sp) \in SpentTokens
<1>1. \A u \in Tokens : sp[u] \in Int /\ (sp[u] = -1 \/ sp[u] \in 0 .. Remembered + 1)
  BY NonceAssumption, ClearanceAssumption DEF SpentTokens, SpentAges, Remembered
<1>2. PurgeSpent(sp) \in SpentTokens
  BY <1>1 DEF PurgeSpent, SpentTokens
<1>3. 0 \in SpentAges
  BY NonceAssumption, ClearanceAssumption DEF SpentAges, Remembered
<1>4. \A t \in Tokens : SpendToken(sp, t) \in SpentTokens
  BY <1>2, <1>3 DEF SpendToken, SpentTokens
<1>5. \A u \in Tokens : (sp[u] # -1 /\ sp[u] <= Remembered) => sp[u] + 1 \in SpentAges
  BY <1>1, LeadsInt DEF SpentAges
<1>6. OlderSpent(sp) \in SpentTokens
  BY <1>5 DEF OlderSpent, SpentTokens
<1> QED BY <1>2, <1>4, <1>6

-----------------------------------------------------------------------------
(* Clearances: the inductive invariant *)

ClearanceTypes ==
    /\ lead \in [Tokens -> Leads]
    /\ spent \in SpentTokens
    /\ waiting \in SUBSET Waiting
    /\ paid \in [Tokens -> 0 .. 2]

\* A waiting request's token was in time when it was validated.
WaitingInTime ==
    \A m \in waiting : /\ lead[m.token] + m.age >= -ClearanceTTL
                       /\ lead[m.token] <= ClearanceTTL

\* A token can still be validated, or a request validated it a second ago at most.
InUse(t) == lead[t] >= -ClearanceTTL \/ \E m \in waiting : m.token = t /\ m.age <= 1

\* A token that has paid is remembered as long as it is in use.
PaidRemembered ==
    \A t \in Tokens : paid[t] > 0 /\ InUse(t) =>
        spent[t] # -1 /\ spent[t] <= ClearanceTTL - lead[t]

CInv == ClearanceTypes /\ WaitingInTime /\ PaidRemembered

LEMMA PaidStaysSpent ==
    ASSUME CInv, NEW t \in Tokens, paid[t] > 0, InUse(t)
    PROVE  spent[t] \in 0 .. Remembered
<1>1. spent[t] # -1 /\ spent[t] <= ClearanceTTL - lead[t]
  BY DEF CInv, PaidRemembered
<1>2. spent[t] \in SpentAges /\ lead[t] \in Leads
  BY <1>1 DEF CInv, ClearanceTypes, SpentTokens
<1>3. -(ClearanceTTL + 1) <= lead[t] /\ lead[t] \in Int /\ spent[t] \in Nat
  BY <1>2, LeadsInt
<1> QED BY <1>1, <1>3, NonceAssumption, ClearanceAssumption DEF Remembered

LEMMA ClearanceInit == GuardInit => CInv
<1> SUFFICES ASSUME GuardInit PROVE CInv
  OBVIOUS
<1>1. spent = NoneSpent /\ waiting = {} /\ paid = [t \in Tokens |-> 0] /\ lead \in [Tokens -> Leads]
  BY DEF GuardInit
<1>2. ClearanceTypes
  BY <1>1 DEF ClearanceTypes, NoneSpent, SpentTokens
<1>3. WaitingInTime /\ PaidRemembered
  BY <1>1 DEF WaitingInTime, PaidRemembered
<1> QED BY <1>2, <1>3 DEF CInv

LEMMA ClearanceStep == ASSUME CInv, [GuardNext]_guardVars PROVE CInv'
<1> USE NonceAssumption, ClearanceAssumption, WaitAssumption
<1>1. ASSUME UNCHANGED clearanceVars
      PROVE  CInv'
  BY <1>1 DEF clearanceVars, CInv, ClearanceTypes, WaitingInTime, PaidRemembered, InUse
<1>2. \A m \in waiting : /\ m \in Waiting /\ m.token \in Tokens
                         /\ m.age \in Nat /\ m.age <= WaitLimit
  BY DEF CInv, ClearanceTypes, Waiting
<1>3. \A t \in Tokens : /\ lead[t] \in Int /\ lead[t] \in Leads
                        /\ spent[t] \in Int /\ paid[t] \in 0 .. 2
  <2> SUFFICES ASSUME NEW t \in Tokens
               PROVE  /\ lead[t] \in Int /\ lead[t] \in Leads
                      /\ spent[t] \in Int /\ paid[t] \in 0 .. 2
    OBVIOUS
  <2>1. lead[t] \in Leads /\ spent[t] \in SpentAges \cup {-1}
    BY DEF CInv, ClearanceTypes, SpentTokens
  <2>3. paid[t] \in 0 .. 2
    BY DEF CInv, ClearanceTypes
  <2>4. Leads \subseteq Int /\ SpentAges \subseteq Nat
    BY LeadsInt
  <2>5. lead[t] \in Int
    BY <2>1, <2>4
  <2>6. spent[t] \in Int
    <3>1. spent[t] = -1 \/ spent[t] \in Nat
      BY <2>1, <2>4, Zenon
    <3> HIDE <2>1, <2>4
    <3> QED BY <3>1
  <2> QED BY <2>1, <2>3, <2>5, <2>6
<1>4. ASSUME NEW w \in Waiters, NEW t \in Tokens, Validate(w, t)
      PROVE  CInv'
  <2> DEFINE n == [by |-> w, token |-> t, age |-> 0]
  <2>1. waiting' = waiting \cup {n} /\ UNCHANGED <<lead, spent, paid>> /\ InTime(lead[t])
    BY <1>4 DEF Validate
  <2>2. n \in Waiting
    BY DEF Waiting
  <2>3. ClearanceTypes'
    BY <2>1, <2>2 DEF CInv, ClearanceTypes
  <2>4. WaitingInTime'
    BY <1>3, <2>1 DEF CInv, WaitingInTime, InTime
  <2>5. \A u \in Tokens : InUse(u)' => InUse(u)
    BY <2>1 DEF InUse, InTime
  <2>6. PaidRemembered'
    BY <2>1, <2>5 DEF CInv, PaidRemembered
  <2> QED BY <2>3, <2>4, <2>6 DEF CInv
<1>5. ASSUME NEW m \in waiting, GiveUp(m)
      PROVE  CInv'
  <2>1. waiting' = waiting \ {m} /\ UNCHANGED <<lead, spent, paid>>
    BY <1>5 DEF GiveUp
  <2>2. \A u \in Tokens : InUse(u)' => InUse(u)
    BY <2>1 DEF InUse
  <2> QED BY <2>1, <2>2 DEF CInv, ClearanceTypes, WaitingInTime, PaidRemembered
<1>6. ASSUME NEW m \in waiting, PayAtCommit(m)
      PROVE  CInv'
  <2> DEFINE t == m.token
  <2>1. t \in Tokens /\ waiting' = waiting \ {m} /\ UNCHANGED lead
    BY <1>2, <1>6 DEF PayAtCommit
  <2>2. \A u \in Tokens : InUse(u)' => InUse(u)
    BY <2>1 DEF InUse
  <2>3. WaitingInTime'
    BY <2>1 DEF CInv, WaitingInTime
  <2>5. \A u \in Tokens : paid[u] > 0 /\ InUse(u) => PurgeSpent(spent)[u] = spent[u]
    BY PaidStaysSpent, LeadsInt DEF PurgeSpent
  <2>6. CASE IsSpent(spent, t)
    <3>1. spent' = PurgeSpent(spent) /\ UNCHANGED paid
      BY <1>6, <2>6 DEF PayAtCommit
    <3>2. ClearanceTypes'
      BY <2>1, <3>1, SpentType DEF CInv, ClearanceTypes
    <3>3. PaidRemembered'
      BY <2>1, <2>2, <2>5, <3>1 DEF CInv, PaidRemembered
    <3> QED BY <2>3, <3>2, <3>3 DEF CInv
  <2>7. CASE ~IsSpent(spent, t)
    <3>1. spent' = SpendToken(spent, t) /\ paid' = [paid EXCEPT ![t] = UpToTwo(@)]
      BY <1>6, <2>7 DEF PayAtCommit
    <3>2. UpToTwo(paid[t]) \in 0 .. 2
      BY <1>3, <2>1 DEF UpToTwo
    <3>3. paid' \in [Tokens -> 0 .. 2] /\ \A u \in Tokens : u # t => paid'[u] = paid[u]
      BY <2>1, <3>1, <3>2 DEF CInv, ClearanceTypes
    <3>4. spent' = [PurgeSpent(spent) EXCEPT ![t] = 0]
      BY <2>7, <3>1 DEF SpendToken
    <3>5. ClearanceTypes'
      BY <2>1, <3>1, <3>3, SpentType DEF CInv, ClearanceTypes
    <3>6. PurgeSpent(spent) \in [Tokens -> SpentAges \cup {-1}]
      BY <2>1, SpentType DEF CInv, ClearanceTypes, SpentTokens
    <3>7. PaidRemembered'
      <4> SUFFICES ASSUME NEW u \in Tokens, paid'[u] > 0, InUse(u)'
                   PROVE  spent'[u] # -1 /\ spent'[u] <= ClearanceTTL - lead[u]
        BY <2>1 DEF PaidRemembered
      <4>1. CASE u = t
        BY <1>3, <2>1, <3>4, <3>6, <4>1 DEF CInv, WaitingInTime
      <4>2. CASE u # t
        <5>1. paid[u] > 0 /\ InUse(u) /\ spent'[u] = spent[u]
          BY <2>2, <2>5, <3>3, <3>4, <3>6, <4>2
        <5> QED BY <5>1 DEF CInv, PaidRemembered
      <4> QED BY <4>1, <4>2
    <3> QED BY <2>3, <3>5, <3>7 DEF CInv
  <2> QED BY <2>6, <2>7
<1>7. CASE GuardTick
  <2> DEFINE older(m) == [m EXCEPT !.age = @ + 1]
             later(t) == IF lead[t] > -(ClearanceTTL + 1) THEN lead[t] - 1 ELSE lead[t]
  <2>1. /\ \A m \in waiting : m.age < WaitLimit
        /\ lead' = [t \in Tokens |-> later(t)]
        /\ spent' = OlderSpent(spent)
        /\ waiting' = {older(m) : m \in waiting}
        /\ UNCHANGED paid
    BY <1>7 DEF GuardTick
  <2>2. \A m \in waiting : /\ older(m) \in Waiting
                           /\ older(m).age = m.age + 1 /\ older(m).token = m.token
    BY <1>2, <2>1 DEF Waiting
  <2>3. \A t \in Tokens : later(t) \in Leads /\ later(t) >= lead[t] - 1 /\ later(t) <= lead[t]
    BY <1>3 DEF Leads
  <2> HIDE DEF older, later
  <2>4. \A t \in Tokens : lead'[t] = later(t)
    BY <2>1
  <2>5. ClearanceTypes'
    <3>1. lead' \in [Tokens -> Leads]
      BY <2>1, <2>3
    <3>2. spent' \in SpentTokens
      BY <2>1, SpentType DEF CInv, ClearanceTypes
    <3>3. waiting' \in SUBSET Waiting
      BY <2>1, <2>2
    <3> QED BY <2>1, <3>1, <3>2, <3>3 DEF CInv, ClearanceTypes
  <2>6. WaitingInTime'
    <3> SUFFICES ASSUME NEW m \in waiting
                 PROVE  /\ later(m.token) + older(m).age >= -ClearanceTTL
                        /\ later(m.token) <= ClearanceTTL
      BY <1>2, <2>1, <2>2, <2>4 DEF WaitingInTime
    <3>1. lead[m.token] + m.age >= -ClearanceTTL /\ lead[m.token] <= ClearanceTTL
      BY DEF CInv, WaitingInTime
    <3>2. later(m.token) \in Int /\ lead[m.token] \in Int
      BY <1>2, <1>3, <2>3, LeadsInt
    <3> QED BY <1>2, <2>2, <2>3, <3>1, <3>2
  <2>7. PaidRemembered'
    <3> SUFFICES ASSUME NEW t \in Tokens, paid[t] > 0, InUse(t)'
                 PROVE  spent'[t] # -1 /\ spent'[t] <= ClearanceTTL - later(t)
      BY <2>1, <2>4 DEF PaidRemembered
    <3>1. lead[t] >= -ClearanceTTL
      <4>1. later(t) >= -ClearanceTTL \/ \E m \in waiting : m.token = t /\ m.age + 1 <= 1
        BY <2>1, <2>2, <2>4 DEF InUse
      <4>2. \A m \in waiting : m.age + 1 <= 1 => lead[m.token] >= -ClearanceTTL
        BY <1>2, <1>3 DEF CInv, WaitingInTime
      <4>3. later(t) \in Int
        BY <2>3, LeadsInt
      <4> QED BY <1>3, <2>3, <4>1, <4>2, <4>3
    <3>2. later(t) = lead[t] - 1
      BY <1>3, <3>1 DEF later
    <3>3. InUse(t)
      BY <3>1 DEF InUse
    <3>4. spent[t] \in 0 .. Remembered /\ spent[t] <= ClearanceTTL - lead[t]
      BY <3>3, PaidStaysSpent DEF CInv, PaidRemembered
    <3>5. spent'[t] = spent[t] + 1
      BY <2>1, <3>4, LeadsInt DEF OlderSpent
    <3> QED BY <1>3, <3>2, <3>4, <3>5, LeadsInt
  <2> QED BY <2>5, <2>6, <2>7 DEF CInv
<1>8. CASE \E audience \in Audiences : IssueNonce(audience)
  BY <1>1, <1>8 DEF IssueNonce
<1>9. CASE \E n \in Nonces, audience \in Audiences : GuardedRequest(n, audience)
  BY <1>1, <1>9 DEF GuardedRequest
<1>10. CASE UNCHANGED guardVars
  BY <1>1, <1>10 DEF guardVars, clearanceVars
<1> QED BY <1>4, <1>5, <1>6, <1>7, <1>8, <1>9, <1>10 DEF GuardNext

\* A request that commits within a second of validating a token that has paid finds it
\* spent.
LEMMA PaysLate ==
    ASSUME CInv, [GuardNext]_guardVars, NEW t \in Tokens, paid[t] > 0, paid'[t] > paid[t]
    PROVE  \E m \in waiting \ waiting' : m.token = t /\ m.age > 1
<1>1. paid[t] \in Nat
  BY DEF CInv, ClearanceTypes
<1>2. PICK m \in waiting : PayAtCommit(m)
  <2>1. paid' # paid
    BY <1>1
  <2> QED BY <2>1 DEF GuardNext, guardVars, IssueNonce, GuardedRequest, clearanceVars,
                      Validate, GiveUp, GuardTick
<1>3. m \in Waiting /\ m.token \in Tokens /\ m.age \in Nat /\ paid \in [Tokens -> 0 .. 2]
  BY WaitAssumption DEF CInv, ClearanceTypes, Waiting
<1>4. /\ waiting' = waiting \ {m}
      /\ ~IsSpent(spent, m.token)
      /\ paid' = [paid EXCEPT ![m.token] = UpToTwo(@)]
  BY <1>1, <1>2 DEF PayAtCommit
<1>5. m.token = t
  BY <1>1, <1>3, <1>4
<1>6. ~(m.age <= 1)
  <2> SUFFICES ASSUME m.age <= 1 PROVE FALSE
    OBVIOUS
  <2>1. spent[t] \in 0 .. Remembered
    BY <1>5, PaidStaysSpent DEF InUse
  <2>2. PurgeSpent(spent)[t] = spent[t]
    BY <2>1, LeadsInt DEF PurgeSpent
  <2> QED BY <1>4, <1>5, <2>1, <2>2 DEF IsSpent
<1>7. m.age > 1
  BY <1>3, <1>6
<1> QED BY <1>4, <1>5, <1>7

\* For every limit of the wait: a clearance that has paid pays again only for a request
\* that took more than a second from validating it to its commit.
THEOREM PaysOnceInTime == GuardSpec => PaysAgainOnlyLate
<1>1. CInv /\ [GuardNext]_guardVars => CInv'
  BY ClearanceStep
<1>2. CInv /\ [GuardNext]_guardVars =>
        [\A t \in Tokens : paid[t] > 0 /\ paid'[t] > paid[t] =>
            \E m \in waiting \ waiting' : m.token = t /\ m.age > 1]_guardVars
  BY PaysLate
<1> QED BY <1>1, <1>2, ClearanceInit, PTL DEF GuardSpec, PaysAgainOnlyLate

-----------------------------------------------------------------------------
(* Nonces: the inductive invariant *)

LEMMA MaybeCleanupKeeps ==
    ASSUME NEW ns \in NonceStore, NEW since \in 0 .. CleanupInterval
    PROVE  /\ \A n \in Nonces :
                ns[n].age <= NonceTTL => MaybeCleanup(ns, since).nonces[n] = ns[n]
           /\ (since < CleanupInterval /\ MaybeCleanup(ns, since).nonces = ns
                 /\ MaybeCleanup(ns, since).since = since)
              \/ \A n \in Nonces : MaybeCleanup(ns, since).nonces[n].age <= NonceTTL
<1>1. \A n \in Nonces : ns[n].age \in Nat
  <2> TAKE n \in Nonces
  <2>1. ns[n] \in Nonce
    BY DEF NonceStore
  <2> QED BY <2>1, NonceAgesNat DEF Nonce
<1>2. CASE since < CleanupInterval
  BY <1>2 DEF MaybeCleanup
<1>3. CASE ~(since < CleanupInterval)
  <2>1. MaybeCleanup(ns, since).nonces = Cleanup(ns)
    BY <1>3 DEF MaybeCleanup
  <2>2. NoNonce.age <= NonceTTL
    BY NonceAssumption, ClearanceAssumption DEF NoNonce
  <2>3. \A n \in Nonces : /\ Cleanup(ns)[n].age <= NonceTTL
                          /\ ns[n].age <= NonceTTL => Cleanup(ns)[n] = ns[n]
    BY <1>1, <2>2, NonceAssumption, ClearanceAssumption DEF Cleanup
  <2> QED BY <2>1, <2>3
<1> QED BY <1>2, <1>3

NonceTypes ==
    /\ nonces \in NonceStore
    /\ sinceCleanup \in 0 .. CleanupInterval
    /\ issuedNonces \in 0 .. MaxNonces
    /\ accepted \in [Nonces -> [count: 0 .. 2, audience: Audiences \cup {NobodyHome},
                                stale: BOOLEAN]]

NotIssuedYet ==
    \A n \in Nonces : n > issuedNonces => nonces[n].state = "absent" /\ accepted[n].count = 0

FreshIsUnused == \A n \in Nonces : nonces[n].state = "fresh" => accepted[n].count = 0

\* A nonce that was due at the last cleanup is gone.
AgesBounded == \A n \in Nonces : nonces[n].age <= NonceTTL + sinceCleanup

NInv == NonceTypes /\ NotIssuedYet /\ FreshIsUnused /\ NonceUsedOnce /\ AgesBounded

LEMMA NonceInit == GuardInit => NInv
<1> SUFFICES ASSUME GuardInit PROVE NInv
  OBVIOUS
<1> USE NonceAssumption, ClearanceAssumption
<1>1. /\ nonces = NoNonces /\ sinceCleanup = 0 /\ issuedNonces = 0
      /\ accepted = [n \in Nonces |-> [count |-> 0, audience |-> NobodyHome, stale |-> FALSE]]
  BY DEF GuardInit
<1>2. NonceTypes
  BY <1>1, NoNonceType DEF NonceTypes, NoNonces, NonceStore
<1>3. \A n \in Nonces : /\ nonces[n].state = "absent" /\ nonces[n].age = 0
                        /\ accepted[n].count = 0
  BY <1>1 DEF NoNonces, NoNonce
<1>4. NotIssuedYet /\ FreshIsUnused /\ NonceUsedOnce /\ AgesBounded
  BY <1>1, <1>3 DEF NotIssuedYet, FreshIsUnused, NonceUsedOnce, AgesBounded
<1> QED BY <1>2, <1>4 DEF NInv

\* What both kinds of request find after the cleanup that precedes their lookup.
LEMMA AfterCleanup ==
    ASSUME NInv
    PROVE  LET kept == MaybeCleanup(nonces, sinceCleanup)
           IN /\ kept.nonces \in NonceStore
              /\ kept.since \in 0 .. CleanupInterval
              /\ \A n \in Nonces : /\ kept.nonces[n] \in {nonces[n], NoNonce}
                                   /\ nonces[n].age <= NonceTTL => kept.nonces[n] = nonces[n]
              /\ kept.since < CleanupInterval
              /\ \A n \in Nonces : kept.nonces[n].age <= NonceTTL + kept.since
<1> DEFINE kept == MaybeCleanup(nonces, sinceCleanup)
<1>1. nonces \in NonceStore /\ sinceCleanup \in 0 .. CleanupInterval
  BY DEF NInv, NonceTypes
<1>2. /\ kept.nonces \in NonceStore
      /\ kept.since \in 0 .. CleanupInterval
      /\ \A n \in Nonces : kept.nonces[n] \in {nonces[n], NoNonce}
  BY <1>1, MaybeCleanupType
<1>3. /\ \A n \in Nonces : nonces[n].age <= NonceTTL => kept.nonces[n] = nonces[n]
      /\ \/ kept.nonces = nonces /\ kept.since = sinceCleanup
         \/ \A n \in Nonces : kept.nonces[n].age <= NonceTTL
  BY <1>1, MaybeCleanupKeeps
<1>4. kept.since < CleanupInterval
  BY <1>1, NonceAssumption DEF MaybeCleanup
<1> HIDE DEF kept
<1>5. \A n \in Nonces : kept.nonces[n].age \in Nat
  BY <1>2, NonceAgesNat DEF NonceStore, Nonce
<1>6. \A n \in Nonces : kept.nonces[n].age <= NonceTTL + kept.since
  BY <1>2, <1>3, <1>5, NonceAssumption DEF NInv, AgesBounded
<1> QED BY <1>2, <1>3, <1>4, <1>6 DEF kept

\* A step of the nonces keeps the invariant and takes no unused nonce away.
NonceKept(n) ==
    (nonces[n].state = "fresh" /\ nonces[n].age <= NonceTTL) =>
        nonces'[n].state = "fresh" \/ accepted'[n].count > accepted[n].count

LEMMA IssueStep ==
    ASSUME NInv, NEW audience \in Audiences, IssueNonce(audience)
    PROVE  NInv' /\ sinceCleanup' < CleanupInterval /\ \A n \in Nonces : NonceKept(n)
<1> USE NonceAssumption, ClearanceAssumption
<1> DEFINE kept == MaybeCleanup(nonces, sinceCleanup)
           new == [state |-> "fresh", audience |-> audience, age |-> 0]
           i == issuedNonces + 1
<1>1. /\ issuedNonces < MaxNonces /\ issuedNonces' = i
      /\ nonces' = [kept.nonces EXCEPT ![i] = new]
      /\ sinceCleanup' = kept.since
      /\ UNCHANGED accepted
  BY DEF IssueNonce
<1>2. issuedNonces \in 0 .. MaxNonces /\ i \in Nonces
  BY <1>1 DEF NInv, NonceTypes, Nonces
<1>3. new \in Nonce /\ new.state = "fresh" /\ new.age = 0
  BY NonceAgesNat DEF Nonce
<1>4. /\ kept.nonces \in NonceStore
      /\ kept.since \in 0 .. CleanupInterval
      /\ \A n \in Nonces : /\ kept.nonces[n] \in {nonces[n], NoNonce}
                           /\ nonces[n].age <= NonceTTL => kept.nonces[n] = nonces[n]
      /\ kept.since < CleanupInterval
      /\ \A n \in Nonces : kept.nonces[n].age <= NonceTTL + kept.since
  BY AfterCleanup
<1>5. NoNonce.state = "absent"
  BY DEF NoNonce
<1> HIDE DEF kept, new
<1>6. nonces'[i] = new /\ \A n \in Nonces \ {i} : nonces'[n] = kept.nonces[n]
  BY <1>1, <1>2, <1>4 DEF NonceStore
<1>7. NonceTypes'
  BY <1>1, <1>2, <1>3, <1>4 DEF NInv, NonceTypes, NonceStore
<1>8. nonces[i].state = "absent" /\ accepted[i].count = 0
  BY <1>2 DEF NInv, NotIssuedYet
<1>9. NotIssuedYet'
  <2> SUFFICES ASSUME NEW n \in Nonces, n > i
               PROVE  nonces'[n].state = "absent" /\ accepted[n].count = 0
    BY <1>1 DEF NotIssuedYet
  <2>1. n > issuedNonces /\ n # i
    BY <1>2 DEF Nonces
  <2> QED BY <2>1, <1>4, <1>5, <1>6 DEF NInv, NotIssuedYet
<1>10. FreshIsUnused'
  BY <1>1, <1>4, <1>5, <1>6, <1>8 DEF NInv, FreshIsUnused
<1>11. NonceUsedOnce'
  <2> SUFFICES ASSUME NEW n \in Nonces, accepted[n].count > 0
               PROVE  /\ accepted[n].count = 1
                      /\ ~accepted[n].stale
                      /\ nonces'[n].state # "absent" =>
                           nonces'[n].state = "used" /\ nonces'[n].audience = accepted[n].audience
    BY <1>1 DEF NonceUsedOnce
  <2>1. nonces'[n] \in {nonces[n], NoNonce}
    BY <1>4, <1>6, <1>8
  <2> QED BY <2>1, <1>5 DEF NInv, NonceUsedOnce
<1>12. AgesBounded' /\ sinceCleanup' < CleanupInterval
  <2>1. kept.since \in Nat /\ 0 <= NonceTTL + kept.since
    BY <1>4
  <2> QED BY <1>1, <1>3, <1>4, <1>6, <2>1 DEF AgesBounded
<1>13. \A n \in Nonces : NonceKept(n)
  BY <1>4, <1>6, <1>8 DEF NonceKept
<1> QED BY <1>7, <1>9, <1>10, <1>11, <1>12, <1>13 DEF NInv

LEMMA RequestStep ==
    ASSUME NInv, NEW i \in Nonces, NEW audience \in Audiences, GuardedRequest(i, audience)
    PROVE  NInv' /\ sinceCleanup' < CleanupInterval /\ \A n \in Nonces : NonceKept(n)
<1> USE NonceAssumption, ClearanceAssumption
<1> DEFINE kept == MaybeCleanup(nonces, sinceCleanup)
           found == kept.nonces[i]
           after == UseUp(kept.nonces, i, audience)
<1>1. /\ nonces' = after
      /\ sinceCleanup' = kept.since
      /\ accepted' = IF JudgeNonce(found, audience) = "ok"
                     THEN [accepted EXCEPT ![i] =
                             [count |-> UpToTwo(@.count), audience |-> audience,
                              stale |-> found.age > NonceTTL]]
                     ELSE accepted
      /\ UNCHANGED issuedNonces
  BY DEF GuardedRequest
<1>2. /\ kept.nonces \in NonceStore
      /\ kept.since \in 0 .. CleanupInterval
      /\ \A n \in Nonces : /\ kept.nonces[n] \in {nonces[n], NoNonce}
                           /\ nonces[n].age <= NonceTTL => kept.nonces[n] = nonces[n]
      /\ kept.since < CleanupInterval
      /\ \A n \in Nonces : kept.nonces[n].age <= NonceTTL + kept.since
  BY AfterCleanup
<1>3. NoNonce.state = "absent"
  BY DEF NoNonce
<1>4. /\ after \in NonceStore
      /\ \A k \in Nonces \ {i} : after[k] = kept.nonces[k]
      /\ JudgeNonce(found, audience) # "ok" => after = kept.nonces
      /\ JudgeNonce(found, audience) = "ok" =>
            /\ after[i] = [found EXCEPT !.state = "used"]
            /\ found.state = "fresh" /\ found.audience = audience /\ found.age <= NonceTTL
  BY <1>2, UseUpType
<1>5. found \in Nonce
  BY <1>2 DEF NonceStore
<1> HIDE DEF kept, after
<1>6. CASE JudgeNonce(found, audience) # "ok"
  <2>1. nonces' = kept.nonces /\ UNCHANGED <<accepted, issuedNonces>>
    BY <1>1, <1>4, <1>6
  <2>2. NonceTypes'
    BY <1>1, <1>2, <2>1 DEF NInv, NonceTypes
  <2>3. NotIssuedYet' /\ FreshIsUnused' /\ NonceUsedOnce'
    BY <1>2, <1>3, <2>1 DEF NInv, NotIssuedYet, FreshIsUnused, NonceUsedOnce
  <2>4. AgesBounded' /\ sinceCleanup' < CleanupInterval
    BY <1>1, <1>2, <2>1 DEF AgesBounded
  <2>5. \A n \in Nonces : NonceKept(n)
    BY <1>2, <2>1 DEF NonceKept
  <2> QED BY <2>2, <2>3, <2>4, <2>5 DEF NInv
<1>7. CASE JudgeNonce(found, audience) = "ok"
  <2> DEFINE used == [found EXCEPT !.state = "used"]
             paid1 == [count |-> 1, audience |-> audience, stale |-> FALSE]
  <2>1. nonces[i].state = "fresh" /\ found = nonces[i]
    BY <1>2, <1>3, <1>4, <1>7
  <2>2. accepted[i].count = 0
    BY <2>1 DEF NInv, FreshIsUnused
  <2>3. found.age \in Nat /\ ~(found.age > NonceTTL)
    BY <1>4, <1>5, <1>7, NonceAgesNat DEF Nonce
  <2>4. accepted' = [accepted EXCEPT ![i] = paid1]
    <3>1. (found.age > NonceTTL) = FALSE
      BY <2>3
    <3>2. UpToTwo(accepted[i].count) = 1
      BY <2>2 DEF UpToTwo
    <3> QED BY <1>1, <1>7, <3>1, <3>2
  <2>5. used.state = "used" /\ used.audience = audience /\ used.age = found.age
    BY <1>4, <1>5, <1>7 DEF Nonce
  <2>6. paid1.count = 1 /\ paid1.audience = audience /\ paid1.stale = FALSE
    OBVIOUS
  <2>7. paid1 \in [count: 0 .. 2, audience: Audiences \cup {NobodyHome}, stale: BOOLEAN]
    OBVIOUS
  <2> HIDE DEF used, paid1
  <2>8. nonces'[i] = used /\ \A n \in Nonces \ {i} : nonces'[n] = kept.nonces[n]
    BY <1>1, <1>4, <1>7 DEF used
  <2>9. accepted'[i] = paid1 /\ \A n \in Nonces \ {i} : accepted'[n] = accepted[n]
    BY <2>4 DEF NInv, NonceTypes
  <2>10. NonceTypes'
    BY <1>1, <1>2, <1>4, <2>4, <2>7 DEF NInv, NonceTypes
  <2>11. ~(i > issuedNonces)
    BY <2>1 DEF NInv, NotIssuedYet
  <2>12. NotIssuedYet'
    BY <1>1, <1>2, <1>3, <2>8, <2>9, <2>11 DEF NInv, NotIssuedYet
  <2>13. FreshIsUnused'
    BY <1>2, <1>3, <2>5, <2>8, <2>9 DEF NInv, FreshIsUnused
  <2>14. NonceUsedOnce'
    BY <1>2, <1>3, <2>5, <2>6, <2>8, <2>9 DEF NInv, NonceUsedOnce
  <2>15. AgesBounded' /\ sinceCleanup' < CleanupInterval
    <3>1. \A n \in Nonces : nonces'[n].age = kept.nonces[n].age
      BY <2>5, <2>8
    <3> QED BY <1>1, <1>2, <3>1 DEF AgesBounded
  <2>16. \A n \in Nonces : NonceKept(n)
    BY <1>2, <2>2, <2>6, <2>8, <2>9 DEF NonceKept
  <2> QED BY <2>10, <2>12, <2>13, <2>14, <2>15, <2>16 DEF NInv
<1> QED BY <1>6, <1>7

LEMMA NonceTick == ASSUME NInv, GuardTick PROVE NInv' /\ \A n \in Nonces : NonceKept(n)
<1> USE NonceAssumption, ClearanceAssumption
<1>1. /\ nonces' = OlderNonces(nonces)
      /\ sinceCleanup' = IF sinceCleanup < CleanupInterval THEN sinceCleanup + 1
                         ELSE sinceCleanup
      /\ UNCHANGED <<issuedNonces, accepted>>
  BY DEF GuardTick
<1>2. sinceCleanup \in 0 .. CleanupInterval
  BY DEF NInv, NonceTypes
<1>3. sinceCleanup' \in 0 .. CleanupInterval
  BY <1>1, <1>2
<1>4. \A n \in Nonces : /\ nonces'[n] \in Nonce
                        /\ nonces'[n].state = nonces[n].state
                        /\ nonces'[n].audience = nonces[n].audience
                        /\ nonces'[n].age <= NonceTTL + sinceCleanup'
  <2> TAKE n \in Nonces
  <2>1. nonces[n] \in Nonce
    BY DEF NInv, NonceTypes, NonceStore
  <2>2. nonces'[n] = IF nonces[n].state # "absent" /\ nonces[n].age < NonceTTL + CleanupInterval
                     THEN [nonces[n] EXCEPT !.age = @ + 1]
                     ELSE nonces[n]
    BY <1>1 DEF OlderNonces
  <2>3. nonces[n].age \in NonceAges /\ nonces[n].age \in Nat
    BY <2>1, NonceAgesNat DEF Nonce
  <2>4. nonces[n].age < NonceTTL + CleanupInterval => nonces[n].age + 1 \in NonceAges
    BY <2>3 DEF NonceAges
  <2>5. /\ nonces'[n] \in Nonce
        /\ nonces'[n].state = nonces[n].state
        /\ nonces'[n].audience = nonces[n].audience
        /\ nonces'[n].age \in {nonces[n].age, nonces[n].age + 1}
        /\ nonces'[n].age \in NonceAges
    BY <2>1, <2>2, <2>4 DEF Nonce
  <2>6. nonces[n].age <= NonceTTL + sinceCleanup
    BY DEF NInv, AgesBounded
  <2>7. nonces'[n].age \in Nat /\ nonces'[n].age <= NonceTTL + CleanupInterval
    BY <2>5, NonceAgesNat DEF NonceAges
  <2>8. CASE sinceCleanup < CleanupInterval
    <3>1. sinceCleanup' = sinceCleanup + 1
      BY <1>1, <2>8
    <3>2. nonces'[n].age <= nonces[n].age + 1
      BY <2>3, <2>5
    <3> QED BY <1>2, <2>3, <2>5, <2>6, <2>7, <3>1, <3>2
  <2>9. CASE ~(sinceCleanup < CleanupInterval)
    <3>1. sinceCleanup' = CleanupInterval
      BY <1>1, <1>2, <2>9
    <3> QED BY <2>5, <2>7, <3>1
  <2> QED BY <2>8, <2>9
<1>5. NonceTypes'
  BY <1>1, <1>3, <1>4 DEF NInv, NonceTypes, NonceStore, OlderNonces
<1>6. NotIssuedYet' /\ FreshIsUnused' /\ NonceUsedOnce' /\ AgesBounded'
  BY <1>1, <1>3, <1>4 DEF NInv, NotIssuedYet, FreshIsUnused, NonceUsedOnce, AgesBounded
<1>7. \A n \in Nonces : NonceKept(n)
  BY <1>4 DEF NonceKept
<1> QED BY <1>5, <1>6, <1>7 DEF NInv

LEMMA NonceStep ==
    ASSUME NInv, [GuardNext]_guardVars
    PROVE  /\ NInv'
           /\ \A n \in Nonces : NonceKept(n)
           /\ issuedNonces' # issuedNonces \/ accepted' # accepted => sinceCleanup' < CleanupInterval
<1> DEFINE Looked == issuedNonces' # issuedNonces \/ accepted' # accepted =>
                        sinceCleanup' < CleanupInterval
<1>1. ASSUME UNCHANGED nonceVars
      PROVE  NInv' /\ (\A n \in Nonces : NonceKept(n)) /\ Looked
  BY <1>1 DEF nonceVars, NInv, NonceTypes, NotIssuedYet, FreshIsUnused, NonceUsedOnce,
              AgesBounded, NonceKept
<1>2. CASE \E audience \in Audiences : IssueNonce(audience)
  BY <1>2, IssueStep
<1>3. CASE \E n \in Nonces, audience \in Audiences : GuardedRequest(n, audience)
  BY <1>3, RequestStep
<1>4. CASE \E w \in Waiters, t \in Tokens : Validate(w, t)
  BY <1>1, <1>4 DEF Validate
<1>5. CASE \E m \in waiting : GiveUp(m) \/ PayAtCommit(m)
  BY <1>1, <1>5 DEF GiveUp, PayAtCommit
<1>6. CASE GuardTick
  BY <1>6, NonceTick DEF GuardTick
<1>7. CASE UNCHANGED guardVars
  BY <1>1, <1>7 DEF guardVars, nonceVars
<1> QED BY <1>2, <1>3, <1>4, <1>5, <1>6, <1>7 DEF GuardNext

\* A nonce lets one request through, for its destination and in its time (GD-4).
THEOREM NoncesOnce == GuardSpec => []NonceUsedOnce
<1>1. NInv /\ [GuardNext]_guardVars => NInv'
  BY NonceStep
<1>2. NInv => NonceUsedOnce
  BY DEF NInv
<1> QED BY <1>1, <1>2, NonceInit, PTL DEF GuardSpec

\* Whatever limits the assumptions allow and whatever came before, none is NonceTTL +
\* CleanupInterval old when one is issued or lets a request through.
THEOREM NoncesBounded == GuardSpec => NoncesForgotten
<1>1. NInv /\ [GuardNext]_guardVars => NInv'
  BY NonceStep
<1>2. NInv /\ [GuardNext]_guardVars =>
        [issuedNonces' # issuedNonces \/ accepted' # accepted =>
            \A n \in Nonces : nonces'[n].age < NonceTTL + CleanupInterval]_guardVars
  <2> SUFFICES ASSUME NInv, [GuardNext]_guardVars, NEW n \in Nonces,
                      issuedNonces' # issuedNonces \/ accepted' # accepted
               PROVE  nonces'[n].age < NonceTTL + CleanupInterval
    OBVIOUS
  <2>1. NInv' /\ sinceCleanup' < CleanupInterval
    BY NonceStep
  <2>2. nonces'[n].age \in Nat /\ nonces'[n].age <= NonceTTL + sinceCleanup' /\ sinceCleanup' \in Nat
    <3>1. nonces'[n] \in Nonce /\ sinceCleanup' \in 0 .. CleanupInterval
      BY <2>1 DEF NInv, NonceTypes, NonceStore
    <3>2. nonces'[n].age \in Nat
      BY <3>1, NonceAgesNat DEF Nonce
    <3>3. nonces'[n].age <= NonceTTL + sinceCleanup'
      BY <2>1 DEF NInv, AgesBounded
    <3> QED BY <3>1, <3>2, <3>3
  <2> QED BY <2>1, <2>2, NonceAssumption
<1> QED BY <1>1, <1>2, NonceInit, PTL DEF GuardSpec, NoncesForgotten

\* Only the request it lets through takes a nonce away within its time.
THEOREM NoncesKept == GuardSpec => UnusedNonceKept
<1>1. NInv /\ [GuardNext]_guardVars => NInv'
  BY NonceStep
<1>2. NInv /\ [GuardNext]_guardVars =>
        [\A n \in Nonces : (nonces[n].state = "fresh" /\ nonces[n].age <= NonceTTL) =>
            nonces'[n].state = "fresh" \/ accepted'[n].count > accepted[n].count]_guardVars
  BY NonceStep DEF NonceKept
<1> QED BY <1>1, <1>2, NonceInit, PTL DEF GuardSpec, UnusedNonceKept

-----------------------------------------------------------------------------
(* Types of both stores, for any wait *)

LEMMA ClearanceTyped == ASSUME ClearanceTypes, [GuardNext]_guardVars PROVE ClearanceTypes'
<1> USE NonceAssumption, ClearanceAssumption, WaitAssumption
<1>1. ASSUME UNCHANGED clearanceVars PROVE ClearanceTypes'
  BY <1>1 DEF clearanceVars, ClearanceTypes
<1>2. \A m \in waiting : m \in Waiting
  BY DEF ClearanceTypes
<1>3. ASSUME NEW w \in Waiters, NEW t \in Tokens, Validate(w, t) PROVE ClearanceTypes'
  <2>1. [by |-> w, token |-> t, age |-> 0] \in Waiting
    BY DEF Waiting
  <2> QED BY <1>3, <2>1 DEF Validate, ClearanceTypes
<1>4. ASSUME NEW m \in waiting, GiveUp(m) PROVE ClearanceTypes'
  BY <1>4 DEF GiveUp, ClearanceTypes
<1>5. ASSUME NEW m \in waiting, PayAtCommit(m) PROVE ClearanceTypes'
  <2>1. m.token \in Tokens
    BY <1>2 DEF Waiting
  <2>2. spent' \in SpentTokens
    BY <1>5, <2>1, SpentType DEF PayAtCommit, ClearanceTypes
  <2>3. \A k \in 0 .. 2 : UpToTwo(k) \in 0 .. 2
    BY DEF UpToTwo
  <2>4. paid' \in [Tokens -> 0 .. 2]
    BY <1>5, <2>3 DEF PayAtCommit, ClearanceTypes
  <2>5. lead' = lead /\ waiting' = waiting \ {m}
    BY <1>5 DEF PayAtCommit
  <2> QED BY <2>2, <2>4, <2>5 DEF ClearanceTypes
<1>6. CASE GuardTick
  <2>1. \A m \in waiting : [m EXCEPT !.age = @ + 1] \in Waiting
    BY <1>2, <1>6 DEF GuardTick, Waiting
  <2>2. waiting' \in SUBSET Waiting /\ paid' = paid
    BY <1>6, <2>1 DEF GuardTick
  <2>3. spent' \in SpentTokens
    BY <1>6, SpentType DEF GuardTick, ClearanceTypes
  <2>4. \A l \in Leads : (IF l > -(ClearanceTTL + 1) THEN l - 1 ELSE l) \in Leads
    BY DEF Leads
  <2>5. lead' \in [Tokens -> Leads]
    BY <1>6, <2>4 DEF GuardTick, ClearanceTypes
  <2> QED BY <2>2, <2>3, <2>5 DEF ClearanceTypes
<1>7. CASE \E audience \in Audiences : IssueNonce(audience)
  BY <1>1, <1>7 DEF IssueNonce
<1>8. CASE \E n \in Nonces, audience \in Audiences : GuardedRequest(n, audience)
  BY <1>1, <1>8 DEF GuardedRequest
<1>9. CASE UNCHANGED guardVars
  BY <1>1, <1>9 DEF guardVars, clearanceVars
<1> QED BY <1>3, <1>4, <1>5, <1>6, <1>7, <1>8, <1>9 DEF GuardNext

\* Nonces, clearances and the requests that wait with them stay in their types, however
\* long a request waits between validating its clearance and committing.
THEOREM GuardTypeCorrect == GuardSpec => []GuardTypeOK
<1>1. GuardInit => NInv /\ ClearanceTypes
  BY NonceInit, ClearanceInit DEF CInv
<1>2. NInv /\ ClearanceTypes /\ [GuardNext]_guardVars => NInv' /\ ClearanceTypes'
  BY NonceStep, ClearanceTyped
<1>3. NInv /\ ClearanceTypes => GuardTypeOK
  BY DEF NInv, NonceTypes, ClearanceTypes, GuardTypeOK
<1> QED BY <1>1, <1>2, <1>3, PTL DEF GuardSpec

-----------------------------------------------------------------------------
(* Approvals: the inductive invariant                                      *)

\* What has not been issued is nowhere.
NotIssued ==
    \A i \in Ids : i > issued =>
        /\ challenges[i] = NoChallenge
        /\ calls[i].count = 0
        /\ \A n \in verifying : n.id # i

\* A challenge is approved by an approver, for its own request.
ApprovedGenuine ==
    \A i \in Ids : challenges[i].state = "approved" =>
        Genuine(challenges[i].signature, i, challenges[i].ask)

\* The verifications of a challenge that is still known: one at most, of its own request,
\* while it is marked.
OwnMark ==
    \A n \in verifying : Known(challenges, n.id) =>
        /\ challenges[n.id].state = "verifying"
        /\ challenges[n.id].ask = n.ask
        /\ \A m \in verifying : m.id = n.id => m = n

MarkHasVerifier ==
    \A i \in Ids : challenges[i].state = "verifying" => \E n \in verifying : n.id = i

IInv ==
    /\ TypeOK
    /\ NotIssued /\ SpentOnce /\ Witnessed
    /\ ApprovedGenuine /\ OwnMark /\ MarkHasVerifier

-----------------------------------------------------------------------------
(* The operators of the store.                                             *)

LEMMA NoChallengeTyped == NoChallenge \in Challenge /\ NoChallenges \in Pool
  BY ApprovalAssumption DEF NoChallenge, NoChallenges, Pool, Challenge, ChallengeStates, ChallengeAges

\* A challenge ages, and nothing else.
LEMMA OlderChallenges ==
  ASSUME NEW ch \in Pool
  PROVE  /\ OlderPool(ch) \in Pool
         /\ \A i \in Ids : /\ OlderPool(ch)[i].state = ch[i].state
                           /\ OlderPool(ch)[i].ask = ch[i].ask
                           /\ OlderPool(ch)[i].signature = ch[i].signature
                           /\ ~Known(ch, i) => OlderPool(ch)[i] = ch[i]
  BY ApprovalAssumption DEF OlderPool, Pool, Challenge, ChallengeAges, Known

\* Only what is too old is purged.
LEMMA Purged ==
  ASSUME NEW ch \in Pool
  PROVE  /\ Purge(ch) \in Pool
         /\ \A i \in Ids : Purge(ch)[i] = ch[i] \/ (TooOld(ch[i]) /\ Purge(ch)[i] = NoChallenge)
  BY NoChallengeTyped DEF Purge, Pool

\* A request gets an old challenge, none, or the next one.
LEMMA Issued ==
  ASSUME NEW ch \in Pool, NEW ask \in Asks, NEW n \in Nat, NEW r \in Issue(ch, ask, n)
  PROVE  \/ r.id \in Ids /\ r.pool = Purge(ch) /\ Known(r.pool, r.id)
         \/ r.id = 0 /\ r.pool = Purge(ch)
         \/ r.id = n /\ n \in Ids /\ r.pool = [Purge(ch) EXCEPT ![n] = NewChallenge(ask)]
  BY DEF Issue, Reusable, Known

LEMMA NewTyped ==
  ASSUME NEW ask \in Asks
  PROVE  /\ NewChallenge(ask) \in Challenge
         /\ NewChallenge(ask).state = "pending"
  BY ApprovalAssumption, NoChallengeTyped
     DEF NewChallenge, NoChallenge, Challenge, ChallengeStates, ChallengeAges

\* Presenting an approval marks its challenge, or deletes it because it is too old.
LEMMA PresentedOne ==
  ASSUME NEW ch \in Pool, NEW i \in Ids, NEW ask \in Asks, NEW sig \in Signatures
  PROVE  /\ Presented(ch, i, ask, sig) \in Pool
         /\ \A j \in Ids \ {i} : Presented(ch, i, ask, sig)[j] = ch[j]
         /\ Judge(ch[i], ask, sig) = "verify" =>
                /\ ch[i].state = "pending" /\ ch[i].ask = ask
                /\ Presented(ch, i, ask, sig)[i].state = "verifying"
                /\ Presented(ch, i, ask, sig)[i].ask = ask
         /\ Judge(ch[i], ask, sig) = "ok" =>
                /\ ch[i].state = "approved" /\ ch[i].ask = ask /\ ch[i].signature = sig
                /\ Presented(ch, i, ask, sig) = ch
         /\ Judge(ch[i], ask, sig) \in Errors =>
                \/ Presented(ch, i, ask, sig)[i] = ch[i]
                \/ TooOld(ch[i]) /\ Presented(ch, i, ask, sig)[i] = NoChallenge
  <1> DEFINE c == ch[i]
  <1>1. c \in Challenge
    BY DEF Pool
  <1> DEFINE d == [c EXCEPT !.state = "verifying"]
  <1>2. d \in Challenge /\ d.state = "verifying" /\ d.ask = c.ask
    BY <1>1 DEF Challenge, ChallengeStates
  <1>3. Judge(c, ask, sig) = "verify" => c.state = "pending" /\ c.ask = ask
    BY <1>1 DEF Judge, Challenge, ChallengeStates
  <1>4. Judge(c, ask, sig) = "ok" => c.state = "approved" /\ c.ask = ask /\ c.signature = sig
    BY <1>1 DEF Judge
  <1>5. Judge(c, ask, sig) = "expired" => TooOld(c)
    BY DEF Judge
  <1>6. Presented(ch, i, ask, sig) =
           IF Judge(c, ask, sig) = "expired" THEN [ch EXCEPT ![i] = NoChallenge]
           ELSE IF Judge(c, ask, sig) = "verify" THEN [ch EXCEPT ![i] = d]
           ELSE ch
    BY DEF Presented, Pool
  <1> HIDE DEF c, d
  <1>7. QED
    BY <1>1, <1>2, <1>3, <1>4, <1>5, <1>6, NoChallengeTyped DEF Pool, Errors, c

\* After its verification a challenge that is still known is approved, as signed.
LEMMA ApprovedOne ==
  ASSUME NEW ch \in Pool, NEW i \in Ids, NEW sig \in Signatures
  PROVE  /\ Approve(ch, i, sig) \in Pool
         /\ \A j \in Ids \ {i} : Approve(ch, i, sig)[j] = ch[j]
         /\ ~Known(ch, i) => Approve(ch, i, sig) = ch
         /\ Known(ch, i) =>
                /\ Approve(ch, i, sig)[i].state = "approved"
                /\ Approve(ch, i, sig)[i].ask = ch[i].ask
                /\ Approve(ch, i, sig)[i].signature = sig
  <1> DEFINE d == [ch[i] EXCEPT !.state = "approved", !.signature = sig]
  <1>1. d \in Challenge /\ d.state = "approved" /\ d.ask = ch[i].ask /\ d.signature = sig
    BY DEF Pool, Challenge, ChallengeStates
  <1>2. Approve(ch, i, sig) = IF Known(ch, i) THEN [ch EXCEPT ![i] = d] ELSE ch
    BY DEF Approve, Pool
  <1> HIDE DEF d
  <1>3. QED
    BY <1>1, <1>2 DEF Pool, d

\* A failure takes the mark off, or removes the challenge if it was its last.
LEMMA FailedOne ==
  ASSUME NEW ch \in Pool, NEW i \in Ids
  PROVE  /\ Fail(ch, i) \in Pool
         /\ \A j \in Ids \ {i} : Fail(ch, i)[j] = ch[j]
         /\ Fail(ch, i)[i].state \in {"absent", "pending"}
         /\ Fail(ch, i)[i] = NoChallenge \/ Fail(ch, i)[i].ask = ch[i].ask
         /\ Known(ch, i) /\ ~Known(Fail(ch, i), i) => ch[i].failures = MaxFailures - 1
         /\ ~Known(ch, i) => Fail(ch, i) = ch
  <1> DEFINE d == [ch[i] EXCEPT !.state = "pending", !.failures = @ + 1]
  <1>1. ch[i] \in Challenge
    BY DEF Pool
  <1>2. Fail(ch, i) = IF ~Known(ch, i) THEN ch
                      ELSE IF ch[i].failures + 1 >= MaxFailures THEN [ch EXCEPT ![i] = NoChallenge]
                      ELSE [ch EXCEPT ![i] = d]
    BY DEF Fail, Pool
  <1>3. ~(ch[i].failures + 1 >= MaxFailures) => d \in Challenge
    <2>1. ~(ch[i].failures + 1 >= MaxFailures) => ch[i].failures + 1 \in 0 .. MaxFailures - 1
      BY <1>1, ApprovalAssumption DEF Challenge
    <2>2. QED
      BY <1>1, <2>1 DEF Challenge, ChallengeStates
  <1>4. d.state = "pending" /\ d.ask = ch[i].ask
    BY <1>1 DEF Challenge
  <1>5. ch[i].failures + 1 >= MaxFailures => ch[i].failures = MaxFailures - 1
    BY <1>1, ApprovalAssumption DEF Challenge
  <1> HIDE DEF d
  <1>6. QED
    BY <1>1, <1>2, <1>3, <1>4, <1>5, NoChallengeTyped DEF Pool, Known, NoChallenge

\* Spending changes an approved challenge only.
LEMMA SpentOne ==
  ASSUME NEW ch \in Pool, NEW i \in Ids, CanSpend(ch, i)
  PROVE  /\ Spend(ch, i) \in Pool
         /\ \A j \in Ids \ {i} : Spend(ch, i)[j] = ch[j]
         /\ Spend(ch, i)[i].state = "used"
  <1> DEFINE d == [ch[i] EXCEPT !.state = "used"]
  <1>1. d \in Challenge /\ d.state = "used"
    BY DEF Pool, Challenge, ChallengeStates
  <1>2. Spend(ch, i) = [ch EXCEPT ![i] = d]
    BY DEF Spend, Pool
  <1> HIDE DEF d
  <1>3. QED
    BY <1>1, <1>2 DEF Pool, d

-----------------------------------------------------------------------------
(* Every step keeps the invariant.                                         *)

LEMMA Begins == Init => IInv
  <1> SUFFICES ASSUME Init PROVE IInv
    OBVIOUS
  <1>1. \A i \in Ids : challenges[i] = NoChallenge /\ calls[i].count = 0
    BY DEF Init, NoChallenges
  <1>2. [count |-> 0, of |-> Nobody] \in [count: 0 .. 2, of: Call \cup {Nobody}]
    OBVIOUS
  <1>3. TypeOK
    BY <1>2, NoChallengeTyped, ApprovalAssumption DEF Init, TypeOK
  <1>4. verifying = {}
    BY DEF Init
  <1>5. QED
    BY <1>1, <1>3, <1>4
       DEF IInv, NotIssued, SpentOnce, Witnessed, ApprovedGenuine, OwnMark, MarkHasVerifier, NoChallenge

\* A step that leaves every challenge as it is or removes it keeps the invariant.
LEMMA Shrunk ==
  ASSUME IInv, challenges' \in Pool, UNCHANGED <<issued, verifying, calls>>,
         \A i \in Ids : challenges'[i] = challenges[i] \/ challenges'[i] = NoChallenge
  PROVE  IInv'
  <1>1. TypeOK'
    BY DEF IInv, TypeOK
  <1>2. NotIssued' /\ SpentOnce' /\ Witnessed'
    BY DEF IInv, NotIssued, SpentOnce, Witnessed, NoChallenge
  <1>3. ApprovedGenuine' /\ MarkHasVerifier'
    BY DEF IInv, ApprovedGenuine, MarkHasVerifier, NoChallenge
  <1>4. \A n \in verifying : n.id \in Ids
    BY DEF IInv, TypeOK, Verification
  <1>5. OwnMark'
    BY <1>4 DEF IInv, OwnMark, Known, NoChallenge
  <1>6. QED
    BY <1>1, <1>2, <1>3, <1>5 DEF IInv

LEMMA Asked ==
  ASSUME IInv, NEW ask \in Asks, AskFor(ask)
  PROVE  IInv'
  <1>1. PICK r \in Issue(challenges, ask, issued + 1) :
            /\ challenges' = r.pool
            /\ issued' = IF r.id > issued THEN r.id ELSE issued
    BY DEF AskFor
  <1>2. challenges \in Pool /\ issued \in 0 .. MaxIssued /\ MaxIssued \in Nat
    BY ApprovalAssumption DEF IInv, TypeOK
  <1>3. issued \in Nat /\ issued + 1 \in Nat
    BY <1>2
  <1>4. UNCHANGED <<verifying, calls>>
    BY DEF AskFor
  <1>5. /\ Purge(challenges) \in Pool
        /\ \A i \in Ids : \/ Purge(challenges)[i] = challenges[i]
                          \/ Purge(challenges)[i] = NoChallenge
    BY <1>2, Purged
  <1>6. ASSUME r.pool = Purge(challenges), r.id = 0 \/ (r.id \in Ids /\ Known(r.pool, r.id))
        PROVE  IInv'
    <2>1. r.id = 0 \/ r.id <= issued
      BY <1>3, <1>5, <1>6 DEF IInv, NotIssued, Known, NoChallenge, Ids
    <2>2. issued' = issued
      BY <1>1, <1>3, <1>6, <2>1 DEF Ids
    <2>3. QED
      BY <1>1, <1>4, <1>5, <1>6, <2>2, Shrunk
  <1>7. ASSUME r.id = issued + 1, issued + 1 \in Ids,
               r.pool = [Purge(challenges) EXCEPT ![issued + 1] = NewChallenge(ask)]
        PROVE  IInv'
    <2> DEFINE k == issued + 1
    <2>1. issued' = k /\ k \in Ids /\ k > issued /\ k \in 0 .. MaxIssued
      BY <1>1, <1>2, <1>3, <1>7 DEF Ids
    <2>2. /\ challenges' \in Pool
          /\ challenges'[k] = NewChallenge(ask)
          /\ \A i \in Ids \ {k} : challenges'[i] = challenges[i] \/ challenges'[i] = NoChallenge
      BY <1>1, <1>5, <1>7, NewTyped DEF Pool
    <2>3. NewChallenge(ask).state = "pending"
      BY NewTyped
    <2>4. /\ calls[k].count = 0
          /\ \A n \in verifying : n.id # k /\ n.id \in Ids
      BY <2>1 DEF IInv, NotIssued, TypeOK, Verification
    <2>5. \A i \in Ids : i > k => i # k /\ i > issued
      BY <1>3, <2>1 DEF Ids
    <2> HIDE DEF k
    <2>6. TypeOK'
      BY <1>4, <2>1, <2>2 DEF IInv, TypeOK
    <2>7. NotIssued'
      BY <1>4, <2>1, <2>2, <2>5 DEF IInv, NotIssued
    <2>8. SpentOnce' /\ Witnessed'
      BY <1>4, <2>2, <2>4 DEF IInv, SpentOnce, Witnessed, NoChallenge
    <2>9. ApprovedGenuine' /\ MarkHasVerifier'
      BY <1>4, <2>2, <2>3 DEF IInv, ApprovedGenuine, MarkHasVerifier, NoChallenge
    <2>10. OwnMark'
      BY <1>4, <2>2, <2>4 DEF IInv, OwnMark, Known, NoChallenge
    <2>11. QED
      BY <2>6, <2>7, <2>8, <2>9, <2>10 DEF IInv
  <1>8. QED
    BY <1>1, <1>2, <1>3, <1>6, <1>7, Issued

\* A commit either changes nothing more, or spends the approval on its first call.
LEMMA Committed ==
  ASSUME NEW pool \in Pool, NEW i \in Ids, NEW ask \in Asks, NEW sig \in Signatures,
         TypeOK, Commit(pool, i, ask, sig),
         pool[i].state = "approved" => calls[i].count = 0
  PROVE  /\ challenges' \in Pool
         /\ calls' \in [Ids -> [count: 0 .. 2, of: Call \cup {Nobody}]]
         /\ \/ challenges' = pool /\ calls' = calls
            \/ /\ pool[i].state = "approved"
               /\ challenges'[i].state = "used"
               /\ \A j \in Ids \ {i} : challenges'[j] = pool[j] /\ calls'[j] = calls[j]
               /\ calls'[i] = [count |-> 1, of |-> [ask |-> ask, signature |-> sig]]
  <1>1. calls \in [Ids -> [count: 0 .. 2, of: Call \cup {Nobody}]]
    BY DEF TypeOK
  <1>2. CASE challenges' = pool /\ UNCHANGED calls
    BY <1>1, <1>2
  <1>3. CASE /\ CanSpend(pool, i)
             /\ challenges' = Spend(pool, i)
             /\ calls' = [calls EXCEPT ![i] =
                   [count |-> IF @.count < 2 THEN @.count + 1 ELSE 2,
                    of |-> [ask |-> ask, signature |-> sig]]]
    <2> DEFINE new == [count |-> 1, of |-> [ask |-> ask, signature |-> sig]]
    <2>1. pool[i].state = "approved" /\ calls[i].count = 0
      BY <1>3 DEF CanSpend
    <2>2. calls' = [calls EXCEPT ![i] = new]
      BY <1>3, <2>1
    <2>3. new \in [count: 0 .. 2, of: Call \cup {Nobody}]
      BY DEF Call
    <2>4. /\ challenges' \in Pool
          /\ challenges'[i].state = "used"
          /\ \A j \in Ids \ {i} : challenges'[j] = pool[j]
      BY <1>3, SpentOne
    <2> HIDE DEF new
    <2>5. /\ calls' \in [Ids -> [count: 0 .. 2, of: Call \cup {Nobody}]]
          /\ calls'[i] = new
          /\ \A j \in Ids \ {i} : calls'[j] = calls[j]
      BY <1>1, <2>2, <2>3
    <2>6. QED
      BY <2>1, <2>4, <2>5 DEF new
  <1>4. QED
    BY <1>2, <1>3 DEF Commit

LEMMA Brought ==
  ASSUME IInv, NEW v \in Verifiers, NEW i \in Ids, NEW ask \in Asks, NEW sig \in Signatures,
         Present(v, i, ask, sig)
  PROVE  IInv'
  <1> DEFINE judged == Judge(challenges[i], ask, sig)
             pool   == Presented(challenges, i, ask, sig)
  <1>1. challenges \in Pool
    BY DEF IInv, TypeOK
  <1>2. issued' = issued
    BY DEF Present
  <1>3. pool \in Pool /\ \A j \in Ids \ {i} : pool[j] = challenges[j]
    BY <1>1, PresentedOne
  <1>4. CASE judged = "ok" /\ Commit(pool, i, ask, sig) /\ UNCHANGED verifying
    <2>1. /\ pool = challenges
          /\ challenges[i].state = "approved"
          /\ challenges[i].ask = ask /\ challenges[i].signature = sig
      BY <1>1, <1>4, PresentedOne
    <2>2. calls[i].count = 0 /\ Genuine(sig, i, ask)
      <3>1. calls[i].count \in 0 .. 2
        BY DEF IInv, TypeOK
      <3>2. calls[i].count <= 1 /\ calls[i].count # 1
        BY <2>1 DEF IInv, SpentOnce
      <3>3. QED
        BY <2>1, <3>1, <3>2 DEF IInv, ApprovedGenuine
    <2>3. i <= issued
      <3>1. challenges[i] # NoChallenge
        BY <2>1 DEF NoChallenge
      <3>2. i \in Nat /\ issued \in Nat
        BY ApprovalAssumption DEF IInv, TypeOK, Ids
      <3>3. QED
        BY <3>1, <3>2 DEF IInv, NotIssued
    <2>4. /\ challenges' \in Pool
          /\ calls' \in [Ids -> [count: 0 .. 2, of: Call \cup {Nobody}]]
          /\ \/ challenges' = challenges /\ calls' = calls
             \/ /\ challenges'[i].state = "used"
                /\ \A j \in Ids \ {i} : challenges'[j] = challenges[j] /\ calls'[j] = calls[j]
                /\ calls'[i] = [count |-> 1, of |-> [ask |-> ask, signature |-> sig]]
      BY <1>1, <1>4, <2>1, <2>2, Committed DEF IInv
    <2>5. CASE challenges' = challenges /\ calls' = calls
      BY <1>1, <1>2, <1>4, <2>5, Shrunk
    <2>6. CASE /\ challenges'[i].state = "used"
               /\ \A j \in Ids \ {i} : challenges'[j] = challenges[j] /\ calls'[j] = calls[j]
               /\ calls'[i] = [count |-> 1, of |-> [ask |-> ask, signature |-> sig]]
      <3>1. TypeOK'
        BY <1>2, <1>4, <2>4 DEF IInv, TypeOK
      <3>2. NotIssued'
        <4>1. \A j \in Ids : j > issued => j # i
          BY <2>3, ApprovalAssumption DEF IInv, TypeOK, Ids
        <4>2. QED
          BY <1>2, <1>4, <2>6, <4>1 DEF IInv, NotIssued
      <3>3. SpentOnce'
        BY <2>6 DEF IInv, SpentOnce
      <3>4. Witnessed'
        BY <2>2, <2>6 DEF IInv, Witnessed
      <3>5. ApprovedGenuine'
        BY <2>6 DEF IInv, ApprovedGenuine
      <3>6. \A n \in verifying : n.id # i
        BY <2>1 DEF IInv, OwnMark, Known
      <3>7. OwnMark' /\ MarkHasVerifier'
        <4>1. \A n \in verifying : n.id \in Ids
          BY DEF IInv, TypeOK, Verification
        <4>2. QED
          BY <1>4, <2>6, <3>6, <4>1 DEF IInv, OwnMark, MarkHasVerifier, Known
      <3>8. QED
        BY <3>1, <3>2, <3>3, <3>4, <3>5, <3>7 DEF IInv
    <2>7. QED
      BY <2>4, <2>5, <2>6
  <1>5. CASE /\ judged = "verify"
             /\ challenges' = pool
             /\ verifying' = verifying \cup
                   {[by |-> v, id |-> i, ask |-> ask, signature |-> sig, age |-> 0]}
             /\ UNCHANGED calls
    <2> DEFINE r == [by |-> v, id |-> i, ask |-> ask, signature |-> sig, age |-> 0]
    <2>1. /\ challenges[i].state = "pending" /\ challenges[i].ask = ask
          /\ pool[i].state = "verifying" /\ pool[i].ask = ask
      BY <1>1, <1>5, PresentedOne
    <2>2. pool[i] # NoChallenge
      BY <2>1 DEF NoChallenge
    <2>3. challenges[i] # NoChallenge
      BY <2>1 DEF NoChallenge
    <2>4. \A j \in Ids : j > issued => j # i
      BY <2>3, ApprovalAssumption DEF IInv, TypeOK, Ids, NotIssued
    <2>5. r \in Verification /\ r.id = i /\ r.ask = ask
      BY VerifyAssumption DEF Verification
    <2>6. \A n \in verifying : n.id # i /\ n.id \in Ids
      BY <2>1 DEF IInv, OwnMark, Known, TypeOK, Verification
    <2>7. verifying' = verifying \cup {r} /\ challenges' = pool /\ calls' = calls
      BY <1>5
    <2> HIDE DEF r, pool
    <2>8. TypeOK'
      BY <1>2, <1>3, <2>5, <2>7 DEF IInv, TypeOK
    <2>9. NotIssued'
      BY <1>2, <1>3, <2>4, <2>5, <2>7 DEF IInv, NotIssued
    <2>10. SpentOnce' /\ Witnessed'
      BY <1>3, <2>1, <2>7 DEF IInv, SpentOnce, Witnessed
    <2>11. ApprovedGenuine'
      BY <1>3, <2>1, <2>7 DEF IInv, ApprovedGenuine
    <2>12. OwnMark'
      BY <1>3, <2>1, <2>5, <2>6, <2>7 DEF IInv, OwnMark, Known
    <2>13. MarkHasVerifier'
      BY <1>3, <2>5, <2>7 DEF IInv, MarkHasVerifier
    <2>14. QED
      BY <2>8, <2>9, <2>10, <2>11, <2>12, <2>13 DEF IInv
  <1>6. CASE judged \in Errors /\ challenges' = pool /\ UNCHANGED <<verifying, calls>>
    <2>1. pool[i] = challenges[i] \/ pool[i] = NoChallenge
      BY <1>1, <1>6, PresentedOne
    <2>2. QED
      BY <1>2, <1>3, <1>6, <2>1, Shrunk
  <1>7. QED
    BY <1>4, <1>5, <1>6 DEF Present

LEMMA Accepted ==
  ASSUME IInv, NEW n \in verifying, Verified(n)
  PROVE  IInv'
  <1> DEFINE i    == n.id
             pool == Approve(challenges, i, n.signature)
  <1>1. challenges \in Pool /\ i \in Ids /\ n.ask \in Asks /\ n.signature \in Signatures
    BY DEF IInv, TypeOK, Verification
  <1>2. /\ Genuine(n.signature, i, n.ask)
        /\ Commit(pool, i, n.ask, n.signature)
        /\ verifying' = verifying \ {n} /\ issued' = issued
    BY DEF Verified
  <1>3. /\ pool \in Pool /\ \A j \in Ids \ {i} : pool[j] = challenges[j]
        /\ ~Known(challenges, i) => pool = challenges
        /\ Known(challenges, i) => /\ pool[i].state = "approved" /\ pool[i].ask = challenges[i].ask
                                   /\ pool[i].signature = n.signature
    BY <1>1, ApprovedOne
  <1>4. /\ Known(challenges, i) => challenges[i].state = "verifying" /\ challenges[i].ask = n.ask
        /\ \A m \in verifying : m.id = i /\ m # n => ~Known(challenges, i)
    BY DEF IInv, OwnMark
  <1>5. Known(challenges, i) => /\ pool[i].state = "approved" /\ pool[i].ask = n.ask
                                /\ pool[i].signature = n.signature
    BY <1>3, <1>4
  <1>6. calls[i].count = 0 \/ ~Known(challenges, i)
    <2>1. calls[i].count \in 0 .. 2
      BY <1>1 DEF IInv, TypeOK
    <2>2. calls[i].count <= 1 /\ (calls[i].count = 1 => challenges[i].state \in {"used", "absent"})
      BY <1>1 DEF IInv, SpentOnce
    <2>3. QED
      BY <1>4, <2>1, <2>2 DEF Known
  <1>7. i <= issued
    BY <1>1, ApprovalAssumption DEF IInv, NotIssued, TypeOK, Ids
  <1>8. \A j \in Ids : j > issued => j # i
    BY <1>1, <1>7, ApprovalAssumption DEF IInv, TypeOK, Ids
  <1>9. ~Known(challenges, i) => pool[i].state # "approved"
    BY <1>3 DEF Known
  <1>10. TypeOK
    BY DEF IInv
  <1>11. \A m \in verifying : m.id \in Ids
    BY DEF IInv, TypeOK, Verification
  <1> HIDE DEF i, pool
  <1>12. /\ challenges' \in Pool
         /\ calls' \in [Ids -> [count: 0 .. 2, of: Call \cup {Nobody}]]
         /\ \/ challenges' = pool /\ calls' = calls
            \/ /\ pool[i].state = "approved"
               /\ challenges'[i].state = "used"
               /\ \A j \in Ids \ {i} : challenges'[j] = pool[j] /\ calls'[j] = calls[j]
               /\ calls'[i] = [count |-> 1, of |-> [ask |-> n.ask, signature |-> n.signature]]
    BY <1>1, <1>2, <1>3, <1>6, <1>9, <1>10, Committed
  <1>13. /\ \A j \in Ids \ {i} : challenges'[j] = challenges[j] /\ calls'[j] = calls[j]
         /\ Known(challenges, i) => challenges'[i].state \in {"approved", "used"}
         /\ ~Known(challenges, i) => challenges'[i] = challenges[i] /\ calls'[i] = calls[i]
         /\ challenges'[i].state = "approved" =>
               challenges'[i].ask = n.ask /\ challenges'[i].signature = n.signature
         /\ \/ calls'[i] = calls[i]
            \/ /\ challenges'[i].state = "used"
               /\ calls'[i] = [count |-> 1, of |-> [ask |-> n.ask, signature |-> n.signature]]
    BY <1>3, <1>5, <1>9, <1>12 DEF Known
  <1>14. TypeOK'
    BY <1>2, <1>12 DEF IInv, TypeOK
  <1>15. NotIssued'
    BY <1>2, <1>8, <1>13 DEF IInv, NotIssued
  <1>16. SpentOnce'
    BY <1>1, <1>6, <1>13 DEF IInv, SpentOnce
  <1>17. Witnessed'
    BY <1>1, <1>2, <1>13 DEF IInv, Witnessed
  <1>18. ApprovedGenuine'
    BY <1>1, <1>2, <1>13 DEF IInv, ApprovedGenuine
  <1>19. OwnMark'
    BY <1>2, <1>4, <1>11, <1>13 DEF IInv, OwnMark, Known
  <1>20. MarkHasVerifier'
    <2>1. \A j \in Ids : challenges'[j].state = "verifying" => j # i /\ challenges[j].state = "verifying"
      BY <1>4, <1>13 DEF Known
    <2>2. n.id = i
      BY DEF i
    <2>3. QED
      BY <1>2, <2>1, <2>2 DEF IInv, MarkHasVerifier
  <1>21. QED
    BY <1>14, <1>15, <1>16, <1>17, <1>18, <1>19, <1>20 DEF IInv

LEMMA Rejected ==
  ASSUME IInv, NEW n \in verifying, Unverified(n)
  PROVE  IInv'
  <1> DEFINE i    == n.id
             pool == Fail(challenges, i)
  <1>1. challenges \in Pool /\ i \in Ids
    BY DEF IInv, TypeOK, Verification
  <1>2. /\ challenges' = pool /\ verifying' = verifying \ {n}
        /\ issued' = issued /\ calls' = calls
    BY DEF Unverified
  <1>3. /\ pool \in Pool /\ \A j \in Ids \ {i} : pool[j] = challenges[j]
        /\ pool[i].state \in {"absent", "pending"}
        /\ ~Known(challenges, i) => pool = challenges
    BY <1>1, FailedOne
  <1>4. /\ Known(challenges, i) => challenges[i].state = "verifying"
        /\ \A m \in verifying : m.id = i /\ m # n => ~Known(challenges, i)
    BY DEF IInv, OwnMark
  <1>5. \A m \in verifying : m.id \in Ids
    BY DEF IInv, TypeOK, Verification
  <1>6. \A j \in Ids : j > issued => j # i
    BY DEF IInv, NotIssued
  <1>7. calls[i].count # 1 \/ ~Known(challenges, i)
    BY <1>1, <1>4 DEF IInv, SpentOnce, Known
  <1>8. n.id = i
    OBVIOUS
  <1> HIDE DEF i, pool
  <1>9. TypeOK'
    BY <1>2, <1>3 DEF IInv, TypeOK
  <1>10. NotIssued'
    BY <1>2, <1>3, <1>6 DEF IInv, NotIssued
  <1>11. SpentOnce' /\ Witnessed'
    BY <1>2, <1>3, <1>7 DEF IInv, SpentOnce, Witnessed
  <1>12. ApprovedGenuine'
    BY <1>2, <1>3 DEF IInv, ApprovedGenuine
  <1>13. OwnMark'
    BY <1>2, <1>3, <1>4, <1>5 DEF IInv, OwnMark, Known
  <1>14. MarkHasVerifier'
    BY <1>2, <1>3, <1>8 DEF IInv, MarkHasVerifier
  <1>15. QED
    BY <1>9, <1>10, <1>11, <1>12, <1>13, <1>14 DEF IInv

LEMMA Aged ==
  ASSUME IInv, Tick
  PROVE  IInv'
  <1> DEFINE older(n) == [n EXCEPT !.age = @ + 1]
  <1>1. challenges \in Pool /\ verifying \in SUBSET Verification
    BY DEF IInv, TypeOK
  <1>2. /\ challenges' = OlderPool(challenges)
        /\ verifying' = {older(n) : n \in verifying}
        /\ issued' = issued /\ calls' = calls
    BY DEF Tick
  <1>3. /\ challenges' \in Pool
        /\ \A i \in Ids : /\ challenges'[i].state = challenges[i].state
                          /\ challenges'[i].ask = challenges[i].ask
                          /\ challenges'[i].signature = challenges[i].signature
                          /\ ~Known(challenges, i) => challenges'[i] = challenges[i]
    BY <1>1, <1>2, OlderChallenges
  <1>4. \A n \in verifying : older(n).id = n.id /\ older(n).ask = n.ask
    BY <1>1 DEF Verification
  <1>5. ASSUME NEW n \in verifying
        PROVE  older(n) \in Verification
    <2>1. n \in Verification /\ n.age + 1 \in 0 .. VerifyLimit
      BY <1>1, <1>5, VerifyAssumption DEF Tick, Verification
    <2>2. QED
      BY <2>1 DEF Verification
  <1>6. \A n \in verifying : n.id \in Ids
    BY <1>1 DEF Verification
  <1> HIDE DEF older
  <1>7. TypeOK'
    BY <1>2, <1>3, <1>5 DEF IInv, TypeOK
  <1>8. NotIssued'
    <2>1. \A i \in Ids : i > issued => ~Known(challenges, i)
      BY DEF IInv, NotIssued, Known, NoChallenge
    <2>2. QED
      BY <1>2, <1>3, <1>4, <2>1 DEF IInv, NotIssued
  <1>9. SpentOnce' /\ Witnessed'
    BY <1>2, <1>3 DEF IInv, SpentOnce, Witnessed
  <1>10. ApprovedGenuine'
    BY <1>3 DEF IInv, ApprovedGenuine
  <1>11. OwnMark'
    BY <1>2, <1>3, <1>4, <1>6 DEF IInv, OwnMark, Known
  <1>12. MarkHasVerifier'
    BY <1>2, <1>3, <1>4 DEF IInv, MarkHasVerifier
  <1>13. QED
    BY <1>7, <1>8, <1>9, <1>10, <1>11, <1>12 DEF IInv

LEMMA Stepped == IInv /\ [Next]_vars => IInv'
  <1> SUFFICES ASSUME IInv, [Next]_vars PROVE IInv'
    OBVIOUS
  <1>1. ASSUME NEW ask \in Asks, AskFor(ask) PROVE IInv'
    BY <1>1, Asked
  <1>2. ASSUME NEW v \in Verifiers, NEW i \in Ids, NEW ask \in Asks, NEW sig \in Signatures,
               Present(v, i, ask, sig)
        PROVE  IInv'
    BY <1>2, Brought
  <1>3. ASSUME NEW n \in verifying, Verified(n) PROVE IInv'
    BY <1>3, Accepted
  <1>4. ASSUME NEW n \in verifying, Unverified(n) PROVE IInv'
    BY <1>4, Rejected
  <1>5. ASSUME Tick PROVE IInv'
    BY <1>5, Aged
  <1>6. ASSUME UNCHANGED vars PROVE IInv'
    BY <1>6 DEF vars, IInv, TypeOK, NotIssued, SpentOnce, Witnessed, ApprovedGenuine, OwnMark,
                MarkHasVerifier, Known
  <1>7. QED
    BY <1>1, <1>2, <1>3, <1>4, <1>5, <1>6 DEF Next

LEMMA Invariant == Spec => []IInv
  BY Begins, Stepped, PTL DEF Spec

-----------------------------------------------------------------------------
(* The theorems.                                                           *)

\* The variables keep their types: no verification runs longer than its limit.
THEOREM TypeCorrect == Spec => []TypeOK
  <1>1. IInv => TypeOK
    BY DEF IInv
  <1>2. QED
    BY <1>1, Invariant, PTL

\* An approval runs at most one call, whatever comes between the check of its signature
\* and its commit (ApprovalStore.spend, called by handle_service_invoke).
THEOREM OneCallEach == Spec => []SpentOnce
  <1>1. IInv => SpentOnce
    BY DEF IInv
  <1>2. QED
    BY <1>1, Invariant, PTL

\* A call runs only with an approver's signature over its challenge and its request.
THEOREM CallsWitnessed == Spec => []Witnessed
  <1>1. IInv => Witnessed
    BY DEF IInv
  <1>2. QED
    BY <1>1, Invariant, PTL

\* A challenge is marked "verifying" exactly while one request verifies it.
THEOREM MarkIsOneVerification == Spec => []MarkedWhileVerified
  <1>1. ASSUME IInv, NEW i \in Ids, Known(challenges, i)
        PROVE  Cardinality({n \in verifying : n.id = i})
                   = IF challenges[i].state = "verifying" THEN 1 ELSE 0
    <2> DEFINE S == {n \in verifying : n.id = i}
    <2>1. CASE challenges[i].state = "verifying"
      <3>1. PICK n \in verifying : n.id = i
        BY <1>1, <2>1 DEF IInv, MarkHasVerifier
      <3>2. S = {n}
        BY <1>1, <3>1 DEF IInv, OwnMark
      <3>3. QED
        BY <2>1, <3>2, FS_Singleton
    <2>2. CASE challenges[i].state # "verifying"
      <3>1. S = {}
        BY <1>1, <2>2 DEF IInv, OwnMark
      <3>2. QED
        BY <2>2, <3>1, FS_EmptySet
    <2>3. QED
      BY <2>1, <2>2
  <1>2. IInv => MarkedWhileVerified
    BY <1>1 DEF MarkedWhileVerified
  <1>3. QED
    BY <1>2, Invariant, PTL

\* A challenge that is not too old is removed by its own last failure only (AP-6): not to
\* make room, and not by another request.
THEOREM LiveKept == Spec => LiveChallengesKept
  <1> DEFINE Lost(i) == Known(challenges, i) /\ ~TooOld(challenges[i]) /\ ~Known(challenges', i)
             Burnt(i) == /\ challenges[i].failures = MaxFailures - 1
                         /\ \E n \in verifying \ verifying' : n.id = i
  <1>1. ASSUME IInv, [Next]_vars, NEW i \in Ids, Lost(i)
        PROVE  Burnt(i)
    <2>1. challenges \in Pool
      BY <1>1 DEF IInv, TypeOK
    <2>2. ASSUME NEW ask \in Asks, AskFor(ask) PROVE FALSE
      <3>1. PICK r \in Issue(challenges, ask, issued + 1) : challenges' = r.pool
        BY <2>2 DEF AskFor
      <3>2. issued + 1 \in Nat
        BY <1>1, ApprovalAssumption DEF IInv, TypeOK
      <3>3. Purge(challenges)[i] = challenges[i] /\ Purge(challenges) \in Pool
        BY <1>1, <2>1, Purged
      <3>4. Known(Purge(challenges), i)
        BY <1>1, <3>3 DEF Known
      <3>5. NewChallenge(ask).state # "absent"
        BY NewTyped
      <3>6. \/ challenges' = Purge(challenges)
            \/ /\ issued + 1 \in Ids
               /\ challenges' = [Purge(challenges) EXCEPT ![issued + 1] = NewChallenge(ask)]
        BY <2>1, <3>1, <3>2, Issued
      <3>7. QED
        BY <1>1, <3>3, <3>4, <3>5, <3>6 DEF Known, Pool
    <2>3. ASSUME NEW v \in Verifiers, NEW j \in Ids, NEW ask \in Asks, NEW sig \in Signatures,
                 Present(v, j, ask, sig)
          PROVE  FALSE
      <3> DEFINE pool == Presented(challenges, j, ask, sig)
      <3>1. Judge(challenges[j], ask, sig) \in {"ok", "verify"} \cup Errors
        BY DEF Judge, Errors
      <3>2. pool[i].state # "absent" /\ pool \in Pool
        BY <1>1, <2>1, <3>1, PresentedOne DEF Known
      <3> HIDE DEF pool
      <3>3. CASE challenges' = pool
        BY <1>1, <3>2, <3>3 DEF Known
      <3>4. CASE Commit(pool, j, ask, sig)
        <4>1. CASE CanSpend(pool, j) /\ challenges' = Spend(pool, j)
          BY <1>1, <3>2, <4>1, SpentOne DEF Known
        <4>2. QED
          BY <3>3, <3>4, <4>1 DEF Commit
      <3>5. challenges' = pool \/ Commit(pool, j, ask, sig)
        BY <2>3 DEF Present, pool
      <3>6. QED
        BY <3>3, <3>4, <3>5
    <2>4. ASSUME NEW n \in verifying, Verified(n) PROVE FALSE
      <3> DEFINE pool == Approve(challenges, n.id, n.signature)
      <3>1. n.id \in Ids /\ n.signature \in Signatures
        BY <1>1 DEF IInv, TypeOK, Verification
      <3>2. pool[i].state # "absent" /\ pool \in Pool
        BY <1>1, <2>1, <3>1, ApprovedOne DEF Known
      <3> HIDE DEF pool
      <3>3. CASE challenges' = pool
        BY <1>1, <3>2, <3>3 DEF Known
      <3>4. CASE CanSpend(pool, n.id) /\ challenges' = Spend(pool, n.id)
        BY <1>1, <3>1, <3>2, <3>4, SpentOne DEF Known
      <3>5. QED
        BY <2>4, <3>3, <3>4 DEF Verified, Commit, pool
    <2>5. ASSUME NEW n \in verifying, Unverified(n) PROVE Burnt(i)
      <3>1. n.id \in Ids /\ challenges' = Fail(challenges, n.id) /\ verifying' = verifying \ {n}
        BY <1>1, <2>5 DEF IInv, TypeOK, Verification, Unverified
      <3>2. n.id = i
        BY <1>1, <2>1, <3>1, FailedOne DEF Known
      <3>3. challenges[i].failures = MaxFailures - 1
        BY <1>1, <2>1, <3>1, <3>2, FailedOne
      <3>4. QED
        BY <3>1, <3>2, <3>3
    <2>6. ASSUME Tick PROVE FALSE
      BY <1>1, <2>1, <2>6, OlderChallenges DEF Tick, Known
    <2>7. ASSUME UNCHANGED vars PROVE FALSE
      BY <1>1, <2>7 DEF vars, Known
    <2>8. QED
      BY <1>1, <2>2, <2>3, <2>4, <2>5, <2>6, <2>7 DEF Next
  <1>2. IInv /\ [Next]_vars => [\A i \in Ids : Lost(i) => Burnt(i)]_vars
    BY <1>1
  <1>3. QED
    BY <1>2, Invariant, PTL DEF Spec, LiveChallengesKept

-----------------------------------------------------------------------------
(* The audit log *)

\* The last line of the log is the last one of file f.
LastUsed(f) ==
    f \in DOMAIN files /\ files[f] # <<>> /\ \A g \in DOMAIN files : f < g => files[g] = <<>>

\* The file at the path is the newest; the file being written has no lines after it.
PathNewest == path # NoFile => path = Len(files)
OpenNewest ==
    writer = "open" => fd \in DOMAIN files /\ \A g \in DOMAIN files : fd < g => files[g] = <<>>

\* The hash kept is the one of the last line.
StateIsLast == state # 0 => \E f \in DOMAIN files : LastUsed(f) /\ Last(files[f]).entry = state

\* The entry being recorded goes to a file that has no lines yet.
Heads == IF writer = "open" THEN files[fd] = <<>> ELSE path = NoFile \/ files[path] = <<>>

\* The entry being recorded follows the last line, or begins a chain.
PrevFollows ==
    writer # "idle" =>
        \/ \E f \in DOMAIN files :
              LastUsed(f) /\ (Last(files[f]).whole => prev = Last(files[f]).entry)
        \/ state = 0 /\ prev = GENESIS /\ Heads

AuditTypes ==
    /\ AuditTypeOK
    /\ writer # "idle" => recorded > 0

\* The file being written is the one at the path, or was when its entry was begun.
OpenCurrent == writer = "open" => fd = path \/ recorded <= rotated

ChainInv == AuditTypes /\ PathNewest /\ OpenNewest /\ StateIsLast /\ PrevFollows /\ ChainHolds

LEMMA LastOf ==
  ASSUME NEW file \in Seq(Line), file # <<>>
  PROVE  /\ Len(file) \in Nat \ {0} /\ DOMAIN file = 1 .. Len(file)
         /\ Last(file) = file[Len(file)] /\ Last(file) \in Line
<1>1. Len(file) \in Nat \ {0} /\ DOMAIN file = 1 .. Len(file)
  BY EmptySeq, LenProperties
<1>2. Len(file) \in 1 .. Len(file)
  BY <1>1
<1>3. file[Len(file)] \in Line
  BY <1>2, ElementOfSeq
<1> QED BY <1>1, <1>3 DEF Last

\* What an entry that is appended does to its file: the lines before it stay, and a line
\* that goes on is no entry as composed.
LEMMA AppendedIs ==
  ASSUME AuditTypes, recorded > 0, NEW file \in Seq(Line),
         NEW whole \in BOOLEAN, NEW ended \in BOOLEAN
  PROVE  LET new == Appended(file, whole, ended)
         IN  /\ new \in Seq(Line) /\ new # <<>>
             /\ Last(new).entry = recorded
             /\ \A i \in 1 .. (Len(new) - 1) : i \in 1 .. Len(file) /\ new[i] = file[i]
             /\ Last(new).whole => /\ Len(new) = Len(file) + 1
                                   /\ Last(new).prev = prev
                                   /\ Last(new).first = (state = 0)
<1> DEFINE goesOn == file # <<>> /\ ~Last(file).ended
           line == [entry |-> recorded, whole |-> whole /\ ~goesOn, ended |-> ended,
                    prev |-> prev, first |-> state = 0]
           kept == IF goesOn THEN Front(file) ELSE file
           new == Append(kept, line)
<1>1. line \in Line
  <2>1. recorded \in 1 .. MaxEntries /\ prev \in Hash
    BY AuditAssumption DEF AuditTypes, AuditTypeOK
  <2>2. (whole /\ ~goesOn) \in BOOLEAN /\ (state = 0) \in BOOLEAN
    OBVIOUS
  <2> QED BY <2>1, <2>2 DEF Line
<1>2. /\ kept \in Seq(Line) /\ Len(kept) \in Nat /\ Len(file) \in Nat /\ Len(kept) <= Len(file)
      /\ \A i \in 1 .. Len(kept) : kept[i] = file[i]
      /\ ~goesOn => kept = file
  <2>1. CASE goesOn
    <3>1. Len(file) \in Nat \ {0} /\ \A i \in 1 .. Len(file) : file[i] \in Line
      BY <2>1, LastOf, ElementOfSeq
    <3>2. \A i \in 1 .. (Len(file) - 1) : file[i] \in Line
      BY <3>1
    <3>3. /\ SubSeq(file, 1, Len(file) - 1) \in Seq(Line)
          /\ Len(SubSeq(file, 1, Len(file) - 1)) =
                IF 1 <= Len(file) - 1 THEN Len(file) - 1 - 1 + 1 ELSE 0
          /\ \A i \in 1 .. (Len(file) - 1 - 1 + 1) :
                SubSeq(file, 1, Len(file) - 1)[i] = file[1 + i - 1]
      BY <3>1, <3>2, SubSeqProperties
    <3>4. kept = SubSeq(file, 1, Len(file) - 1)
      BY <2>1 DEF Front
    <3>5. Len(kept) = Len(file) - 1
      BY <3>3, <3>4, <3>1
    <3> HIDE DEF kept
    <3> QED BY <3>1, <3>3, <3>4, <3>5, <2>1
  <2>2. CASE ~goesOn
    <3>1. kept = file
      BY <2>2
    <3> QED BY <3>1, LenProperties
  <2> QED BY <2>1, <2>2
<1> HIDE DEF line, kept
<1>3. /\ new \in Seq(Line) /\ Len(new) = Len(kept) + 1 /\ new[Len(kept) + 1] = line
      /\ \A i \in 1 .. Len(kept) : new[i] = kept[i]
  BY <1>1, <1>2
<1>4. new # <<>> /\ Last(new) = line
  BY <1>2, <1>3, EmptySeq DEF Last
<1>5. Appended(file, whole, ended) = new
  BY DEF Appended, line, kept
<1> HIDE DEF new
<1>6. \A i \in 1 .. (Len(new) - 1) : i \in 1 .. Len(file) /\ new[i] = file[i]
  BY <1>2, <1>3
<1>7. line.entry = recorded /\ line.prev = prev /\ line.first = (state = 0)
      /\ (line.whole => ~goesOn)
  BY DEF line
<1>8. line.whole => Len(new) = Len(file) + 1
  BY <1>7, <1>2, <1>3
<1> HIDE DEF goesOn
<1> QED BY <1>3, <1>4, <1>5, <1>6, <1>7, <1>8

\* A new file at the path disturbs nothing.
LEMMA EmptyFileAdded ==
  ASSUME AuditTypes, ChainHolds, files' = Append(files, <<>>)
  PROVE  /\ files' \in Seq(Seq(Line)) /\ Len(files') = Len(files) + 1 /\ Len(files) \in Nat
         /\ DOMAIN files = 1 .. Len(files) /\ DOMAIN files' = 1 .. (Len(files) + 1)
         /\ \A f \in DOMAIN files : files'[f] = files[f]
         /\ files'[Len(files')] = <<>>
         /\ \A f \in DOMAIN files : LastUsed(f) => LastUsed(f)'
         /\ ChainHolds'
<1>1. /\ files \in Seq(Seq(Line)) /\ Len(files) \in Nat /\ DOMAIN files = 1 .. Len(files)
      /\ <<>> \in Seq(Line)
  BY LenProperties, EmptySeq DEF AuditTypes, AuditTypeOK
<1>2. /\ files' \in Seq(Seq(Line)) /\ Len(files') = Len(files) + 1
      /\ \A f \in 1 .. Len(files) : files'[f] = files[f]
      /\ files'[Len(files) + 1] = <<>>
  BY <1>1
<1>3. DOMAIN files' = 1 .. (Len(files) + 1)
  BY <1>2, LenProperties
<1>4. \A f \in DOMAIN files' : f \in DOMAIN files \/ files'[f] = <<>>
  BY <1>1, <1>2, <1>3
<1>5. DOMAIN files \subseteq DOMAIN files'
  BY <1>1, <1>3
<1>6. \A f \in DOMAIN files : files'[f] = files[f]
  BY <1>1, <1>2
<1>7. \A f \in DOMAIN files : LastUsed(f) => LastUsed(f)'
  BY <1>4, <1>5, <1>6 DEF LastUsed
<1>8. ChainHolds'
  <2>1. SUFFICES ASSUME NEW f \in DOMAIN files', NEW i \in DOMAIN files'[f]
                 PROVE  LET line == files'[f][i]
                        IN  IF i > 1 THEN Follows(line, files'[f][i - 1])
                            ELSE \/ line.first /\ line.prev = GENESIS
                                 \/ \A g \in DOMAIN files' :
                                       Precedes(g, f)' => Follows(line, Last(files'[g]))
    BY DEF ChainHolds, Follows
  <2>2. f \in DOMAIN files
    <3>1. DOMAIN <<>> = {}
      BY EmptySeq, LenProperties, <1>1
    <3> QED BY <3>1, <1>4
  <2>3. files'[f] = files[f]
    BY <2>2, <1>6
  <2>4. IF i > 1 THEN Follows(files[f][i], files[f][i - 1])
        ELSE \/ files[f][i].first /\ files[f][i].prev = GENESIS
             \/ \A g \in DOMAIN files :
                   Precedes(g, f) => Follows(files[f][i], Last(files[g]))
    BY <2>2, <2>3 DEF ChainHolds
  <2>5. ASSUME NEW g \in DOMAIN files', Precedes(g, f)'
        PROVE  g \in DOMAIN files /\ Precedes(g, f) /\ files'[g] = files[g]
    BY <2>5, <1>4, <1>5, <1>6 DEF Precedes
  <2> QED BY <2>3, <2>4, <2>5
<1> QED BY <1>1, <1>2, <1>3, <1>6, <1>7, <1>8

\* Nothing that matters to the chain changes while the files do not.
LEMMA SameFiles ==
  ASSUME ChainHolds, UNCHANGED files
  PROVE  ChainHolds' /\ \A f : LastUsed(f)' = LastUsed(f)
  BY DEF ChainHolds, Follows, Precedes, LastUsed

LEMMA ChainInit == AuditInit => ChainInv
<1> SUFFICES ASSUME AuditInit PROVE ChainInv
  OBVIOUS
<1>1. files \in Seq(Seq(Line)) /\ Len(files) = 0 /\ DOMAIN files = {}
  BY EmptySeq, LenProperties DEF AuditInit
<1>2. AuditTypes
  BY <1>1, AuditAssumption DEF AuditInit, AuditTypes, AuditTypeOK, Hash, GENESIS
<1>3. PathNewest /\ OpenNewest /\ StateIsLast /\ PrevFollows /\ ChainHolds
  BY <1>1 DEF AuditInit, PathNewest, OpenNewest, StateIsLast, PrevFollows, ChainHolds
<1> QED BY <1>2, <1>3 DEF ChainInv

LEMMA AuditTypesStep == AuditTypes /\ PathNewest /\ OpenNewest /\ [AuditNext]_auditVars => AuditTypes'
<1> SUFFICES ASSUME AuditTypes, PathNewest, OpenNewest, [AuditNext]_auditVars PROVE AuditTypes'
  OBVIOUS
<1>1. /\ files \in Seq(Seq(Line)) /\ Len(files) \in Nat /\ DOMAIN files = 1 .. Len(files)
      /\ <<>> \in Seq(Line) /\ state \in Nat /\ recorded \in Nat /\ NoFile \notin Nat
      /\ MaxEntries \in Nat /\ MaxFiles \in Nat
  BY AuditAssumption, LenProperties, EmptySeq DEF AuditTypes, AuditTypeOK
<1>2. ASSUME files' = Append(files, <<>>), Len(files) < MaxFiles
      PROVE  /\ files' \in Seq(Seq(Line)) /\ Len(files') <= MaxFiles
             /\ Len(files') \in DOMAIN files' /\ DOMAIN files \subseteq DOMAIN files'
  <2>1. files' \in Seq(Seq(Line)) /\ Len(files') = Len(files) + 1
    BY <1>1, <1>2
  <2>2. DOMAIN files' = 1 .. (Len(files) + 1)
    BY <2>1, LenProperties
  <2> QED BY <1>1, <1>2, <2>1, <2>2
<1>3. CASE Chain
  <2>1. LastHash \in Hash
    <3>1. CASE path = NoFile \/ files[path] = <<>>
      BY <3>1, <1>1 DEF LastHash, GENESIS, Hash
    <3>2. CASE ~(path = NoFile \/ files[path] = <<>>)
      <4>1. path \in DOMAIN files /\ files[path] \in Seq(Line)
        BY <3>2, <1>1, ElementOfSeq DEF AuditTypes, AuditTypeOK
      <4>2. Last(files[path]).entry \in 1 .. MaxEntries
        BY <4>1, <3>2, LastOf DEF Line
      <4> QED BY <4>2, <3>2, <1>1 DEF LastHash, HashOf, Hash
    <3> QED BY <3>1, <3>2
  <2>2. prev' \in Hash
    BY <2>1, <1>1, <1>3 DEF Chain, AuditTypes, AuditTypeOK, Hash
  <2>3. recorded' \in 0 .. MaxEntries /\ state' \in 0 .. recorded' /\ recorded' > 0
    BY <1>1, <1>3 DEF Chain, AuditTypes, AuditTypeOK
  <2> QED BY <1>3, <2>2, <2>3 DEF Chain, AuditTypes, AuditTypeOK
<1>4. CASE Open
  <2>1. CASE path = NoFile
    BY <2>1, <1>4, <1>2 DEF Open, AuditTypes, AuditTypeOK
  <2>2. CASE path # NoFile
    BY <2>2, <1>4, <1>1 DEF Open, AuditTypes, AuditTypeOK
  <2> QED BY <2>1, <2>2
<1>5. CASE OpenFailed
  BY <1>5 DEF OpenFailed, AuditTypes, AuditTypeOK
<1>6. CASE Write
  <2>1. PICK whole \in BOOLEAN, ended \in BOOLEAN :
           files' = [files EXCEPT ![fd] = Appended(files[fd], whole, ended)]
    BY <1>6 DEF Write
  <2>2. fd \in 1 .. Len(files) /\ files[fd] \in Seq(Line)
    BY <1>6, <1>1, ElementOfSeq DEF Write, OpenNewest
  <2>3. Appended(files[fd], whole, ended) \in Seq(Line)
    BY <2>2, <1>6, AppendedIs DEF Write, AuditTypes
  <2>4. files' \in Seq(Seq(Line)) /\ Len(files') = Len(files)
    BY <1>1, <2>1, <2>2, <2>3, ExceptSeq
  <2>5. DOMAIN files' = DOMAIN files
    BY <1>1, <2>4, LenProperties
  <2>6. state' \in 0 .. recorded'
    BY <1>6, <1>1 DEF Write
  <2> QED BY <1>6, <2>4, <2>5, <2>6 DEF Write, AuditTypes, AuditTypeOK
<1>7. CASE WriteFailed
  BY <1>7 DEF WriteFailed, AuditTypes, AuditTypeOK
<1>8. CASE Rotate
  <2>1. CASE path' = NoFile /\ UNCHANGED files
    BY <2>1, <1>8 DEF Rotate, AuditTypes, AuditTypeOK
  <2>2. CASE Len(files) < MaxFiles /\ files' = Append(files, <<>>) /\ path' = Len(files')
    BY <2>2, <1>8, <1>2 DEF Rotate, AuditTypes, AuditTypeOK
  <2> QED BY <1>8, <2>1, <2>2 DEF Rotate
<1>9. CASE Reuse
  BY <1>9 DEF Reuse, AuditTypes, AuditTypeOK
<1>10. CASE Restart
  BY <1>10, <1>1 DEF Restart, AuditTypes, AuditTypeOK
<1>11. CASE UNCHANGED auditVars
  BY <1>11 DEF auditVars, AuditTypes, AuditTypeOK
<1> QED BY <1>3, <1>4, <1>5, <1>6, <1>7, <1>8, <1>9, <1>10, <1>11 DEF AuditNext

\* An entry is written: it follows what it should, and the lines after it find it last.
LEMMA ChainWritten == ChainInv /\ Write => StateIsLast' /\ PathNewest' /\ ChainHolds'
<1> SUFFICES ASSUME ChainInv, Write PROVE StateIsLast' /\ PathNewest' /\ ChainHolds'
  OBVIOUS
<1> USE DEF ChainInv
<1>1. PICK whole \in BOOLEAN, ended \in BOOLEAN :
         files' = [files EXCEPT ![fd] = Appended(files[fd], whole, ended)]
  BY DEF Write
<1> DEFINE old == files[fd]
           new == Appended(files[fd], whole, ended)
<1>2. /\ files \in Seq(Seq(Line)) /\ Len(files) \in Nat /\ DOMAIN files = 1 .. Len(files)
      /\ fd \in DOMAIN files /\ writer = "open" /\ recorded > 0
      /\ \A g \in DOMAIN files : fd < g => files[g] = <<>>
  BY LenProperties DEF Write, OpenNewest, AuditTypes, AuditTypeOK
<1>3. old \in Seq(Line)
  BY <1>2, ElementOfSeq
<1>4. /\ new \in Seq(Line) /\ new # <<>>
      /\ Last(new).entry = recorded
      /\ \A i \in 1 .. (Len(new) - 1) : i \in 1 .. Len(old) /\ new[i] = old[i]
      /\ Last(new).whole => /\ Len(new) = Len(old) + 1
                            /\ Last(new).prev = prev
                            /\ Last(new).first = (state = 0)
  <2>1. AuditTypes
    OBVIOUS
  <2> HIDE DEF old, ChainInv
  <2>2. Appended(old, whole, ended) = new
    BY DEF old
  <2> HIDE DEF new
  <2>3. LET added == Appended(old, whole, ended)
        IN  /\ added \in Seq(Line) /\ added # <<>>
            /\ Last(added).entry = recorded
            /\ \A i \in 1 .. (Len(added) - 1) : i \in 1 .. Len(old) /\ added[i] = old[i]
            /\ Last(added).whole => /\ Len(added) = Len(old) + 1
                                    /\ Last(added).prev = prev
                                    /\ Last(added).first = (state = 0)
    BY <2>1, <1>2, <1>3, AppendedIs
  <2> QED BY <2>2, <2>3
<1>5. /\ files'[fd] = new /\ DOMAIN files' = DOMAIN files /\ Len(files') = Len(files)
      /\ \A g \in DOMAIN files : g # fd => files'[g] = files[g]
  BY <1>1, <1>2, <1>3, <1>4, ExceptSeq, LenProperties
<1> HIDE DEF new
<1>6. LastUsed(fd)'
  BY <1>2, <1>4, <1>5 DEF LastUsed, Write
<1>7. StateIsLast'
  <2>1. fd' = fd /\ state' = recorded
    BY DEF Write
  <2> QED BY <1>2, <1>4, <1>5, <1>6, <2>1 DEF StateIsLast
<1>8. PathNewest'
  BY <1>5 DEF PathNewest, Write
<1>9. Len(old) \in Nat /\ DOMAIN old = 1 .. Len(old) /\ Len(new) \in Nat \ {0}
      /\ DOMAIN new = 1 .. Len(new) /\ Last(new) = new[Len(new)]
  BY <1>3, <1>4, LenProperties, LastOf
<1>10. PrevFollows
  OBVIOUS
<1>11. ChainHolds'
  <2>1. SUFFICES ASSUME NEW f \in DOMAIN files, NEW i \in DOMAIN files'[f]
                 PROVE  LET line == files'[f][i]
                        IN  IF i > 1 THEN Follows(line, files'[f][i - 1])
                            ELSE \/ line.first /\ line.prev = GENESIS
                                 \/ \A g \in DOMAIN files :
                                       Precedes(g, f)' => Follows(line, Last(files'[g]))
    BY <1>5 DEF ChainHolds, Follows
  <2>2. ASSUME NEW j \in DOMAIN files[f]
        PROVE  IF j > 1 THEN Follows(files[f][j], files[f][j - 1])
               ELSE \/ files[f][j].first /\ files[f][j].prev = GENESIS
                    \/ \A g \in DOMAIN files :
                          Precedes(g, f) => Follows(files[f][j], Last(files[g]))
    BY DEF ChainHolds
  <2>3. ASSUME NEW g \in DOMAIN files, g # fd, Precedes(g, f)'
        PROVE  Precedes(g, f) /\ files'[g] = files[g]
    BY <2>3, <1>4, <1>5 DEF Precedes
  <2>4. CASE f # fd
    <3>1. files'[f] = files[f]
      BY <2>4, <1>5
    <3>2. ASSUME NEW g \in DOMAIN files, Precedes(g, f)' PROVE g # fd
      <4>0. SUFFICES ASSUME g = fd PROVE FALSE
        OBVIOUS
      <4>1. files[f] = <<>>
        BY <3>2, <4>0, <1>2 DEF Precedes
      <4>2. DOMAIN files[f] = {}
        BY <4>1, EmptySeq, LenProperties
      <4> QED BY <4>2, <3>1
    <3>3. ASSUME NEW g \in DOMAIN files, Precedes(g, f)'
          PROVE  Precedes(g, f) /\ files'[g] = files[g]
      <4>1. g # fd
        BY <3>2, <3>3
      <4> QED BY <4>1, <3>3, <2>3
    <3> QED BY <3>1, <3>3, <2>2
  <2>5. CASE f = fd /\ i # Len(new)
    <3>1. i \in 1 .. (Len(new) - 1) /\ files'[f] = new
      BY <2>5, <1>5, <1>9
    <3>2. i \in DOMAIN files[f] /\ new[i] = files[f][i]
      BY <2>5, <3>1, <1>4, <1>9
    <3>3. i > 1 => new[i - 1] = files[f][i - 1]
      <4>1. i > 1 => i - 1 \in 1 .. (Len(new) - 1)
        BY <3>1, <1>9
      <4> QED BY <4>1, <2>5, <1>4
    <3>4. ASSUME NEW g \in DOMAIN files, Precedes(g, f)'
          PROVE  Precedes(g, f) /\ files'[g] = files[g]
      <4>1. g < fd
        BY <3>4, <2>5 DEF Precedes
      <4>2. g # fd
        BY <4>1, <1>2
      <4> QED BY <4>2, <3>4, <2>3
    <3> QED BY <3>1, <3>2, <3>3, <3>4, <2>2
  <2>6. CASE f = fd /\ i = Len(new)
    <3>1. files'[f] = new /\ files'[f][i] = Last(new)
      BY <2>6, <1>5, <1>9
    <3>2. CASE ~Last(new).whole
      BY <3>1, <3>2 DEF Follows
    <3>3. CASE Last(new).whole /\ i > 1
      <4>1. i = Len(old) + 1 /\ Last(new).prev = prev /\ old # <<>>
        BY <3>3, <2>6, <1>4, <1>9, EmptySeq
      <4>2. new[i - 1] = Last(old)
        BY <4>1, <2>6, <1>4, <1>9, <3>3 DEF Last
      <4>3. PICK k \in DOMAIN files :
               LastUsed(k) /\ (Last(files[k]).whole => prev = Last(files[k]).entry)
        BY <4>1, <1>10, <1>2 DEF PrevFollows, Heads
      <4>4. LastUsed(fd)
        BY <4>1, <1>2 DEF LastUsed
      <4>5. k = fd
        BY <4>3, <4>4, <1>2 DEF LastUsed
      <4> QED BY <3>1, <3>3, <4>1, <4>2, <4>3, <4>5 DEF Follows
    <3>4. CASE Last(new).whole /\ ~(i > 1)
      <4>1. i = 1 /\ Len(old) = 0
        BY <3>4, <2>6, <1>4, <1>9
      <4>2. old = <<>>
        BY <4>1, <1>3, EmptySeq
      <4>3. CASE state = 0 /\ prev = GENESIS
        BY <3>1, <3>4, <4>3, <1>4
      <4>4. CASE ~(state = 0 /\ prev = GENESIS)
        <5>1. PICK k \in DOMAIN files :
                 LastUsed(k) /\ (Last(files[k]).whole => prev = Last(files[k]).entry)
          BY <4>4, <1>10, <1>2 DEF PrevFollows
        <5>2. k # fd /\ k < fd
          BY <5>1, <4>2, <1>2 DEF LastUsed
        <5>3. ASSUME NEW g \in DOMAIN files, Precedes(g, f)' PROVE g = k
          <6>1. g < fd /\ g # fd
            BY <5>3, <2>6, <1>2 DEF Precedes
          <6>2. Precedes(g, fd)
            BY <5>3, <6>1, <2>3, <2>6
          <6>3. ~(k < g)
            BY <6>2, <5>1 DEF Precedes, LastUsed
          <6>4. ~(g < k)
            BY <6>2, <5>1, <5>2 DEF Precedes, LastUsed
          <6> QED BY <6>3, <6>4, <1>2
        <5>4. files'[k] = files[k]
          BY <5>2, <1>5
        <5> QED BY <3>1, <3>4, <5>1, <5>3, <5>4, <1>4 DEF Follows
      <4> QED BY <4>3, <4>4
    <3> QED BY <3>2, <3>3, <3>4
  <2> QED BY <2>4, <2>5, <2>6
<1> QED BY <1>7, <1>8, <1>11

LEMMA ChainChained == ChainInv /\ Chain => PrevFollows'
<1> SUFFICES ASSUME ChainInv, Chain PROVE PrevFollows'
  OBVIOUS
<1>1. /\ UNCHANGED <<files, path, state>> /\ writer' = "chained"
      /\ prev' = IF state # 0 THEN state ELSE LastHash
  BY DEF Chain
<1>2. \A f : LastUsed(f)' = LastUsed(f)
  BY <1>1, SameFiles DEF ChainInv
<1>3. CASE state # 0
  BY <1>1, <1>2, <1>3 DEF ChainInv, StateIsLast, PrevFollows
<1>4. CASE state = 0 /\ (path = NoFile \/ files[path] = <<>>)
  BY <1>1, <1>4 DEF LastHash, PrevFollows, Heads
<1>5. CASE state = 0 /\ ~(path = NoFile \/ files[path] = <<>>)
  <2>1. path \in DOMAIN files /\ path = Len(files) /\ DOMAIN files = 1 .. Len(files)
        /\ Len(files) \in Nat
    BY <1>5, LenProperties DEF ChainInv, AuditTypes, AuditTypeOK, PathNewest
  <2>2. LastUsed(path)
    BY <2>1, <1>5 DEF LastUsed
  <2>3. prev' = HashOf(Last(files[path]))
    BY <1>1, <1>5 DEF LastHash
  <2> QED BY <1>1, <1>2, <2>1, <2>2, <2>3 DEF HashOf, PrevFollows
<1> QED BY <1>3, <1>4, <1>5

LEMMA ChainOpened ==
  ChainInv /\ Open => OpenNewest' /\ PathNewest' /\ StateIsLast' /\ PrevFollows' /\ ChainHolds'
<1> SUFFICES ASSUME ChainInv, Open
             PROVE  OpenNewest' /\ PathNewest' /\ StateIsLast' /\ PrevFollows' /\ ChainHolds'
  OBVIOUS
<1>1. /\ UNCHANGED <<state, prev>> /\ writer = "chained" /\ writer' = "open" /\ fd' = path'
      /\ number' = "us"
      /\ files' = IF path = NoFile THEN Append(files, <<>>) ELSE files
      /\ path' = IF path = NoFile THEN Len(files') ELSE path
  BY DEF Open
<1>2. /\ DOMAIN files = 1 .. Len(files) /\ Len(files) \in Nat /\ NoFile \notin Nat
      /\ path # NoFile => path = Len(files) /\ path \in DOMAIN files
      /\ StateIsLast /\ PrevFollows /\ ChainHolds /\ AuditTypes
  BY LenProperties, AuditAssumption DEF ChainInv, AuditTypes, AuditTypeOK, PathNewest
<1>3. /\ ChainHolds' /\ DOMAIN files \subseteq DOMAIN files' /\ path' = Len(files')
      /\ \A f \in DOMAIN files : files'[f] = files[f] /\ (LastUsed(f) => LastUsed(f)')
      /\ path' \in DOMAIN files' /\ \A g \in DOMAIN files' : g <= path'
      /\ Heads => files'[path'] = <<>>
  <2>1. CASE path = NoFile
    <3>1. files' = Append(files, <<>>) /\ path' = Len(files')
      BY <1>1, <2>1
    <3> QED BY <3>1, <1>2, EmptyFileAdded
  <2>2. CASE path # NoFile
    <3>1. files' = files /\ path' = path
      BY <1>1, <2>2
    <3>2. ChainHolds' /\ \A f : LastUsed(f)' = LastUsed(f)
      BY <3>1, <1>2, SameFiles
    <3>3. Heads => files[path] = <<>>
      BY <1>1, <2>2 DEF Heads
    <3> QED BY <3>1, <3>2, <3>3, <2>2, <1>2
  <2> QED BY <2>1, <2>2
<1>4. OpenNewest'
  <2>1. \A g \in DOMAIN files' : ~(path' < g)
    BY <1>2, <1>3 DEF LastUsed
  <2> QED BY <1>1, <1>3, <2>1 DEF OpenNewest
<1>5. PathNewest'
  BY <1>3 DEF PathNewest
<1>6. StateIsLast'
  BY <1>1, <1>2, <1>3 DEF StateIsLast
<1>7. PrevFollows'
  <2>1. CASE \E f \in DOMAIN files :
                LastUsed(f) /\ (Last(files[f]).whole => prev = Last(files[f]).entry)
    BY <2>1, <1>1, <1>3 DEF PrevFollows
  <2>2. CASE state = 0 /\ prev = GENESIS /\ Heads
    <3>1. Heads'
      BY <2>2, <1>1, <1>3 DEF Heads
    <3> QED BY <3>1, <2>2, <1>1 DEF PrevFollows
  <2> QED BY <2>1, <2>2, <1>1, <1>2 DEF PrevFollows
<1> QED BY <1>3, <1>4, <1>5, <1>6, <1>7

LEMMA ChainRotated ==
  ChainInv /\ Rotate => OpenNewest' /\ PathNewest' /\ StateIsLast' /\ PrevFollows' /\ ChainHolds'
<1> SUFFICES ASSUME ChainInv, Rotate
             PROVE  OpenNewest' /\ PathNewest' /\ StateIsLast' /\ PrevFollows' /\ ChainHolds'
  OBVIOUS
<1>1. UNCHANGED <<state, fd, number, writer, prev>>
  BY DEF Rotate
<1>2. /\ DOMAIN files = 1 .. Len(files) /\ Len(files) \in Nat
      /\ OpenNewest /\ StateIsLast /\ PrevFollows /\ ChainHolds /\ AuditTypes
  BY LenProperties DEF ChainInv, AuditTypes, AuditTypeOK
<1>3. /\ ChainHolds' /\ DOMAIN files \subseteq DOMAIN files' /\ PathNewest'
      /\ \A f \in DOMAIN files : files'[f] = files[f] /\ (LastUsed(f) => LastUsed(f)')
      /\ path' = NoFile \/ files'[path'] = <<>>
      /\ \A g \in DOMAIN files' : g \in DOMAIN files \/ files'[g] = <<>>
  <2>1. CASE path' = NoFile /\ UNCHANGED files
    BY <2>1, <1>2, SameFiles DEF PathNewest
  <2>2. CASE files' = Append(files, <<>>) /\ path' = Len(files')
    <3>1. PathNewest'
      BY <2>2 DEF PathNewest
    <3> QED BY <2>2, <3>1, <1>2, EmptyFileAdded
  <2> QED BY <2>1, <2>2 DEF Rotate
<1>4. OpenNewest'
  BY <1>1, <1>2, <1>3 DEF OpenNewest
<1>5. StateIsLast'
  BY <1>1, <1>2, <1>3 DEF StateIsLast
<1>6. PrevFollows'
  <2>1. CASE writer = "idle"
    BY <2>1, <1>1 DEF PrevFollows
  <2>2. CASE \E f \in DOMAIN files :
                LastUsed(f) /\ (Last(files[f]).whole => prev = Last(files[f]).entry)
    BY <2>2, <1>1, <1>3 DEF PrevFollows
  <2>3. CASE state = 0 /\ prev = GENESIS /\ Heads
    <3>1. Heads'
      BY <2>3, <1>1, <1>2, <1>3 DEF Heads, OpenNewest
    <3> QED BY <3>1, <2>3, <1>1 DEF PrevFollows
  <2> QED BY <2>1, <2>2, <2>3, <1>2 DEF PrevFollows
<1> QED BY <1>3, <1>4, <1>5, <1>6

LEMMA ChainStep == ChainInv /\ [AuditNext]_auditVars => ChainInv'
<1> SUFFICES ASSUME ChainInv, [AuditNext]_auditVars PROVE ChainInv'
  OBVIOUS
<1>1. AuditTypes'
  BY AuditTypesStep DEF ChainInv
<1>2. CASE Chain
  <2>1. UNCHANGED <<files, path, state, fd, number>> /\ writer' = "chained"
    BY <1>2 DEF Chain
  <2>2. PrevFollows'
    BY <1>2, ChainChained
  <2>3. ChainHolds' /\ \A f : LastUsed(f)' = LastUsed(f)
    BY <2>1, SameFiles DEF ChainInv
  <2> QED BY <1>1, <2>1, <2>2, <2>3 DEF ChainInv, PathNewest, OpenNewest, StateIsLast
<1>3. CASE Open
  BY <1>1, <1>3, ChainOpened DEF ChainInv
<1>4. CASE Write
  <2>1. StateIsLast' /\ PathNewest' /\ ChainHolds'
    BY <1>4, ChainWritten
  <2>2. writer' = "idle"
    BY <1>4 DEF Write
  <2> QED BY <1>1, <2>1, <2>2 DEF ChainInv, OpenNewest, PrevFollows
<1>5. CASE Rotate
  BY <1>1, <1>5, ChainRotated DEF ChainInv
<1>6. CASE OpenFailed \/ WriteFailed \/ Restart
  <2>1. UNCHANGED <<files, path, prev>> /\ writer' = "idle" /\ state' \in {state, 0}
    BY <1>6 DEF OpenFailed, WriteFailed, Restart
  <2>2. ChainHolds' /\ \A f : LastUsed(f)' = LastUsed(f)
    BY <2>1, SameFiles DEF ChainInv
  <2> QED BY <1>1, <2>1, <2>2 DEF ChainInv, PathNewest, OpenNewest, StateIsLast, PrevFollows
<1>7. CASE Reuse \/ UNCHANGED auditVars
  <2>1. UNCHANGED <<files, path, state, fd, writer, prev, recorded>>
    BY <1>7 DEF Reuse, auditVars
  <2>2. ChainHolds' /\ \A f : LastUsed(f)' = LastUsed(f)
    BY <2>1, SameFiles DEF ChainInv
  <2> QED BY <1>1, <2>1, <2>2
             DEF ChainInv, PathNewest, OpenNewest, StateIsLast, PrevFollows, Heads
<1> QED BY <1>2, <1>3, <1>4, <1>5, <1>6, <1>7 DEF AuditNext

LEMMA ChainInvariant == AuditSpec => []ChainInv
<1>1. AuditInit => ChainInv
  BY ChainInit
<1>2. ChainInv /\ [AuditNext]_auditVars => ChainInv'
  BY ChainStep
<1> QED BY <1>1, <1>2, PTL DEF AuditSpec

\* The audit log stays well formed: what record() writes is made of lines, and the hash
\* kept is one of an entry begun.
THEOREM AuditTypeCorrect == AuditSpec => []AuditTypeOK
<1>1. ChainInv => AuditTypeOK
  BY DEF ChainInv, AuditTypes
<1> QED BY <1>1, ChainInvariant, PTL

\* Each entry follows the line before it, in its file or in the files before, through
\* every rotation, restart and failed or short write (audit.py, AU-3 and AU-4).
THEOREM ChainKept == AuditSpec => []ChainHolds
<1>1. ChainInv => ChainHolds
  BY DEF ChainInv
<1> QED BY <1>1, ChainInvariant, PTL

\* What is appended ends the log: it goes after every line of every file.
AppendedLast ==
    [][\A f \in DOMAIN files :
          files'[f] # files[f] => \A g \in DOMAIN files : f < g => files'[g] = <<>>]_auditVars

LEMMA CurrentInit == AuditInit => OpenCurrent
BY DEF AuditInit, OpenCurrent

LEMMA CurrentStep == AuditTypes /\ OpenCurrent /\ [AuditNext]_auditVars => OpenCurrent'
<1> SUFFICES ASSUME AuditTypes, OpenCurrent, [AuditNext]_auditVars PROVE OpenCurrent'
  OBVIOUS
<1>1. recorded \in Nat
  BY AuditAssumption DEF AuditTypes, AuditTypeOK
<1>2. CASE Rotate
  BY <1>1, <1>2 DEF Rotate, OpenCurrent
<1>3. CASE Open
  BY <1>3 DEF Open, OpenCurrent
<1>4. CASE Chain \/ OpenFailed \/ Write \/ WriteFailed \/ Restart
  <2>1. writer' # "open"
    BY <1>4 DEF Chain, OpenFailed, Write, WriteFailed, Restart
  <2> QED BY <2>1 DEF OpenCurrent
<1>5. CASE Reuse \/ UNCHANGED auditVars
  BY <1>5 DEF Reuse, auditVars, OpenCurrent
<1> QED BY <1>2, <1>3, <1>4, <1>5 DEF AuditNext

\* Only a write changes the lines of a file, and of the one it has open.
LEMMA OnlyWritten ==
    ASSUME ChainInv, [AuditNext]_auditVars, NEW f \in DOMAIN files, files'[f] # files[f]
    PROVE  Write /\ f = fd /\ \A k \in DOMAIN files : k # fd => files'[k] = files[k]
<1>1. Write
  <2>1. CASE files' = Append(files, <<>>)
    BY <2>1, EmptyFileAdded DEF ChainInv
  <2>2. CASE UNCHANGED files
    BY <2>2
  <2> QED BY <2>1, <2>2 DEF AuditNext, Chain, Open, OpenFailed, WriteFailed, Rotate, Reuse,
                            Restart, auditVars
<1>2. PICK whole \in BOOLEAN, ended \in BOOLEAN :
         files' = [files EXCEPT ![fd] = Appended(files[fd], whole, ended)]
  BY <1>1 DEF Write
<1>3. \A k \in DOMAIN files : k # fd => files'[k] = files[k]
  BY <1>2
<1> QED BY <1>1, <1>3

\* For every number of entries and files: a file that was renamed away gets no entry
\* begun after that, and no line is written before one that is there, so the files in
\* their order are the log in its order.
THEOREM WrittenInOrder == AuditSpec => RotationTakes /\ AppendedLast
<1>1. ChainInv /\ OpenCurrent /\ [AuditNext]_auditVars =>
        [\A f \in DOMAIN files : files'[f] # files[f] => f = path \/ recorded <= rotated]_auditVars
  <2> SUFFICES ASSUME ChainInv, OpenCurrent, [AuditNext]_auditVars,
                      NEW f \in DOMAIN files, files'[f] # files[f]
               PROVE  f = path \/ recorded <= rotated
    OBVIOUS
  <2>1. Write /\ f = fd
    BY OnlyWritten
  <2> QED BY <2>1 DEF Write, OpenCurrent
<1>2. ChainInv /\ [AuditNext]_auditVars =>
        [\A f \in DOMAIN files :
            files'[f] # files[f] => \A g \in DOMAIN files : f < g => files'[g] = <<>>]_auditVars
  <2> SUFFICES ASSUME ChainInv, [AuditNext]_auditVars,
                      NEW f \in DOMAIN files, files'[f] # files[f],
                      NEW g \in DOMAIN files, f < g
               PROVE  files'[g] = <<>>
    OBVIOUS
  <2>1. Write /\ f = fd /\ \A k \in DOMAIN files : k # fd => files'[k] = files[k]
    BY OnlyWritten
  <2>2. files[g] = <<>>
    BY <2>1 DEF Write, ChainInv, OpenNewest
  <2>3. f \in Int /\ g \in Int
    BY LenProperties DEF ChainInv, AuditTypes, AuditTypeOK
  <2> QED BY <2>1, <2>2, <2>3
<1>3. OpenCurrent /\ AuditTypes /\ [AuditNext]_auditVars => OpenCurrent'
  BY CurrentStep
<1>4. ChainInv => AuditTypes
  BY DEF ChainInv
<1> QED BY <1>1, <1>2, <1>3, <1>4, CurrentInit, ChainInvariant, PTL
        DEF AuditSpec, RotationTakes, AppendedLast
===============================================================================
