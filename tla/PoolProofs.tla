------------------------------ MODULE PoolProofs ------------------------------
(***************************************************************************)
(* What Pool promises for any number of requests, clients and entries: no  *)
(* connection is left behind, and what the file says applies once it has   *)
(* been read.                                                              *)
(***************************************************************************)
EXTENDS Pool, FiniteSetTheorems, TLAPS

\* The types, without the bounds of the model.
Types ==
    /\ connected \in Nat
    /\ pooled \in 1 .. connected \cup {NoClient}
    /\ client \in [1 .. connected -> [entry: Entries, up: BOOLEAN, cached: BOOLEAN]]
    /\ work \in [Workers -> [at: Places, op: Operations, entry: Services,
                             client: 1 .. connected \cup {NoClient},
                             victim: 1 .. connected \cup {NoClient}]]
    /\ removing \in 1 .. connected \cup {NoClient}
    /\ services \in Services /\ file \in Services \cup {Rejected}

\* Only who is closing a client holds it as its victim.
VictimsClosed == \A w \in Workers : work[w].victim # NoClient => work[w].at \in {"stale", "dropping"}

\* Who is in get_client or beyond has read an entry.
EntryRead == \A w \in Workers : work[w].at # "idle" => work[w].entry \in Entries

\* One request connects at a time, while no client that is connected is pooled.
ConnectsAlone ==
    \A w \in Workers : work[w].at = "connecting" =>
        /\ ~IsConnected(pooled)
        /\ \A x \in Workers : work[x].at = "connecting" => x = w

IInv == Types /\ VictimsClosed /\ EntryRead /\ ConnectsAlone /\ NoStray

-----------------------------------------------------------------------------
WorkRecord ==
    [at: Places, op: Operations, entry: Services,
     client: 1 .. connected \cup {NoClient}, victim: 1 .. connected \cup {NoClient}]

LEMMA IdleTyped == Idle \in WorkRecord /\ Idle.at = "idle" /\ Idle.victim = NoClient
  BY DEF Idle, WorkRecord, Places, Operations, Services

LEMMA UsingPlaces ==
  ASSUME NEW op \in Operations
  PROVE  Using(op) \in {"waiting", "calling", "pinging"}
  BY DEF Using, Operations

\* Sending one worker to a place.
LEMMA Sent ==
  ASSUME Types, NEW w \in Workers, NEW r \in WorkRecord, work' = [work EXCEPT ![w] = r]
  PROVE  /\ work' \in [Workers -> WorkRecord]
         /\ work'[w] = r
         /\ \A x \in Workers \ {w} : work'[x] = work[x]
  BY DEF Types, WorkRecord

\* A step of one worker that connects nothing new, and keeps what is pooled or closes it.
LEMMA WorkerStep ==
  ASSUME IInv, NEW w \in Workers, NEW r \in WorkRecord, work' = [work EXCEPT ![w] = r],
         UNCHANGED <<connected, services, file, removing>>,
         client' \in [1 .. connected -> [entry: Entries, up: BOOLEAN, cached: BOOLEAN]],
         \A c \in 1 .. connected : client'[c].up => client[c].up,
         pooled' \in {pooled, NoClient},
         r.victim # NoClient => r.at \in {"stale", "dropping"},
         r.at # "idle" => r.entry \in Entries,
         r.at = "connecting" =>
            /\ pooled' # NoClient => ~client'[pooled'].up
            /\ \A x \in Workers : work[x].at # "connecting",
         \A c \in 1 .. connected : client'[c].up =>
            /\ c = work[w].victim => c = r.victim
            /\ c = pooled => c = pooled' \/ c = r.victim
  PROVE  IInv'
  <1>1. /\ work' \in [Workers -> WorkRecord]
        /\ work'[w] = r
        /\ \A x \in Workers \ {w} : work'[x] = work[x]
    BY Sent DEF IInv
  <1>2. Types'
    BY <1>1 DEF IInv, Types, WorkRecord
  <1>3. VictimsClosed' /\ EntryRead'
    BY <1>1 DEF IInv, VictimsClosed, EntryRead
  <1>4. ASSUME pooled' # NoClient, client'[pooled'].up PROVE IsConnected(pooled)
    BY <1>4 DEF IInv, Types, IsConnected
  <1>5. ConnectsAlone'
    BY <1>1, <1>4 DEF IInv, ConnectsAlone, IsConnected
  <1>6. DOMAIN client = 1 .. connected /\ DOMAIN client' = 1 .. connected
    BY DEF IInv, Types
  <1>7. NoStray'
    <2>1. SUFFICES ASSUME NEW c \in 1 .. connected, client'[c].up
                   PROVE  \/ c \in {pooled', removing'}
                          \/ \E x \in Workers : work'[x].victim = c
      BY <1>6 DEF NoStray
    <2>2. client[c].up
      BY <2>1
    <2>3. c \in {pooled, removing} \/ \E x \in Workers : work[x].victim = c
      BY <1>6, <2>2 DEF IInv, NoStray
    <2>4. QED
      BY <1>1, <2>1, <2>3
  <1>8. QED
    BY <1>2, <1>3, <1>5, <1>7 DEF IInv

ClientTypes == [1 .. connected -> [entry: Entries, up: BOOLEAN, cached: BOOLEAN]]

\* Disconnecting a client leaves the others as they are.
LEMMA Disconnected ==
  ASSUME Types, NEW v, Disconnect(v)
  PROVE  /\ client' \in ClientTypes
         /\ \A c \in 1 .. connected : client'[c].up => client[c].up /\ c # v
  BY DEF Types, Disconnect, ClientTypes

LEMMA BeginStep ==
  ASSUME IInv, NEW w \in Workers, NEW op \in Operations, Begin(w, op)
  PROVE  IInv'
  <1> DEFINE up == IsConnected(pooled)
             r  == [at     |-> IF up THEN Using(op)
                               ELSE IF pooled # NoClient THEN "stale" ELSE "queued",
                    op     |-> op,
                    entry  |-> services,
                    client |-> IF up THEN pooled ELSE NoClient,
                    victim |-> IF up THEN NoClient ELSE pooled]
  <1>1. Types
    BY DEF IInv
  <1>2. r.at \in {"waiting", "calling", "pinging", "stale", "queued"}
    BY UsingPlaces
  <1>3. r \in WorkRecord
    BY <1>1, UsingPlaces DEF WorkRecord, Types, Places
  <1>4. r.entry \in Entries
    BY <1>1 DEF Begin, Types, Services
  <1>5. r.victim # NoClient => r.at = "stale"
    OBVIOUS
  <1>6. work[w].victim = NoClient
    BY IdleTyped DEF Begin
  <1>7. \A c \in 1 .. connected : client[c].up => (c = pooled => up)
    BY <1>1, PoolAssumption DEF IsConnected, Types
  <1>8. /\ work' = [work EXCEPT ![w] = r]
        /\ pooled' = IF up THEN pooled ELSE NoClient
        /\ UNCHANGED <<connected, client, removing, services, file>>
    BY DEF Begin, registryVars
  <1>9. \A c \in 1 .. connected : c # NoClient
    BY <1>1, PoolAssumption DEF Types
  <1>10. client' \in [1 .. connected -> [entry: Entries, up: BOOLEAN, cached: BOOLEAN]]
    BY <1>1, <1>8 DEF Types
  <1> HIDE DEF r, up
  <1>11. QED
    BY <1>2, <1>3, <1>4, <1>5, <1>6, <1>7, <1>8, <1>9, <1>10, WorkerStep

\* Ending a worker's request, with the client it was closing, if any, closed.
LEMMA FinishStep ==
  ASSUME IInv, NEW w \in Workers, Finish(w),
         UNCHANGED <<connected, services, file, removing, pooled>>,
         client' \in ClientTypes,
         \A c \in 1 .. connected : client'[c].up => client[c].up /\ c # work[w].victim
  PROVE  IInv'
  <1>1. /\ work' = [work EXCEPT ![w] = Idle]
        /\ client' \in [1 .. connected -> [entry: Entries, up: BOOLEAN, cached: BOOLEAN]]
    BY DEF Finish, ClientTypes
  <1>2. QED
    BY <1>1, IdleTyped, WorkerStep

LEMMA GetsClientStep ==
  ASSUME IInv, NEW w \in Workers, ClosedStale(w) \/ TakeInitLock(w) \/ ConnectFailed(w)
  PROVE  IInv'
  <1>1. Types /\ work[w] \in WorkRecord
    BY DEF IInv, Types, WorkRecord
  <1>2. client \in [1 .. connected -> [entry: Entries, up: BOOLEAN, cached: BOOLEAN]]
    BY <1>1 DEF Types
  <1>3. \A c \in 1 .. connected : c # NoClient
    BY <1>1, PoolAssumption DEF Types
  <1>4. ASSUME ClosedStale(w) PROVE IInv'
    <2> DEFINE r == [work[w] EXCEPT !.at = "queued", !.victim = NoClient]
    <2>1. /\ work' = [work EXCEPT ![w] = r]
          /\ UNCHANGED <<connected, services, file, removing, pooled>>
      BY <1>4 DEF ClosedStale, registryVars
    <2>2. /\ client' \in [1 .. connected -> [entry: Entries, up: BOOLEAN, cached: BOOLEAN]]
          /\ \A c \in 1 .. connected : client'[c].up => client[c].up /\ c # work[w].victim
      <3>1. Disconnect(work[w].victim)
        BY <1>4 DEF ClosedStale
      <3>2. /\ client' \in ClientTypes
            /\ \A c \in 1 .. connected : client'[c].up => client[c].up /\ c # work[w].victim
        BY <1>1, <3>1, Disconnected
      <3>3. QED
        BY <3>2 DEF ClientTypes
    <2>3. r \in WorkRecord /\ r.at = "queued" /\ r.victim = NoClient /\ r.entry = work[w].entry
      BY <1>1 DEF WorkRecord, Places
    <2>4. work[w].entry \in Entries
      BY <1>4 DEF IInv, EntryRead, ClosedStale
    <2> HIDE DEF r
    <2>5. QED
      BY <2>1, <2>2, <2>3, <2>4, WorkerStep
  <1>5. ASSUME TakeInitLock(w) PROVE IInv'
    <2>1. UNCHANGED <<connected, services, file, removing, pooled, client>>
      BY <1>5 DEF TakeInitLock, registryVars
    <2>2. work[w].victim = NoClient /\ work[w].entry \in Entries
      BY <1>5 DEF IInv, VictimsClosed, EntryRead, TakeInitLock
    <2>3. CASE IsConnected(pooled)
      <3> DEFINE r == [work[w] EXCEPT !.at = Using(work[w].op), !.client = pooled]
      <3>1. work' = [work EXCEPT ![w] = r]
        BY <1>5, <2>3 DEF TakeInitLock, GoUsing
      <3>2. Using(work[w].op) \in {"waiting", "calling", "pinging"}
        BY <1>1, UsingPlaces DEF WorkRecord
      <3>3. /\ r \in WorkRecord /\ r.at = Using(work[w].op)
            /\ r.victim = work[w].victim /\ r.entry = work[w].entry
        BY <1>1, <3>2 DEF WorkRecord, Places, Types
      <3> HIDE DEF r
      <3>4. QED
        BY <1>2, <1>3, <2>1, <2>2, <3>1, <3>2, <3>3, WorkerStep
    <2>4. CASE ~IsConnected(pooled)
      <3> DEFINE r == [work[w] EXCEPT !.at = "connecting"]
      <3>1. work' = [work EXCEPT ![w] = r] /\ \A x \in Workers : work[x].at # "connecting"
        BY <1>5, <2>4 DEF TakeInitLock, Go, InitLocked
      <3>2. /\ r \in WorkRecord /\ r.at = "connecting"
            /\ r.victim = work[w].victim /\ r.entry = work[w].entry
        BY <1>1 DEF WorkRecord, Places
      <3>3. pooled # NoClient => ~client[pooled].up
        BY <2>4 DEF IsConnected
      <3> HIDE DEF r
      <3>4. QED
        BY <1>2, <1>3, <2>1, <2>2, <3>1, <3>2, <3>3, WorkerStep
    <2>5. QED
      BY <2>3, <2>4
  <1>6. ASSUME ConnectFailed(w) PROVE IInv'
    <2>1. /\ UNCHANGED <<connected, services, file, removing, pooled, client>>
          /\ work[w].victim = NoClient
          /\ Finish(w)
      BY <1>6 DEF ConnectFailed, registryVars, IInv, VictimsClosed
    <2>2. QED
      BY <1>2, <1>3, <2>1, FinishStep DEF ClientTypes
  <1>7. QED
    BY <1>4, <1>5, <1>6

\* A new client replaces what was pooled, which was not connected.
LEMMA ConnectedStep ==
  ASSUME IInv, NEW w \in Workers, Connected(w)
  PROVE  IInv'
  <1> DEFINE n == connected + 1
             r == [work[w] EXCEPT !.at = Using(work[w].op), !.client = n]
             k == [entry |-> work[w].entry, up |-> TRUE, cached |-> FALSE]
  <1>1. Types /\ work[w] \in WorkRecord /\ connected \in Nat
    BY DEF IInv, Types, WorkRecord
  <1>2. /\ work[w].at = "connecting" /\ connected' = n /\ pooled' = n
        /\ client' = [c \in 1 .. n |-> IF c \in DOMAIN client THEN client[c] ELSE k]
        /\ work' = [work EXCEPT ![w] = r]
        /\ UNCHANGED <<services, file, removing>>
    BY DEF Connected, GoUsing, registryVars
  <1>3. work[w].entry \in Entries /\ work[w].victim = NoClient
    BY <1>2 DEF IInv, EntryRead, VictimsClosed
  <1>4. n \in Nat /\ 1 .. connected \subseteq 1 .. n /\ n \in 1 .. n
        /\ \A c \in 1 .. n : c \in 1 .. connected \/ c = n
    BY <1>1
  <1>5. Using(work[w].op) \in {"waiting", "calling", "pinging"}
    BY <1>1, UsingPlaces DEF WorkRecord
  <1>6. DOMAIN client = 1 .. connected
        /\ \A c \in 1 .. connected : client[c] \in [entry: Entries, up: BOOLEAN, cached: BOOLEAN]
    BY <1>1 DEF Types
  <1>7. k \in [entry: Entries, up: BOOLEAN, cached: BOOLEAN]
    BY <1>3
  <1>8. client' \in [1 .. n -> [entry: Entries, up: BOOLEAN, cached: BOOLEAN]]
    BY <1>2, <1>6, <1>7
  <1>9. /\ r.at = Using(work[w].op) /\ r.op = work[w].op /\ r.entry = work[w].entry
        /\ r.client = n /\ r.victim = NoClient
        /\ r \in [at: Places, op: Operations, entry: Services,
                  client: 1 .. n \cup {NoClient}, victim: 1 .. n \cup {NoClient}]
    BY <1>1, <1>3, <1>4, <1>5 DEF WorkRecord, Places
  <1> HIDE DEF r, k, n
  <1>10. /\ work'[w] = r
         /\ \A x \in Workers \ {w} : work'[x] = work[x]
    BY <1>1, <1>2 DEF Types
  <1>11. \A x \in Workers : work[x] \in [at: Places, op: Operations, entry: Services,
                  client: 1 .. n \cup {NoClient}, victim: 1 .. n \cup {NoClient}]
    <2>1. ASSUME NEW x \in Workers
          PROVE  work[x] \in [at: Places, op: Operations, entry: Services,
                  client: 1 .. n \cup {NoClient}, victim: 1 .. n \cup {NoClient}]
      <3>1. work[x] \in WorkRecord
        BY <1>1 DEF Types, WorkRecord
      <3>2. QED
        BY <1>4, <3>1 DEF WorkRecord
    <2>2. QED
      BY <2>1
  <1>12. work' \in [Workers -> [at: Places, op: Operations, entry: Services,
                  client: 1 .. n \cup {NoClient}, victim: 1 .. n \cup {NoClient}]]
    BY <1>1, <1>2, <1>9, <1>11 DEF Types
  <1>13. Types'
    BY <1>1, <1>2, <1>4, <1>8, <1>12 DEF Types
  <1>14. VictimsClosed' /\ EntryRead'
    BY <1>3, <1>9, <1>10 DEF IInv, VictimsClosed, EntryRead
  <1>15. \A x \in Workers : work'[x].at # "connecting"
    BY <1>2, <1>5, <1>9, <1>10 DEF IInv, ConnectsAlone
  <1>16. ~IsConnected(pooled)
    BY <1>2 DEF IInv, ConnectsAlone
  <1>17. NoStray'
    <2>1. SUFFICES ASSUME NEW c \in 1 .. connected, client[c].up, c # pooled
                   PROVE  c = removing \/ \E x \in Workers : work'[x].victim = c
      <3>1. \A c \in 1 .. connected : client[c].up => c # pooled
        BY <1>1, <1>16, PoolAssumption DEF IsConnected, Types
      <3>2. \A c \in 1 .. n : c = n \/ (c \in 1 .. connected /\ client'[c] = client[c])
        BY <1>2, <1>4, <1>6
      <3>3. DOMAIN client' = 1 .. n
        BY <1>8
      <3>4. QED
        BY <1>2, <2>1, <3>1, <3>2, <3>3 DEF NoStray
    <2>2. c = removing \/ \E x \in Workers : work[x].victim = c
      BY <1>6, <2>1 DEF IInv, NoStray
    <2>3. c # NoClient
      BY <1>1, <2>1, PoolAssumption
    <2>4. QED
      BY <1>3, <1>10, <2>2, <2>3
  <1>18. QED
    BY <1>13, <1>14, <1>15, <1>17 DEF IInv, ConnectsAlone

LEMMA UsesStep ==
  ASSUME IInv, NEW w \in Workers, Uses(w)
  PROVE  IInv'
  <1>1. Types /\ work[w] \in WorkRecord
    BY DEF IInv, Types, WorkRecord
  <1>2. client \in ClientTypes /\ \A c \in 1 .. connected : c # NoClient
    BY <1>1, PoolAssumption DEF Types, ClientTypes
  <1>3. work[w].at \notin {"stale", "dropping"} => work[w].victim = NoClient
    BY DEF IInv, VictimsClosed
  <1>4. work[w].at # "idle" => work[w].entry \in Entries
    BY DEF IInv, EntryRead
  <1>5. ASSUME TakeListLock(w) PROVE IInv'
    <2>1. UNCHANGED <<connected, services, file, removing, pooled, client>> /\ work[w].at = "waiting"
      BY <1>5 DEF TakeListLock, registryVars
    <2>2. CASE Finish(w)
      BY <1>2, <1>3, <2>1, <2>2, FinishStep
    <2>3. CASE Go(w, "listing")
      <3> DEFINE r == [work[w] EXCEPT !.at = "listing"]
      <3>1. work' = [work EXCEPT ![w] = r]
        BY <2>3 DEF Go
      <3>2. /\ r \in WorkRecord /\ r.at = "listing"
            /\ r.victim = work[w].victim /\ r.entry = work[w].entry
        BY <1>1 DEF WorkRecord, Places
      <3> HIDE DEF r
      <3>3. client' \in [1 .. connected -> [entry: Entries, up: BOOLEAN, cached: BOOLEAN]]
        BY <1>2, <2>1 DEF ClientTypes
      <3>4. QED
        BY <1>2, <1>3, <1>4, <2>1, <3>1, <3>2, <3>3, WorkerStep
    <2>4. QED
      BY <1>5, <2>2, <2>3 DEF TakeListLock
  <1>6. ASSUME Listed(w) PROVE IInv'
    <2>1. /\ UNCHANGED <<connected, services, file, removing, pooled>>
          /\ work[w].victim = NoClient /\ Finish(w)
      BY <1>3, <1>6 DEF Listed, registryVars
    <2>2. client' \in ClientTypes /\ \A c \in 1 .. connected : client'[c].up => client[c].up
      BY <1>1, <1>6 DEF Listed, Types, ClientTypes
    <2>3. QED
      BY <1>2, <2>1, <2>2, FinishStep
  <1>7. ASSUME Drop(w), work[w].at \in {"listing", "calling"},
               UNCHANGED <<connected, services, file, removing, client>>
        PROVE  IInv'
    <2>1. CASE pooled = NoClient
      BY <1>2, <1>3, <1>7, <2>1, FinishStep DEF Drop
    <2>2. CASE pooled # NoClient
      <3> DEFINE r == [work[w] EXCEPT !.at = "dropping", !.victim = pooled]
      <3>1. work' = [work EXCEPT ![w] = r] /\ pooled' = NoClient
        BY <1>7, <2>2 DEF Drop
      <3>2. r \in WorkRecord /\ r.at = "dropping" /\ r.victim = pooled /\ r.entry = work[w].entry
        BY <1>1 DEF WorkRecord, Places, Types
      <3> HIDE DEF r
      <3>3. client' \in [1 .. connected -> [entry: Entries, up: BOOLEAN, cached: BOOLEAN]]
        BY <1>2, <1>7 DEF ClientTypes
      <3>4. QED
        BY <1>2, <1>3, <1>4, <1>7, <3>1, <3>2, <3>3, WorkerStep
    <2>3. QED
      BY <2>1, <2>2
  <1>8. ASSUME ListFailed(w) \/ CallFailed(w) PROVE IInv'
    BY <1>7, <1>8 DEF ListFailed, CallFailed, registryVars
  <1>9. ASSUME Answered(w) \/ PingFailed(w) PROVE IInv'
    <2>1. /\ UNCHANGED <<connected, services, file, removing, pooled, client>>
          /\ work[w].victim = NoClient /\ Finish(w)
      BY <1>3, <1>9 DEF Answered, PingFailed, registryVars
    <2>2. QED
      BY <1>2, <2>1, FinishStep
  <1>10. ASSUME Dropped(w) PROVE IInv'
    <2>1. /\ UNCHANGED <<connected, services, file, removing, pooled>>
          /\ Disconnect(work[w].victim) /\ Finish(w)
      BY <1>10 DEF Dropped, registryVars
    <2>2. /\ client' \in ClientTypes
          /\ \A c \in 1 .. connected : client'[c].up => client[c].up /\ c # work[w].victim
      BY <1>1, <2>1, Disconnected
    <2>3. QED
      BY <2>1, <2>2, FinishStep
  <1>11. QED
    BY <1>5, <1>6, <1>8, <1>9, <1>10 DEF Uses

\* A step that only disconnects clients, or takes one out of the pool to be closed.
LEMMA ClientsStep ==
  ASSUME IInv, UNCHANGED <<connected, work>>, client' \in ClientTypes,
         \A c \in 1 .. connected : client'[c].up =>
             client[c].up /\ (c \in {pooled, removing} => c \in {pooled', removing'}),
         pooled' \in {pooled, NoClient}, removing' \in {removing, pooled, NoClient},
         services' \in Services, file' \in Services \cup {Rejected}
  PROVE  IInv'
  <1>1. Types
    BY DEF IInv
  <1>2. Types' /\ VictimsClosed' /\ EntryRead'
    BY DEF IInv, Types, VictimsClosed, EntryRead, ClientTypes
  <1>3. IsConnected(pooled)' => IsConnected(pooled)
    BY <1>1 DEF IsConnected, Types
  <1>4. ConnectsAlone'
    BY <1>3 DEF IInv, ConnectsAlone
  <1>5. DOMAIN client = 1 .. connected /\ DOMAIN client' = 1 .. connected
    BY <1>1 DEF Types, ClientTypes
  <1>6. NoStray'
    BY <1>5 DEF IInv, NoStray
  <1>7. QED
    BY <1>2, <1>4, <1>6 DEF IInv

LEMMA OtherStep ==
  ASSUME IInv,
         \/ \E content \in Services \cup {Rejected} : Write(content) /\ UNCHANGED poolVars
         \/ Poll
         \/ \E c \in DOMAIN client : Break(c) \/ Expire(c)
  PROVE  IInv'
  <1>1. Types
    BY DEF IInv
  <1>2. client \in ClientTypes /\ \A c \in 1 .. connected : c # NoClient
    BY <1>1, PoolAssumption DEF Types, ClientTypes
  <1>3. services \in Services /\ file \in Services \cup {Rejected}
    BY <1>1 DEF Types
  <1>4. ASSUME UNCHANGED poolVars, services' \in Services, file' \in Services \cup {Rejected}
        PROVE  IInv'
    BY <1>2, <1>4, ClientsStep DEF poolVars
  <1>5. ASSUME NEW content \in Services \cup {Rejected}, Write(content), UNCHANGED poolVars PROVE IInv'
    BY <1>3, <1>4, <1>5 DEF Write
  <1>6. ASSUME Reload, UNCHANGED poolVars PROVE IInv'
    <2>1. services' \in Services /\ file' \in Services \cup {Rejected}
      BY <1>3, <1>6 DEF Reload, CheckReload, Parse, Loaded
    <2>2. QED
      BY <1>4, <1>6, <2>1
  <1>7. ASSUME Remove PROVE IInv'
    <2>1. UNCHANGED <<connected, work, client, services, file>>
      BY <1>7 DEF Remove
    <2>2. removing = NoClient /\ pooled' = NoClient /\ removing' = pooled
      BY <1>7 DEF Remove
    <2>3. QED
      BY <1>2, <1>3, <2>1, <2>2, ClientsStep
  <1>8. ASSUME Removed PROVE IInv'
    <2>1. /\ UNCHANGED <<connected, work, pooled, services, file>>
          /\ Disconnect(removing) /\ removing' = NoClient
      BY <1>8 DEF Removed
    <2>2. /\ client' \in ClientTypes
          /\ \A c \in 1 .. connected : client'[c].up => client[c].up /\ c # removing
      BY <1>1, <2>1, Disconnected
    <2>3. QED
      BY <1>2, <1>3, <2>1, <2>2, ClientsStep
  <1>9. ASSUME NEW c \in DOMAIN client, Break(c) \/ Expire(c) PROVE IInv'
    <2>1. UNCHANGED <<connected, work, pooled, removing, services, file>>
      BY <1>9 DEF Break, Expire, registryVars
    <2>2. client' \in ClientTypes /\ \A d \in 1 .. connected : client'[d].up => client[d].up
      <3>1. CASE Break(c)
        BY <1>1, <3>1, Disconnected DEF Break
      <3>2. CASE Expire(c)
        BY <1>1, <3>2 DEF Expire, Types, ClientTypes
      <3>3. QED
        BY <1>9, <3>1, <3>2
    <2>3. QED
      BY <1>3, <2>1, <2>2, ClientsStep
  <1>10. QED
    BY <1>5, <1>6, <1>7, <1>8, <1>9 DEF Poll

LEMMA Begins == Init => IInv
  <1> SUFFICES ASSUME Init PROVE IInv
    OBVIOUS
  <1>1. Types
    <2>1. 1 .. 0 = {}
      OBVIOUS
    <2>2. client \in [1 .. connected -> [entry: Entries, up: BOOLEAN, cached: BOOLEAN]]
      BY <2>1 DEF Init
    <2>3. work \in [Workers -> WorkRecord]
      BY IdleTyped DEF Init
    <2>4. services \in Services /\ file \in Services \cup {Rejected}
      BY DEF Init, RegistryInit, Loaded, Services
    <2>5. QED
      BY <2>2, <2>3, <2>4 DEF Init, Types, WorkRecord
  <1>2. \A w \in Workers : work[w] = Idle
    BY DEF Init
  <1>3. DOMAIN client = {}
    BY DEF Init
  <1>4. QED
    BY <1>1, <1>2, <1>3, IdleTyped DEF IInv, VictimsClosed, EntryRead, ConnectsAlone, NoStray

LEMMA Stepped == IInv /\ [Next]_vars => IInv'
  <1> SUFFICES ASSUME IInv, [Next]_vars PROVE IInv'
    OBVIOUS
  <1>1. ASSUME UNCHANGED vars PROVE IInv'
    BY <1>1 DEF vars, registryVars, poolVars, IInv, Types, VictimsClosed, EntryRead, ConnectsAlone,
                NoStray, IsConnected
  <1>2. ASSUME NEW w \in Workers, GetsClient(w) PROVE IInv'
    BY <1>2, GetsClientStep, ConnectedStep DEF GetsClient
  <1>3. QED
    BY <1>1, <1>2, BeginStep, UsesStep, OtherStep DEF Next

\* No connection is left behind, by any interleaving of requests, failures, breaks and
\* removals: what is connected is pooled, or someone is closing it (ConnectionPool).
THEOREM NothingStray == Spec => []NoStray
  <1>1. IInv => NoStray
    BY DEF IInv
  <1>2. QED
    BY <1>1, Begins, Stepped, PTL DEF Spec

-----------------------------------------------------------------------------
(* Types and bounds, and what the registry holds                           *)

\* Requests that may still connect a client.
MayConnect == {w \in Workers : work[w].at \in {"stale", "queued", "connecting"}}

InBounds == connected + Cardinality(MayConnect) <= MaxClients

\* Once the last write has been looked at and read, a file that can be loaded applies.
SeenApplies == signature = writes /\ poll # "parsing" /\ file # Rejected => services = file

BInv == IInv /\ RegistryTypeOK /\ SeenApplies /\ InBounds

LEMMA Counted ==
  /\ IsFiniteSet(MayConnect) /\ Cardinality(MayConnect) \in Nat
  /\ \A S \in SUBSET MayConnect : IsFiniteSet(S) /\ Cardinality(S) \in Nat
                                  /\ Cardinality(S) <= Cardinality(MayConnect)
  <1>1. MayConnect \in SUBSET Workers /\ IsFiniteSet(Workers)
    BY PoolAssumption DEF MayConnect
  <1>2. IsFiniteSet(MayConnect)
    BY <1>1, FS_Subset
  <1>3. \A S \in SUBSET MayConnect : IsFiniteSet(S) /\ Cardinality(S) <= Cardinality(MayConnect)
    BY <1>2, FS_Subset
  <1>4. QED
    BY <1>2, <1>3, FS_CardinalityType

\* A step that connects nothing and lets nobody begin stays within the bounds.
LEMMA FewerMayConnect ==
  ASSUME BInv, connected' = connected, MayConnect' \in SUBSET MayConnect
  PROVE  InBounds'
  <1>1. connected \in Nat /\ MaxClients \in Nat /\ connected + Cardinality(MayConnect) <= MaxClients
    BY PoolAssumption DEF BInv, IInv, Types, InBounds
  <1>2. Cardinality(MayConnect') <= Cardinality(MayConnect)
        /\ Cardinality(MayConnect') \in Nat /\ Cardinality(MayConnect) \in Nat
    BY Counted
  <1>3. Cardinality(MayConnect)' = Cardinality(MayConnect')
    OBVIOUS
  <1>4. QED
    BY <1>1, <1>2, <1>3 DEF InBounds

LEMMA BeginBounds ==
  ASSUME BInv, NEW w \in Workers, NEW op \in Operations, Begin(w, op)
  PROVE  InBounds'
  <1> DEFINE busy == {x \in Workers : work[x] # Idle}
  <1>1. /\ work \in [Workers -> WorkRecord] /\ connected \in Nat /\ MaxClients \in Nat
        /\ connected + Cardinality(busy) < MaxClients /\ connected' = connected
    BY PoolAssumption DEF BInv, IInv, Types, WorkRecord, Begin, Room
  <1>2. \A x \in Workers \ {w} : work'[x] = work[x]
    BY <1>1 DEF Begin
  <1>3. MayConnect' \in SUBSET (busy \cup {w})
    BY <1>2, IdleTyped DEF MayConnect
  <1>4. busy \in SUBSET Workers /\ IsFiniteSet(Workers)
    BY PoolAssumption
  <1>5. IsFiniteSet(busy)
    BY <1>4, FS_Subset
  <1> HIDE DEF busy
  <1>6. /\ IsFiniteSet(busy \cup {w}) /\ Cardinality(busy) \in Nat
        /\ Cardinality(busy \cup {w}) <= Cardinality(busy) + 1
    <2>1. Cardinality(busy) \in Nat
      BY <1>5, FS_CardinalityType
    <2>2. /\ IsFiniteSet(busy \cup {w})
          /\ Cardinality(busy \cup {w}) \in {Cardinality(busy), Cardinality(busy) + 1}
      BY <1>5, FS_AddElement
    <2>3. QED
      BY <2>1, <2>2
  <1>7. Cardinality(busy \cup {w}) \in Nat
    BY <1>6, FS_CardinalityType
  <1>8. IsFiniteSet(MayConnect') /\ Cardinality(MayConnect') <= Cardinality(busy \cup {w})
    BY <1>3, <1>6, FS_Subset
  <1>9. Cardinality(MayConnect') \in Nat
    BY <1>8, FS_CardinalityType
  <1>10. Cardinality(MayConnect)' = Cardinality(MayConnect')
    OBVIOUS
  <1>11. QED
    BY <1>1, <1>6, <1>7, <1>8, <1>9, <1>10 DEF InBounds

LEMMA ConnectedBounds ==
  ASSUME BInv, NEW w \in Workers, Connected(w)
  PROVE  InBounds'
  <1> DEFINE r == [work[w] EXCEPT !.at = Using(work[w].op), !.client = connected']
  <1>1. /\ work \in [Workers -> WorkRecord] /\ connected \in Nat /\ MaxClients \in Nat
        /\ connected + Cardinality(MayConnect) <= MaxClients
        /\ work[w] \in WorkRecord /\ work[w].at = "connecting"
        /\ connected' = connected + 1 /\ work' = [work EXCEPT ![w] = r]
    BY PoolAssumption DEF BInv, IInv, Types, WorkRecord, InBounds, Connected, GoUsing
  <1>2. r.at \in {"waiting", "calling", "pinging"}
    BY <1>1, UsingPlaces DEF WorkRecord
  <1> HIDE DEF r
  <1>3. MayConnect' = MayConnect \ {w} /\ w \in MayConnect
    BY <1>1, <1>2 DEF MayConnect
  <1>4. Cardinality(MayConnect') = Cardinality(MayConnect) - 1
    BY <1>3, Counted, FS_RemoveElement
  <1>5. Cardinality(MayConnect) \in Nat /\ Cardinality(MayConnect)' = Cardinality(MayConnect')
    BY Counted
  <1>6. QED
    BY <1>1, <1>4, <1>5 DEF InBounds

\* Whoever goes on, but does not connect, gets no nearer to connecting a client.
LEMMA MovesOn ==
  ASSUME BInv, NEW w \in Workers, NEW r, work' = [work EXCEPT ![w] = r],
         connected' = connected,
         r.at \in {"stale", "queued", "connecting"} =>
             work[w].at \in {"stale", "queued", "connecting"}
  PROVE  InBounds'
  <1>1. \A x \in Workers : work'[x] = IF x = w THEN r ELSE work[x]
    <2>1. DOMAIN work = Workers
      BY DEF BInv, IInv, Types
    <2>2. QED
      BY <2>1
  <1>2. MayConnect' \in SUBSET MayConnect
    BY <1>1 DEF MayConnect
  <1>3. QED
    BY <1>2, FewerMayConnect

LEMMA WorkersInBounds ==
  ASSUME BInv, NEW w \in Workers, GetsClient(w) \/ Uses(w)
  PROVE  InBounds'
  <1>1. work[w] \in WorkRecord
    BY DEF BInv, IInv, Types, WorkRecord
  <1>2. Using(work[w].op) \in {"waiting", "calling", "pinging"}
    BY <1>1, UsingPlaces DEF WorkRecord
  <1>3. ASSUME connected' = connected, Finish(w) PROVE InBounds'
    BY <1>3, IdleTyped, MovesOn DEF Finish
  <1>4. ASSUME connected' = connected, NEW place \in {"listing", "connecting"}, Go(w, place),
               place = "connecting" => work[w].at = "queued"
        PROVE  InBounds'
    <2> DEFINE r == [work[w] EXCEPT !.at = place]
    <2>1. work' = [work EXCEPT ![w] = r] /\ r.at = place
      BY <1>1, <1>4 DEF Go, WorkRecord
    <2> HIDE DEF r
    <2>2. QED
      BY <1>4, <2>1, MovesOn
  <1>5. ASSUME connected' = connected, NEW c, GoUsing(w, c) PROVE InBounds'
    <2> DEFINE r == [work[w] EXCEPT !.at = Using(work[w].op), !.client = c]
    <2>1. work' = [work EXCEPT ![w] = r] /\ r.at = Using(work[w].op)
      BY <1>1, <1>5 DEF GoUsing, WorkRecord
    <2> HIDE DEF r
    <2>2. QED
      BY <1>2, <1>5, <2>1, MovesOn
  <1>6. ASSUME connected' = connected, Drop(w) PROVE InBounds'
    <2> DEFINE r == [work[w] EXCEPT !.at = "dropping", !.victim = pooled]
    <2>1. Finish(w) \/ (work' = [work EXCEPT ![w] = r] /\ r.at = "dropping")
      BY <1>1, <1>6 DEF Drop, WorkRecord
    <2> HIDE DEF r
    <2>2. QED
      BY <1>3, <1>6, <2>1, MovesOn
  <1>7. CASE ClosedStale(w)
    <2> DEFINE r == [work[w] EXCEPT !.at = "queued", !.victim = NoClient]
    <2>1. /\ work' = [work EXCEPT ![w] = r] /\ r.at = "queued"
          /\ connected' = connected /\ work[w].at = "stale"
      BY <1>1, <1>7 DEF ClosedStale, WorkRecord
    <2> HIDE DEF r
    <2>2. QED
      BY <2>1, MovesOn
  <1>8. CASE TakeInitLock(w)
    BY <1>4, <1>5, <1>8 DEF TakeInitLock
  <1>9. CASE TakeListLock(w)
    BY <1>3, <1>4, <1>9 DEF TakeListLock
  <1>10. CASE ConnectFailed(w) \/ Listed(w) \/ Answered(w) \/ PingFailed(w) \/ Dropped(w)
    BY <1>3, <1>10 DEF ConnectFailed, Listed, Answered, PingFailed, Dropped
  <1>11. CASE ListFailed(w) \/ CallFailed(w)
    BY <1>6, <1>11 DEF ListFailed, CallFailed
  <1>12. QED
    BY <1>7, <1>8, <1>9, <1>10, <1>11, ConnectedBounds DEF GetsClient, Uses

\* Only a write, a look at the file and a reading of it move the registry.
LEMMA RegistryStep ==
  ASSUME RegistryTypeOK, SeenApplies, [Next]_vars
  PROVE  RegistryTypeOK' /\ SeenApplies'
  <1>1. /\ file \in Services \cup {Rejected} /\ services \in Services
        /\ writes \in Nat /\ writes <= MaxWrites /\ MaxWrites \in Nat
        /\ signature \in Nat /\ signature <= writes
        /\ poll \in {"asleep", "parsing", "removing"}
    BY RegistryAssumption DEF RegistryTypeOK
  <1>2. ASSUME UNCHANGED registryVars PROVE RegistryTypeOK' /\ SeenApplies'
    BY <1>2 DEF registryVars, RegistryTypeOK, SeenApplies
  <1>3. ASSUME NEW content \in Services \cup {Rejected}, Write(content)
        PROVE  RegistryTypeOK' /\ SeenApplies'
    <2>1. /\ writes' = writes + 1 /\ writes < MaxWrites /\ file' = content
          /\ UNCHANGED <<services, signature, poll>>
      BY <1>3 DEF Write
    <2>2. writes' \in 0 .. MaxWrites /\ signature' \in 0 .. writes' /\ signature' # writes'
      BY <1>1, <2>1, RegistryAssumption
    <2>3. QED
      BY <1>1, <2>1, <2>2 DEF RegistryTypeOK, SeenApplies
  <1>4. ASSUME Reload PROVE RegistryTypeOK' /\ SeenApplies'
    <2>1. CASE CheckReload
      <3>1. writes' = writes /\ signature' = writes /\ writes \in 0 .. writes
        BY <1>1, <2>1 DEF CheckReload
      <3>2. QED
        BY <2>1, <3>1 DEF CheckReload, RegistryTypeOK, SeenApplies
    <2>2. CASE Parse
      <3>1. services' \in Services /\ (file # Rejected => services' = file)
        BY <1>1, <2>2 DEF Parse, Loaded
      <3>2. QED
        BY <2>2, <3>1 DEF Parse, RegistryTypeOK, SeenApplies
    <2>3. QED
      BY <1>4, <2>1, <2>2 DEF Reload
  <1>5. ASSUME Remove \/ Removed PROVE RegistryTypeOK' /\ SeenApplies'
    <2>1. /\ UNCHANGED <<file, writes, services, signature>>
          /\ poll = "removing" /\ poll' \in {"asleep", "removing"}
      BY <1>5 DEF Remove, Removed
    <2>2. QED
      BY <2>1 DEF RegistryTypeOK, SeenApplies
  <1>6. ASSUME NEW w \in Workers, GetsClient(w) \/ Uses(w) PROVE UNCHANGED registryVars
    BY <1>6 DEF GetsClient, Uses, ClosedStale, TakeInitLock, Connected, ConnectFailed,
                TakeListLock, Listed, ListFailed, Answered, CallFailed, PingFailed, Dropped
  <1>7. QED
    BY <1>2, <1>3, <1>4, <1>5, <1>6 DEF Next, Poll, Begin, Break, Expire, vars

LEMMA BoundedInit == Init => BInv
  <1> SUFFICES ASSUME Init PROVE BInv
    OBVIOUS
  <1>1. RegistryTypeOK /\ SeenApplies
    <2>1. writes = 0 /\ signature = 0 /\ 0 \in 0 .. 0 /\ 0 \in 0 .. MaxWrites
      BY RegistryAssumption DEF Init, RegistryInit
    <2>2. QED
      BY <2>1 DEF Init, RegistryInit, RegistryTypeOK, SeenApplies, Loaded, Services
  <1>2. MayConnect = {} /\ connected = 0
    BY IdleTyped DEF Init, MayConnect
  <1>3. InBounds
    BY <1>2, FS_EmptySet, PoolAssumption DEF InBounds
  <1>4. QED
    BY <1>1, <1>3, Begins DEF BInv

LEMMA BoundedStep == BInv /\ [Next]_vars => BInv'
  <1> SUFFICES ASSUME BInv, [Next]_vars PROVE BInv'
    OBVIOUS
  <1>1. IInv' /\ RegistryTypeOK' /\ SeenApplies'
    BY Stepped, RegistryStep DEF BInv
  <1>2. ASSUME UNCHANGED <<connected, work>> PROVE InBounds'
    BY <1>2 DEF BInv, InBounds, MayConnect
  <1>3. ASSUME \/ \E content \in Services \cup {Rejected} : Write(content) /\ UNCHANGED poolVars
               \/ Poll
               \/ \E c \in DOMAIN client : Break(c) \/ Expire(c)
               \/ UNCHANGED vars
        PROVE  UNCHANGED <<connected, work>>
    BY <1>3 DEF Poll, Remove, Removed, Break, Expire, poolVars, vars
  <1>4. InBounds'
    BY <1>2, <1>3, BeginBounds, WorkersInBounds DEF Next
  <1>5. QED
    BY <1>1, <1>4 DEF BInv

\* The pool, its clients, the requests that hold them and the registry stay in their
\* types, and requests under way never need more clients than the bound leaves room for.
THEOREM TypeCorrect == Spec => []TypeOK
  <1>1. BInv => TypeOK
    <2> SUFFICES ASSUME BInv PROVE TypeOK
      OBVIOUS
    <2>1. connected \in Nat /\ connected + Cardinality(MayConnect) <= MaxClients
      BY DEF BInv, IInv, Types, InBounds
    <2>2. connected \in 0 .. MaxClients
      BY <2>1, Counted, PoolAssumption
    <2>3. QED
      BY <2>2 DEF BInv, IInv, Types, TypeOK
  <1>2. QED
    BY <1>1, BoundedInit, BoundedStep, PTL DEF Spec

\* However writes of the file fall between the poll loop's looks at it, what applies is
\* what the file says, from the reading that follows the last look on, unless the file
\* cannot be loaded (check_reload and reload record the signature before they read).
THEOREM LastWriteApplies == Spec => []SeenApplies
  <1>1. BInv => SeenApplies
    BY DEF BInv
  <1>2. QED
    BY <1>1, BoundedInit, BoundedStep, PTL DEF Spec
===============================================================================
