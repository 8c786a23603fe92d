---------------------------------- MODULE Pool ----------------------------------
(***************************************************************************)
(* The connection pool (ConnectionPool, gateway/webspec/pool.py) of one    *)
(* service: requests get its client, list its tools, call one or ping it,  *)
(* while the server may break at any moment and the poll loop may remove   *)
(* the service.  One event loop runs all of them, so what stands between   *)
(* two awaits is one step.                                                 *)
(*                                                                         *)
(* A client that connected once is known by a number.  The fairness below  *)
(* assumes that a server answers the opening of a connection and a listing *)
(* in the end, well or not: the pool sets no timeout on either.            *)
(***************************************************************************)
EXTENDS ServiceRegistry, FiniteSets

CONSTANTS
    Workers,        \* requests that use the pool at the same time
    NoClient,
    MaxClients      \* bound on the clients that connect

Clients == 1 .. MaxClients

ASSUME PoolAssumption ==
    /\ IsFiniteSet(Workers)
    /\ MaxClients \in Nat
    /\ NoClient \notin Nat

Operations == {"list", "call", "ping"}

VARIABLES
    pooled,         \* the client in ConnectionPool._pool
    connected,      \* number of clients that connected so far
    client,         \* per client, what it was created from, whether it is connected, and
                    \* whether its tools are cached
    work,           \* per worker: where it is, its operation, the entry and client it
                    \* holds, and the client it is closing
    removing        \* the client that the poll loop is closing

poolVars == <<pooled, connected, client, work, removing>>

vars == <<registryVars, poolVars>>

Places == {"idle", "stale", "queued", "connecting", "waiting", "listing", "calling",
           "pinging", "dropping"}

Idle == [at |-> "idle", op |-> "ping", entry |-> NoEntry, client |-> NoClient,
         victim |-> NoClient]

TypeOK ==
    /\ RegistryTypeOK
    /\ connected \in 0 .. MaxClients
    /\ pooled \in 1 .. connected \cup {NoClient}
    /\ client \in [1 .. connected -> [entry: Entries, up: BOOLEAN, cached: BOOLEAN]]
    /\ work \in [Workers -> [at: Places, op: Operations, entry: Services,
                             client: 1 .. connected \cup {NoClient},
                             victim: 1 .. connected \cup {NoClient}]]
    /\ removing \in 1 .. connected \cup {NoClient}

Init ==
    /\ RegistryInit
    /\ pooled = NoClient
    /\ connected = 0
    /\ client = [c \in {} |-> Idle]
    /\ work = [w \in Workers |-> Idle]
    /\ removing = NoClient

-----------------------------------------------------------------------------
(* get_client *)

IsConnected(c) == c # NoClient /\ client[c].up

\* Where an operation goes on once it has a client.
Using(op) == CASE op = "list" -> "waiting" [] op = "call" -> "calling" [] op = "ping" -> "pinging"

Go(w, place) == work' = [work EXCEPT ![w].at = place]

GoUsing(w, c) ==
    work' = [work EXCEPT ![w] = [@ EXCEPT !.at = Using(work[w].op), !.client = c]]

Finish(w) == work' = [work EXCEPT ![w] = Idle]

\* MaxClients leaves room for the client that each request under way may create.
Room == connected + Cardinality({w \in Workers : work[w] # Idle}) < MaxClients

\* A service that is not registered is refused.  Else the pooled client serves if it is
\* connected; if not, it is taken out of the pool and closed.
Begin(w, op) ==
    /\ work[w] = Idle
    /\ Room
    /\ services # NoEntry
    /\ work' = [work EXCEPT ![w] =
          [at     |-> IF IsConnected(pooled) THEN Using(op)
                      ELSE IF pooled # NoClient THEN "stale" ELSE "queued",
           op     |-> op,
           entry  |-> services,
           client |-> IF IsConnected(pooled) THEN pooled ELSE NoClient,
           victim |-> IF IsConnected(pooled) THEN NoClient ELSE pooled]]
    /\ pooled' = IF IsConnected(pooled) THEN pooled ELSE NoClient
    /\ UNCHANGED <<registryVars, connected, client, removing>>

Disconnect(c) == client' = [client EXCEPT ![c].up = FALSE]

ClosedStale(w) ==
    /\ work[w].at = "stale"
    /\ Disconnect(work[w].victim)
    /\ work' = [work EXCEPT ![w] = [@ EXCEPT !.at = "queued", !.victim = NoClient]]
    /\ UNCHANGED <<registryVars, pooled, connected, removing>>

InitLocked == \E w \in Workers : work[w].at = "connecting"

\* Faulty variant: the pool is not looked at again under the lock.
TakeInitLockUnchecked(w) ==
    /\ work[w].at = "queued"
    /\ ~InitLocked
    /\ Go(w, "connecting")
    /\ UNCHANGED <<registryVars, pooled, connected, client, removing>>

TakeInitLock(w) ==
    /\ work[w].at = "queued"
    /\ ~InitLocked
    /\ IF IsConnected(pooled) THEN GoUsing(w, pooled) ELSE Go(w, "connecting")
    /\ UNCHANGED <<registryVars, pooled, connected, client, removing>>

\* The new client is created from the entry that was read at the beginning, and replaces
\* what is pooled.
Connected(w) ==
    /\ work[w].at = "connecting"
    /\ connected' = connected + 1
    /\ client' = [c \in 1 .. connected' |->
                     IF c \in DOMAIN client THEN client[c]
                     ELSE [entry |-> work[w].entry, up |-> TRUE, cached |-> FALSE]]
    /\ pooled' = connected'
    /\ GoUsing(w, connected')
    /\ UNCHANGED <<registryVars, removing>>

ConnectFailed(w) ==
    /\ work[w].at = "connecting"
    /\ Finish(w)
    /\ UNCHANGED <<registryVars, pooled, connected, client, removing>>

-----------------------------------------------------------------------------
(* _teardown: whatever client is pooled now is taken out, and then closed.  *)

Drop(w) ==
    /\ pooled' = NoClient
    /\ IF pooled = NoClient
       THEN Finish(w)
       ELSE work' = [work EXCEPT ![w] = [@ EXCEPT !.at = "dropping", !.victim = pooled]]

Dropped(w) ==
    /\ work[w].at = "dropping"
    /\ Disconnect(work[w].victim)
    /\ Finish(w)
    /\ UNCHANGED <<registryVars, pooled, connected, removing>>

-----------------------------------------------------------------------------
(* list_tools, call_tool, ping *)

\* A listing holds the lock of its client until what it drops is closed.
ListLocked(c) ==
    \E w \in Workers : /\ work[w].op = "list"
                       /\ work[w].client = c
                       /\ work[w].at \in {"listing", "dropping"}

TakeListLock(w) ==
    /\ work[w].at = "waiting"
    /\ ~ListLocked(work[w].client)
    /\ IF client[work[w].client].cached THEN Finish(w) ELSE Go(w, "listing")
    /\ UNCHANGED <<registryVars, pooled, connected, client, removing>>

Listed(w) ==
    /\ work[w].at = "listing"
    /\ IsConnected(work[w].client)
    /\ client' = [client EXCEPT ![work[w].client].cached = TRUE]
    /\ Finish(w)
    /\ UNCHANGED <<registryVars, pooled, connected, removing>>

\* Faulty variant: a failed listing is tried again on the same client.
ListFailedRetry(w) ==
    /\ work[w].at = "listing"
    /\ pooled' = NoClient
    /\ Go(w, "waiting")
    /\ UNCHANGED <<registryVars, connected, client, removing>>

ListFailed(w) ==
    /\ work[w].at = "listing"
    /\ Drop(w)
    /\ UNCHANGED <<registryVars, connected, client, removing>>

\* The server answers the call, with a result or with an error of its own, or the ping.
Answered(w) ==
    /\ work[w].at \in {"calling", "pinging"}
    /\ IsConnected(work[w].client)
    /\ Finish(w)
    /\ UNCHANGED <<registryVars, pooled, connected, client, removing>>

\* A timeout, a connection that closed, or any other exception.
CallFailed(w) ==
    /\ work[w].at = "calling"
    /\ Drop(w)
    /\ UNCHANGED <<registryVars, connected, client, removing>>

PingFailed(w) ==
    /\ work[w].at = "pinging"
    /\ Finish(w)
    /\ UNCHANGED <<registryVars, pooled, connected, client, removing>>

\* A server breaks, or its connection does.
Break(c) ==
    /\ IsConnected(c)
    /\ Disconnect(c)
    /\ UNCHANGED <<registryVars, pooled, connected, work, removing>>

\* TOOL_CACHE_TTL is over.
Expire(c) ==
    /\ client[c].cached
    /\ client' = [client EXCEPT ![c].cached = FALSE]
    /\ UNCHANGED <<registryVars, pooled, connected, work, removing>>

-----------------------------------------------------------------------------
(* The poll loop *)

\* remove_service
Remove ==
    /\ poll = "removing"
    /\ removing = NoClient
    /\ pooled' = NoClient
    /\ removing' = pooled
    /\ poll' = IF pooled = NoClient THEN "asleep" ELSE "removing"
    /\ UNCHANGED <<file, writes, services, signature, connected, client, work>>

Removed ==
    /\ poll = "removing"
    /\ removing # NoClient
    /\ Disconnect(removing)
    /\ removing' = NoClient
    /\ poll' = "asleep"
    /\ UNCHANGED <<file, writes, services, signature, pooled, connected, work>>

Poll == (Reload /\ UNCHANGED poolVars) \/ Remove \/ Removed

-----------------------------------------------------------------------------
GetsClient(w) ==
    ClosedStale(w) \/ TakeInitLock(w) \/ Connected(w) \/ ConnectFailed(w)

Uses(w) ==
    \/ TakeListLock(w) \/ Listed(w) \/ ListFailed(w)
    \/ Answered(w) \/ CallFailed(w) \/ PingFailed(w)
    \/ Dropped(w)

Next ==
    \/ \E content \in Services \cup {Rejected} : Write(content) /\ UNCHANGED poolVars
    \/ Poll
    \/ \E w \in Workers, op \in Operations : Begin(w, op)
    \/ \E w \in Workers : GetsClient(w) \/ Uses(w)
    \/ \E c \in DOMAIN client : Break(c) \/ Expire(c)

Spec == Init /\ [][Next]_vars

\* The loop polls for ever, every await ends (a call's by its timeout), and the locks are
\* asyncio's, which serve those who wait in turn.
Fairness ==
    /\ WF_vars(Poll)
    /\ \A w \in Workers : /\ WF_vars(GetsClient(w) \/ Uses(w))
                          /\ SF_vars(TakeInitLock(w))
                          /\ SF_vars(TakeListLock(w))

FairSpec == Spec /\ Fairness

-----------------------------------------------------------------------------
(* Properties *)

\* No connection, and no stdio process with it, is left behind: a client that is connected
\* is the pooled one, or someone is closing it (get_client's double check, _teardown).
NoStray ==
    \A c \in DOMAIN client :
        client[c].up => \/ c \in {pooled, removing}
                        \/ \E w \in Workers : work[w].victim = c

\* Whatever breaks, fails or is removed under it, a request gets its answer or its error:
\* no lock is left held and no failure is retried for ever.
RequestsEnd == \A w \in Workers : work[w] # Idle ~> work[w] = Idle

\* When the writing of the file ends, and ends well, what the file says applies, however
\* the writes fell between the looks at it.
FileApplied == <>[](file # Rejected => services = file)
================================================================================
