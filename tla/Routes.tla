-------------------------------- MODULE Routes --------------------------------
(***************************************************************************)
(* The route map of one destination (gateway/webspec/routes.py) and the    *)
(* contract pins it is built from (ContractPins, methods.py), as requests  *)
(* list the destination's tools again and the operator edits its           *)
(* configuration (_list_tools and _route_map, handlers.py).                *)
(*                                                                         *)
(* A request reads its destination's entry first and then awaits the       *)
(* listing, so the bindings and overrides it rebuilds the map with may be  *)
(* older than the configuration.  Observing the contracts and replacing    *)
(* the map is one step: nothing is awaited in between.                     *)
(*                                                                         *)
(* Paths are tool names and nouns.  Left out are names that are empty or   *)
(* hold a slash: most match no request, and two of them that differ in the *)
(* slashes around them share a key that no move can part.                  *)
(***************************************************************************)
EXTENDS Contracts, FiniteSets

CONSTANTS
    Tools,          \* tool names
    Candidate,      \* per tool name, the key that the table of the route rule gives it
    Listings,       \* what the server may list: functions from the tools listed to Hints
    Configs,        \* what the operator may configure: records with the bindings
                    \* and a function from the tools to their overrides
    Handlers,       \* requests being handled at the same time
    NoConfig

Fallback(t, method) ==
    [method |-> method, path |-> t, definer |-> IF method = "POST" THEN "INVOKE" ELSE ""]

AtFullName(t, k) == [k EXCEPT !.path = t]

\* The keys the rule can give the tools.  An entry is its key.
Key == UNION {{Candidate[t], AtFullName(t, Candidate[t])}
              \cup {Fallback(t, method) : method \in {"GET", "PUT", "POST"}} : t \in Tools}

ASSUME RoutesAssumption ==
    /\ IsFiniteSet(Tools)
    /\ \A t \in Tools : /\ DOMAIN Candidate[t] = {"method", "path", "definer"}
                         /\ Candidate[t].method \in Methods
    /\ \A listing \in Listings : /\ DOMAIN listing \subseteq Tools
                                  /\ listing \in [DOMAIN listing -> Hints]
    /\ \A c \in Configs : c.overrides \in [Tools -> Override]
    /\ NoConfig \notin Configs

-----------------------------------------------------------------------------
(* The route rule *)

Suits(method, c) ==
    /\ method \in Admissible(c)
    /\ c.idempotent \/ method \notin {"PUT", "DELETE"}

FallbackMethod(c) ==
    IF c.read_only THEN "GET"
    ELSE IF c.destructive /\ c.idempotent THEN "PUT" ELSE "POST"

Route(t, c) ==
    IF Suits(Candidate[t].method, c) THEN Candidate[t] ELSE Fallback(t, FallbackMethod(c))

-----------------------------------------------------------------------------
(* Building the map.  A map keeps the contracts and bindings it was built from, the
   tools that the first build moved, the binding pins, and the keys that are open.
   Bindings and pins are sets of pairs of a key and a tool.  *)

Used(entries) == {entries[t] : t \in DOMAIN entries}

Bound(pins) == {p[1] : p \in pins}

At(entries, k) == {t \in DOMAIN entries : entries[t] = k}

\* The entries once the tools in moved are at their full names.
After(entries, moved) ==
    [t \in DOMAIN entries |-> IF t \in moved THEN AtFullName(t, entries[t]) ELSE entries[t]]

\* The tools to move next: those that share a key and are not at their full names yet.
Movable(entries, moved) ==
    LET now == After(entries, moved)
    IN {t \in DOMAIN entries : now[t].path # t /\ At(now, now[t]) # {t}}

\* Faulty variant: what the first round moves is not looked at again.
MovedOnce(entries) == Movable(entries, {})

\* The tools that a build moves in its first n rounds; it ends with a round that moves
\* none.
MovedIn(entries) ==
    LET moved[n \in Nat] ==
          IF n = 0 THEN {} ELSE moved[n - 1] \cup Movable(entries, moved[n - 1])
    IN moved[Cardinality(DOMAIN entries)]

\* Faulty variant: the pins of keys that the new map does not use are dropped.
AssembleForgetful(contracts, bindings, entries, moved, pins) ==
    LET sole(k)   == Cardinality(At(entries, k)) = 1
        holder(k) == CHOOSE t \in At(entries, k) : TRUE
        open      == {k \in Used(entries) :
                         sole(k) /\ (k \notin Bound(pins) \/ <<k, holder(k)>> \in pins \cup bindings)}
    IN [contracts |-> contracts, bindings |-> bindings, entries |-> entries, moved |-> moved,
        pins |-> {<<k, holder(k)>> : k \in open},
        open |-> open]

\* A key is open when no other tool shares it, and it was never bound, is bound to its
\* tool, or the configuration confirms the change.
Assemble(contracts, bindings, entries, moved, pins) ==
    LET sole(k)   == Cardinality(At(entries, k)) = 1
        holder(k) == CHOOSE t \in At(entries, k) : TRUE
        open      == {k \in Used(entries) :
                         sole(k) /\ (k \notin Bound(pins) \/ <<k, holder(k)>> \in pins \cup bindings)}
    IN [contracts |-> contracts, bindings |-> bindings, entries |-> entries, moved |-> moved,
        pins |-> {p \in pins : p[1] \notin open} \cup {<<k, holder(k)>> : k \in open},
        open |-> open]

NoMap == [contracts |-> {}]

Build(contracts) ==
    LET entries == [t \in DOMAIN contracts |-> Route(t, contracts[t])]
        moved   == MovedIn(entries)
    IN Assemble(contracts, {}, After(entries, moved), moved, {})

\* A moved tool stays at its full name unless the bindings return it to its key.
Rebuild(map, contracts, bindings) ==
    LET entry(t) == Route(t, contracts[t])
    IN Assemble(contracts, bindings,
                [t \in DOMAIN contracts |->
                    IF t \in map.moved /\ <<entry(t), t>> \notin bindings
                    THEN AtFullName(t, entry(t))
                    ELSE entry(t)],
                map.moved, map.pins)

Refresh(map, contracts, bindings) ==
    IF map # NoMap /\ map.contracts = contracts /\ map.bindings = bindings
    THEN map
    ELSE Rebuild(IF map = NoMap THEN Build(contracts) ELSE map, contracts, bindings)

\* ContractPins.observe for each tool listed: what is pinned is joined with what is
\* listed, and pins of tools that are not listed stay.
Observe(pins, listing) ==
    [t \in DOMAIN pins \cup DOMAIN listing |->
        IF t \notin DOMAIN listing THEN pins[t]
        ELSE IF t \in DOMAIN pins
             THEN Join(pins[t], FromAnnotations(listing[t]))
             ELSE FromAnnotations(listing[t])]

Effective(pins, listed, overrides) == [t \in listed |-> Overridden(pins[t], overrides[t])]

-----------------------------------------------------------------------------
VARIABLES
    config,         \* the destination's entry in the registry
    contractPins,   \* ContractPins._pins: the contract pinned for each tool seen
    map,            \* route_maps[destination], once it is built
    reading,        \* per handler, the entry it has read while it awaits the listing
    used,           \* the entry that the last listing was used with
    served          \* the tool that each key last served, as pairs

vars == <<config, contractPins, map, reading, used, served>>

TypeOK ==
    /\ config \in Configs
    /\ \E D \in SUBSET Tools : contractPins \in [D -> Contract]
    /\ map # NoMap => /\ \E D \in SUBSET Tools : /\ map.contracts \in [D -> Contract]
                                              /\ map.entries \in [D -> Key]
                     /\ map.moved \subseteq Tools
                     /\ map.pins \subseteq Key \X Tools
    /\ reading \in [Handlers -> Configs \cup {NoConfig}]
    /\ used \in Configs \cup {NoConfig}
    /\ served \subseteq Key \X Tools

Init ==
    /\ config \in Configs
    /\ contractPins = [t \in {} |-> Default]
    /\ map = NoMap
    /\ reading = [h \in Handlers |-> NoConfig]
    /\ used = NoConfig
    /\ served = {}

\* The operator edits the configuration and it is reloaded.  Removing the destination
\* and adding it back is one more edit: pins and maps are kept.
Reconfigure(c) ==
    /\ config' = c
    /\ UNCHANGED <<contractPins, map, reading, used, served>>

Receive(h) ==
    /\ reading[h] = NoConfig
    /\ reading' = [reading EXCEPT ![h] = config]
    /\ UNCHANGED <<config, contractPins, map, used, served>>

\* The listing arrives and the request goes on with the new map, on whatever key it
\* names.
Listed(h, listing) ==
    LET entry     == reading[h]
        observed  == Observe(contractPins, listing)
        contracts == Effective(observed, DOMAIN listing, entry.overrides)
    IN /\ reading[h] # NoConfig
       /\ contractPins' = observed
       /\ map' = Refresh(map, contracts, entry.bindings)
       /\ reading' = [reading EXCEPT ![h] = NoConfig]
       /\ used' = entry
       /\ served' = {p \in served : p[1] \notin map'.open}
                      \cup {<<map'.entries[t], t>> : t \in {u \in DOMAIN listing :
                                                             map'.entries[u] \in map'.open}}
       /\ UNCHANGED config

ListFailed(h) ==
    /\ reading[h] # NoConfig
    /\ reading' = [reading EXCEPT ![h] = NoConfig]
    /\ UNCHANGED <<config, contractPins, map, used, served>>

Next ==
    \/ \E c \in Configs : Reconfigure(c)
    \/ \E h \in Handlers : Receive(h)
    \/ \E h \in Handlers, listing \in Listings : Listed(h, listing)
    \/ \E h \in Handlers : ListFailed(h)

Spec == Init /\ [][Next]_vars

-----------------------------------------------------------------------------
(* Properties *)

\* A key that has served a tool serves another only when the entry the request read
\* confirms it (PA-8), whatever was listed, moved, shared or closed in between.
NoTakeover ==
    [][\A p \in served' \ served : p[1] \in Bound(served) => p \in used'.bindings]_vars

\* The map only narrows the method binding (PA-5): no entry has a method that the
\* contract of its tool does not admit, and no PUT or DELETE reaches a tool whose
\* second call may do more than its first.
RoutesAdmissible ==
    map # NoMap => \A t \in DOMAIN map.entries :
        /\ map.entries[t].method \in Admissible(map.contracts[t])
        /\ map.entries[t].method \in {"PUT", "DELETE"} => map.contracts[t].idempotent

\* "No tool takes another tool's key" (docs/spec/addressing.md, PA-6): the first map gives
\* every tool a key of its own and serves it there, however the moves collide with tools
\* that were at their full names already, unless the configuration returns a moved tool.
FirstMapServes ==
    [][map = NoMap /\ map' # NoMap /\ (\A p \in used'.bindings : p[2] \notin map'.moved) =>
          /\ map'.open = Used(map'.entries)
          /\ \A t \in DOMAIN map'.entries, u \in DOMAIN map'.entries :
                map'.entries[t] = map'.entries[u] => t = u]_vars

\* While its override stays the same, a tool's contract never gets looser, whatever the
\* server lists it as and in which order - but for one case.  Under an override that takes
\* the read-only mark off a tool that was pinned read-only, the tool has the strict
\* defaults until it is first listed as one that changes something; from then on it has
\* what it is listed with.
LoosenedOnlyUnmarked ==
    [][(map # NoMap /\ used' # NoConfig) =>
          \A t \in DOMAIN map.contracts \cap DOMAIN map'.contracts :
              used'.overrides[t] = used.overrides[t] =>
                  \/ NoLooser(map'.contracts[t], map.contracts[t])
                  \/ /\ Unmarks(used.overrides[t])
                     /\ contractPins[t].read_only
                     /\ ~contractPins'[t].read_only]_<<map, used>>

\* docs/spec/methods.md, TC-6: "A server can tighten a contract but can never loosen
\* it. [...] Only an operator override loosens."
NoRugPull ==
    [][(map # NoMap /\ used' # NoConfig) =>
          \A t \in DOMAIN map.contracts \cap DOMAIN map'.contracts :
              used'.overrides[t] = used.overrides[t] =>
                  NoLooser(map'.contracts[t], map.contracts[t])]_<<map, used>>
===============================================================================
