----------------------------- MODULE RoutesProofs -----------------------------
(***************************************************************************)
(* What the route map of Routes promises for any tools, candidates,        *)
(* listings, configurations and number of requests.                        *)
(***************************************************************************)
EXTENDS Routes, FiniteSetTheorems, WellFoundedInduction, TLAPS

\* d is c or a stricter contract.
Tighter(d, c) ==
    /\ d.read_only => c.read_only
    /\ c.destructive => d.destructive
    /\ d.idempotent => c.idempotent
    /\ c.open_world => d.open_world
    /\ c.tier <= d.tier

\* What is listed takes away the read-only mark under an override that takes it away too.
UnmarkedTwice(d, c, o) == Unmarks(o) /\ c.read_only /\ ~d.read_only

-----------------------------------------------------------------------------
(* Iteration *)

\* A set of natural numbers has a least one.
LEMMA LeastNatural ==
  ASSUME NEW T, T \subseteq Nat, T # {}
  PROVE  \E n \in T : \A m \in T : n <= m
  <1>1. \E R : /\ IsWellFoundedOn(R, Nat)
               /\ \A x \in Nat, y \in Nat : y < x => <<y, x>> \in R
    <2>1. \A x \in Nat, y \in Nat : y < x => <<y, x>> \in OpToRel(<, Nat)
      BY DEF OpToRel
    <2>2. QED
      BY <2>1, NatLessThanWellFounded
  <1>2. PICK R : /\ IsWellFoundedOn(R, Nat)
                 /\ \A x \in Nat, y \in Nat : y < x => <<y, x>> \in R
    BY <1>1
  <1>3. PICK n \in T : \A m \in T : ~ (<<m, n>> \in R)
    BY <1>2, WFMin
  <1>4. ASSUME NEW m \in T PROVE n <= m
    <2>1. n \in Nat /\ m \in Nat
      OBVIOUS
    <2>2. ~(m < n)
      BY <2>1, <1>2, <1>3
    <2>3. QED BY <2>1, <2>2
  <1>5. QED BY <1>4

\* Induction over the natural numbers, for the set of those that have the property.
LEMMA Induction ==
  ASSUME NEW T, 0 \in T, \A n \in T : n + 1 \in T
  PROVE  Nat \subseteq T
  <1> DEFINE U == Nat \ T
  <1>1. SUFFICES ASSUME U # {} PROVE FALSE
    OBVIOUS
  <1>2. PICK n \in U : \A m \in U : n <= m
    <2>1. U \subseteq Nat
      OBVIOUS
    <2> HIDE DEF U
    <2> QED BY <1>1, <2>1, LeastNatural
  <1>3. n # 0 /\ n \in Nat /\ n - 1 \in Nat
    OBVIOUS
  <1>4. n - 1 \in T
    BY <1>2, <1>3
  <1>5. QED BY <1>3, <1>4

\* The first n + 1 iterates of F from s.
Iterated(F, s, g, n) == g[0] = s /\ \A i \in 0 .. (n - 1) : g[i + 1] = F[g[i]]

LEMMA IteratedUnique ==
  ASSUME NEW F, NEW s, NEW m \in Nat, NEW n \in Nat, NEW g, NEW h,
         Iterated(F, s, g, m), Iterated(F, s, h, n)
  PROVE  \A i \in Nat : i <= m /\ i <= n => g[i] = h[i]
  <1> DEFINE T == {i \in Nat : i <= m /\ i <= n => g[i] = h[i]}
  <1>1. 0 \in T
    BY DEF Iterated
  <1>2. ASSUME NEW i \in T PROVE i + 1 \in T
    <2>1. i \in Nat /\ (i <= m /\ i <= n => g[i] = h[i])
      OBVIOUS
    <2>2. ASSUME i + 1 <= m, i + 1 <= n PROVE g[i + 1] = h[i + 1]
      <3>1. i \in 0 .. (m - 1) /\ i \in 0 .. (n - 1) /\ g[i] = h[i]
        BY <2>1, <2>2
      <3>2. g[i + 1] = F[g[i]] /\ h[i + 1] = F[h[i]]
        BY <3>1 DEF Iterated
      <3> QED BY <3>1, <3>2
    <2> QED BY <2>1, <2>2
  <1> HIDE DEF T
  <1>3. Nat \subseteq T
    BY <1>1, <1>2, Induction
  <1> QED BY <1>3 DEF T

\* A function on a set can be iterated for ever.
LEMMA Iterates ==
  ASSUME NEW S, NEW s \in S, NEW F \in [S -> S]
  PROVE  \E f \in [Nat -> S] : f[0] = s /\ \A n \in Nat : f[n + 1] = F[f[n]]
  <1> DEFINE T == {n \in Nat : \E g \in [0 .. n -> S] : Iterated(F, s, g, n)}
  <1>1. 0 \in T
    <2>1. [i \in 0 .. 0 |-> s] \in [0 .. 0 -> S] /\ Iterated(F, s, [i \in 0 .. 0 |-> s], 0)
      BY DEF Iterated
    <2> QED BY <2>1
  <1>2. ASSUME NEW n \in T PROVE n + 1 \in T
    <2>1. n \in Nat
      OBVIOUS
    <2>2. PICK g \in [0 .. n -> S] : Iterated(F, s, g, n)
      OBVIOUS
    <2> DEFINE h == [i \in 0 .. (n + 1) |-> IF i = n + 1 THEN F[g[n]] ELSE g[i]]
    <2>3. n \in 0 .. n /\ \A i \in 0 .. (n + 1) : i # n + 1 => i \in 0 .. n
      BY <2>1
    <2>4. g[n] \in S /\ F[g[n]] \in S
      BY <2>2, <2>3
    <2>5. \A i \in 0 .. (n + 1) : (IF i = n + 1 THEN F[g[n]] ELSE g[i]) \in S
      BY <2>2, <2>3, <2>4
    <2>6. h \in [0 .. (n + 1) -> S]
      BY <2>5
    <2>7. /\ \A i \in 0 .. n : h[i] = g[i]
          /\ h[n + 1] = F[g[n]]
      BY <2>1
    <2> HIDE DEF h
    <2>8. Iterated(F, s, h, n + 1)
      <3>1. h[0] = s
        BY <2>1, <2>2, <2>7 DEF Iterated
      <3>2. ASSUME NEW i \in 0 .. (n + 1 - 1) PROVE h[i + 1] = F[h[i]]
        <4>1. i \in 0 .. n /\ h[i] = g[i]
          BY <2>1, <2>7
        <4>2. CASE i = n
          BY <4>1, <4>2, <2>7
        <4>3. CASE i # n
          <5>1. i \in 0 .. (n - 1) /\ i + 1 \in 0 .. n
            BY <2>1, <4>1, <4>3
          <5>2. g[i + 1] = F[g[i]]
            BY <2>2, <5>1 DEF Iterated
          <5> QED BY <4>1, <5>1, <5>2, <2>7
        <4> QED BY <4>2, <4>3
      <3> QED BY <3>1, <3>2 DEF Iterated
    <2> QED BY <2>1, <2>6, <2>8
  <1>3. \A n \in Nat : \E g \in [0 .. n -> S] : Iterated(F, s, g, n)
    <2> HIDE DEF T
    <2>1. Nat \subseteq T
      BY <1>1, <1>2, Induction
    <2> QED BY <2>1 DEF T
  <1> DEFINE first(n) == CHOOSE g \in [0 .. n -> S] : Iterated(F, s, g, n)
             f == [n \in Nat |-> first(n)[n]]
  <1>4. \A n \in Nat : first(n) \in [0 .. n -> S] /\ Iterated(F, s, first(n), n)
    BY <1>3
  <1> HIDE DEF first
  <1>5. \A n \in Nat : first(n)[n] \in S
    <2>1. \A n \in Nat : n \in 0 .. n
      OBVIOUS
    <2> QED BY <2>1, <1>4
  <1>6. f[0] = s
    BY <1>4 DEF Iterated
  <1>7. ASSUME NEW n \in Nat PROVE f[n + 1] = F[f[n]]
    <2>1. n + 1 \in Nat /\ n \in 0 .. (n + 1 - 1) /\ n <= n + 1 /\ n <= n
      OBVIOUS
    <2>2. first(n + 1)[n + 1] = F[first(n + 1)[n]]
      BY <2>1, <1>4 DEF Iterated
    <2>3. first(n + 1)[n] = first(n)[n]
      BY <2>1, <1>4, IteratedUnique
    <2> QED BY <2>1, <2>2, <2>3
  <1> QED BY <1>5, <1>6, <1>7

-----------------------------------------------------------------------------
(* Contracts *)

LEMMA DefaultTyped == Default \in Contract
  BY DEF Default, Contract, Tiers

LEMMA AnnotationsTyped ==
  ASSUME NEW h \in Hints
  PROVE  FromAnnotations(h) \in Contract
  <1> DEFINE derived ==
        IF ~h.annotated THEN Default
        ELSE IF h.read_only
             THEN [read_only |-> TRUE, destructive |-> FALSE, idempotent |-> TRUE,
                   open_world |-> h.open_world, tier |-> 0]
             ELSE [read_only |-> FALSE, destructive |-> h.destructive,
                   idempotent |-> h.idempotent, open_world |-> h.open_world, tier |-> 1]
  <1>1. derived \in Contract
    <2>1. CASE ~h.annotated
      BY <2>1, DefaultTyped
    <2>2. CASE h.annotated /\ h.read_only
      BY <2>2 DEF Contract, Hints, Tiers
    <2>3. CASE h.annotated /\ ~h.read_only
      BY <2>3 DEF Contract, Hints, Tiers
    <2> QED BY <2>1, <2>2, <2>3
  <1>2. FromAnnotations(h) = [derived EXCEPT !.tier = Higher(@, h.tier)]
    BY DEF FromAnnotations
  <1>3. Higher(derived.tier, h.tier) \in Tiers
    BY <1>1 DEF Contract, Hints, Higher
  <1> HIDE DEF derived
  <1> QED
    BY <1>1, <1>2, <1>3 DEF Contract

\* What is pinned is at least as strict as what was pinned before, whatever is listed.
LEMMA JoinTightens ==
  ASSUME NEW c \in Contract, NEW d \in Contract
  PROVE  Join(c, d) \in Contract /\ Tighter(Join(c, d), c)
  BY DEF Join, Contract, Tiers, Higher, Tighter

LEMMA OverriddenTier ==
  ASSUME NEW c \in Contract, NEW o \in Override
  PROVE  Overridden(c, o).tier \in Tiers
  BY DEF Overridden, Contract, Override, Strictest, Default, Tiers

\* An override keeps the order of two contracts, unless it takes the read-only mark away
\* from the one and the other has none.
LEMMA OverriddenMonotone ==
  ASSUME NEW c \in Contract, NEW d \in Contract, Tighter(d, c),
         NEW o \in Override, ~UnmarkedTwice(d, c, o)
  PROVE  Tighter(Overridden(d, o), Overridden(c, o))
  <1> DEFINE C == Overridden(c, o)
             D == Overridden(d, o)
  <1>1. CASE ~o.valid
    BY <1>1 DEF Overridden, Tighter, Strictest, Default
  <1>2. CASE o.valid /\ (~Unmarks(o) \/ ~c.read_only)
    <2>1. /\ ~(c.read_only /\ ~Flag(o, c, "read_only"))
          /\ ~(d.read_only /\ ~Flag(o, d, "read_only"))
          /\ Flag(o, d, "read_only") => Flag(o, c, "read_only")
      BY <1>2 DEF Flag, Unmarks, Tighter
    <2>2. C = [read_only |-> Flag(o, c, "read_only"),
               destructive |-> ~Flag(o, c, "read_only") /\ Flag(o, c, "destructive"),
               idempotent |-> Flag(o, c, "read_only") \/ Flag(o, c, "idempotent"),
               open_world |-> Flag(o, c, "open_world"),
               tier |-> IF o.tier = -1 THEN c.tier ELSE o.tier]
      BY <1>2, <2>1 DEF Overridden
    <2>3. D = [read_only |-> Flag(o, d, "read_only"),
               destructive |-> ~Flag(o, d, "read_only") /\ Flag(o, d, "destructive"),
               idempotent |-> Flag(o, d, "read_only") \/ Flag(o, d, "idempotent"),
               open_world |-> Flag(o, d, "open_world"),
               tier |-> IF o.tier = -1 THEN d.tier ELSE o.tier]
      BY <1>2, <2>1 DEF Overridden
    <2>4. Flag(o, c, "open_world") => Flag(o, d, "open_world")
      BY DEF Flag, Tighter
    <2>5. Flag(o, c, "destructive") => Flag(o, d, "destructive")
      BY DEF Flag, Tighter
    <2>6. Flag(o, d, "idempotent") => Flag(o, c, "idempotent")
      BY DEF Flag, Tighter
    <2>7. D.tier >= C.tier
      BY <2>2, <2>3 DEF Tighter, Contract, Override, Tiers
    <2>8. Flag(o, d, "read_only") => Flag(o, c, "read_only")
      BY <2>1
    <2>9. C.read_only = Flag(o, c, "read_only") /\ D.read_only = Flag(o, d, "read_only")
      BY <2>2, <2>3
    <2>10. C.open_world = Flag(o, c, "open_world") /\ D.open_world = Flag(o, d, "open_world")
      BY <2>2, <2>3
    <2>11. /\ C.idempotent = (Flag(o, c, "read_only") \/ Flag(o, c, "idempotent"))
           /\ D.idempotent = (Flag(o, d, "read_only") \/ Flag(o, d, "idempotent"))
      BY <2>2, <2>3
    <2>12. /\ C.destructive = (~Flag(o, c, "read_only") /\ Flag(o, c, "destructive"))
           /\ D.destructive = (~Flag(o, d, "read_only") /\ Flag(o, d, "destructive"))
      BY <2>2, <2>3
    <2> HIDE DEF C, D
    <2>13. Tighter(D, C)
      BY <2>4, <2>5, <2>6, <2>7, <2>8, <2>9, <2>10, <2>11, <2>12 DEF Tighter
    <2> QED
      BY <2>13 DEF C, D
  <1>3. CASE o.valid /\ Unmarks(o) /\ c.read_only
    <2>1. d.read_only /\ ~Flag(o, c, "read_only") /\ ~Flag(o, d, "read_only")
      BY <1>3 DEF UnmarkedTwice, Flag, Unmarks
    <2>2. D = C
      BY <1>3, <2>1 DEF Overridden
    <2>3. C.tier \in Tiers
      BY OverriddenTier
    <2> HIDE DEF C, D
    <2>4. Tighter(D, C)
      BY <2>2, <2>3 DEF Tighter, Tiers
    <2> QED BY <2>4 DEF C, D
  <1> QED BY <1>1, <1>2, <1>3

\* Under a stricter contract GET reaches no tool it did not reach, and a method that
\* both contracts admit needs no less.
LEMMA TighterIsNoLooser ==
  ASSUME NEW c, NEW d, Tighter(d, c), c.tier \in Tiers, d.tier \in Tiers
  PROVE  NoLooser(d, c)
  <1>1. "GET" \in Admissible(d) => "GET" \in Admissible(c)
    BY DEF Admissible, Tighter
  <1>2. Risk(c) \in 0 .. 2 /\ Risk(d) \in 0 .. 2
    BY DEF Risk
  <1>3. ASSUME NEW method \in Admissible(c) \cap Admissible(d), NEW level \in Levels,
               ~c.read_only
        PROVE  Requires(method, c, level) \subseteq Requires(method, d, level)
    BY <1>3, <1>2 DEF Requires, Tighter, Tiers, Levels, Risk
  <1>4. ASSUME NEW method \in Admissible(c) \cap Admissible(d), NEW level \in Levels,
               c.read_only
        PROVE  Requires(method, c, level) \subseteq Requires(method, d, level)
    BY <1>4, <1>2 DEF Requires, Tighter, Tiers, Levels, Risk, Admissible
  <1> QED BY <1>1, <1>3, <1>4 DEF NoLooser

-----------------------------------------------------------------------------
(* The route rule *)

\* The fallback method suits every contract.
LEMMA RouteSuits ==
  ASSUME NEW t \in Tools, NEW c
  PROVE  /\ Suits(Route(t, c).method, c)
         /\ DOMAIN Route(t, c) = {"method", "path", "definer"}
  <1>1. Suits(FallbackMethod(c), c)
    BY DEF Suits, FallbackMethod, Admissible
  <1>2. /\ Fallback(t, FallbackMethod(c)).method = FallbackMethod(c)
        /\ DOMAIN Fallback(t, FallbackMethod(c)) = {"method", "path", "definer"}
    BY DEF Fallback
  <1>3. DOMAIN Candidate[t] = {"method", "path", "definer"}
    BY RoutesAssumption
  <1> QED BY <1>1, <1>2, <1>3 DEF Route

\* At its full name a tool keeps its method.
LEMMA FullNameKeepsMethod ==
  ASSUME NEW t, NEW k, DOMAIN k = {"method", "path", "definer"}
  PROVE  AtFullName(t, k).method = k.method
  BY DEF AtFullName

\* What a build or a rebuild hands to Assemble: each tool at the key the rule gives it
\* under its contract, or at its full name.
Placed(entries, contracts) ==
    /\ DOMAIN entries = DOMAIN contracts
    /\ \A t \in DOMAIN contracts :
          entries[t] \in {Route(t, contracts[t]), AtFullName(t, Route(t, contracts[t]))}

LEMMA PlacedSuits ==
  ASSUME NEW entries, NEW contracts, DOMAIN contracts \subseteq Tools,
         Placed(entries, contracts), NEW t \in DOMAIN contracts
  PROVE  Suits(entries[t].method, contracts[t])
  BY RouteSuits, FullNameKeepsMethod DEF Placed

\* The binding pins of a map have one tool for each key.
OneHolder(pins) == \A p \in pins, q \in pins : p[1] = q[1] => p = q

\* What every map satisfies: its entries are placed, and each open key has one tool, to
\* which it is pinned.
Sound(m) ==
    /\ DOMAIN m.contracts \subseteq Tools
    /\ Placed(m.entries, m.contracts)
    /\ OneHolder(m.pins)
    /\ \A t \in DOMAIN m.entries : m.entries[t] \in m.open =>
          /\ <<m.entries[t], t>> \in m.pins
          /\ \A u \in DOMAIN m.entries : m.entries[u] = m.entries[t] => u = t

LEMMA AssembleSound ==
  ASSUME NEW contracts, NEW bindings, NEW entries, NEW moved, NEW pins,
         DOMAIN contracts \subseteq Tools, Placed(entries, contracts), OneHolder(pins),
         NEW m, m = Assemble(contracts, bindings, entries, moved, pins)
  PROVE  /\ m # NoMap /\ Sound(m)
         /\ m.contracts = contracts
         /\ \A p \in pins : p[1] \notin m.open => p \in m.pins
         /\ \A t \in DOMAIN m.entries : m.entries[t] \in m.open /\ m.entries[t] \in Bound(pins) =>
               <<m.entries[t], t>> \in pins \cup bindings
  <1> DEFINE sole(k)   == Cardinality(At(entries, k)) = 1
             holder(k) == CHOOSE t \in At(entries, k) : TRUE
             open      == {k \in Used(entries) :
                             sole(k) /\ (k \notin Bound(pins)
                                           \/ <<k, holder(k)>> \in pins \cup bindings)}
             newPins   == {p \in pins : p[1] \notin open} \cup {<<k, holder(k)>> : k \in open}
  <1>1. /\ m.contracts = contracts /\ m.entries = entries
        /\ m.open = open /\ m.pins = newPins
        /\ "pins" \in DOMAIN m
    BY DEF Assemble
  <1>2. m # NoMap
    <2>1. "pins" \notin DOMAIN NoMap
      BY DEF NoMap
    <2> QED BY <1>1, <2>1
  <1>3. ASSUME NEW t \in DOMAIN entries, entries[t] \in open
        PROVE  /\ holder(entries[t]) = t
               /\ \A u \in DOMAIN entries : entries[u] = entries[t] => u = t
    <2>1. At(entries, entries[t]) \in SUBSET Tools
      BY DEF At, Placed
    <2>2. IsFiniteSet(At(entries, entries[t]))
      BY <2>1, RoutesAssumption, FS_Subset
    <2>3. PICK x : At(entries, entries[t]) = {x}
      BY <1>3, <2>2, FS_Singleton
    <2> QED BY <2>3 DEF At
  <1> HIDE DEF holder, open
  <1>4. OneHolder(newPins)
    BY DEF OneHolder
  <1>5. \A t \in DOMAIN entries : entries[t] \in open => <<entries[t], t>> \in newPins
    BY <1>3
  <1>6. Sound(m)
    BY <1>1, <1>3, <1>4, <1>5 DEF Sound
  <1>7. \A t \in DOMAIN entries : entries[t] \in open /\ entries[t] \in Bound(pins) =>
           <<entries[t], t>> \in pins \cup bindings
    BY <1>3 DEF open
  <1> QED BY <1>1, <1>2, <1>6, <1>7

\* Where no two tools share a key, each key that was never bound, or bound to its tool, is
\* open.
LEMMA AllOpen ==
  ASSUME NEW contracts, NEW bindings, NEW entries, NEW moved, NEW pins,
         \A t \in DOMAIN entries, u \in DOMAIN entries : entries[t] = entries[u] => t = u,
         \A t \in DOMAIN entries : entries[t] \notin Bound(pins) \/ <<entries[t], t>> \in pins,
         NEW m, m = Assemble(contracts, bindings, entries, moved, pins)
  PROVE  m.open = Used(m.entries)
  <1> DEFINE sole(k)   == Cardinality(At(entries, k)) = 1
             holder(k) == CHOOSE t \in At(entries, k) : TRUE
             open      == {k \in Used(entries) :
                             sole(k) /\ (k \notin Bound(pins)
                                           \/ <<k, holder(k)>> \in pins \cup bindings)}
  <1>1. m.entries = entries /\ m.open = open
    BY DEF Assemble
  <1>2. ASSUME NEW t \in DOMAIN entries PROVE entries[t] \in open
    <2>1. At(entries, entries[t]) = {t}
      BY DEF At
    <2>2. sole(entries[t]) /\ holder(entries[t]) = t
      BY <2>1, FS_Singleton
    <2> HIDE DEF sole, holder
    <2> QED BY <2>2 DEF Used
  <1> HIDE DEF open
  <1>3. open \subseteq Used(entries)
    BY DEF open
  <1> QED BY <1>1, <1>2, <1>3 DEF Used

-----------------------------------------------------------------------------
(* The first build *)

LEMMA MovableIs ==
  ASSUME NEW entries, NEW moved,
         \A t \in DOMAIN entries : "path" \in DOMAIN entries[t]
  PROVE  /\ Movable(entries, moved) \subseteq DOMAIN entries
         /\ Movable(entries, moved) \cap moved = {}
         /\ \A t \in DOMAIN entries :
               \/ t \in Movable(entries, moved)
               \/ After(entries, moved)[t].path = t
               \/ At(After(entries, moved), After(entries, moved)[t]) = {t}
  <1>1. \A t \in DOMAIN entries : t \in moved => After(entries, moved)[t].path = t
    BY DEF After, AtFullName
  <1> QED BY <1>1 DEF Movable

\* The rounds of a build: each moves what is still to move.
LEMMA Rounds ==
  ASSUME NEW entries, IsFiniteSet(DOMAIN entries)
  PROVE  \E f \in [Nat -> SUBSET DOMAIN entries] :
            /\ f[0] = {}
            /\ \A n \in Nat : f[n + 1] = f[n] \cup Movable(entries, f[n])
            /\ MovedIn(entries) = f[Cardinality(DOMAIN entries)]
  <1> DEFINE S == SUBSET DOMAIN entries
             F == [X \in S |-> X \cup Movable(entries, X)]
             round(m, n) == IF n = 0 THEN {} ELSE m[n - 1] \cup Movable(entries, m[n - 1])
             moved == CHOOSE m : m = [n \in Nat |-> round(m, n)]
  <1>1. {} \in S /\ F \in [S -> S]
    BY DEF Movable
  <1> HIDE DEF F
  <1>2. PICK f \in [Nat -> S] : f[0] = {} /\ \A n \in Nat : f[n + 1] = F[f[n]]
    <2> HIDE DEF S
    <2>1. ASSUME NEW s \in S PROVE \E f \in [Nat -> S] : f[0] = s /\ \A n \in Nat : f[n + 1] = F[f[n]]
      BY <1>1, Iterates
    <2> QED BY <1>1, <2>1
  <1>3. \A n \in Nat : f[n + 1] = f[n] \cup Movable(entries, f[n])
    BY <1>2 DEF F
  <1>4. f = [n \in Nat |-> round(f, n)]
    <2>1. ASSUME NEW n \in Nat PROVE f[n] = round(f, n)
      <3>1. CASE n = 0
        BY <3>1, <1>2
      <3>2. CASE n # 0
        <4>1. n - 1 \in Nat /\ n = n - 1 + 1
          BY <3>2
        <4>2. f[n - 1 + 1] = f[n - 1] \cup Movable(entries, f[n - 1])
          BY <4>1, <1>3
        <4> QED BY <3>2, <4>1, <4>2
      <3> QED BY <3>1, <3>2
    <2> HIDE DEF round, S
    <2> QED BY <2>1, <1>2
  <1>5. moved = [n \in Nat |-> round(moved, n)]
    <2> HIDE DEF round
    <2> QED BY <1>4
  <1>6. MovedIn(entries) = moved[Cardinality(DOMAIN entries)]
    BY DEF MovedIn
  <1> HIDE DEF moved
  <1>7. \A n \in Nat : moved[n] = round(moved, n)
    <2> HIDE DEF round
    <2> QED BY <1>5
  <1>8. \A n \in Nat : moved[n] = f[n]
    <2> DEFINE T == {n \in Nat : moved[n] = f[n]}
    <2>1. 0 \in T
      BY <1>2, <1>7
    <2>2. ASSUME NEW n \in T PROVE n + 1 \in T
      <3>1. n \in Nat /\ n + 1 \in Nat /\ n + 1 # 0 /\ n + 1 - 1 = n /\ moved[n] = f[n]
        OBVIOUS
      <3>2. moved[n + 1] = round(moved, n + 1)
        BY <3>1, <1>7
      <3>3. round(moved, n + 1) = moved[n] \cup Movable(entries, moved[n])
        BY <3>1
      <3> QED BY <3>1, <3>2, <3>3, <1>3
    <2> HIDE DEF T
    <2>3. Nat \subseteq T
      BY <2>1, <2>2, Induction
    <2> QED BY <2>3 DEF T
  <1>9. Cardinality(DOMAIN entries) \in Nat
    BY FS_CardinalityType
  <1> QED BY <1>2, <1>3, <1>6, <1>8, <1>9

\* A set that grows within N elements, by what depends on it alone, is still by round N.
LEMMA GrowthEnds ==
  ASSUME NEW D, IsFiniteSet(D), NEW f \in [Nat -> SUBSET D],
         \A n \in Nat : f[n] \subseteq f[n + 1],
         \A n \in Nat : f[n + 1] = f[n] => f[n + 2] = f[n + 1]
  PROVE  f[Cardinality(D) + 1] = f[Cardinality(D)]
  <1> DEFINE N == Cardinality(D)
  <1>1. N \in Nat
    BY FS_CardinalityType
  <1>2. \A n \in Nat : IsFiniteSet(f[n]) /\ Cardinality(f[n]) \in Nat /\ Cardinality(f[n]) <= N
    BY FS_Subset, FS_CardinalityType
  <1> HIDE DEF N
  <1>3. SUFFICES ASSUME f[N + 1] # f[N] PROVE FALSE
    BY DEF N
  <1> DEFINE T == {n \in Nat : n <= N + 1 => n <= Cardinality(f[n])}
             U == {n \in Nat : n <= N => f[N - n + 1] # f[N - n]}
  <1>4. 0 \in U
    BY <1>1, <1>3
  <1>5. ASSUME NEW n \in U PROVE n + 1 \in U
    <2>1. n \in Nat /\ (n <= N => f[N - n + 1] # f[N - n])
      OBVIOUS
    <2>2. ASSUME n + 1 <= N, f[N - (n + 1) + 1] = f[N - (n + 1)] PROVE FALSE
      <3> DEFINE k == N - (n + 1)
      <3>1. k \in Nat /\ k + 1 = N - n /\ k + 2 = N - n + 1 /\ n <= N
        BY <2>1, <2>2, <1>1
      <3>2. f[k + 1] = f[k]
        BY <2>2
      <3> HIDE DEF k
      <3> QED BY <2>1, <3>1, <3>2
    <2> QED BY <2>1, <2>2
  <1>6. \A n \in Nat : n <= N => f[n + 1] # f[n]
    <2> HIDE DEF U
    <2>1. Nat \subseteq U
      BY <1>4, <1>5, Induction
    <2>2. ASSUME NEW n \in Nat, n <= N PROVE f[n + 1] # f[n]
      <3>1. N - n \in U /\ N - n \in Nat /\ N - n <= N /\ N - (N - n) = n
        BY <2>1, <2>2, <1>1
      <3>2. f[N - (N - n) + 1] # f[N - (N - n)]
        BY <3>1 DEF U
      <3> QED BY <3>1, <3>2
    <2> QED BY <2>2
  <1>7. 0 \in T
    BY <1>2
  <1>8. ASSUME NEW n \in T PROVE n + 1 \in T
    <2>1. n \in Nat /\ n + 1 \in Nat /\ (n <= N + 1 => n <= Cardinality(f[n]))
      OBVIOUS
    <2>2. ASSUME n + 1 <= N + 1 PROVE n + 1 <= Cardinality(f[n + 1])
      <3>1. n <= N /\ n <= Cardinality(f[n])
        BY <1>1, <2>1, <2>2
      <3>2. f[n] \subseteq f[n + 1] /\ f[n] # f[n + 1]
        BY <1>6, <2>1, <3>1
      <3>3. Cardinality(f[n]) < Cardinality(f[n + 1])
        <4>1. IsFiniteSet(f[n + 1]) /\ Cardinality(f[n + 1]) \in Nat /\ Cardinality(f[n]) \in Nat
          BY <1>2, <2>1
        <4>2. Cardinality(f[n]) <= Cardinality(f[n + 1])
              /\ Cardinality(f[n]) # Cardinality(f[n + 1])
          BY <4>1, <3>2, FS_Subset
        <4> QED BY <4>1, <4>2
      <3> QED BY <1>2, <2>1, <3>1, <3>3
    <2> QED BY <2>1, <2>2
  <1>9. N + 1 <= Cardinality(f[N + 1])
    <2> HIDE DEF T
    <2>1. Nat \subseteq T
      BY <1>7, <1>8, Induction
    <2>2. N + 1 \in T
      BY <1>1, <2>1
    <2> QED BY <1>1, <2>2 DEF T
  <1>10. N + 1 \in Nat
    BY <1>1
  <1> QED BY <1>1, <1>2, <1>9, <1>10

\* A build ends: after as many rounds as there are tools nothing is left to move.
LEMMA MovesEnd ==
  ASSUME NEW entries, IsFiniteSet(DOMAIN entries),
         \A t \in DOMAIN entries : "path" \in DOMAIN entries[t]
  PROVE  MovedIn(entries) \subseteq DOMAIN entries /\ Movable(entries, MovedIn(entries)) = {}
  <1> DEFINE D == DOMAIN entries
             N == Cardinality(D)
  <1>1. PICK f \in [Nat -> SUBSET D] :
           /\ f[0] = {}
           /\ \A n \in Nat : f[n + 1] = f[n] \cup Movable(entries, f[n])
           /\ MovedIn(entries) = f[N]
    BY Rounds
  <1>2. N \in Nat
    BY FS_CardinalityType
  <1>3. \A n \in Nat : f[n] \subseteq f[n + 1]
    BY <1>1
  <1>4. ASSUME NEW n \in Nat, f[n + 1] = f[n] PROVE f[n + 2] = f[n + 1]
    <2>1. n + 1 \in Nat /\ n + 1 + 1 = n + 2
      OBVIOUS
    <2> QED BY <1>1, <1>4, <2>1
  <1>5. f[N + 1] = f[N]
    <2> HIDE DEF D
    <2>1. IsFiniteSet(D)
      BY DEF D
    <2> QED BY <2>1, <1>1, <1>3, <1>4, GrowthEnds
  <1> HIDE DEF N, D
  <1>6. Movable(entries, f[N]) \subseteq f[N]
    BY <1>1, <1>2, <1>5
  <1>7. Movable(entries, f[N]) \cap f[N] = {}
    BY MovableIs
  <1>8. f[N] \subseteq DOMAIN entries
    BY <1>1, <1>2 DEF D
  <1> QED BY <1>1, <1>6, <1>7, <1>8

\* "No tool takes another tool's key" (PA-6): no two tools share one after the moves.
LEMMA MovesPart ==
  ASSUME NEW entries, IsFiniteSet(DOMAIN entries),
         \A t \in DOMAIN entries : "path" \in DOMAIN entries[t],
         NEW placed, placed = After(entries, MovedIn(entries)),
         NEW t \in DOMAIN entries, NEW u \in DOMAIN entries, placed[t] = placed[u]
  PROVE  t = u
  <1>1. DOMAIN placed = DOMAIN entries
    BY DEF After
  <1>2. /\ placed[t].path = t \/ At(placed, placed[t]) = {t}
        /\ placed[u].path = u \/ At(placed, placed[u]) = {u}
    BY MovesEnd, MovableIs
  <1>3. {t, u} \subseteq At(placed, placed[t]) /\ {t, u} \subseteq At(placed, placed[u])
    BY <1>1 DEF At
  <1> QED BY <1>2, <1>3

LEMMA BuildSound ==
  ASSUME NEW contracts, DOMAIN contracts \subseteq Tools
  PROVE  LET m      == Build(contracts)
             routed == [t \in DOMAIN contracts |-> Route(t, contracts[t])]
         IN  /\ m # NoMap /\ Sound(m)
             /\ m.contracts = contracts
             /\ m.moved = MovedIn(routed) /\ m.moved \subseteq DOMAIN contracts
             /\ m.entries = After(routed, m.moved)
             /\ \A t \in DOMAIN contracts, u \in DOMAIN contracts :
                   m.entries[t] = m.entries[u] => t = u
             /\ m.open = Used(m.entries)
  <1> DEFINE routed  == [t \in DOMAIN contracts |-> Route(t, contracts[t])]
             moved   == MovedIn(routed)
             entries == After(routed, moved)
             m       == Build(contracts)
  <1>1. m = Assemble(contracts, {}, entries, moved, {})
    BY DEF Build
  <1>2. DOMAIN routed = DOMAIN contracts /\ IsFiniteSet(DOMAIN contracts)
        /\ \A t \in DOMAIN routed : "path" \in DOMAIN routed[t]
    BY RoutesAssumption, FS_Subset, RouteSuits
  <1>3. moved \subseteq DOMAIN contracts
    BY <1>2, MovesEnd
  <1>4. \A t \in DOMAIN contracts, u \in DOMAIN contracts : entries[t] = entries[u] => t = u
    BY <1>2, MovesPart DEF moved
  <1> HIDE DEF moved
  <1>5. Placed(entries, contracts)
    BY DEF Placed, After
  <1>6. OneHolder({})
    BY DEF OneHolder
  <1> HIDE DEF entries, m
  <1>7. m # NoMap /\ Sound(m) /\ m.contracts = contracts
    BY <1>1, <1>5, <1>6, AssembleSound
  <1>8. m.entries = entries /\ m.moved = moved
    BY <1>1 DEF Assemble
  <1>9. m.open = Used(m.entries)
    <2>1. DOMAIN entries = DOMAIN contracts
      BY <1>5 DEF Placed
    <2>2. \A t \in DOMAIN entries : entries[t] \notin Bound({})
      BY DEF Bound
    <2>3. \A t \in DOMAIN entries, u \in DOMAIN entries : entries[t] = entries[u] => t = u
      BY <2>1, <1>4 DEF entries
    <2> QED BY <1>1, <1>8, <2>2, <2>3, AllOpen
  <1> QED BY <1>3, <1>4, <1>7, <1>8, <1>9 DEF moved, entries, m

\* A rebuild keeps the pins of the keys it does not open, and opens a key that was bound
\* only to the tool it was bound to, or to the one that the configuration confirms.
LEMMA RebuildSound ==
  ASSUME NEW m, NEW contracts, NEW bindings, DOMAIN contracts \subseteq Tools, Sound(m),
         NEW n, n = Rebuild(m, contracts, bindings)
  PROVE  /\ n # NoMap /\ Sound(n)
         /\ n.contracts = contracts
         /\ \A p \in m.pins : p[1] \notin n.open => p \in n.pins
         /\ \A t \in DOMAIN n.entries : n.entries[t] \in n.open /\ n.entries[t] \in Bound(m.pins) =>
               <<n.entries[t], t>> \in m.pins \cup bindings
  <1> DEFINE entry(t) == Route(t, contracts[t])
             entries  == [t \in DOMAIN contracts |->
                             IF t \in m.moved /\ <<entry(t), t>> \notin bindings
                             THEN AtFullName(t, entry(t))
                             ELSE entry(t)]
  <1>1. n = Assemble(contracts, bindings, entries, m.moved, m.pins)
    BY DEF Rebuild
  <1>2. Placed(entries, contracts)
    BY DEF Placed
  <1>3. OneHolder(m.pins)
    BY DEF Sound
  <1> HIDE DEF entries
  <1> QED BY <1>1, <1>2, <1>3, AssembleSound

\* A rebuild right after the first build, with bindings that return no moved tool, leaves
\* every tool where the build put it.
LEMMA FirstRebuild ==
  ASSUME NEW contracts, DOMAIN contracts \subseteq Tools, NEW bindings,
         NEW n, n = Rebuild(Build(contracts), contracts, bindings),
         \A p \in bindings : p[2] \notin n.moved
  PROVE  /\ n.open = Used(n.entries)
         /\ \A t \in DOMAIN n.entries, u \in DOMAIN n.entries : n.entries[t] = n.entries[u] => t = u
  <1> DEFINE m        == Build(contracts)
             routed   == [t \in DOMAIN contracts |-> Route(t, contracts[t])]
             entry(t) == Route(t, contracts[t])
             entries  == [t \in DOMAIN contracts |->
                             IF t \in m.moved /\ <<entry(t), t>> \notin bindings
                             THEN AtFullName(t, entry(t))
                             ELSE entry(t)]
  <1>1. n = Assemble(contracts, bindings, entries, m.moved, m.pins)
    BY DEF Rebuild
  <1>2. /\ Sound(m) /\ m.contracts = contracts
        /\ m.entries = After(routed, m.moved)
        /\ \A t \in DOMAIN contracts, u \in DOMAIN contracts : m.entries[t] = m.entries[u] => t = u
        /\ m.open = Used(m.entries)
    BY BuildSound
  <1>3. n.moved = m.moved /\ n.entries = entries
    <2> HIDE DEF entries, m
    <2> QED BY <1>1 DEF Assemble
  <1> HIDE DEF m
  <1>4. \A t \in m.moved : \A k : <<k, t>> \notin bindings
    BY <1>3
  <1>5. entries = After(routed, m.moved)
    BY <1>4 DEF After
  <1>6. entries = m.entries /\ DOMAIN m.entries = DOMAIN contracts
    BY <1>2, <1>5 DEF Sound, Placed
  <1> HIDE DEF entries, routed
  <1>7. \A t \in DOMAIN entries : <<entries[t], t>> \in m.pins
    BY <1>2, <1>6 DEF Sound, Used
  <1>8. \A t \in DOMAIN entries, u \in DOMAIN entries : entries[t] = entries[u] => t = u
    BY <1>2, <1>6
  <1>9. n.open = Used(n.entries)
    BY <1>1, <1>7, <1>8, AllOpen
  <1> QED BY <1>3, <1>8, <1>9

-----------------------------------------------------------------------------
(* Types *)

LEMMA KeysTyped ==
  ASSUME NEW t \in Tools, NEW c
  PROVE  Route(t, c) \in Key /\ AtFullName(t, Route(t, c)) \in Key
  <1>1. FallbackMethod(c) \in {"GET", "PUT", "POST"}
    BY DEF FallbackMethod
  <1>2. \A method : AtFullName(t, Fallback(t, method)) = Fallback(t, method)
    <2> TAKE method
    <2> DEFINE k == Fallback(t, method)
    <2>1. k = [x \in DOMAIN k |-> k[x]] /\ k.path = t
      BY DEF Fallback
    <2> HIDE DEF k
    <2>2. [k EXCEPT !.path = t] = k
      BY <2>1
    <2> QED BY <2>2 DEF AtFullName, k
  <1>3. /\ Candidate[t] \in Key /\ AtFullName(t, Candidate[t]) \in Key
        /\ Fallback(t, FallbackMethod(c)) \in Key
    BY <1>1 DEF Key
  <1> QED BY <1>2, <1>3 DEF Route

MapTyped(m) ==
    /\ DOMAIN m.contracts \subseteq Tools
    /\ m.contracts \in [DOMAIN m.contracts -> Contract]
    /\ m.entries \in [DOMAIN m.contracts -> Key]
    /\ m.moved \subseteq Tools
    /\ m.pins \subseteq Key \X Tools

LEMMA AssembleTyped ==
  ASSUME NEW contracts, DOMAIN contracts \subseteq Tools,
         contracts \in [DOMAIN contracts -> Contract], NEW bindings,
         NEW entries \in [DOMAIN contracts -> Key],
         NEW moved, moved \subseteq Tools, NEW pins, pins \subseteq Key \X Tools,
         NEW m, m = Assemble(contracts, bindings, entries, moved, pins)
  PROVE  MapTyped(m)
  <1> DEFINE sole(k)   == Cardinality(At(entries, k)) = 1
             holder(k) == CHOOSE t \in At(entries, k) : TRUE
             open      == {k \in Used(entries) :
                             sole(k) /\ (k \notin Bound(pins)
                                           \/ <<k, holder(k)>> \in pins \cup bindings)}
             newPins   == {p \in pins : p[1] \notin open} \cup {<<k, holder(k)>> : k \in open}
  <1>1. /\ m.contracts = contracts /\ m.entries = entries
        /\ m.moved = moved /\ m.pins = newPins
    BY DEF Assemble
  <1>2. ASSUME NEW k \in open PROVE k \in Key /\ holder(k) \in Tools
    <2>1. PICK t \in DOMAIN contracts : k = entries[t]
      BY DEF Used
    <2>2. t \in At(entries, k) /\ At(entries, k) \subseteq DOMAIN contracts
      BY <2>1 DEF At
    <2> QED BY <2>1, <2>2
  <1> HIDE DEF open, holder
  <1>3. newPins \subseteq Key \X Tools
    BY <1>2
  <1> QED BY <1>1, <1>3 DEF MapTyped

LEMMA RebuildTyped ==
  ASSUME NEW m, MapTyped(m), NEW bindings, NEW contracts, DOMAIN contracts \subseteq Tools,
         contracts \in [DOMAIN contracts -> Contract]
  PROVE  MapTyped(Rebuild(m, contracts, bindings))
  <1> DEFINE entry(t) == Route(t, contracts[t])
             entries  == [t \in DOMAIN contracts |->
                             IF t \in m.moved /\ <<entry(t), t>> \notin bindings
                             THEN AtFullName(t, entry(t))
                             ELSE entry(t)]
  <1>1. Rebuild(m, contracts, bindings) = Assemble(contracts, bindings, entries, m.moved, m.pins)
    BY DEF Rebuild
  <1>2. entries \in [DOMAIN contracts -> Key]
    BY KeysTyped
  <1> HIDE DEF entries
  <1> QED BY <1>1, <1>2, AssembleTyped DEF MapTyped

LEMMA BuildTyped ==
  ASSUME NEW contracts, DOMAIN contracts \subseteq Tools,
         contracts \in [DOMAIN contracts -> Contract]
  PROVE  MapTyped(Build(contracts))
  <1> DEFINE routed  == [t \in DOMAIN contracts |-> Route(t, contracts[t])]
             moved   == MovedIn(routed)
             entries == After(routed, moved)
  <1>1. Build(contracts) = Assemble(contracts, {}, entries, moved, {})
    BY DEF Build
  <1>2. moved \subseteq DOMAIN contracts
    <2>1. Build(contracts).moved = moved /\ Build(contracts).moved \subseteq DOMAIN contracts
      BY BuildSound
    <2> QED BY <2>1
  <1> HIDE DEF moved
  <1>3. entries \in [DOMAIN contracts -> Key]
    BY KeysTyped DEF After
  <1> HIDE DEF entries
  <1> QED BY <1>1, <1>2, <1>3, AssembleTyped

LEMMA OverriddenTyped ==
  ASSUME NEW c \in Contract, NEW o \in Override
  PROVE  Overridden(c, o) \in Contract
  <1>1. \A f \in Flags, d \in Contract : Flag(o, d, f) \in BOOLEAN
    BY DEF Flag, Override, Contract, Flags, Default
  <1> DEFINE base     == IF c.read_only /\ ~Flag(o, c, "read_only") THEN Default ELSE c
             readOnly == Flag(o, base, "read_only")
  <1>2. base \in Contract
    BY DefaultTyped
  <1> HIDE DEF base
  <1>3. /\ readOnly \in BOOLEAN /\ Flag(o, base, "destructive") \in BOOLEAN
        /\ Flag(o, base, "idempotent") \in BOOLEAN /\ Flag(o, base, "open_world") \in BOOLEAN
    BY <1>1, <1>2 DEF Flags
  <1>4. (IF o.tier = -1 THEN base.tier ELSE o.tier) \in Tiers
    BY <1>2 DEF Override, Contract
  <1> HIDE DEF readOnly
  <1>5. CASE o.valid
    <2>1. Overridden(c, o) =
            [read_only   |-> readOnly,
             destructive |-> ~readOnly /\ Flag(o, base, "destructive"),
             idempotent  |-> readOnly \/ Flag(o, base, "idempotent"),
             open_world  |-> Flag(o, base, "open_world"),
             tier        |-> IF o.tier = -1 THEN base.tier ELSE o.tier]
      BY <1>5 DEF Overridden, base, readOnly
    <2>2. ~(readOnly /\ ~readOnly /\ Flag(o, base, "destructive"))
      OBVIOUS
    <2> QED BY <2>1, <2>2, <1>3, <1>4 DEF Contract
  <1>6. CASE ~o.valid
    <2>1. Overridden(c, o) = Strictest
      BY <1>6 DEF Overridden
    <2>2. Default \in Contract /\ ~Default.read_only
      BY DefaultTyped DEF Default
    <2>3. [Default EXCEPT !.tier = 2] \in Contract
      BY <2>2 DEF Contract, Tiers
    <2> QED BY <2>1, <2>3 DEF Strictest
  <1> QED BY <1>5, <1>6 DEF Override

-----------------------------------------------------------------------------
(* The inductive invariant *)

\* The map's contracts are the pins under the overrides that the last listing was used
\* with.
FromPins ==
    map # NoMap => \A t \in DOMAIN map.contracts :
        /\ t \in DOMAIN contractPins
        /\ map.contracts[t] = Overridden(contractPins[t], used.overrides[t])

IInv ==
    /\ config \in Configs
    /\ reading \in [Handlers -> Configs \cup {NoConfig}]
    /\ map # NoMap => used \in Configs
    /\ DOMAIN contractPins \subseteq Tools
    /\ \A t \in DOMAIN contractPins : contractPins[t] \in Contract
    /\ map # NoMap => Sound(map)
    /\ FromPins
    /\ map = NoMap => served = {}
    /\ map # NoMap => served \subseteq map.pins

LEMMA InitIInv == Init => IInv
  BY DEF Init, IInv, FromPins

\* What one listing does.
LEMMA ListedStep ==
  ASSUME IInv, NEW h \in Handlers, NEW listing \in Listings, Listed(h, listing)
  PROVE  /\ used' = reading[h] /\ used' \in Configs
         /\ contractPins' = Observe(contractPins, listing)
         /\ map' # NoMap /\ Sound(map')
         /\ map'.contracts = Effective(contractPins', DOMAIN listing, used'.overrides)
         /\ DOMAIN listing \subseteq Tools
  <1>1. /\ used' = reading[h] /\ used' \in Configs
        /\ contractPins' = Observe(contractPins, listing)
    BY DEF Listed, IInv
  <1> DEFINE contracts == Effective(Observe(contractPins, listing), DOMAIN listing,
                                    reading[h].overrides)
  <1>2. map' = Refresh(map, contracts, reading[h].bindings)
    BY DEF Listed
  <1>3. DOMAIN listing \subseteq Tools
    BY RoutesAssumption
  <1>4. DOMAIN contracts \subseteq Tools
    BY <1>3 DEF Effective
  <1> HIDE DEF contracts
  <1>5. map' # NoMap /\ Sound(map') /\ map'.contracts = contracts
    <2>1. Build(contracts) # NoMap /\ Sound(Build(contracts))
      BY <1>4, BuildSound
    <2> QED BY <1>2, <1>4, <2>1, RebuildSound DEF Refresh, IInv
  <1> QED BY <1>1, <1>3, <1>5 DEF contracts

\* Observing a listing keeps every pin or makes it stricter.
LEMMA ObserveTightens ==
  ASSUME IInv, NEW listing \in Listings
  PROVE  LET pins == Observe(contractPins, listing)
         IN /\ DOMAIN pins = DOMAIN contractPins \cup DOMAIN listing
            /\ \A t \in DOMAIN pins : pins[t] \in Contract
            /\ \A t \in DOMAIN contractPins : Tighter(pins[t], contractPins[t])
  <1> DEFINE pins == Observe(contractPins, listing)
  <1>1. \A t \in DOMAIN listing : FromAnnotations(listing[t]) \in Contract
    BY RoutesAssumption, AnnotationsTyped
  <1>2. DOMAIN pins = DOMAIN contractPins \cup DOMAIN listing
    BY DEF Observe
  <1>3. \A c \in Contract : Tighter(c, c)
    BY DEF Tighter, Contract, Tiers
  <1>4. ASSUME NEW t \in DOMAIN pins
        PROVE  pins[t] \in Contract /\ (t \in DOMAIN contractPins => Tighter(pins[t], contractPins[t]))
    <2>1. CASE t \notin DOMAIN listing
      BY <2>1, <1>2, <1>3 DEF Observe, IInv
    <2>2. CASE t \in DOMAIN listing /\ t \in DOMAIN contractPins
      BY <2>2, <1>1, JoinTightens DEF Observe, IInv
    <2>3. CASE t \in DOMAIN listing /\ t \notin DOMAIN contractPins
      BY <2>3, <1>1 DEF Observe
    <2> QED BY <2>1, <2>2, <2>3
  <1> QED BY <1>2, <1>4
-----------------------------------------------------------------------------
LEMMA ListedKeepsIInv ==
  ASSUME IInv, NEW h \in Handlers, NEW listing \in Listings, Listed(h, listing)
  PROVE  IInv'
  <1>1. /\ used' \in Configs
        /\ contractPins' = Observe(contractPins, listing)
        /\ map' # NoMap /\ Sound(map')
        /\ map'.contracts = Effective(contractPins', DOMAIN listing, used'.overrides)
        /\ DOMAIN listing \subseteq Tools
    BY ListedStep
  <1>2. config' \in Configs /\ reading' \in [Handlers -> Configs \cup {NoConfig}]
    BY DEF Listed, IInv
  <1>3. /\ DOMAIN contractPins' = DOMAIN contractPins \cup DOMAIN listing
        /\ \A t \in DOMAIN contractPins' : contractPins'[t] \in Contract
    BY <1>1, ObserveTightens
  <1>4. FromPins'
    BY <1>1, <1>3 DEF FromPins, Effective
  <1>5. served' \subseteq map'.pins
    <2>1. served' = {p \in served : p[1] \notin map'.open}
                      \cup {<<map'.entries[t], t>> : t \in {u \in DOMAIN listing :
                                                             map'.entries[u] \in map'.open}}
      BY DEF Listed
    <2>2. DOMAIN map'.entries = DOMAIN listing
      BY <1>1 DEF Sound, Placed, Effective
    <2>3. \A t \in DOMAIN listing : map'.entries[t] \in map'.open => <<map'.entries[t], t>> \in map'.pins
      BY <1>1, <2>2 DEF Sound
    <2>4. \A p \in served : p[1] \notin map'.open => p \in map'.pins
      <3> DEFINE contracts == Effective(Observe(contractPins, listing), DOMAIN listing,
                                        reading[h].overrides)
      <3>1. map' = Refresh(map, contracts, reading[h].bindings)
        BY DEF Listed
      <3>2. DOMAIN contracts \subseteq Tools
        BY <1>1 DEF Effective
      <3> HIDE DEF contracts
      <3>3. CASE map = NoMap
        BY <3>3 DEF IInv
      <3>4. CASE map # NoMap /\ map' = map
        BY <3>4 DEF IInv
      <3>5. CASE map # NoMap /\ map' = Rebuild(map, contracts, reading[h].bindings)
        BY <3>2, <3>5, RebuildSound DEF IInv
      <3> QED BY <3>1, <3>3, <3>4, <3>5 DEF Refresh
    <2> QED BY <2>1, <2>3, <2>4
  <1> QED BY <1>1, <1>2, <1>3, <1>4, <1>5 DEF IInv

LEMMA NextKeepsIInv ==
  ASSUME IInv, [Next]_vars
  PROVE  IInv'
  <1>1. ASSUME NEW c \in Configs, Reconfigure(c) PROVE IInv'
    BY <1>1 DEF IInv, Reconfigure, FromPins, Sound
  <1>2. ASSUME NEW h \in Handlers, Receive(h) PROVE IInv'
    BY <1>2 DEF IInv, Receive, FromPins
  <1>3. ASSUME NEW h \in Handlers, ListFailed(h) PROVE IInv'
    BY <1>3 DEF IInv, ListFailed, FromPins
  <1>4. CASE UNCHANGED vars
    BY <1>4 DEF IInv, vars, FromPins
  <1> QED BY <1>1, <1>2, <1>3, <1>4, ListedKeepsIInv DEF Next

\* The inductive invariant of the route map: every map places each tool by the route rule
\* under the contract it is pinned to, pins each open key to its one tool, and what was
\* served stays pinned.
THEOREM Invariance == Spec => []IInv
  <1>1. Init => IInv
    BY InitIInv
  <1>2. IInv /\ [Next]_vars => IInv'
    BY NextKeepsIInv
  <1> QED BY <1>1, <1>2, PTL DEF Spec

-----------------------------------------------------------------------------
LEMMA ListedTyped ==
  ASSUME IInv, TypeOK, NEW h \in Handlers, NEW listing \in Listings, Listed(h, listing)
  PROVE  TypeOK'
  <1> DEFINE contracts == Effective(Observe(contractPins, listing), DOMAIN listing,
                                    reading[h].overrides)
  <1>1. /\ used' = reading[h] /\ used' \in Configs
        /\ contractPins' = Observe(contractPins, listing)
        /\ map' # NoMap /\ map'.contracts = contracts
        /\ DOMAIN listing \subseteq Tools
    BY ListedStep
  <1>2. map' = Refresh(map, contracts, reading[h].bindings)
    BY DEF Listed
  <1>3. /\ DOMAIN contractPins' = DOMAIN contractPins \cup DOMAIN listing
        /\ \A t \in DOMAIN contractPins' : contractPins'[t] \in Contract
        /\ contractPins' = [t \in DOMAIN contractPins' |-> contractPins'[t]]
    BY <1>1, ObserveTightens DEF Observe
  <1>4. contractPins' \in [DOMAIN contractPins' -> Contract] /\ DOMAIN contractPins' \subseteq Tools
    BY <1>1, <1>3 DEF IInv
  <1>5. contracts \in [DOMAIN listing -> Contract]
    <2>1. ASSUME NEW t \in DOMAIN listing
          PROVE  Overridden(contractPins'[t], reading[h].overrides[t]) \in Contract
      <3>1. reading[h].overrides[t] \in Override
        BY <1>1, RoutesAssumption
      <3> QED BY <3>1, <1>3, OverriddenTyped
    <2> QED BY <2>1, <1>1 DEF Effective
  <1>6. DOMAIN contracts = DOMAIN listing
    BY DEF Effective
  <1> HIDE DEF contracts
  <1>7. map # NoMap => MapTyped(map)
    BY DEF TypeOK, MapTyped
  <1>8. MapTyped(Build(contracts))
    BY <1>1, <1>5, <1>6, BuildTyped
  <1>9. MapTyped(map')
    BY <1>1, <1>2, <1>5, <1>6, <1>7, <1>8, RebuildTyped DEF Refresh
  <1>10. served' \subseteq Key \X Tools
    <2>1. \A t \in DOMAIN listing : map'.entries[t] \in Key
      BY <1>1, <1>6, <1>9 DEF MapTyped
    <2> QED BY <2>1, <1>1 DEF Listed, TypeOK
  <1>11. config' \in Configs /\ reading' \in [Handlers -> Configs \cup {NoConfig}]
    BY DEF Listed, TypeOK
  <1> QED BY <1>1, <1>4, <1>9, <1>10, <1>11 DEF TypeOK, MapTyped

\* Pins, maps and what was served stay in their types: every map's keys are keys that the
\* route rule can give its tools.
THEOREM TypeCorrect == Spec => []TypeOK
  <1>1. Init => TypeOK
    <2>1. [t \in {} |-> Default] \in [{} -> Contract]
      OBVIOUS
    <2> QED BY <2>1 DEF Init, TypeOK
  <1>2. IInv /\ TypeOK /\ [Next]_vars => TypeOK'
    <2> SUFFICES ASSUME IInv, TypeOK, [Next]_vars PROVE TypeOK'
      OBVIOUS
    <2>1. ASSUME NEW c \in Configs, Reconfigure(c) PROVE TypeOK'
      BY <2>1 DEF TypeOK, Reconfigure
    <2>2. ASSUME NEW h \in Handlers, Receive(h) PROVE TypeOK'
      BY <2>2 DEF TypeOK, Receive
    <2>3. ASSUME NEW h \in Handlers, ListFailed(h) PROVE TypeOK'
      BY <2>3 DEF TypeOK, ListFailed
    <2>4. CASE UNCHANGED vars
      BY <2>4 DEF TypeOK, vars
    <2> QED BY <2>1, <2>2, <2>3, <2>4, ListedTyped DEF Next
  <1> QED BY <1>1, <1>2, Invariance, PTL DEF Spec

-----------------------------------------------------------------------------
(* What follows from it *)

\* The map only narrows the method binding (PA-5), whatever the server lists, the operator
\* configures and the build moves: no entry has a method that the contract of its tool does
\* not admit, and no PUT or DELETE reaches a tool whose second call may do more than its
\* first.
THEOREM MapNarrows == Spec => []RoutesAdmissible
  <1>1. IInv => RoutesAdmissible
    <2> SUFFICES ASSUME IInv, map # NoMap, NEW t \in DOMAIN map.entries
                 PROVE  Suits(map.entries[t].method, map.contracts[t])
      BY DEF RoutesAdmissible, Suits
    <2> QED BY PlacedSuits DEF IInv, Sound, Placed
  <1> QED BY <1>1, Invariance, PTL

\* A key that has served a tool serves another only when the entry that the request read
\* confirms it (PA-8), however many requests list at the same time with however old entries.
THEOREM ServedKeysKept == Spec => NoTakeover
  <1> DEFINE Taken(p) == p[1] \in Bound(served) => p \in used'.bindings
  <1>1. ASSUME IInv, NEW h \in Handlers, NEW listing \in Listings, Listed(h, listing),
               NEW p \in served' \ served, p[1] \in Bound(served)
        PROVE  p \in used'.bindings
    <2>1. /\ used' = reading[h]
          /\ Sound(map')
          /\ map'.contracts = Effective(contractPins', DOMAIN listing, used'.overrides)
          /\ DOMAIN listing \subseteq Tools
      BY <1>1, ListedStep
    <2>2. DOMAIN map'.entries = DOMAIN listing
      BY <2>1 DEF Sound, Placed, Effective
    <2>3. PICK t \in DOMAIN map'.entries : p = <<map'.entries[t], t>> /\ map'.entries[t] \in map'.open
      BY <1>1, <2>2 DEF Listed
    <2>4. PICK q \in served : q[1] = p[1]
      BY <1>1 DEF Bound
    <2>5. map # NoMap /\ q \in map.pins /\ Sound(map) /\ p # q
      BY <1>1 DEF IInv
    <2> DEFINE contracts == Effective(Observe(contractPins, listing), DOMAIN listing,
                                      reading[h].overrides)
    <2>6. map' = Refresh(map, contracts, reading[h].bindings)
      BY <1>1 DEF Listed
    <2>7. DOMAIN contracts \subseteq Tools
      BY <2>1 DEF Effective
    <2> HIDE DEF contracts
    <2>8. p \notin map.pins
      BY <2>4, <2>5 DEF Sound, OneHolder
    <2>9. map' # map
      BY <2>3, <2>5, <2>8 DEF Sound
    <2>10. map' = Rebuild(map, contracts, reading[h].bindings)
      BY <2>5, <2>6, <2>9 DEF Refresh
    <2>11. p[1] \in Bound(map.pins)
      BY <2>4, <2>5 DEF Bound
    <2>12. p \in map.pins \cup reading[h].bindings
      BY <2>3, <2>5, <2>7, <2>10, <2>11, RebuildSound
    <2> QED BY <2>1, <2>8, <2>12
  <1>2. IInv /\ [Next]_vars => [\A p \in served' \ served : Taken(p)]_vars
    BY <1>1 DEF Next, Reconfigure, Receive, ListFailed, vars
  <1> QED BY <1>2, Invariance, PTL DEF Spec, NoTakeover

\* One listing loosens no tool whose override stays the same, but for the one case.
LEMMA ListingTightens ==
  ASSUME IInv, NEW h \in Handlers, NEW listing \in Listings, Listed(h, listing),
         map # NoMap, NEW t \in DOMAIN map.contracts \cap DOMAIN map'.contracts,
         used'.overrides[t] = used.overrides[t],
         ~UnmarkedTwice(contractPins'[t], contractPins[t], used.overrides[t])
  PROVE  NoLooser(map'.contracts[t], map.contracts[t])
  <1> DEFINE o == used.overrides[t]
  <1>1. /\ used' \in Configs
        /\ contractPins' = Observe(contractPins, listing)
        /\ map'.contracts = Effective(contractPins', DOMAIN listing, used'.overrides)
        /\ DOMAIN listing \subseteq Tools
    BY ListedStep
  <1>2. /\ t \in DOMAIN contractPins /\ t \in Tools
        /\ map.contracts[t] = Overridden(contractPins[t], o)
        /\ used \in Configs
    BY DEF IInv, FromPins
  <1>3. map'.contracts[t] = Overridden(contractPins'[t], o)
    BY <1>1 DEF Effective
  <1>4. /\ contractPins[t] \in Contract /\ contractPins'[t] \in Contract
        /\ Tighter(contractPins'[t], contractPins[t])
    BY <1>1, <1>2, ObserveTightens DEF IInv
  <1>5. o \in Override /\ ~UnmarkedTwice(contractPins'[t], contractPins[t], o)
    BY <1>2, RoutesAssumption
  <1> HIDE DEF o
  <1>6. /\ Overridden(contractPins[t], o).tier \in Tiers
        /\ Overridden(contractPins'[t], o).tier \in Tiers
    BY <1>4, <1>5, OverriddenTier
  <1> QED BY <1>2, <1>3, <1>4, <1>5, <1>6, OverriddenMonotone, TighterIsNoLooser

\* A tool that has been pinned as one that is not read-only is never pinned read-only again.
MarksStayOff ==
  [][\A t \in DOMAIN contractPins : /\ t \in DOMAIN contractPins'
                                   /\ contractPins'[t].read_only => contractPins[t].read_only
    ]_contractPins

\* For every configuration, overrides that take read-only marks away among them: while a
\* tool's override is the same, no listing opens GET for the tool or spares a request what it
\* had to carry (TC-6) - except that, under an override that takes its read-only mark away, a
\* tool pinned read-only is first listed as one that is not.  The pin never gets the mark
\* back, so that happens once for each tool.
THEOREM ListingsTighten == Spec => LoosenedOnlyUnmarked /\ MarksStayOff
  <1>1. IInv /\ [Next]_vars =>
          [(map # NoMap /\ used' # NoConfig) =>
              \A t \in DOMAIN map.contracts \cap DOMAIN map'.contracts :
                  used'.overrides[t] = used.overrides[t] =>
                      \/ NoLooser(map'.contracts[t], map.contracts[t])
                      \/ /\ Unmarks(used.overrides[t])
                         /\ contractPins[t].read_only
                         /\ ~contractPins'[t].read_only]_<<map, used>>
    BY ListingTightens DEF UnmarkedTwice, Next, Reconfigure, Receive, ListFailed, vars
  <1>2. IInv /\ [Next]_vars =>
          [\A t \in DOMAIN contractPins : /\ t \in DOMAIN contractPins'
                                         /\ contractPins'[t].read_only => contractPins[t].read_only
          ]_contractPins
    <2> SUFFICES ASSUME IInv, NEW h \in Handlers, NEW listing \in Listings, Listed(h, listing),
                        NEW t \in DOMAIN contractPins
                 PROVE  /\ t \in DOMAIN contractPins'
                        /\ contractPins'[t].read_only => contractPins[t].read_only
      BY DEF Next, Reconfigure, Receive, ListFailed, vars
    <2> QED BY ListedStep, ObserveTightens DEF IInv, Tighter
  <1> QED BY <1>1, <1>2, Invariance, PTL DEF Spec, LoosenedOnlyUnmarked, MarksStayOff

\* "No tool takes another tool's key" (PA-6): the first map gives every tool listed a key of
\* its own and serves it there, whatever tools collide and however often those that move meet
\* others, unless the configuration returns a moved tool to its key.
THEOREM FirstMapServesAll == Spec => FirstMapServes
  <1> DEFINE Served ==
        map = NoMap /\ map' # NoMap /\ (\A p \in used'.bindings : p[2] \notin map'.moved) =>
          /\ map'.open = Used(map'.entries)
          /\ \A t \in DOMAIN map'.entries, u \in DOMAIN map'.entries :
                map'.entries[t] = map'.entries[u] => t = u
  <1>1. ASSUME IInv, NEW h \in Handlers, NEW listing \in Listings, Listed(h, listing)
        PROVE  Served
    <2> DEFINE contracts == Effective(Observe(contractPins, listing), DOMAIN listing,
                                      reading[h].overrides)
    <2>1. DOMAIN contracts \subseteq Tools
      BY RoutesAssumption DEF Effective
    <2>2. map' = Refresh(map, contracts, reading[h].bindings) /\ used' = reading[h]
      BY <1>1 DEF Listed
    <2> HIDE DEF contracts
    <2>3. map = NoMap => map' = Rebuild(Build(contracts), contracts, used'.bindings)
      BY <2>2 DEF Refresh
    <2> QED BY <2>1, <2>3, FirstRebuild
  <1>2. IInv /\ [Next]_vars => [Served]_vars
    BY <1>1 DEF Next, Reconfigure, Receive, ListFailed, vars
  <1> QED BY <1>2, Invariance, PTL DEF Spec, FirstMapServes
===============================================================================
