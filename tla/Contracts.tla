------------------------------- MODULE Contracts -------------------------------
(***************************************************************************)
(* Tool contracts and what a request must carry for them                   *)
(* (gateway/webspec/methods.py): the contract a server's annotations give  *)
(* a tool, the join with what was seen before, the operator's override,    *)
(* the methods that may invoke the tool, and the requirements by level.    *)
(***************************************************************************)
EXTENDS Integers

Tiers == 0 .. 2                 \* open, sensitive, dangerous

Flags == {"read_only", "destructive", "idempotent", "open_world"}

\* A read-only tool is not destructive.
Contract == {c \in [read_only: BOOLEAN, destructive: BOOLEAN, idempotent: BOOLEAN,
                    open_world: BOOLEAN, tier: Tiers] : ~(c.read_only /\ c.destructive)}

\* The MCP defaults, which also stand for a tool without annotations.
Default == [read_only |-> FALSE, destructive |-> TRUE, idempotent |-> FALSE,
            open_world |-> TRUE, tier |-> 1]

Strictest == [Default EXCEPT !.tier = 2]

Higher(t, u) == IF t > u THEN t ELSE u

Risk(c) == IF c.read_only THEN 0 ELSE IF c.destructive THEN 2 ELSE 1

-----------------------------------------------------------------------------
\* What a listing says of a tool: whether it is annotated, each hint as its default
\* leaves it, and the tier it declares.
Hints == [annotated: BOOLEAN, read_only: BOOLEAN, destructive: BOOLEAN, idempotent: BOOLEAN,
          open_world: BOOLEAN, tier: Tiers]

FromAnnotations(h) ==
    LET derived ==
          IF ~h.annotated THEN Default
          ELSE IF h.read_only
               THEN [read_only |-> TRUE, destructive |-> FALSE, idempotent |-> TRUE,
                     open_world |-> h.open_world, tier |-> 0]
               ELSE [read_only |-> FALSE, destructive |-> h.destructive,
                     idempotent |-> h.idempotent, open_world |-> h.open_world, tier |-> 1]
    IN [derived EXCEPT !.tier = Higher(@, h.tier)]

\* Faulty variant: the latest read-only hint counts.
JoinLatestReadOnly(c, d) ==
    [read_only   |-> d.read_only,
     destructive |-> ~d.read_only /\ (c.destructive \/ d.destructive),
     idempotent  |-> c.idempotent /\ d.idempotent,
     open_world  |-> c.open_world \/ d.open_world,
     tier        |-> Higher(c.tier, d.tier)]

Join(c, d) ==
    [read_only   |-> c.read_only /\ d.read_only,
     destructive |-> ~(c.read_only /\ d.read_only) /\ (c.destructive \/ d.destructive),
     idempotent  |-> c.idempotent /\ d.idempotent,
     open_world  |-> c.open_world \/ d.open_world,
     tier        |-> Higher(c.tier, d.tier)]

\* An override sets some of the flags, and a tier unless it is -1.  One that is not
\* valid has no fields.
Override == [valid: BOOLEAN, flags: UNION {[D -> BOOLEAN] : D \in SUBSET Flags},
             tier: Tiers \cup {-1}]

NoOverride == [valid |-> TRUE, flags |-> [f \in {} |-> TRUE], tier |-> -1]

Flag(o, c, f) == IF f \in DOMAIN o.flags THEN o.flags[f] ELSE c[f]

\* An override that takes the read-only mark off a tool.
Unmarks(o) == o.valid /\ "read_only" \in DOMAIN o.flags /\ ~o.flags["read_only"]

\* A tool that is no longer to count as read-only starts from the strict defaults, and
\* one that is counts as neither destructive nor repeatable with a further effect.
Overridden(c, o) ==
    LET unmarked == c.read_only /\ ~Flag(o, c, "read_only")
        base     == IF unmarked THEN Default ELSE c
        readOnly == Flag(o, base, "read_only")
    IN IF ~o.valid THEN Strictest
       ELSE [read_only   |-> readOnly,
             destructive |-> ~readOnly /\ Flag(o, base, "destructive"),
             idempotent  |-> readOnly \/ Flag(o, base, "idempotent"),
             open_world  |-> Flag(o, base, "open_world"),
             tier        |-> IF o.tier = -1 THEN base.tier ELSE o.tier]

-----------------------------------------------------------------------------
Methods == {"GET", "POST", "PUT", "PATCH", "DELETE"}

Levels == 0 .. 4

Admissible(c) ==
    IF c.read_only THEN {"GET"}
    ELSE IF c.destructive
         THEN {"DELETE", IF c.idempotent THEN "PUT" ELSE "POST"}
         ELSE {"POST", "PATCH"} \cup (IF c.idempotent THEN {"PUT"} ELSE {})

\* What a request must carry.
Requires(method, c, level) ==
    {r \in {"guard", "definer", "idempotency_key", "empty_body", "clearance", "approval"} :
        \/ r = "guard" /\ level >= 1
        \/ r = "definer" /\ method = "POST"
        \/ r = "empty_body" /\ method = "GET"
        \/ r = "idempotency_key" /\ method # "GET" /\ ~c.idempotent /\ level >= 2
        \/ r = "clearance" /\ level >= 3 /\ (Risk(c) >= 1 \/ c.tier >= 1)
        \/ /\ r = "approval"
           /\ level >= 4
           /\ Risk(c) >= 2 \/ c.tier = 2 \/ (Risk(c) >= 1 /\ c.open_world)}

\* A request that a contract c admits needs no less under d, and GET reaches no tool
\* it did not reach.
NoLooser(d, c) ==
    /\ "GET" \in Admissible(d) => "GET" \in Admissible(c)
    /\ \A method \in Admissible(c) \cap Admissible(d), level \in Levels :
          Requires(method, c, level) \subseteq Requires(method, d, level)
===============================================================================
