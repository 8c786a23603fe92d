------------------------------- MODULE MCRoutes -------------------------------
(* Instances of Routes for TLC. *)
EXTENDS Routes, TLC

CONSTANTS delete_note, remove_note, delete_delete_note, note

\* The first two share DELETE /note, so the first build moves both to their full
\* names, where the third one's candidate already is.
MCCandidate ==
    delete_note :> [method |-> "DELETE", path |-> note, definer |-> ""]
    @@ remove_note :> [method |-> "DELETE", path |-> note, definer |-> ""]
    @@ delete_delete_note :> [method |-> "DELETE", path |-> delete_note, definer |-> ""]

Hint(ro, de, id, ow, tier) ==
    [annotated |-> TRUE, read_only |-> ro, destructive |-> de, idempotent |-> id,
     open_world |-> ow, tier |-> tier]

ReadOnly == Hint(TRUE, TRUE, FALSE, FALSE, 0)
Repeatable == Hint(FALSE, TRUE, TRUE, FALSE, 0)
Additive == Hint(FALSE, FALSE, TRUE, FALSE, 0)
Plain == [Repeatable EXCEPT !.annotated = FALSE]

\* Each tool is listed with one of the given hints or not at all.
ListingsOf(hints) ==
    UNION {{l \in [D -> UNION {hints[t] : t \in D}] : \A t \in D : l[t] \in hints[t]} :
              D \in SUBSET DOMAIN hints}

MCListings ==
    ListingsOf(delete_note :> {Repeatable, ReadOnly} @@ remove_note :> {Repeatable}
               @@ delete_delete_note :> {Repeatable, Plain})

NoOverrides == [t \in Tools |-> NoOverride]

\* delete_note alone has an override: read_only, and nothing else.
ReadOnlyIs(b) ==
    [NoOverrides EXCEPT ![delete_note] = [@ EXCEPT !.flags = [f \in {"read_only"} |-> b]]]

Returned(t) == {<<MCCandidate[t], t>>}

\* The operator returns one of two tools to its key, or puts the read-only mark on
\* delete_note or takes it off.
MCConfigs ==
    {[bindings |-> {}, overrides |-> NoOverrides],
     [bindings |-> Returned(remove_note), overrides |-> NoOverrides],
     [bindings |-> Returned(delete_delete_note), overrides |-> ReadOnlyIs(TRUE)],
     [bindings |-> {}, overrides |-> ReadOnlyIs(FALSE)]}

\* One tool, re-listed as additive after it was listed as read-only, under an override
\* that takes its read-only mark away.
UnmarkedListings == ListingsOf(delete_note :> {ReadOnly, Additive})

UnmarkedConfigs == {[bindings |-> {}, overrides |-> ReadOnlyIs(FALSE)]}

MCSymmetry == Permutations(Handlers)
===============================================================================
