---------------------------- MODULE LineageHold ----------------------------
(***************************************************************************)
(* Inactive lineage holds: a pressure action claims one complete inactive  *)
(* lineage, root to leaf, hides it from request lookups while it works     *)
(* outside the store mutex, and then either aborts (restores all of it) or *)
(* commits (releases the leaf, restores the rest).  In between, requests   *)
(* may register a newer copy of any held hash.                             *)
(***************************************************************************)
EXTENDS Lineage

CONSTANTS
    MaxHolds,             \* bound: holds outstanding at once
    MaxPreflights         \* bound: preflight proofs outstanding at once

ASSUME HoldConstants ==
    /\ MaxHolds \in Nat /\ MaxPreflights \in Nat

VARIABLES
    holds,                \* StoreInactiveLineageHold objects: leaf and source_blocks
    preflights,           \* InactiveLineagePreflight objects and their candidates
    notices               \* EvictionNotification tokens not yet delivered

holdVars == <<storeVars, holds, preflights, notices>>

\* Mutant: any inactive tenure of the candidate's slot will do.
Current_AnyTenure(p) ==
    /\ held_by_hash[p.hash] = NoBlock
    /\ state[p.block] = "Inactive" /\ hashOf[p.block] = p.hash
    /\ generation[p.block] = p.generation
    /\ CompleteLineage(p.hash)
    /\ \A g \in Lineage(p.hash) : held_by_hash[g] = NoBlock

\* current_inactive_lineage of a candidate p
Current(p) ==
    /\ held_by_hash[p.hash] = NoBlock
    /\ state[p.block] = "Inactive" /\ hashOf[p.block] = p.hash
    /\ generation[p.block] = p.generation
    /\ inactive_epoch[p.block] = p.epoch
    /\ CompleteLineage(p.hash)
    /\ \A g \in Lineage(p.hash) : held_by_hash[g] = NoBlock

\* has_newer_registered_copy of a held hash
Replaced(h) == Found(h)

\* What a step does to the observer's note on each preflight.
Watch(P) ==
    {[p EXCEPT !.hit = @ \/ state'[p.block] \notin {"Inactive", "Held"}] : p \in P}

HoldInit == StoreInit /\ holds = {} /\ preflights = {} /\ notices = {}

(***************************************************************************)
(* Actions                                                                 *)
(***************************************************************************)

\* preflight_inactive_lineage_by_hash.  The field hit is an observer's note: the
\* candidate's slot has left the inactive pool since the preflight.
Preflight(h) ==
    /\ Cardinality(preflights) < MaxPreflights
    /\ inactive[h] # NoBlock
    /\ LET p == [hash |-> h, block |-> inactive[h], generation |-> generation[inactive[h]],
                 epoch |-> inactive_epoch[inactive[h]], sources |-> SourceBlocks(h), hit |-> FALSE]
       IN  /\ Current(p)
           /\ preflights' = preflights \cup {p}
    /\ UNCHANGED <<storeVars, holds, notices>>

\* try_hold_inactive_lineage (exact = FALSE) and try_hold_prepared_inactive_lineage
\* (exact = TRUE): claim the lineage, or fail and leave the store as it was.
TryHold(p, exact) ==
    LET L == Lineage(p.hash)
        S == {inactive[g] : g \in L}
    IN  /\ p \in preflights
        /\ Cardinality(holds) < MaxHolds
        /\ Current(p)
        /\ exact => p.sources = SourceBlocks(p.hash)
        /\ holds' = holds \cup {[leaf |-> p.hash, sources |-> SourceBlocks(p.hash)]}
        /\ preflights' = preflights \ {p}
        /\ state' = StateWith(S, "Held")
        /\ inactive' = Without(inactive, S)
        /\ held_by_hash' = [g \in Hashes |-> IF g \in L THEN inactive[g] ELSE held_by_hash[g]]
        /\ UNCHANGED <<hashOf, innerOf, generation, inactive_epoch, reset_on_release, poolVars,
                       active_by_hash, guard, arcVars, presenceVars, notices>>

\* A preflight is dropped, or a hold with it fails.
DropPreflight(p) ==
    /\ p \in preflights
    /\ preflights' = preflights \ {p}
    /\ UNCHANGED <<storeVars, holds, notices>>

\* The held slots of the hashes in Back return to the inactive pool, those of the
\* hashes in Out are reset.  The inactive epoch stays: the tenure goes on.
Unhold(d, Back, Out) ==
    LET gone == {d.sources[g] : g \in Out}
    IN  /\ holds' = holds \ {d}
        /\ state' = [b \in Blocks |-> IF b \in gone THEN "Reset"
                                      ELSE IF \E g \in Back : d.sources[g] = b THEN "Inactive"
                                      ELSE state[b]]
        /\ hashOf' = Forget(hashOf, gone, NoHash)
        /\ reset_on_release' = Forget(reset_on_release, gone, DefaultReset)
        /\ free' = push_reset_free(gone)
        /\ fenced' = push_reset_fenced(gone)
        /\ inactive' = [g \in Hashes |-> IF g \in Back THEN d.sources[g] ELSE inactive[g]]
        /\ held_by_hash' = [g \in Hashes |-> IF g \in Back \cup Out THEN NoBlock ELSE held_by_hash[g]]
        /\ pendingAbsent' = [g \in Hashes |-> IF g \in Out THEN pendingAbsent[g] + 1 ELSE pendingAbsent[g]]
        /\ UNCHANGED <<innerOf, generation, inactive_epoch, capacity, fence, active_by_hash,
                       guard, arcVars, presence, unmarked>>

\* The hold is dropped: every source is restored, except where a newer copy of
\* its hash was registered in the meantime.
AbortHold(d) ==
    LET replaced == {g \in DOMAIN d.sources : Replaced(g)}
    IN  /\ d \in holds
        /\ Unhold(d, DOMAIN d.sources \ replaced, replaced)
        /\ preflights' = Watch(preflights)
        /\ UNCHANGED notices

\* commit_lineage_hold: the leaf goes in any case; its eviction is announced
\* unless a newer copy of the leaf is registered.
CommitHold(d) ==
    LET support == DOMAIN d.sources \ {d.leaf}
        replaced == {g \in support : Replaced(g)}
    IN  /\ d \in holds
        /\ Unhold(d, support \ replaced, replaced \cup {d.leaf})
        /\ notices' = IF Replaced(d.leaf) THEN notices ELSE notices \cup {d.leaf}
        /\ preflights' = Watch(preflights)

\* EvictionNotification::notify, after the commit has returned.
Notify(h) ==
    /\ h \in notices
    /\ notices' = notices \ {h}
    /\ UNCHANGED <<storeVars, holds, preflights>>

HoldStep ==
    \/ \E h \in Hashes : Preflight(h) \/ Notify(h)
    \/ \E p \in preflights : DropPreflight(p) \/ \E exact \in BOOLEAN : TryHold(p, exact)
    \/ \E d \in holds : AbortHold(d) \/ CommitHold(d)

HoldNext ==
    \/ HoldStep
    \/ StoreNext /\ preflights' = Watch(preflights) /\ UNCHANGED <<holds, notices>>

HoldSpec == HoldInit /\ [][HoldNext]_holdVars

(***************************************************************************)
(* Properties                                                              *)
(***************************************************************************)

Candidates ==
    [hash : Hashes, block : Blocks, generation : Nat, epoch : Nat,
     sources : UNION {[S -> Blocks] : S \in SUBSET Hashes}, hit : BOOLEAN]

\* The variables of the operation have their types; StoreInv has those of the store.
HoldTypeOK ==
    /\ \A d \in holds : /\ d.leaf \in DOMAIN d.sources
                        /\ d.sources \in [Lineage(d.leaf) -> Blocks]
    /\ preflights \subseteq Candidates
    /\ notices \subseteq Hashes

\* No block is stranded: every Held slot is a source of some hold, so dropping
\* or committing the holds always brings it back (Drop for StoreInactiveLineageHold).
HeldHasOwner ==
    \A b \in Blocks : state[b] = "Held" => \E d \in holds : \E g \in DOMAIN d.sources : d.sources[g] = b

\* A held slot leaves its hold only by that hold's end: no lookup, registration,
\* allocation, drain or resize returns it to a caller, although the newer copies
\* of its hash come and go.
HeldOnlyReleasedByHold ==
    [][\A b \in Blocks :
          state[b] = "Held" /\ state'[b] # "Held" =>
              /\ state'[b] \in {"Inactive", "Reset"}
              /\ \E d \in holds \ holds' : \E g \in DOMAIN d.sources : d.sources[g] = b]_holdVars

\* A cache hit revokes a preflight: once the candidate's slot has been used by a
\* request (or evicted) since the preflight, the preflight never becomes a hold,
\* even when the slot is back in the inactive pool with the same hash.
HitRevokesPreflight ==
    [][\A p \in preflights : p.hit => \A d \in holds' \ holds : d.leaf # p.hash \/ p \in preflights']_holdVars

\* A hold keeps what it claimed until it ends: each of its sources is a Held
\* slot with the claimed hash and is the hash's entry in held_by_hash, and no two
\* holds share a source.  The panics "inactive lineage hold lost slot" and "lost
\* its support ownership fence" are unreachable, whatever requests do meanwhile.
HoldOwnsLineage ==
    /\ \A d \in holds : \A g \in DOMAIN d.sources :
           /\ state[d.sources[g]] = "Held" /\ hashOf[d.sources[g]] = g
           /\ held_by_hash[g] = d.sources[g]
    /\ \A c, d \in holds : c # d => DOMAIN c.sources \cap DOMAIN d.sources = {}
=============================================================================
