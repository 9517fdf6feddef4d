----------------------------- MODULE BlockStore -----------------------------
(***************************************************************************)
(* The block store of kvbm-logical: the slot array, the reset and inactive *)
(* pools and the hash indexes that one mutex guards, together with what    *)
(* lives outside that mutex and races with it: the RAII guards handed to   *)
(* callers, the reference-counted ImmutableBlockInner objects (called arcs *)
(* here), and the presence counters of the registry.                       *)
(*                                                                         *)
(* One action is one critical section of the store mutex, or one step of a *)
(* thread outside it.  The last drop of an arc is two steps: the strong    *)
(* count reaches zero, and only later Drop::drop takes the store mutex.    *)
(* Lookups that run in between find a Primary slot with a dead Weak.       *)
(***************************************************************************)
EXTENDS Integers, FiniteSets

CONSTANTS
    Hashes,               \* sequence hashes
    Inners,               \* identities (addresses) of ImmutableBlockInner objects
    NoHash, NoInner,      \* absent values
    MaxBlocks,            \* maximum_blocks, the largest capacity of the store
    InitialBlocks,        \* total_blocks at construction
    DefaultReset,         \* default_reset_on_release
    MaxGeneration,        \* bound: mutable tenures of one slot
    MaxEpoch,             \* bound: inactive tenures of one slot
    MaxRefs               \* bound: caller references to one arc

ASSUME StoreConstants ==
    /\ MaxBlocks \in Nat /\ InitialBlocks \in 0 .. MaxBlocks
    /\ DefaultReset \in BOOLEAN
    /\ MaxGeneration \in Nat /\ MaxEpoch \in Nat /\ MaxRefs \in Nat
    /\ NoHash \notin Hashes /\ NoInner \notin Inners

Blocks == 0 .. MaxBlocks - 1
NoBlock == -1
NoFence == -1

VARIABLES
    \* BlockSlot and SlotState, per slot
    state, hashOf, innerOf, generation, inactive_epoch, reset_on_release,
    \* BlockStoreInner
    capacity, fence, free, fenced, inactive, active_by_hash, held_by_hash,
    \* guard[b]: the MutableBlock or CompleteBlock that owns slot b
    guard,
    \* ImmutableBlockInner: life cycle, caller references, block_id, _primary_keepalive
    phase, refs, block_id, keepalive,
    \* PresenceMarkers of each hash, and the mark calls that are still to run
    presence, unmarked, pendingAbsent

slotVars == <<state, hashOf, innerOf, generation, inactive_epoch, reset_on_release>>
poolVars == <<capacity, fence, free, fenced>>
indexVars == <<inactive, active_by_hash, held_by_hash>>
arcVars == <<phase, refs, block_id, keepalive>>
presenceVars == <<presence, unmarked, pendingAbsent>>
storeVars == <<slotVars, poolVars, indexVars, guard, arcVars, presenceVars>>

(***************************************************************************)
(* Reading the state                                                       *)
(***************************************************************************)

SlotStates == {"Reset", "Mutable", "Staged", "Primary", "Duplicate", "Inactive", "Held"}
Registered == {"Primary", "Duplicate", "Inactive", "Held"}
Guards == {"None", "Mutable", "Complete", "Rejected", "Plan"}

\* live: strong > 0.  dropping: strong = 0, Drop::drop has not run.
\* fields: a duplicate whose Drop::drop ran and whose _primary_keepalive is still held.
Phases == {"free", "live", "dropping", "fields"}

\* effective_ceiling of a fence f and a capacity c
effective_ceiling(f, c) == IF f # NoFence /\ f < c THEN f ELSE c
Ceiling == effective_ceiling(fence, capacity)

\* Mutant: held slots count as inactive.
InactiveBlocks_WithHeld == {b \in Blocks : state[b] \in {"Inactive", "Held"}}

InactiveBlocks == {b \in Blocks : state[b] = "Inactive"}

\* A new Arc may reuse an address once the old object is gone and no Weak in
\* a slot keeps its allocation.
FreshInners == {i \in Inners : phase[i] = "free" /\ \A b \in Blocks : innerOf[b] # i}

IsPrimary(i) == keepalive[i] = NoInner

\* Another owner of arc i than one caller reference: a duplicate that keeps it alive.
Keepers(i) == {d \in Inners : keepalive[d] = i}

(***************************************************************************)
(* Initially every slot below the initial capacity is in the reset pool.   *)
(***************************************************************************)

StoreInit ==
    /\ state = [b \in Blocks |-> "Reset"]
    /\ hashOf = [b \in Blocks |-> NoHash]
    /\ innerOf = [b \in Blocks |-> NoInner]
    /\ generation = [b \in Blocks |-> 0]
    /\ inactive_epoch = [b \in Blocks |-> 0]
    /\ reset_on_release = [b \in Blocks |-> DefaultReset]
    /\ capacity = InitialBlocks
    /\ fence = NoFence
    /\ free = 0 .. InitialBlocks - 1
    /\ fenced = {}
    /\ inactive = [h \in Hashes |-> NoBlock]
    /\ active_by_hash = [h \in Hashes |-> NoBlock]
    /\ held_by_hash = [h \in Hashes |-> NoBlock]
    /\ guard = [b \in Blocks |-> "None"]
    /\ phase = [i \in Inners |-> "free"]
    /\ refs = [i \in Inners |-> 0]
    /\ block_id = [i \in Inners |-> NoBlock]
    /\ keepalive = [i \in Inners |-> NoInner]
    /\ presence = [h \in Hashes |-> 0]
    /\ unmarked = {}
    /\ pendingAbsent = [h \in Hashes |-> 0]

(***************************************************************************)
(* Slot transitions shared by the operations.  Each takes the set of slots *)
(* it moves and gives the new value of one variable.                       *)
(***************************************************************************)

\* The slots of S move to state s.
StateWith(S, s) == [b \in Blocks |-> IF b \in S THEN s ELSE state[b]]

\* The hash and the Weak of the slots of S are dropped with their old state.
Forget(f, S, none) == [b \in Blocks |-> IF b \in S THEN none ELSE f[b]]

\* push_reset_id_locked for every slot of S.
push_reset_free(S) == free \cup {b \in S : b < Ceiling}
push_reset_fenced(S) == fenced \cup {b \in S : b >= Ceiling}

\* An index without the entries that name a slot of S.
Without(index, S) == [h \in Hashes |-> IF index[h] \in S THEN NoBlock ELSE index[h]]

(***************************************************************************)
(* Allocation                                                              *)
(***************************************************************************)

\* The n lowest free ids: what n calls of free.pop_first() return.
Lowest(n) == {b \in free : Cardinality({c \in free : c < b}) < n}

\* allocate_mutable_slot for every slot of M, and reset with a default
\* override of every slot of R, both leaving Reset or Inactive.
Retire(M, R) ==
    /\ \A b \in M : generation[b] < MaxGeneration
    /\ state' = [b \in Blocks |-> IF b \in M THEN "Mutable" ELSE IF b \in R THEN "Reset" ELSE state[b]]
    /\ hashOf' = Forget(hashOf, M \cup R, NoHash)
    /\ generation' = [b \in Blocks |-> IF b \in M THEN generation[b] + 1 ELSE generation[b]]
    /\ reset_on_release' = [b \in Blocks |-> IF b \in M \cup R THEN DefaultReset ELSE reset_on_release[b]]
    /\ guard' = [b \in Blocks |-> IF b \in M THEN "Mutable" ELSE guard[b]]
    /\ UNCHANGED <<innerOf, inactive_epoch>>

\* allocate_reset_blocks, allocate_reset_blocks_atomic: the n lowest free slots.
AllocateReset(n) ==
    /\ n <= Cardinality(free)
    /\ Retire(Lowest(n), {})
    /\ free' = free \ Lowest(n)
    /\ UNCHANGED <<capacity, fence, fenced, indexVars, arcVars, presenceVars>>

\* The inactive slots of V are evicted, those below the ceiling to MutableBlock
\* guards and the others to the fenced reset set, after the reset slots of R
\* were allocated.  mark_absent of the victims runs after the unlock.
Evict(R, V) ==
    /\ Retire(R \cup {b \in V : b < Ceiling}, {b \in V : b >= Ceiling})
    /\ free' = free \ R
    /\ fenced' = push_reset_fenced(V)
    /\ inactive' = Without(inactive, V)
    /\ pendingAbsent' = [h \in Hashes |->
           IF inactive[h] \in V THEN pendingAbsent[h] + 1 ELSE pendingAbsent[h]]
    /\ UNCHANGED <<capacity, fence, active_by_hash, held_by_hash, arcVars, presence, unmarked>>

\* allocate_atomic(n): all or nothing.  The backend chooses the victims; it is
\* asked for more until enough of them lie below the ceiling, and over-ceiling
\* victims met on the way are evicted too.  A shortfall leaves the store as it was.
AllocateAtomic(n, V) ==
    LET R == Lowest(n)
        needed == n - Cardinality(R)
    IN  /\ n > 0
        /\ V \subseteq InactiveBlocks
        /\ Cardinality({b \in V : b < Ceiling}) = needed
        /\ needed = 0 => V = {}
        /\ Evict(R, V)

\* drain_inactive_to_mutable
DrainInactive ==
    /\ InactiveBlocks # {}
    /\ Evict({}, InactiveBlocks)

\* inactive_tail_to_mutable(m): the cached slots at or above m with no busy slot
\* above them, with their inactive descendants.  Which slots descend from them is
\* the backend's knowledge, so any further set D of inactive slots may go along.
InactiveTail(m) ==
    {b \in InactiveBlocks : b >= m /\ \A c \in Blocks : c > b => state[c] \in {"Reset", "Inactive"}}

EvictTail(m, D) ==
    /\ InactiveTail(m) # {}
    /\ D \subseteq InactiveBlocks
    /\ Evict({}, InactiveTail(m) \cup D)

(***************************************************************************)
(* MutableBlock and CompleteBlock guards                                   *)
(***************************************************************************)

\* Slot b returns to the reset pool; its override is left as it is.
ResetSlot(b) ==
    /\ state' = [state EXCEPT ![b] = "Reset"]
    /\ hashOf' = [hashOf EXCEPT ![b] = NoHash]
    /\ innerOf' = [innerOf EXCEPT ![b] = NoInner]
    /\ free' = push_reset_free({b})
    /\ fenced' = push_reset_fenced({b})
    /\ UNCHANGED <<generation, inactive_epoch, reset_on_release, capacity, fence>>

\* MutableBlock dropped.
ReleaseMutable(b) ==
    /\ guard[b] = "Mutable"
    /\ ResetSlot(b)
    /\ guard' = [guard EXCEPT ![b] = "None"]
    /\ UNCHANGED <<indexVars, arcVars, presenceVars>>

\* MutableBlock::stage, ::complete
Stage(b, h) ==
    /\ guard[b] = "Mutable"
    /\ state' = [state EXCEPT ![b] = "Staged"]
    /\ hashOf' = [hashOf EXCEPT ![b] = h]
    /\ guard' = [guard EXCEPT ![b] = "Complete"]
    /\ UNCHANGED <<innerOf, generation, inactive_epoch, reset_on_release,
                   poolVars, indexVars, arcVars, presenceVars>>

\* CompleteBlock::reset
ResetStaged(b) ==
    /\ guard[b] = "Complete"
    /\ state' = [state EXCEPT ![b] = "Mutable"]
    /\ hashOf' = [hashOf EXCEPT ![b] = NoHash]
    /\ reset_on_release' = [reset_on_release EXCEPT ![b] = DefaultReset]
    /\ guard' = [guard EXCEPT ![b] = "Mutable"]
    /\ UNCHANGED <<innerOf, generation, inactive_epoch, poolVars, indexVars, arcVars, presenceVars>>

\* CompleteBlock dropped, by its owner or by a registration that rejected it.
ReleaseStaged(b) ==
    /\ guard[b] \in {"Complete", "Rejected"}
    /\ ResetSlot(b)
    /\ guard' = [guard EXCEPT ![b] = "None"]
    /\ UNCHANGED <<indexVars, arcVars, presenceVars>>

\* CompleteBlock::set_evict_on_reset
SetEvictStaged(b, v) ==
    /\ guard[b] = "Complete"
    /\ reset_on_release' = [reset_on_release EXCEPT ![b] = v]
    /\ UNCHANGED <<state, hashOf, innerOf, generation, inactive_epoch,
                   poolVars, indexVars, guard, arcVars, presenceVars>>

\* ImmutableBlock::set_evict_on_reset
SetEvict(i, v) ==
    /\ refs[i] > 0
    /\ LET b == block_id[i]
       IN  /\ state[b] \in {"Primary", "Duplicate"} /\ innerOf[b] = i
           /\ reset_on_release' = [reset_on_release EXCEPT ![b] = v]
    /\ UNCHANGED <<state, hashOf, innerOf, generation, inactive_epoch,
                   poolVars, indexVars, guard, arcVars, presenceVars>>

(***************************************************************************)
(* Lookup.  A lookup of hash h finds the active slot, or the inactive one. *)
(* An active slot with a live arc is upgraded.  In the other cases a new   *)
(* arc is bound to the slot: an inactive slot is promoted, and an active   *)
(* slot with a dead Weak first enters the inactive pool (eagerly, ahead of *)
(* the pending release_primary) and is promoted from there.                *)
(***************************************************************************)

Found(h) == active_by_hash[h] # NoBlock \/ inactive[h] # NoBlock

SlotFor(h) == IF active_by_hash[h] # NoBlock THEN active_by_hash[h] ELSE inactive[h]

Upgradable(h) == active_by_hash[h] # NoBlock /\ phase[innerOf[active_by_hash[h]]] = "live"

\* The arcs a lookup of h may return: the live one, or a new one.
ArcsFor(h) == IF Upgradable(h) THEN {innerOf[active_by_hash[h]]} ELSE FreshInners

Visible(h) == held_by_hash[h] = NoBlock /\ Found(h)

\* One arc for each hash of H, no two of them the same.
ArcChoices(H) ==
    {f \in [H -> Inners] : /\ \A h \in H : f[h] \in ArcsFor(h)
                           /\ \A g, h \in H : f[g] = f[h] => g = h}

\* Slot b is the one that the lookup of H finds for its hash.
FoundIn(b, H) == hashOf[b] \in H /\ SlotFor(hashOf[b]) = b

EagerlyRetired(b, H) == FoundIn(b, H) /\ state[b] = "Primary" /\ ~Upgradable(hashOf[b])

\* The result of acquire_registered_for_hash_locked for every h in H, variable by variable.
LookupState(H) == [b \in Blocks |-> IF FoundIn(b, H) THEN "Primary" ELSE state[b]]
LookupInnerOf(H, f) == [b \in Blocks |-> IF FoundIn(b, H) THEN f[hashOf[b]] ELSE innerOf[b]]
LookupEpoch(H) ==
    [b \in Blocks |-> IF EagerlyRetired(b, H) THEN inactive_epoch[b] + 1 ELSE inactive_epoch[b]]
LookupActive(H) == [h \in Hashes |-> IF h \in H THEN SlotFor(h) ELSE active_by_hash[h]]
LookupInactive(H) == [h \in Hashes |-> IF h \in H THEN NoBlock ELSE inactive[h]]
LookupPhase(H, f) == [i \in Inners |-> IF \E h \in H : f[h] = i THEN "live" ELSE phase[i]]
LookupBlockId(H, f) ==
    [i \in Inners |-> IF \E h \in H : f[h] = i THEN SlotFor(CHOOSE h \in H : f[h] = i) ELSE block_id[i]]

\* Bound: a slot gets a new arc only while the release of that arc still has an epoch left.
EpochsRemain(H) ==
    \A b \in Blocks : FoundIn(b, H) /\ ~Upgradable(hashOf[b]) => LookupEpoch(H)[b] < MaxEpoch

\* A lookup of the hashes of H that returns a reference for each.
LookupAll(H, f) ==
    /\ EpochsRemain(H)
    /\ \A h \in H : refs[f[h]] < MaxRefs
    /\ state' = LookupState(H)
    /\ innerOf' = LookupInnerOf(H, f)
    /\ inactive_epoch' = LookupEpoch(H)
    /\ active_by_hash' = LookupActive(H)
    /\ inactive' = LookupInactive(H)
    /\ phase' = LookupPhase(H, f)
    /\ block_id' = LookupBlockId(H, f)
    /\ refs' = [i \in Inners |-> IF \E h \in H : f[h] = i THEN refs[i] + 1 ELSE refs[i]]
    /\ UNCHANGED <<hashOf, generation, reset_on_release, poolVars, held_by_hash,
                   keepalive, presenceVars>>

\* acquire_for_hash, match_prefix_locked_batch, promote_inactive: under one lock,
\* the visible ones among the requested hashes, up to a first miss or all of them.
Acquire(H) ==
    /\ H # {} /\ \A h \in H : Visible(h)
    /\ \E f \in ArcChoices(H) : LookupAll(H, f)
    /\ UNCHANGED guard

(***************************************************************************)
(* Registration of a CompleteBlock: register_completed_block, and each     *)
(* item of register_blocks.  The registering thread owns one reference to  *)
(* the new arc and calls mark_present after the unlock, before it returns. *)
(***************************************************************************)

\* No slot is registered under the hash: b becomes its Primary.
RegisterPrimary(b, i) ==
    LET h == hashOf[b]
    IN  /\ guard[b] = "Complete"
        /\ ~Found(h)
        /\ i \in FreshInners
        /\ inactive_epoch[b] < MaxEpoch
        /\ state' = [state EXCEPT ![b] = "Primary"]
        /\ innerOf' = [innerOf EXCEPT ![b] = i]
        /\ active_by_hash' = [active_by_hash EXCEPT ![h] = b]
        /\ guard' = [guard EXCEPT ![b] = "None"]
        /\ phase' = [phase EXCEPT ![i] = "live"]
        /\ refs' = [refs EXCEPT ![i] = 1]
        /\ block_id' = [block_id EXCEPT ![i] = b]
        /\ unmarked' = unmarked \cup {i}
        /\ UNCHANGED <<hashOf, generation, inactive_epoch, reset_on_release, poolVars,
                       inactive, held_by_hash, keepalive, presence, pendingAbsent>>

\* A slot is registered and duplicates are allowed: b becomes a Duplicate that
\* keeps the existing primary's arc k alive.
RegisterDuplicate(b, i, k) ==
    LET h == hashOf[b]
        H == {h}
        f == [g \in H |-> k]
    IN  /\ guard[b] = "Complete"
        /\ Found(h)
        /\ k \in ArcsFor(h) /\ i \in FreshInners \ {k}
        /\ EpochsRemain(H)
        /\ state' = [LookupState(H) EXCEPT ![b] = "Duplicate"]
        /\ innerOf' = [LookupInnerOf(H, f) EXCEPT ![b] = i]
        /\ inactive_epoch' = LookupEpoch(H)
        /\ active_by_hash' = LookupActive(H)
        /\ inactive' = LookupInactive(H)
        /\ guard' = [guard EXCEPT ![b] = "None"]
        /\ phase' = [LookupPhase(H, f) EXCEPT ![i] = "live"]
        /\ block_id' = [LookupBlockId(H, f) EXCEPT ![i] = b]
        /\ refs' = [refs EXCEPT ![i] = 1]
        /\ keepalive' = [keepalive EXCEPT ![i] = k]
        /\ unmarked' = unmarked \cup {i}
        /\ UNCHANGED <<hashOf, generation, reset_on_release, poolVars, held_by_hash,
                       presence, pendingAbsent>>

\* A slot is registered and duplicates are rejected: the caller receives the
\* existing primary, and the staged guard is dropped after the unlock.
RegisterReject(b, f) ==
    /\ guard[b] = "Complete"
    /\ Found(hashOf[b])
    /\ f \in ArcChoices({hashOf[b]})
    /\ LookupAll({hashOf[b]}, f)
    /\ guard' = [guard EXCEPT ![b] = "Rejected"]

\* Mutant: presence is a flag instead of a count.
MarkPresent_Flag(i) ==
    /\ i \in unmarked
    /\ unmarked' = unmarked \ {i}
    /\ presence' = [presence EXCEPT ![hashOf[block_id[i]]] = 1]
    /\ UNCHANGED <<slotVars, poolVars, indexVars, guard, arcVars, pendingAbsent>>

\* mark_present of the handle, after the registration's unlock.
MarkPresent(i) ==
    /\ i \in unmarked
    /\ unmarked' = unmarked \ {i}
    /\ presence' = [presence EXCEPT ![hashOf[block_id[i]]] = @ + 1]
    /\ UNCHANGED <<slotVars, poolVars, indexVars, guard, arcVars, pendingAbsent>>

\* mark_absent of a handle, after the unlock of the operation that reset its slot.
MarkAbsent(h) ==
    /\ pendingAbsent[h] > 0
    /\ pendingAbsent' = [pendingAbsent EXCEPT ![h] = @ - 1]
    /\ presence' = [presence EXCEPT ![h] = @ - 1]
    /\ UNCHANGED <<slotVars, poolVars, indexVars, guard, arcVars, unmarked>>

(***************************************************************************)
(* References                                                              *)
(***************************************************************************)

\* ImmutableBlock::clone, or the fast path of WeakBlock::upgrade.
Upgrade(i) ==
    /\ phase[i] = "live"
    /\ refs[i] < MaxRefs
    /\ refs' = [refs EXCEPT ![i] = @ + 1]
    /\ UNCHANGED <<slotVars, poolVars, indexVars, guard, phase, block_id, keepalive, presenceVars>>

\* A caller's reference is dropped.  The last owner starts Drop::drop.  The
\* registering thread still owns its reference until mark_present has run.
DropRef(i) ==
    /\ refs[i] > IF i \in unmarked THEN 1 ELSE 0
    /\ refs' = [refs EXCEPT ![i] = @ - 1]
    /\ phase' = [phase EXCEPT ![i] = IF refs[i] = 1 /\ Keepers(i) = {} THEN "dropping" ELSE @]
    /\ UNCHANGED <<slotVars, poolVars, indexVars, guard, block_id, keepalive, presenceVars>>

\* Mutant: a release looks at the slot's state, not at the identity of its Weak.
Owns_AnyWeak(i, s) == state[block_id[i]] = s

\* The identity check of the releases: the slot still carries the Weak of arc i.
Owns(i, s) == state[block_id[i]] = s /\ innerOf[block_id[i]] = i

\* release_primary with the override set: the slot is reset, not cached.
ReleasePrimaryToReset(i) ==
    LET b == block_id[i]
    IN  /\ phase[i] = "dropping" /\ IsPrimary(i)
        /\ Owns(i, "Primary") /\ reset_on_release[b]
        /\ ResetSlot(b)
        /\ active_by_hash' = [active_by_hash EXCEPT ![hashOf[b]] = NoBlock]
        /\ pendingAbsent' = [pendingAbsent EXCEPT ![hashOf[b]] = @ + 1]
        /\ phase' = [phase EXCEPT ![i] = "free"]
        /\ block_id' = [block_id EXCEPT ![i] = NoBlock]
        /\ UNCHANGED <<inactive, held_by_hash, guard, refs, keepalive, presence, unmarked>>

\* release_primary without the override: the slot enters the inactive pool.
ReleasePrimaryToInactive(i) ==
    LET b == block_id[i]
    IN  /\ phase[i] = "dropping" /\ IsPrimary(i)
        /\ Owns(i, "Primary") /\ ~reset_on_release[b]
        /\ state' = [state EXCEPT ![b] = "Inactive"]
        /\ innerOf' = [innerOf EXCEPT ![b] = NoInner]
        /\ inactive_epoch' = [inactive_epoch EXCEPT ![b] = @ + 1]
        /\ inactive' = [inactive EXCEPT ![hashOf[b]] = b]
        /\ active_by_hash' = [active_by_hash EXCEPT ![hashOf[b]] = NoBlock]
        /\ phase' = [phase EXCEPT ![i] = "free"]
        /\ block_id' = [block_id EXCEPT ![i] = NoBlock]
        /\ UNCHANGED <<hashOf, generation, reset_on_release, poolVars, held_by_hash, guard,
                       refs, keepalive, presenceVars>>

\* release_primary after a lookup took the slot over: nothing to do.
ReleasePrimaryNoop(i) ==
    /\ phase[i] = "dropping" /\ IsPrimary(i)
    /\ ~Owns(i, "Primary")
    /\ phase' = [phase EXCEPT ![i] = "free"]
    /\ block_id' = [block_id EXCEPT ![i] = NoBlock]
    /\ UNCHANGED <<slotVars, poolVars, indexVars, guard, refs, keepalive, presenceVars>>

\* release_duplicate: the slot is reset whatever its override says.
ReleaseDuplicate(i) ==
    LET b == block_id[i]
    IN  /\ phase[i] = "dropping" /\ ~IsPrimary(i)
        /\ Owns(i, "Duplicate")
        /\ ResetSlot(b)
        /\ pendingAbsent' = [pendingAbsent EXCEPT ![hashOf[b]] = @ + 1]
        /\ phase' = [phase EXCEPT ![i] = "fields"]
        /\ UNCHANGED <<indexVars, guard, refs, block_id, keepalive, presence, unmarked>>

\* Mutant: the last keepalive goes without the primary's own drop.
DropKeepalive_NoCascade(i) ==
    /\ phase[i] = "fields"
    /\ keepalive' = [keepalive EXCEPT ![i] = NoInner]
    /\ block_id' = [block_id EXCEPT ![i] = NoBlock]
    /\ phase' = [phase EXCEPT ![i] = "free"]
    /\ UNCHANGED <<slotVars, poolVars, indexVars, guard, refs, presenceVars>>

\* The field drop of a duplicate: its keepalive of the primary's arc goes, and
\* the primary's own drop starts when that was its last owner.
DropKeepalive(i) ==
    LET k == keepalive[i]
    IN  /\ phase[i] = "fields"
        /\ keepalive' = [keepalive EXCEPT ![i] = NoInner]
        /\ block_id' = [block_id EXCEPT ![i] = NoBlock]
        /\ phase' = [phase EXCEPT ![i] = "free",
                                  ![k] = IF refs[k] = 0 /\ Keepers(k) = {i} THEN "dropping" ELSE @]
        /\ UNCHANGED <<slotVars, poolVars, indexVars, guard, refs, presenceVars>>

(***************************************************************************)
(* Capacity and allocation ceiling                                         *)
(***************************************************************************)

\* The reset slots are sorted into free and fenced by the new ceiling.
Reclassify(R, c) ==
    /\ free' = {b \in R : b < c}
    /\ fenced' = {b \in R : b >= c}

\* set_capacity(c): rejected when a slot at or above c is occupied.
SetCapacity(c) ==
    /\ c <= MaxBlocks
    /\ \A b \in Blocks : b >= c => state[b] = "Reset"
    /\ capacity' = c
    /\ Reclassify({b \in free \cup fenced : b < c} \cup (capacity .. c - 1), effective_ceiling(fence, c))
    /\ UNCHANGED <<slotVars, fence, indexVars, guard, arcVars, presenceVars>>

\* set_allocation_ceiling(f): rejected above the capacity.
SetAllocationCeiling(f) ==
    /\ f <= capacity
    /\ fence' = f
    /\ Reclassify(free \cup fenced, effective_ceiling(f, capacity))
    /\ UNCHANGED <<slotVars, capacity, indexVars, guard, arcVars, presenceVars>>

(***************************************************************************)
(* The store's steps, and its specification                                *)
(***************************************************************************)

GuardStep ==
    \E b \in Blocks :
        \/ ReleaseMutable(b)
        \/ \E h \in Hashes : Stage(b, h)
        \/ ResetStaged(b)
        \/ ReleaseStaged(b)

AllocateStep ==
    \/ \E n \in 1 .. MaxBlocks :
           \/ AllocateReset(n)
           \/ \E V \in SUBSET InactiveBlocks : AllocateAtomic(n, V)
    \/ DrainInactive
    \/ \E m \in 0 .. MaxBlocks, D \in SUBSET InactiveBlocks : EvictTail(m, D)

RegisterStep ==
    \E b \in Blocks :
        \/ \E i \in Inners : RegisterPrimary(b, i)
        \/ \E i, k \in Inners : RegisterDuplicate(b, i, k)
        \/ \E f \in [{hashOf[b]} -> Inners] : RegisterReject(b, f)

\* The steps a dropping thread or a returning call still has to take.
FinishStep(i) ==
    \/ MarkPresent(i)
    \/ ReleasePrimaryToReset(i)
    \/ ReleasePrimaryToInactive(i)
    \/ ReleasePrimaryNoop(i)
    \/ ReleaseDuplicate(i)
    \/ DropKeepalive(i)

RefStep ==
    \E i \in Inners :
        \/ Upgrade(i)
        \/ DropRef(i)

OverrideStep ==
    \E v \in BOOLEAN :
        \/ \E b \in Blocks : SetEvictStaged(b, v)
        \/ \E i \in Inners : SetEvict(i, v)

\* The steps of requests: everything but the eviction override and resizing.
RequestNext ==
    \/ AllocateStep
    \/ GuardStep
    \/ RegisterStep
    \/ \E H \in SUBSET Hashes : Acquire(H)
    \/ RefStep
    \/ \E i \in Inners : FinishStep(i)
    \/ \E h \in Hashes : MarkAbsent(h)

ResizeStep ==
    \/ \E c \in 0 .. MaxBlocks + 1 : SetCapacity(c)
    \/ \E f \in -1 .. MaxBlocks + 1 : SetAllocationCeiling(f)

StoreNext == RequestNext \/ OverrideStep \/ ResizeStep

StoreSpec == StoreInit /\ [][StoreNext]_storeVars

\* A thread that is inside a drop, or about to mark, holds nothing that could
\* block it but the store mutex, and runs on.
StoreFairness ==
    /\ \A i \in Inners : WF_storeVars(FinishStep(i))
    /\ \A h \in Hashes : WF_storeVars(MarkAbsent(h))

FairStoreSpec == StoreSpec /\ StoreFairness

(***************************************************************************)
(* Properties                                                              *)
(***************************************************************************)

\* The types of the slots, of the pools with their indexes, and of the arcs with their marks.
SlotTypes ==
    /\ state \in [Blocks -> SlotStates]
    /\ hashOf \in [Blocks -> Hashes \cup {NoHash}]
    /\ innerOf \in [Blocks -> Inners \cup {NoInner}]
    /\ generation \in [Blocks -> Nat] /\ inactive_epoch \in [Blocks -> Nat]
    /\ reset_on_release \in [Blocks -> BOOLEAN]
    /\ guard \in [Blocks -> Guards]

PoolTypes ==
    /\ capacity \in 0 .. MaxBlocks /\ fence \in -1 .. MaxBlocks
    /\ free \subseteq Blocks /\ fenced \subseteq Blocks

IndexTypes ==
    /\ inactive \in [Hashes -> Blocks \cup {NoBlock}]
    /\ active_by_hash \in [Hashes -> Blocks \cup {NoBlock}]
    /\ held_by_hash \in [Hashes -> Blocks \cup {NoBlock}]

ArcTypes ==
    /\ phase \in [Inners -> Phases] /\ refs \in [Inners -> Nat]
    /\ block_id \in [Inners -> Blocks \cup {NoBlock}]
    /\ keepalive \in [Inners -> Inners \cup {NoInner}]

PresenceTypes ==
    /\ presence \in [Hashes -> Int] /\ pendingAbsent \in [Hashes -> Nat]
    /\ unmarked \subseteq Inners

\* Every variable has its type.
StoreTypeOK == SlotTypes /\ PoolTypes /\ IndexTypes /\ ArcTypes /\ PresenceTypes

\* The reset pool is exact: a slot is offered for allocation if and only if it
\* is Reset and below the allocation ceiling, and parked if and only if it is
\* Reset between the ceiling and the capacity; no slot is lost to both lists by
\* a resize, a fence or an eviction (push_reset_id_locked, set_capacity).
ResetPoolExact ==
    \A b \in Blocks :
        /\ b \in free <=> state[b] = "Reset" /\ b < Ceiling
        /\ b \in fenced <=> state[b] = "Reset" /\ Ceiling <= b /\ b < capacity

\* No occupied slot lies outside the capacity, whatever resizes raced with
\* allocations and releases (check_capacity).
OccupiedWithinCapacity ==
    \A b \in Blocks : state[b] # "Reset" => b < capacity

\* A MutableBlock or CompleteBlock owns its slot alone: the slot is in the
\* guard's state as long as the guard exists, and has no guard in any other
\* state.  A debug_assert in release_mutable, transition_to_staged,
\* transition_back_to_mutable and release_staged relies on it.
GuardOwnsSlot ==
    \A b \in Blocks :
        /\ state[b] = "Mutable" <=> guard[b] \in {"Mutable", "Plan"}
        /\ state[b] = "Staged" <=> guard[b] \in {"Complete", "Rejected"}

\* An index maps a hash to slot b exactly when slot b has that hash in state s.
IndexMatches(index, s) ==
    \A h \in Hashes, b \in Blocks : index[h] = b <=> state[b] = s /\ hashOf[b] = h

\* The three hash indexes and the slot states agree.  In particular a hash has
\* at most one Primary slot, at most one Inactive slot and at most one Held slot,
\* and the panic of acquire_registered_for_hash_locked on an active entry whose
\* slot is not Primary is unreachable.
IndexesExact ==
    /\ IndexMatches(active_by_hash, "Primary")
    /\ IndexMatches(inactive, "Inactive")
    /\ IndexMatches(held_by_hash, "Held")

\* A hash is never active and inactive at once, so a release never inserts a
\* hash that the inactive index already holds (LineageBackend::insert panics on
\* one), however releases race with lookups and registrations.
ActiveOrInactive ==
    \A h \in Hashes : active_by_hash[h] = NoBlock \/ inactive[h] = NoBlock

\* As long as anyone holds a reference, the slot stays registered to exactly
\* that object: neither eviction, nor another object's late release_primary,
\* nor a racing lookup takes the block away from a holder.
LiveArcOwnsSlot ==
    \A i \in Inners :
        phase[i] = "live" =>
            /\ block_id[i] \in Blocks
            /\ Owns(i, IF IsPrimary(i) THEN "Primary" ELSE "Duplicate")

\* A duplicate keeps its primary registered: until the duplicate's fields are
\* dropped, the arc it keeps alive is a live primary of the same hash, so
\* release_duplicate never has to touch active_by_hash.
DuplicatePinsPrimary ==
    \A i \in Inners :
        phase[i] # "free" /\ ~IsPrimary(i) =>
            LET k == keepalive[i]
            IN  /\ phase[k] = "live" /\ IsPrimary(k)
                /\ phase[i] = "live" => hashOf[block_id[k]] = hashOf[block_id[i]]

\* The release of a duplicate always finds its slot still bound to it, so the
\* defensive no-op branch of release_duplicate is never taken.
DuplicateNeverMovesOn ==
    \A i \in Inners : phase[i] = "dropping" /\ ~IsPrimary(i) => Owns(i, "Duplicate")

\* A slot handed to a new tenant carries the store's default override, whatever
\* the previous tenant set and however its tenure ended.
FreshTenantHasDefault ==
    \A b \in Blocks : state[b] = "Mutable" => reset_on_release[b] = DefaultReset

\* A block whose holder asked for eviction on reset is never parked in the
\* inactive pool, not even by the eager transition of a lookup that overtakes
\* its release_primary (the override rides through that transition).
EvictOnResetNeverCached ==
    \A b \in Blocks : state[b] \in {"Inactive", "Held"} => ~reset_on_release[b]

\* The presence counter of a hash is the number of its registered slots, less
\* the mark_present calls and plus the mark_absent calls still to run; so
\* mark_absent never finds the counter at zero (the debug_assert of
\* PresenceMarkers::decrement), and check_presence is right once calls return.
PresenceExact ==
    \A h \in Hashes :
        presence[h] =
            Cardinality({b \in Blocks : state[b] \in Registered /\ hashOf[b] = h})
            - Cardinality({i \in unmarked : hashOf[block_id[i]] = h})
            + pendingAbsent[h]

\* Some caller holds a reference to a block registered under h.
Referenced(h) ==
    \E i \in Inners : refs[i] > 0 /\ block_id[i] \in Blocks /\ hashOf[block_id[i]] = h

\* When the last reference to a hash is dropped, be it to the primary or to a
\* duplicate that keeps the primary alive, the hash eventually leaves the active
\* index, unless a caller takes a new reference first: no chain of drops is cut
\* short and leaves a block active that nobody can release.
UnreferencedLeavesActive ==
    \A h \in Hashes :
        active_by_hash[h] # NoBlock /\ ~Referenced(h) ~> active_by_hash[h] = NoBlock \/ Referenced(h)

(***************************************************************************)
(* The inductive invariant behind the safety properties: what has to be    *)
(* known besides them of slots, arcs and their owners.                     *)
(***************************************************************************)

\* A slot has a hash exactly when it is staged, registered or held, and a Weak
\* exactly when it is Primary or Duplicate.
SlotFields ==
    \A b \in Blocks :
        /\ hashOf[b] \in Hashes <=> state[b] \in Registered \cup {"Staged"}
        /\ innerOf[b] \in Inners <=> state[b] \in {"Primary", "Duplicate"}

\* The arc bound to a slot names that slot, has not been released, and is a
\* primary or a duplicate as the slot is.
SlotHasArc ==
    \A b \in Blocks :
        state[b] \in {"Primary", "Duplicate"} =>
            /\ phase[innerOf[b]] \in {"live", "dropping"}
            /\ block_id[innerOf[b]] = b
            /\ IsPrimary(innerOf[b]) <=> state[b] = "Primary"

\* An arc is live exactly when it has an owner: a caller or a duplicate.
LiveHasOwner ==
    \A i \in Inners : phase[i] = "live" <=> refs[i] > 0 \/ Keepers(i) # {}

\* Arcs on their way out, the registering thread's reference, and the values of a free arc.
ArcFields ==
    \A i \in Inners :
        /\ phase[i] = "free" => IsPrimary(i)
        /\ phase[i] = "fields" => ~IsPrimary(i)
        /\ phase[i] = "dropping" => block_id[i] \in Blocks
        /\ i \in unmarked => refs[i] > 0

\* An inductive invariant of the store: it implies every safety property above
\* but the count of PresenceExact.
StoreInv ==
    /\ StoreTypeOK
    /\ ResetPoolExact /\ OccupiedWithinCapacity
    /\ GuardOwnsSlot
    /\ SlotFields /\ IndexesExact /\ ActiveOrInactive
    /\ SlotHasArc /\ LiveArcOwnsSlot /\ LiveHasOwner /\ ArcFields
    /\ DuplicatePinsPrimary /\ DuplicateNeverMovesOn
    /\ FreshTenantHasDefault /\ EvictOnResetNeverCached
=============================================================================
