------------------------ MODULE BlockStorePoolProofs ------------------------
(***************************************************************************)
(* Lemmas for the invariant StoreInv of module BlockStore: what a step has *)
(* to leave alone for parts of it to survive (the frame lemmas), the       *)
(* preservation of StoreInv by the operations that touch neither an arc nor*)
(* a registered block (marks, overrides, resizing and guards), and what a  *)
(* lookup does: which slot it finds and which arc it binds to the slot.    *)
(***************************************************************************)
EXTENDS BlockStore, TLAPS

(***************************************************************************)
(* Facts and frames                                                        *)
(***************************************************************************)

\* Block ids are naturals below the largest capacity, and the absent id is none of them.
LEMMA BlockFacts ==
  Blocks \subseteq Nat /\ NoBlock \notin Blocks /\ \A b \in Blocks : b < MaxBlocks
BY StoreConstants DEF Blocks, NoBlock

\* effective_ceiling is an integer that never exceeds the capacity.
LEMMA CeilingFacts ==
  ASSUME StoreTypeOK
  PROVE  Ceiling \in Int /\ Ceiling <= capacity /\ capacity \in Nat
BY DEF StoreTypeOK, PoolTypes, ArcTypes, Ceiling, effective_ceiling

\* The pool accounting reads nothing but the slot states and the pool.
LEMMA PoolFrame ==
  ASSUME StoreInv, UNCHANGED <<state, poolVars>>
  PROVE  ResetPoolExact' /\ OccupiedWithinCapacity'
BY Zenon DEF StoreInv, ResetPoolExact, OccupiedWithinCapacity, Ceiling, effective_ceiling, poolVars

\* The invariants about arcs.
ArcInv == /\ SlotHasArc /\ LiveArcOwnsSlot /\ LiveHasOwner /\ ArcFields
          /\ DuplicatePinsPrimary /\ DuplicateNeverMovesOn

\* A step that leaves the arcs alone, and every slot that is bound to one or
\* has a duplicate's hash, preserves the invariants about arcs.
LEMMA ArcFrame ==
  ASSUME StoreInv, UNCHANGED arcVars, unmarked' \subseteq unmarked,
         \A b \in Blocks :
             IF state[b] \in {"Primary", "Duplicate"}
             THEN state'[b] = state[b] /\ hashOf'[b] = hashOf[b] /\ innerOf'[b] = innerOf[b]
             ELSE state'[b] \notin {"Primary", "Duplicate"}
  PROVE  ArcInv'
<1> USE DEF StoreInv, arcVars, IsPrimary
<1>1. SlotHasArc'
  BY DEF SlotHasArc, SlotFields
<1>2. LiveArcOwnsSlot' /\ DuplicateNeverMovesOn'
  BY DEF LiveArcOwnsSlot, DuplicateNeverMovesOn, ArcFields, Owns
<1>3. LiveHasOwner'
  BY Zenon DEF LiveHasOwner, Keepers
<1>4. ArcFields'
  BY Zenon DEF ArcFields
<1>5. DuplicatePinsPrimary'
  BY DEF DuplicatePinsPrimary, LiveArcOwnsSlot, Owns, StoreTypeOK, ArcTypes
<1> QED
  BY Zenon, <1>1, <1>2, <1>3, <1>4, <1>5 DEF ArcInv

\* A step that touches at most the pool, the overrides and the presence marks.
LEMMA SlotFrame ==
  ASSUME StoreInv, UNCHANGED <<state, hashOf, innerOf, indexVars, guard, arcVars>>,
         unmarked' \subseteq unmarked, StoreTypeOK', ResetPoolExact', OccupiedWithinCapacity',
         FreshTenantHasDefault', EvictOnResetNeverCached'
  PROVE  StoreInv'
<1>1. GuardOwnsSlot' /\ SlotFields'
  BY Zenon DEF StoreInv, GuardOwnsSlot, SlotFields
<1>2. IndexesExact' /\ ActiveOrInactive'
  BY DEF StoreInv, IndexesExact, IndexMatches, ActiveOrInactive, indexVars
<1>3. ArcInv'
  BY Zenon, ArcFrame
<1> QED
  BY Zenon, <1>1, <1>2, <1>3 DEF StoreInv, ArcInv

(***************************************************************************)
(* Marks, overrides, resizing and guards                                   *)
(***************************************************************************)

\* mark_present preserves the invariant.
LEMMA MarkPresentInv ==
  ASSUME StoreInv, NEW i \in Inners, MarkPresent(i)
  PROVE  StoreInv'
<1> USE DEF MarkPresent, slotVars
<1>1. hashOf[block_id[i]] \in Hashes
  BY Zenon DEF StoreInv, ArcFields, LiveHasOwner, LiveArcOwnsSlot, Owns, SlotFields, Registered
<1>2. StoreTypeOK'
  BY <1>1 DEF StoreInv, StoreTypeOK, SlotTypes, PoolTypes, IndexTypes, ArcTypes, PresenceTypes, poolVars,
     indexVars, arcVars
<1>3. FreshTenantHasDefault' /\ EvictOnResetNeverCached'
  BY Zenon DEF StoreInv, FreshTenantHasDefault, EvictOnResetNeverCached
<1> QED
  BY Zenon, <1>2, <1>3, PoolFrame, SlotFrame

\* mark_absent preserves the invariant.
LEMMA MarkAbsentInv ==
  ASSUME StoreInv, NEW h \in Hashes, MarkAbsent(h)
  PROVE  StoreInv'
<1> USE DEF MarkAbsent, slotVars
<1>1. StoreTypeOK'
  BY DEF StoreInv, StoreTypeOK, SlotTypes, PoolTypes, IndexTypes, ArcTypes, PresenceTypes, poolVars, indexVars,
     arcVars
<1>2. FreshTenantHasDefault' /\ EvictOnResetNeverCached'
  BY Zenon DEF StoreInv, FreshTenantHasDefault, EvictOnResetNeverCached
<1> QED
  BY Zenon, <1>1, <1>2, PoolFrame, SlotFrame

\* CompleteBlock::set_evict_on_reset preserves the invariant.
LEMMA SetEvictStagedInv ==
  ASSUME StoreInv, NEW b \in Blocks, NEW v \in BOOLEAN, SetEvictStaged(b, v)
  PROVE  StoreInv'
<1> USE DEF SetEvictStaged
<1>1. StoreTypeOK'
  BY Zenon DEF StoreInv, StoreTypeOK, SlotTypes, PoolTypes, IndexTypes, ArcTypes, PresenceTypes, poolVars, indexVars,
     arcVars, presenceVars
<1>2. state[b] = "Staged"
  BY Zenon DEF StoreInv, GuardOwnsSlot
<1>3. FreshTenantHasDefault' /\ EvictOnResetNeverCached'
  BY <1>2 DEF StoreInv, FreshTenantHasDefault, EvictOnResetNeverCached
<1> QED
  BY Zenon, <1>1, <1>3, PoolFrame, SlotFrame DEF presenceVars

\* ImmutableBlock::set_evict_on_reset preserves the invariant.
LEMMA SetEvictInv ==
  ASSUME StoreInv, NEW i \in Inners, NEW v \in BOOLEAN, SetEvict(i, v)
  PROVE  StoreInv'
<1> USE DEF SetEvict
<1>1. block_id[i] \in Blocks
  BY Zenon DEF StoreInv, LiveHasOwner, LiveArcOwnsSlot
<1>2. StoreTypeOK'
  BY Zenon, <1>1 DEF StoreInv, StoreTypeOK, SlotTypes, PoolTypes, IndexTypes, ArcTypes, PresenceTypes, poolVars,
     indexVars, arcVars, presenceVars
<1>3. FreshTenantHasDefault' /\ EvictOnResetNeverCached'
  BY DEF StoreInv, FreshTenantHasDefault, EvictOnResetNeverCached
<1> QED
  BY Zenon, <1>2, <1>3, PoolFrame, SlotFrame DEF presenceVars

\* set_capacity preserves the invariant.
LEMMA SetCapacityInv ==
  ASSUME StoreInv, NEW c \in 0 .. MaxBlocks + 1, SetCapacity(c)
  PROVE  StoreInv'
<1> USE StoreConstants DEF SetCapacity, Reclassify
<1>1. c \in 0 .. MaxBlocks /\ capacity .. c - 1 \subseteq Blocks
  BY DEF StoreInv, StoreTypeOK, PoolTypes, Blocks
<1>2. StoreTypeOK'
  BY Zenon, <1>1 DEF StoreInv, StoreTypeOK, SlotTypes, PoolTypes, IndexTypes, ArcTypes, PresenceTypes, slotVars,
     indexVars, arcVars, presenceVars
<1>3. ResetPoolExact' /\ OccupiedWithinCapacity'
  BY BlockFacts DEF StoreInv, StoreTypeOK, PoolTypes, ResetPoolExact, OccupiedWithinCapacity, Ceiling,
     effective_ceiling, slotVars
<1>4. FreshTenantHasDefault' /\ EvictOnResetNeverCached'
  BY Zenon DEF StoreInv, FreshTenantHasDefault, EvictOnResetNeverCached, slotVars
<1> QED
  BY Zenon, <1>2, <1>3, <1>4, SlotFrame DEF slotVars, presenceVars

\* set_allocation_ceiling preserves the invariant.
LEMMA SetAllocationCeilingInv ==
  ASSUME StoreInv, NEW f \in -1 .. MaxBlocks + 1, SetAllocationCeiling(f)
  PROVE  StoreInv'
<1> USE StoreConstants DEF SetAllocationCeiling, Reclassify
<1>1. f \in -1 .. MaxBlocks
  BY DEF StoreInv, StoreTypeOK, PoolTypes
<1>2. StoreTypeOK'
  BY DEF StoreInv, StoreTypeOK, SlotTypes, PoolTypes, IndexTypes, ArcTypes, PresenceTypes, slotVars, indexVars,
     arcVars, presenceVars
<1>3. ResetPoolExact' /\ OccupiedWithinCapacity'
  BY BlockFacts DEF StoreInv, StoreTypeOK, PoolTypes, ResetPoolExact, OccupiedWithinCapacity, Ceiling,
     effective_ceiling, slotVars
<1>4. FreshTenantHasDefault' /\ EvictOnResetNeverCached'
  BY Zenon DEF StoreInv, FreshTenantHasDefault, EvictOnResetNeverCached, slotVars
<1> QED
  BY Zenon, <1>2, <1>3, <1>4, SlotFrame DEF slotVars, presenceVars
(***************************************************************************)
(* Guards                                                                  *)
(***************************************************************************)

\* A step that moves slot b, owned by a guard, to another unregistered state
\* leaves every index and every arc as it was.
LEMMA UnregisteredFrame ==
  ASSUME StoreInv, NEW b \in Blocks, NEW s \in {"Reset", "Mutable", "Staged"},
         state[b] \in {"Mutable", "Staged"}, state' = [state EXCEPT ![b] = s],
         \A c \in Blocks : c # b => hashOf'[c] = hashOf[c] /\ innerOf'[c] = innerOf[c],
         UNCHANGED <<indexVars, arcVars, unmarked>>
  PROVE  IndexesExact' /\ ActiveOrInactive' /\ ArcInv'
<1>1. \A c \in Blocks : state'[c] = IF c = b THEN s ELSE state[c]
  BY Zenon DEF StoreInv, StoreTypeOK, SlotTypes
<1>2. ArcInv'
  BY Zenon, <1>1, ArcFrame
<1>3. IndexesExact' /\ ActiveOrInactive'
  BY <1>1 DEF StoreInv, IndexesExact, IndexMatches, ActiveOrInactive, indexVars
<1> QED
  BY Zenon, <1>2, <1>3

\* Returning slot b to the reset pool keeps the pool exact (push_reset_id_locked).
LEMMA ResetSlotPool ==
  ASSUME StoreInv, NEW b \in Blocks, state[b] # "Reset", ResetSlot(b)
  PROVE  ResetPoolExact' /\ OccupiedWithinCapacity'
<1>1. b < capacity
  BY Zenon DEF StoreInv, OccupiedWithinCapacity
<1> QED
  BY Zenon DEF StoreInv, StoreTypeOK, SlotTypes, ResetPoolExact, OccupiedWithinCapacity, ResetSlot, push_reset_free,
     push_reset_fenced, Ceiling, effective_ceiling

\* Dropping a guard (release_mutable, release_staged) preserves the invariant.
LEMMA ReleaseGuardInv ==
  ASSUME StoreInv, NEW b \in Blocks, ReleaseMutable(b) \/ ReleaseStaged(b)
  PROVE  StoreInv'
<1>1. /\ state[b] \in {"Mutable", "Staged"} /\ ResetSlot(b) /\ guard' = [guard EXCEPT ![b] = "None"]
      /\ UNCHANGED <<indexVars, arcVars, presenceVars>>
  BY Zenon DEF StoreInv, GuardOwnsSlot, ReleaseMutable, ReleaseStaged
<1>2. StoreTypeOK'
  BY Zenon, <1>1 DEF StoreInv, StoreTypeOK, SlotTypes, PoolTypes, IndexTypes, ArcTypes, PresenceTypes, SlotStates,
     Guards, ResetSlot, push_reset_free, push_reset_fenced, indexVars, arcVars, presenceVars
<1>3. ResetPoolExact' /\ OccupiedWithinCapacity'
  BY Zenon, <1>1, ResetSlotPool
<1>4. GuardOwnsSlot' /\ SlotFields'
  BY Zenon, <1>1, StoreConstants DEF StoreInv, StoreTypeOK, SlotTypes, GuardOwnsSlot, SlotFields, Registered, ResetSlot
<1>5. IndexesExact' /\ ActiveOrInactive' /\ ArcInv'
  BY Zenon, <1>1, UnregisteredFrame DEF ResetSlot, StoreInv, StoreTypeOK, SlotTypes, presenceVars
<1>6. FreshTenantHasDefault' /\ EvictOnResetNeverCached'
  BY Zenon, <1>1 DEF StoreInv, StoreTypeOK, SlotTypes, FreshTenantHasDefault, EvictOnResetNeverCached, ResetSlot
<1> QED
  BY Zenon, <1>2, <1>3, <1>4, <1>5, <1>6 DEF StoreInv, ArcInv

\* MutableBlock::stage (transition_to_staged) preserves the invariant.
LEMMA StageInv ==
  ASSUME StoreInv, NEW b \in Blocks, NEW h \in Hashes, Stage(b, h)
  PROVE  StoreInv'
<1> USE DEF Stage
<1>1. state[b] = "Mutable"
  BY Zenon DEF StoreInv, GuardOwnsSlot
<1>2. StoreTypeOK'
  BY Zenon DEF StoreInv, StoreTypeOK, SlotTypes, PoolTypes, IndexTypes, ArcTypes, PresenceTypes, SlotStates, Guards,
     poolVars, indexVars, arcVars, presenceVars
<1>3. ResetPoolExact' /\ OccupiedWithinCapacity'
  BY <1>1 DEF StoreInv, ResetPoolExact, OccupiedWithinCapacity, Ceiling, poolVars
<1>4. GuardOwnsSlot' /\ SlotFields'
  BY Zenon DEF StoreInv, StoreTypeOK, SlotTypes, GuardOwnsSlot, SlotFields
<1>5. IndexesExact' /\ ActiveOrInactive' /\ ArcInv'
  BY Zenon, <1>1, UnregisteredFrame DEF StoreInv, StoreTypeOK, SlotTypes, presenceVars
<1>6. FreshTenantHasDefault' /\ EvictOnResetNeverCached'
  BY DEF StoreInv, FreshTenantHasDefault, EvictOnResetNeverCached
<1> QED
  BY Zenon, <1>2, <1>3, <1>4, <1>5, <1>6 DEF StoreInv, ArcInv

\* CompleteBlock::reset (transition_back_to_mutable) preserves the invariant.
LEMMA ResetStagedInv ==
  ASSUME StoreInv, NEW b \in Blocks, ResetStaged(b)
  PROVE  StoreInv'
<1> USE DEF ResetStaged
<1>1. state[b] = "Staged"
  BY Zenon DEF StoreInv, GuardOwnsSlot
<1>2. StoreTypeOK'
  BY Zenon, StoreConstants DEF StoreInv, StoreTypeOK, SlotTypes, PoolTypes, IndexTypes, ArcTypes, PresenceTypes,
     SlotStates, Guards, poolVars, indexVars, arcVars, presenceVars
<1>3. ResetPoolExact' /\ OccupiedWithinCapacity'
  BY <1>1 DEF StoreInv, ResetPoolExact, OccupiedWithinCapacity, Ceiling, poolVars
<1>4. GuardOwnsSlot' /\ SlotFields'
  BY Zenon, StoreConstants DEF StoreInv, StoreTypeOK, SlotTypes, GuardOwnsSlot, SlotFields, Registered
<1>5. IndexesExact' /\ ActiveOrInactive' /\ ArcInv'
  BY Zenon, <1>1, UnregisteredFrame DEF StoreInv, StoreTypeOK, SlotTypes, presenceVars
<1>6. FreshTenantHasDefault' /\ EvictOnResetNeverCached'
  BY Zenon DEF StoreInv, StoreTypeOK, SlotTypes, FreshTenantHasDefault, EvictOnResetNeverCached
<1> QED
  BY Zenon, <1>2, <1>3, <1>4, <1>5, <1>6 DEF StoreInv, ArcInv

(***************************************************************************)
(* Lookups                                                                 *)
(***************************************************************************)

\* What is known of an arc identity that a new ImmutableBlockInner may take.
LEMMA FreshFacts ==
  ASSUME StoreInv, NEW i \in FreshInners
  PROVE  /\ i \in Inners /\ phase[i] = "free" /\ refs[i] = 0
         /\ keepalive[i] = NoInner /\ Keepers(i) = {}
         /\ \A b \in Blocks : innerOf[b] # i
BY DEF FreshInners, StoreInv, LiveHasOwner, ArcFields, StoreTypeOK, ArcTypes, IsPrimary

\* Arc k is what a lookup that finds slot p may return: the live arc of p, or
\* a new one when p is inactive or its arc is inside its drop.
Binds(p, k) ==
    /\ state[p] \in {"Primary", "Inactive"}
    /\ k \in Inners /\ keepalive[k] = NoInner
    /\ phase[k] = "live" => state[p] = "Primary" /\ innerOf[p] = k /\ block_id[k] = p
    /\ phase[k] # "live" => k \in FreshInners /\ (state[p] = "Primary" => phase[innerOf[p]] = "dropping")

\* The slot that a lookup of a registered hash finds is the only Primary or
\* Inactive slot of that hash, and the arc it returns binds to it.
LEMMA LookupSlots ==
  ASSUME StoreInv, NEW h \in Hashes, Found(h)
  PROVE  /\ SlotFor(h) \in Blocks /\ hashOf[SlotFor(h)] = h /\ state[SlotFor(h)] \in {"Primary", "Inactive"}
         /\ \A b \in Blocks : hashOf[b] = h /\ state[b] \in {"Primary", "Inactive"} => b = SlotFor(h)
         /\ \A k \in ArcsFor(h) : Binds(SlotFor(h), k)
<1>1. PICK b \in Blocks : b = SlotFor(h)
  BY Zenon DEF StoreInv, StoreTypeOK, IndexTypes, Found, SlotFor
<1>2. b = active_by_hash[h] \/ b = inactive[h]
  BY Zenon, <1>1 DEF SlotFor
<1>3. hashOf[b] = h /\ state[b] \in {"Primary", "Inactive"}
  BY <1>2 DEF StoreInv, IndexesExact, IndexMatches
<1>4. \A c \in Blocks : hashOf[c] = h /\ state[c] \in {"Primary", "Inactive"} => c = b
  BY <1>2, BlockFacts DEF StoreInv, IndexesExact, IndexMatches, ActiveOrInactive
<1>5. ASSUME NEW k \in ArcsFor(h) PROVE Binds(b, k)
  <2>1. CASE Upgradable(h)
    <3>1. b = active_by_hash[h] /\ k = innerOf[b] /\ phase[k] = "live"
      BY Zenon, <1>1, <2>1 DEF Upgradable, SlotFor, ArcsFor
    <3>2. state[b] = "Primary"
      BY <3>1 DEF StoreInv, IndexesExact, IndexMatches
    <3> QED
      BY <3>1, <3>2 DEF Binds, StoreInv, SlotFields, SlotHasArc, IsPrimary
  <2>2. CASE ~Upgradable(h)
    <3>1. k \in FreshInners
      BY Zenon, <2>2 DEF ArcsFor
    <3>2. state[b] = "Primary" => active_by_hash[h] = b
      BY <1>3 DEF StoreInv, IndexesExact, IndexMatches
    <3>3. state[b] = "Primary" => phase[innerOf[b]] = "dropping"
      BY <2>2, <3>2, BlockFacts DEF Upgradable, StoreInv, SlotHasArc
    <3> QED
      BY Zenon, <1>3, <3>1, <3>3, FreshFacts DEF Binds
  <2> QED
    BY Zenon, <2>1, <2>2
<1> QED
  BY Zenon, <1>1, <1>3, <1>4, <1>5

\* The lookup of H binds arc f[h] to slot[h], the slot registered under h.
LookupPlan(H, f, slot) ==
    /\ slot \in [H -> Blocks] /\ f \in [H -> Inners]
    /\ \A h \in H : hashOf[slot[h]] = h /\ Binds(slot[h], f[h])
    /\ \A g, h \in H : f[g] = f[h] => g = h
    /\ \A b \in Blocks : hashOf[b] \in H /\ state[b] \in {"Primary", "Inactive"} => slot[hashOf[b]] = b

\* The slots that a lookup of H finds.
LEMMA LookupFacts ==
  ASSUME StoreInv, NEW H \in SUBSET Hashes, \A h \in H : Found(h), NEW f \in ArcChoices(H)
  PROVE  /\ LookupPlan(H, f, [h \in H |-> SlotFor(h)])
         /\ \A b \in Blocks : FoundIn(b, H) <=> hashOf[b] \in H /\ state[b] \in {"Primary", "Inactive"}
<1>1. f \in [H -> Inners] /\ (\A h \in H : f[h] \in ArcsFor(h)) /\ \A g, h \in H : f[g] = f[h] => g = h
  BY Zenon DEF ArcChoices
<1>2. ASSUME NEW h \in H
      PROVE  SlotFor(h) \in Blocks /\ hashOf[SlotFor(h)] = h /\ Binds(SlotFor(h), f[h])
  BY Zenon, <1>1, LookupSlots
<1>3. ASSUME NEW b \in Blocks, hashOf[b] \in H, state[b] \in {"Primary", "Inactive"}
      PROVE  SlotFor(hashOf[b]) = b
  BY Zenon, <1>3, LookupSlots
<1>4. LookupPlan(H, f, [h \in H |-> SlotFor(h)])
  BY Zenon, <1>1, <1>2, <1>3 DEF LookupPlan
<1>5. ASSUME NEW b \in Blocks, FoundIn(b, H) PROVE hashOf[b] \in H /\ state[b] \in {"Primary", "Inactive"}
  BY Zenon, <1>5, LookupSlots DEF FoundIn
<1>6. ASSUME NEW b \in Blocks, hashOf[b] \in H, state[b] \in {"Primary", "Inactive"} PROVE FoundIn(b, H)
  BY Zenon, <1>3, <1>6 DEF FoundIn
<1> QED
  BY Zenon, <1>4, <1>5, <1>6

\* The slots and the arcs after a lookup of H.
Looked(H, f, slot, st, inn, act, ph, bid) ==
    /\ st = [b \in Blocks |-> IF hashOf[b] \in H /\ state[b] \in {"Primary", "Inactive"} THEN "Primary" ELSE state[b]]
    /\ inn = [b \in Blocks |-> IF hashOf[b] \in H /\ state[b] \in {"Primary", "Inactive"} THEN f[hashOf[b]]
                               ELSE innerOf[b]]
    /\ act = [h \in Hashes |-> IF h \in H THEN slot[h] ELSE active_by_hash[h]]
    /\ ph \in [Inners -> Phases] /\ bid \in [Inners -> Blocks \cup {NoBlock}]
    /\ \A h \in H : bid[f[h]] = slot[h] /\ ph[f[h]] = "live"
    /\ \A i \in Inners : (\A h \in H : f[h] # i) => bid[i] = block_id[i] /\ ph[i] = phase[i]

\* acquire_registered_for_hash_locked for every hash of H.
LEMMA LookupValues ==
  ASSUME StoreInv, NEW H \in SUBSET Hashes, \A h \in H : Found(h), NEW f \in ArcChoices(H)
  PROVE  \E slot : /\ LookupPlan(H, f, slot)
                   /\ Looked(H, f, slot, LookupState(H), LookupInnerOf(H, f), LookupActive(H),
                             LookupPhase(H, f), LookupBlockId(H, f))
                   /\ LookupEpoch(H) \in [Blocks -> Nat]
<1> DEFINE slot == [h \in H |-> SlotFor(h)]
<1>1. LookupPlan(H, f, slot)
  BY Zenon, LookupFacts
<1>2. \A b \in Blocks : FoundIn(b, H) <=> hashOf[b] \in H /\ state[b] \in {"Primary", "Inactive"}
  BY Zenon, LookupFacts
<1>3. LookupState(H) = [b \in Blocks |-> IF hashOf[b] \in H /\ state[b] \in {"Primary", "Inactive"}
                                         THEN "Primary" ELSE state[b]]
  BY Zenon, <1>2 DEF LookupState
<1>4. LookupInnerOf(H, f) =
         [b \in Blocks |-> IF hashOf[b] \in H /\ state[b] \in {"Primary", "Inactive"} THEN f[hashOf[b]] ELSE innerOf[b]]
  BY Zenon, <1>2 DEF LookupInnerOf
<1>5. LookupActive(H) = [h \in Hashes |-> IF h \in H THEN slot[h] ELSE active_by_hash[h]]
  BY Zenon DEF LookupActive
<1>6. LookupEpoch(H) \in [Blocks -> Nat] /\ LookupPhase(H, f) \in [Inners -> Phases]
  BY DEF LookupEpoch, LookupPhase, StoreInv, StoreTypeOK, SlotTypes, ArcTypes, Phases
<1>7. ASSUME NEW h \in H
      PROVE  LookupBlockId(H, f)[f[h]] = slot[h] /\ LookupPhase(H, f)[f[h]] = "live"
  <2>1. (CHOOSE g \in H : f[g] = f[h]) = h /\ f[h] \in Inners
    BY Zenon, <1>1 DEF LookupPlan
  <2> QED
    BY Zenon, <2>1 DEF LookupBlockId, LookupPhase
<1>8. \A i \in Inners : (\A h \in H : f[h] # i) =>
         LookupBlockId(H, f)[i] = block_id[i] /\ LookupPhase(H, f)[i] = phase[i]
  BY Zenon DEF LookupBlockId, LookupPhase
<1>9. LookupBlockId(H, f) \in [Inners -> Blocks \cup {NoBlock}]
  <2>1. ASSUME NEW i \in Inners PROVE LookupBlockId(H, f)[i] \in Blocks \cup {NoBlock}
    <3>1. \A h \in H : slot[h] \in Blocks
      BY Zenon, <1>1 DEF LookupPlan
    <3> QED
      BY <3>1, <1>7, <1>8 DEF StoreInv, StoreTypeOK, ArcTypes
  <2> QED
    BY Zenon, <2>1 DEF LookupBlockId
<1> HIDE DEF slot
<1> QED
  BY Zenon, <1>1, <1>3, <1>4, <1>5, <1>6, <1>7, <1>8, <1>9 DEF Looked

\* The arcs after a lookup satisfy their invariants.
LEMMA LookupArcs ==
  ASSUME StoreInv, NEW H \in SUBSET Hashes, NEW f, NEW slot, LookupPlan(H, f, slot),
         Looked(H, f, slot, state', innerOf', active_by_hash', phase', block_id'),
         refs' = [i \in Inners |-> IF \E h \in H : f[h] = i THEN refs[i] + 1 ELSE refs[i]],
         UNCHANGED <<hashOf, keepalive, unmarked>>
  PROVE  ArcInv'
<1>1. /\ \A h \in H : slot[h] \in Blocks /\ f[h] \in Inners /\ hashOf[slot[h]] = h /\ keepalive[f[h]] = NoInner
      /\ \A h \in H : state[slot[h]] \in {"Primary", "Inactive"}
      /\ \A h \in H : phase[f[h]] = "live" => innerOf[slot[h]] = f[h] /\ block_id[f[h]] = slot[h]
      /\ \A h \in H : phase[f[h]] # "live" => phase[f[h]] = "free" /\ (state[slot[h]] = "Primary" => phase[innerOf[slot[h]]] = "dropping")
      /\ \A h \in H : phase[f[h]] # "live" => \A b \in Blocks : innerOf[b] # f[h]
  BY DEF LookupPlan, Binds, FreshInners
<1>2. /\ \A h \in H : state'[slot[h]] = "Primary" /\ innerOf'[slot[h]] = f[h]
      /\ \A h \in H : block_id'[f[h]] = slot[h] /\ phase'[f[h]] = "live"
      /\ \A i \in Inners : (\A h \in H : f[h] # i) => block_id'[i] = block_id[i] /\ phase'[i] = phase[i] /\ refs'[i] = refs[i]
      /\ \A i \in Inners : (\E h \in H : f[h] = i) => refs'[i] = refs[i] + 1
  BY <1>1 DEF Looked
<1>3. ASSUME NEW b \in Blocks
      PROVE  \/ \E h \in H : slot[h] = b
             \/ /\ state'[b] = state[b] /\ innerOf'[b] = innerOf[b]
                /\ \A h \in H : slot[h] # b
  BY <1>1 DEF LookupPlan, Looked
<1>4. SlotHasArc'
  <2> SUFFICES ASSUME NEW b \in Blocks, state'[b] \in {"Primary", "Duplicate"}
               PROVE  /\ phase'[innerOf'[b]] \in {"live", "dropping"}
                      /\ block_id'[innerOf'[b]] = b
                      /\ keepalive[innerOf'[b]] = NoInner <=> state'[b] = "Primary"
    BY Zenon DEF SlotHasArc, IsPrimary
  <2>1. CASE \E h \in H : slot[h] = b
    BY <2>1, <1>1, <1>2
  <2>2. CASE /\ state'[b] = state[b] /\ innerOf'[b] = innerOf[b]
             /\ \A h \in H : slot[h] # b
    <3>1. PICK i \in Inners : /\ i = innerOf[b] /\ block_id[i] = b /\ phase[i] \in {"live", "dropping"}
                              /\ keepalive[i] = NoInner <=> state[b] = "Primary"
      BY <2>2 DEF StoreInv, SlotFields, SlotHasArc, IsPrimary
    <3>2. \A h \in H : f[h] # i
      BY <2>2, <3>1, <1>1
    <3> QED
      BY <2>2, <3>1, <3>2, <1>2
  <2> QED
    BY Zenon, <2>1, <2>2, <1>3
<1>5. LiveArcOwnsSlot'
  <2> SUFFICES ASSUME NEW i \in Inners, phase'[i] = "live"
               PROVE  /\ block_id'[i] \in Blocks /\ innerOf'[block_id'[i]] = i
                      /\ state'[block_id'[i]] = IF keepalive[i] = NoInner THEN "Primary" ELSE "Duplicate"
    BY Zenon DEF LiveArcOwnsSlot, Owns, IsPrimary
  <2>1. CASE \E h \in H : f[h] = i
    BY <2>1, <1>1, <1>2
  <2>2. CASE \A h \in H : f[h] # i
    <3>1. phase[i] = "live" /\ block_id'[i] = block_id[i]
      BY Zenon, <2>2, <1>2
    <3>2. PICK b \in Blocks :
             /\ b = block_id[i] /\ innerOf[b] = i
             /\ state[b] = IF keepalive[i] = NoInner THEN "Primary" ELSE "Duplicate"
      BY Zenon, <3>1 DEF StoreInv, LiveArcOwnsSlot, Owns, IsPrimary
    <3>3. \A h \in H : slot[h] # b
      BY <2>2, <3>1, <3>2, <1>1
    <3> QED
      BY <3>1, <3>2, <3>3, <1>3
  <2> QED
    BY Zenon, <2>1, <2>2
<1>6. LiveHasOwner'
  <2>1. ASSUME NEW i \in Inners
        PROVE  phase'[i] = "live" <=> refs'[i] > 0 \/ Keepers(i) # {}
    BY <1>2 DEF StoreInv, StoreTypeOK, ArcTypes, LiveHasOwner
  <2>2. \A i \in Inners : Keepers(i)' = Keepers(i)
    BY Zenon DEF Keepers
  <2> QED
    BY Zenon, <2>1, <2>2 DEF LiveHasOwner
<1>7. ArcFields'
  BY <1>2 DEF StoreInv, StoreTypeOK, ArcTypes, ArcFields, IsPrimary
<1>8. DuplicatePinsPrimary' /\ DuplicateNeverMovesOn'
  <2>1. \A i \in Inners : keepalive[i] # NoInner => block_id'[i] = block_id[i] /\ phase'[i] = phase[i]
    BY <1>1, <1>2
  <2>2. \A k \in Inners : phase[k] = "live" => block_id'[k] = block_id[k] /\ phase'[k] = "live"
    BY <1>1, <1>2
  <2>3. DuplicatePinsPrimary'
    BY <2>1, <2>2 DEF StoreInv, StoreTypeOK, ArcTypes, DuplicatePinsPrimary, IsPrimary
  <2>4. ASSUME NEW i \in Inners, phase[i] = "dropping", keepalive[i] # NoInner
        PROVE  /\ block_id[i] \in Blocks /\ state'[block_id[i]] = "Duplicate"
               /\ innerOf'[block_id[i]] = i
    <3>1. PICK b \in Blocks : b = block_id[i] /\ state[b] = "Duplicate" /\ innerOf[b] = i
      BY Zenon, <2>4 DEF StoreInv, ArcFields, DuplicateNeverMovesOn, Owns, IsPrimary
    <3> QED
      BY <3>1, <1>1, <1>3
  <2>5. DuplicateNeverMovesOn'
    BY Zenon, <2>1, <2>4 DEF DuplicateNeverMovesOn, Owns, IsPrimary
  <2> QED
    BY Zenon, <2>3, <2>5
<1> QED
  BY Zenon, <1>4, <1>5, <1>6, <1>7, <1>8 DEF ArcInv
=============================================================================
