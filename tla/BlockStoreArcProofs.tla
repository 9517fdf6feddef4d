------------------------ MODULE BlockStoreArcProofs -------------------------
(***************************************************************************)
(* Taking and dropping references to arcs, and the release of an arc to the*)
(* inactive pool or to the reset pool, preserve the invariant StoreInv of  *)
(* module BlockStore.                                                      *)
(***************************************************************************)
EXTENDS BlockStorePoolProofs

(***************************************************************************)
(* Clones, drops, and the references that lookups return                   *)
(***************************************************************************)

\* A step that changes nothing but arcs and presence marks.
LEMMA RefFrame ==
  ASSUME StoreInv, UNCHANGED <<slotVars, poolVars, indexVars, guard>>, StoreTypeOK', ArcInv'
  PROVE  StoreInv'
<1>1. ResetPoolExact' /\ OccupiedWithinCapacity'
  BY Zenon, PoolFrame DEF slotVars
<1>2. GuardOwnsSlot' /\ SlotFields'
  BY Zenon DEF StoreInv, GuardOwnsSlot, SlotFields, slotVars
<1>3. IndexesExact' /\ ActiveOrInactive'
  BY DEF StoreInv, IndexesExact, IndexMatches, ActiveOrInactive, slotVars, indexVars
<1>4. FreshTenantHasDefault' /\ EvictOnResetNeverCached'
  BY Zenon DEF StoreInv, FreshTenantHasDefault, EvictOnResetNeverCached, slotVars
<1> QED
  BY Zenon, <1>1, <1>2, <1>3, <1>4 DEF StoreInv, ArcInv

\* Cloning a reference to a live arc preserves the invariant.
LEMMA UpgradeInv ==
  ASSUME StoreInv, NEW i \in Inners, Upgrade(i)
  PROVE  StoreInv'
<1> USE DEF Upgrade, slotVars, presenceVars
<1>1. StoreTypeOK'
  BY DEF StoreInv, StoreTypeOK, SlotTypes, PoolTypes, IndexTypes, ArcTypes, PresenceTypes, poolVars, indexVars
<1>2. \A j \in Inners : refs'[j] = IF j = i THEN refs[j] + 1 ELSE refs[j]
  BY Zenon DEF StoreInv, StoreTypeOK, ArcTypes
<1>3. LiveHasOwner' /\ ArcFields'
  BY DEF StoreInv, StoreTypeOK, ArcTypes, LiveHasOwner, ArcFields, Keepers, IsPrimary
<1>4. SlotHasArc' /\ LiveArcOwnsSlot' /\ DuplicatePinsPrimary' /\ DuplicateNeverMovesOn'
  BY DEF StoreInv, SlotHasArc, LiveArcOwnsSlot, DuplicatePinsPrimary, DuplicateNeverMovesOn, IsPrimary, Owns
<1> QED
  BY Zenon, <1>1, <1>3, <1>4, RefFrame DEF ArcInv

\* Dropping a reference preserves the invariant, whether or not it is the last.
LEMMA DropRefInv ==
  ASSUME StoreInv, NEW i \in Inners, DropRef(i)
  PROVE  StoreInv'
<1> USE DEF DropRef, slotVars, presenceVars
<1>1. refs[i] \in Nat /\ refs[i] > 0 /\ phase[i] = "live" /\ block_id[i] \in Blocks
  BY DEF StoreInv, StoreTypeOK, ArcTypes, LiveHasOwner, LiveArcOwnsSlot
<1>2. StoreTypeOK'
  BY DEF StoreInv, StoreTypeOK, SlotTypes, PoolTypes, IndexTypes, ArcTypes, PresenceTypes, Phases, poolVars,
     indexVars
<1>3. /\ \A j \in Inners : j # i => refs'[j] = refs[j] /\ phase'[j] = phase[j]
      /\ refs'[i] = refs[i] - 1
      /\ phase'[i] = IF refs[i] = 1 /\ Keepers(i) = {} THEN "dropping" ELSE "live"
  BY Zenon, <1>1 DEF StoreInv, StoreTypeOK, ArcTypes
<1>4. LiveHasOwner'
  <2>1. \A j \in Inners : Keepers(j)' = Keepers(j)
    BY Zenon DEF Keepers
  <2> QED
    BY <1>1, <1>3, <2>1 DEF StoreInv, LiveHasOwner
<1>5. ArcFields'
  BY <1>1 DEF StoreInv, ArcFields, IsPrimary
<1>6. SlotHasArc' /\ LiveArcOwnsSlot'
  BY DEF StoreInv, SlotHasArc, LiveArcOwnsSlot, IsPrimary, Owns
<1>7. DuplicatePinsPrimary' /\ DuplicateNeverMovesOn'
  <2>1. ASSUME NEW j \in Inners, phase'[j] # "free", keepalive[j] # NoInner
        PROVE  phase[j] # "free" /\ phase'[keepalive[j]] = "live"
    BY <1>1, <2>1 DEF StoreInv, DuplicatePinsPrimary, IsPrimary, Keepers
  <2> QED
    BY <1>1, <2>1 DEF StoreInv, DuplicatePinsPrimary, DuplicateNeverMovesOn, IsPrimary, Owns, LiveArcOwnsSlot
<1> QED
  BY Zenon, <1>2, <1>4, <1>5, <1>6, <1>7, RefFrame DEF ArcInv

\* release_primary of an arc that a lookup replaced preserves the invariant.
LEMMA ReleasePrimaryNoopInv ==
  ASSUME StoreInv, NEW i \in Inners, ReleasePrimaryNoop(i)
  PROVE  StoreInv'
<1> USE DEF ReleasePrimaryNoop, slotVars, presenceVars
<1>1. StoreTypeOK'
  BY Zenon DEF StoreInv, StoreTypeOK, SlotTypes, PoolTypes, IndexTypes, ArcTypes, PresenceTypes, Phases, poolVars,
     indexVars
<1>2. SlotHasArc' /\ LiveArcOwnsSlot'
  BY DEF StoreInv, SlotHasArc, LiveArcOwnsSlot, IsPrimary, Owns
<1>3. LiveHasOwner' /\ ArcFields'
  BY DEF StoreInv, StoreTypeOK, ArcTypes, LiveHasOwner, ArcFields, Keepers, IsPrimary
<1>4. DuplicatePinsPrimary' /\ DuplicateNeverMovesOn'
  BY DEF StoreInv, DuplicatePinsPrimary, DuplicateNeverMovesOn, IsPrimary, Owns
<1> QED
  BY Zenon, <1>1, <1>2, <1>3, <1>4, RefFrame DEF ArcInv

\* Dropping the fields of a duplicate, and with them its hold on the primary's
\* arc, preserves the invariant.
LEMMA DropKeepaliveInv ==
  ASSUME StoreInv, NEW i \in Inners, DropKeepalive(i)
  PROVE  StoreInv'
<1> USE DEF DropKeepalive, slotVars, presenceVars
<1>1. PICK k \in Inners : k = keepalive[i] /\ k # i /\ phase[k] = "live" /\ keepalive[k] = NoInner /\ block_id[k] \in Blocks
  BY Zenon DEF StoreInv, StoreTypeOK, ArcTypes, ArcFields, DuplicatePinsPrimary, LiveArcOwnsSlot, IsPrimary
<1>2. StoreTypeOK'
  BY Zenon, <1>1 DEF StoreInv, StoreTypeOK, SlotTypes, PoolTypes, IndexTypes, ArcTypes, PresenceTypes, Phases,
     poolVars, indexVars
<1>3. /\ \A j \in Inners : keepalive'[j] = IF j = i THEN NoInner ELSE keepalive[j]
      /\ \A j \in Inners : block_id'[j] = IF j = i THEN NoBlock ELSE block_id[j]
      /\ \A j \in Inners : j # i /\ j # k => phase'[j] = phase[j]
      /\ phase'[i] = "free"
      /\ phase'[k] = IF refs[k] = 0 /\ Keepers(k) = {i} THEN "dropping" ELSE "live"
  BY Zenon, <1>1 DEF StoreInv, StoreTypeOK, ArcTypes
<1>4. \A j \in Inners : Keepers(j)' = Keepers(j) \ {i}
  BY <1>3, StoreConstants DEF Keepers
<1>5. LiveHasOwner'
  <2>1. ASSUME NEW j \in Inners
        PROVE  phase'[j] = "live" <=> refs'[j] > 0 \/ Keepers(j)' # {}
    <3>1. CASE j = i
      BY Zenon, <3>1, <1>3, <1>4 DEF StoreInv, LiveHasOwner
    <3>2. CASE j = k
      BY <3>2, <1>1 DEF StoreInv, StoreTypeOK, ArcTypes, Keepers
    <3>3. CASE j # i /\ j # k
      <4>1. i \notin Keepers(j)
        BY Zenon, <3>3, <1>1 DEF Keepers
      <4> QED
        BY <4>1, <1>4 DEF StoreInv, StoreTypeOK, ArcTypes, LiveHasOwner
    <3> QED
      BY Zenon, <3>1, <3>2, <3>3
  <2> QED
    BY Zenon, <2>1 DEF LiveHasOwner
<1>6. ArcFields'
  BY ZenonT(40), <1>1 DEF StoreInv, StoreTypeOK, ArcTypes, ArcFields, IsPrimary
<1>7. SlotHasArc' /\ LiveArcOwnsSlot'
  BY DEF StoreInv, StoreTypeOK, ArcTypes, PresenceTypes, SlotFields, SlotHasArc, LiveArcOwnsSlot, IsPrimary,
     Owns
<1>8. DuplicatePinsPrimary' /\ DuplicateNeverMovesOn'
  <2>1. ASSUME NEW j \in Inners, phase'[j] # "free", keepalive'[j] # NoInner
        PROVE  j # i /\ phase[j] # "free" /\ keepalive[j] \in Inners /\ keepalive[j] # i /\ phase'[keepalive[j]] = "live"
    BY <1>1, <2>1 DEF StoreInv, StoreTypeOK, ArcTypes, DuplicatePinsPrimary, IsPrimary, Keepers
  <2> QED
    BY <1>1, <2>1 DEF StoreInv, StoreTypeOK, ArcTypes, DuplicatePinsPrimary, DuplicateNeverMovesOn, IsPrimary,
       Owns
<1> QED
  BY Zenon, <1>2, <1>5, <1>6, <1>7, <1>8, RefFrame DEF ArcInv

\* A lookup preserves the invariant.  A rejected registration is a lookup whose
\* caller still has the staged guard to drop.
LEMMA LookupInv ==
  ASSUME StoreInv, NEW H \in SUBSET Hashes, \A h \in H : Found(h),
         NEW f \in ArcChoices(H), LookupAll(H, f), guard' \in [Blocks -> Guards],
         \A b \in Blocks : guard'[b] = guard[b] \/ (guard[b] = "Complete" /\ guard'[b] = "Rejected")
  PROVE  StoreInv'
<1>1. PICK slot : /\ LookupPlan(H, f, slot)
                  /\ Looked(H, f, slot, state', innerOf', active_by_hash', phase', block_id')
                  /\ inactive_epoch' \in [Blocks -> Nat]
  BY Zenon, LookupValues DEF LookupAll
<1>2. /\ inactive' = [h \in Hashes |-> IF h \in H THEN NoBlock ELSE inactive[h]]
      /\ refs' = [i \in Inners |-> IF \E h \in H : f[h] = i THEN refs[i] + 1 ELSE refs[i]]
      /\ UNCHANGED <<hashOf, generation, reset_on_release, poolVars, held_by_hash, keepalive, presenceVars>>
  BY Zenon DEF LookupAll, LookupInactive
<1>3. /\ \A h \in H : slot[h] \in Blocks /\ f[h] \in Inners /\ hashOf[slot[h]] = h
      /\ \A b \in Blocks : hashOf[b] \in H /\ state[b] \in {"Primary", "Inactive"} => slot[hashOf[b]] = b
      /\ \A h \in H : state[slot[h]] \in {"Primary", "Inactive"}
  BY <1>1 DEF LookupPlan, Binds
<1>4. /\ state' \in [Blocks -> SlotStates] /\ innerOf' \in [Blocks -> Inners \cup {NoInner}]
      /\ active_by_hash' \in [Hashes -> Blocks \cup {NoBlock}]
      /\ phase' \in [Inners -> Phases] /\ block_id' \in [Inners -> Blocks \cup {NoBlock}]
  BY <1>1, <1>3 DEF Looked, StoreInv, StoreTypeOK, SlotTypes, IndexTypes, SlotStates
<1>5. \A b \in Blocks : IF hashOf[b] \in H /\ state[b] \in {"Primary", "Inactive"}
                        THEN state'[b] = "Primary" /\ innerOf'[b] \in Inners
                        ELSE state'[b] = state[b] /\ innerOf'[b] = innerOf[b]
  BY Zenon, <1>1, <1>3 DEF Looked
<1>6. StoreTypeOK'
  <2>1. SlotTypes' /\ PoolTypes'
    BY ZenonT(40), <1>1, <1>2, <1>4 DEF StoreInv, StoreTypeOK, SlotTypes, PoolTypes, poolVars
  <2>2. IndexTypes' /\ ArcTypes' /\ PresenceTypes'
    BY <1>2, <1>4 DEF StoreInv, StoreTypeOK, IndexTypes, ArcTypes, PresenceTypes, presenceVars
  <2> QED
    BY Zenon, <2>1, <2>2 DEF StoreTypeOK
<1>7. ResetPoolExact' /\ OccupiedWithinCapacity'
  BY ZenonT(40), <1>2, <1>5 DEF StoreInv, ResetPoolExact, OccupiedWithinCapacity, Ceiling, poolVars
<1>8. GuardOwnsSlot' /\ SlotFields'
  BY <1>2, <1>5 DEF StoreInv, GuardOwnsSlot, SlotFields, Registered
<1>9. IndexesExact' /\ ActiveOrInactive'
  <2>1. /\ \A h \in Hashes : active_by_hash'[h] = IF h \in H THEN slot[h] ELSE active_by_hash[h]
        /\ \A h \in Hashes : inactive'[h] = IF h \in H THEN NoBlock ELSE inactive[h]
        /\ hashOf' = hashOf /\ held_by_hash' = held_by_hash
    BY Zenon, <1>1, <1>2 DEF Looked
  <2>2. IndexMatches(active_by_hash, "Primary")'
    BY <1>3, <1>5, <2>1 DEF StoreInv, IndexesExact, IndexMatches
  <2>3. IndexMatches(inactive, "Inactive")'
    BY <1>5, <2>1, BlockFacts DEF StoreInv, IndexesExact, IndexMatches
  <2>4. IndexMatches(held_by_hash, "Held")'
    BY <1>5, <2>1 DEF StoreInv, IndexesExact, IndexMatches
  <2>5. ActiveOrInactive'
    BY Zenon, <2>1 DEF StoreInv, ActiveOrInactive
  <2> QED
    BY Zenon, <2>2, <2>3, <2>4, <2>5 DEF IndexesExact
<1>10. ArcInv'
  BY Zenon, <1>1, <1>2, LookupArcs DEF presenceVars
<1>11. FreshTenantHasDefault' /\ EvictOnResetNeverCached'
  BY Zenon, <1>2, <1>5 DEF StoreInv, FreshTenantHasDefault, EvictOnResetNeverCached
<1> QED
  BY Zenon, <1>6, <1>7, <1>8, <1>9, <1>10, <1>11 DEF StoreInv, ArcInv

\* acquire_for_hash, match_prefix_locked_batch and promote_inactive preserve the invariant.
LEMMA AcquireInv ==
  ASSUME StoreInv, NEW H \in SUBSET Hashes, Acquire(H)
  PROVE  StoreInv'
<1>1. PICK f \in ArcChoices(H) : LookupAll(H, f)
  BY Zenon DEF Acquire
<1>2. /\ \A h \in H : Found(h)
      /\ guard' \in [Blocks -> Guards] /\ \A b \in Blocks : guard'[b] = guard[b]
  BY Zenon DEF Acquire, Visible, StoreInv, StoreTypeOK, SlotTypes
<1> QED
  BY Zenon, <1>1, <1>2, LookupInv

\* A registration that is answered with the existing block preserves the invariant.
LEMMA RegisterRejectInv ==
  ASSUME StoreInv, NEW b \in Blocks, NEW f, RegisterReject(b, f)
  PROVE  StoreInv'
<1>1. hashOf[b] \in Hashes
  BY Zenon DEF RegisterReject, GuardOwnsSlot, SlotFields, StoreInv
<1>2. {hashOf[b]} \in SUBSET Hashes /\ \A h \in {hashOf[b]} : Found(h)
  BY Zenon, <1>1 DEF RegisterReject
<1>3. f \in ArcChoices({hashOf[b]}) /\ LookupAll({hashOf[b]}, f)
  BY Zenon DEF RegisterReject
<1>4. /\ guard' \in [Blocks -> Guards]
      /\ \A c \in Blocks : guard'[c] = guard[c] \/ (guard[c] = "Complete" /\ guard'[c] = "Rejected")
  BY Zenon DEF RegisterReject, StoreInv, StoreTypeOK, SlotTypes, Guards
<1> QED
  BY Zenon, <1>2, <1>3, <1>4, LookupInv

(***************************************************************************)
(* The release of an arc                                                   *)
(***************************************************************************)

\* When a dropping primary arc i and its slot b part, and no other arc or
\* registered slot changes, the invariants about arcs are preserved.
LEMMA UnbindFrame ==
  ASSUME StoreInv, NEW i \in Inners, NEW b \in Blocks, NEW s \in {"Reset", "Inactive"},
         phase[i] = "dropping", keepalive[i] = NoInner, block_id[i] = b, innerOf[b] = i,
         state' = [state EXCEPT ![b] = s],
         innerOf' = [innerOf EXCEPT ![b] = NoInner],
         \A c \in Blocks : c # b => hashOf'[c] = hashOf[c],
         phase' = [phase EXCEPT ![i] = "free"],
         block_id' = [block_id EXCEPT ![i] = NoBlock],
         UNCHANGED <<refs, keepalive, unmarked>>
  PROVE  ArcInv'
<1>1. /\ \A j \in Inners : j # i => phase'[j] = phase[j] /\ block_id'[j] = block_id[j]
      /\ phase'[i] = "free" /\ block_id'[i] = NoBlock
      /\ \A c \in Blocks : c # b => state'[c] = state[c] /\ innerOf'[c] = innerOf[c]
      /\ state'[b] = s /\ innerOf'[b] = NoInner
  BY Zenon DEF StoreInv, StoreTypeOK, SlotTypes, ArcTypes
<1>2. \A j \in Inners : phase[j] = "live" => j # i /\ block_id[j] \in Blocks /\ block_id[j] # b
  BY DEF StoreInv, LiveArcOwnsSlot, Owns
<1>3. SlotHasArc'
  BY <1>1 DEF StoreInv, PoolTypes, IndexTypes, ArcTypes, PresenceTypes, SlotHasArc, IsPrimary
<1>4. LiveArcOwnsSlot'
  BY DEF StoreInv, LiveArcOwnsSlot, IsPrimary, Owns
<1>5. LiveHasOwner' /\ ArcFields'
  BY <1>1 DEF StoreInv, LiveHasOwner, ArcFields, Keepers, IsPrimary
<1>6. DuplicatePinsPrimary'
  BY <1>2 DEF StoreInv, StoreTypeOK, PoolTypes, ArcTypes, PresenceTypes, DuplicatePinsPrimary, IsPrimary
<1>7. DuplicateNeverMovesOn'
  BY DEF StoreInv, DuplicateNeverMovesOn, IsPrimary, Owns
<1> QED
  BY Zenon, <1>3, <1>4, <1>5, <1>6, <1>7 DEF ArcInv

\* What a release leaves of slot b when it resets it: only b changes, it loses
\* its hash, and no guard or override does.
LEMMA ResetSlotFrame ==
  ASSUME StoreInv, NEW b \in Blocks, state[b] \in {"Primary", "Duplicate"}, ResetSlot(b), UNCHANGED guard
  PROVE  /\ ResetPoolExact' /\ OccupiedWithinCapacity' /\ GuardOwnsSlot' /\ SlotFields'
         /\ FreshTenantHasDefault' /\ EvictOnResetNeverCached'
         /\ \A c \in Blocks : c # b => state'[c] = state[c] /\ hashOf'[c] = hashOf[c] /\ innerOf'[c] = innerOf[c]
         /\ state'[b] = "Reset"
<1>1. /\ \A c \in Blocks : c # b => state'[c] = state[c] /\ hashOf'[c] = hashOf[c] /\ innerOf'[c] = innerOf[c]
      /\ state'[b] = "Reset" /\ hashOf'[b] = NoHash /\ innerOf'[b] = NoInner
      /\ reset_on_release' = reset_on_release
  BY Zenon DEF StoreInv, StoreTypeOK, SlotTypes, ResetSlot
<1>2. ResetPoolExact' /\ OccupiedWithinCapacity'
  BY Zenon, ResetSlotPool
<1>3. GuardOwnsSlot' /\ SlotFields'
  BY <1>1, StoreConstants DEF StoreInv, GuardOwnsSlot, SlotFields, Registered
<1>4. FreshTenantHasDefault' /\ EvictOnResetNeverCached'
  BY Zenon, <1>1 DEF StoreInv, FreshTenantHasDefault, EvictOnResetNeverCached
<1> QED
  BY Zenon, <1>1, <1>2, <1>3, <1>4

\* The slot that a release_primary with work to do finds.
LEMMA PrimaryFacts ==
  ASSUME StoreInv, NEW i \in Inners, phase[i] = "dropping", Owns(i, "Primary")
  PROVE  \E b \in Blocks, h \in Hashes :
            /\ b = block_id[i] /\ h = hashOf[b] /\ state[b] = "Primary" /\ innerOf[b] = i
            /\ active_by_hash[h] = b /\ inactive[h] = NoBlock
<1>1. PICK b \in Blocks : b = block_id[i] /\ state[b] = "Primary" /\ innerOf[b] = i
  BY Zenon DEF StoreInv, ArcFields, Owns
<1>2. PICK h \in Hashes : h = hashOf[b] /\ active_by_hash[h] = b
  BY <1>1 DEF StoreInv, SlotFields, Registered, IndexesExact, IndexMatches
<1> QED
  BY Zenon, <1>1, <1>2, BlockFacts DEF StoreInv, ActiveOrInactive

\* When slot b leaves Primary for s, its hash moves from the active index to
\* the index of s, and the three indexes stay exact.
LEMMA PrimaryIndexes ==
  ASSUME StoreInv, NEW b \in Blocks, NEW h \in Hashes, NEW s \in {"Reset", "Inactive"},
         state[b] = "Primary", hashOf[b] = h, state'[b] = s, s = "Inactive" => hashOf'[b] = h,
         \A c \in Blocks : c # b => state'[c] = state[c] /\ hashOf'[c] = hashOf[c],
         \A g \in Hashes : active_by_hash'[g] = IF g = h THEN NoBlock ELSE active_by_hash[g],
         \A g \in Hashes : inactive'[g] = IF g = h /\ s = "Inactive" THEN b ELSE inactive[g],
         UNCHANGED held_by_hash
  PROVE  IndexesExact' /\ ActiveOrInactive'
<1>1. active_by_hash[h] = b /\ inactive[h] = NoBlock
  BY BlockFacts DEF StoreInv, IndexesExact, IndexMatches, ActiveOrInactive
<1>2. IndexMatches(active_by_hash, "Primary")'
  BY BlockFacts DEF StoreInv, IndexesExact, IndexMatches
<1>3. IndexMatches(inactive, "Inactive")'
  BY <1>1, BlockFacts DEF StoreInv, IndexesExact, IndexMatches
<1>4. IndexMatches(held_by_hash, "Held")'
  BY DEF StoreInv, IndexesExact, IndexMatches
<1> QED
  BY <1>2, <1>3, <1>4 DEF StoreInv, IndexesExact, ActiveOrInactive

\* release_primary of a block with the eviction override preserves the invariant.
LEMMA ReleasePrimaryToResetInv ==
  ASSUME StoreInv, NEW i \in Inners, ReleasePrimaryToReset(i)
  PROVE  StoreInv'
<1>1. PICK b \in Blocks, h \in Hashes :
         /\ b = block_id[i] /\ h = hashOf[b] /\ state[b] = "Primary" /\ innerOf[b] = i
         /\ active_by_hash[h] = b /\ inactive[h] = NoBlock
  BY Zenon, PrimaryFacts DEF ReleasePrimaryToReset
<1>2. ResetSlot(b) /\ UNCHANGED guard
  BY Zenon, <1>1 DEF ReleasePrimaryToReset
<1>3. /\ ResetPoolExact' /\ OccupiedWithinCapacity' /\ GuardOwnsSlot' /\ SlotFields'
      /\ FreshTenantHasDefault' /\ EvictOnResetNeverCached'
  BY Zenon, <1>1, <1>2, ResetSlotFrame
<1>4. /\ \A c \in Blocks : c # b => state'[c] = state[c] /\ hashOf'[c] = hashOf[c] /\ innerOf'[c] = innerOf[c]
      /\ state'[b] = "Reset"
  BY ZenonT(40), <1>1, <1>2, ResetSlotFrame
<1>5. StoreTypeOK'
  BY <1>1, <1>2 DEF ReleasePrimaryToReset, StoreInv, StoreTypeOK, SlotTypes, PoolTypes, IndexTypes, ArcTypes,
     PresenceTypes, SlotStates, Phases, ResetSlot, push_reset_free, push_reset_fenced
<1>6. IndexesExact' /\ ActiveOrInactive'
  <2>1. /\ \A g \in Hashes : active_by_hash'[g] = IF g = h THEN NoBlock ELSE active_by_hash[g]
        /\ UNCHANGED <<inactive, held_by_hash>>
    BY Zenon, <1>1 DEF ReleasePrimaryToReset, StoreInv, StoreTypeOK, IndexTypes
  <2> QED
    BY <1>1, <1>4, <2>1, PrimaryIndexes
<1>7. ArcInv'
  <2>1. /\ phase[i] = "dropping" /\ keepalive[i] = NoInner
        /\ state' = [state EXCEPT ![b] = "Reset"] /\ innerOf' = [innerOf EXCEPT ![b] = NoInner]
        /\ phase' = [phase EXCEPT ![i] = "free"] /\ block_id' = [block_id EXCEPT ![i] = NoBlock]
        /\ UNCHANGED <<refs, keepalive, unmarked>>
    BY Zenon, <1>1, <1>2 DEF ReleasePrimaryToReset, ResetSlot, IsPrimary
  <2> QED
    BY Zenon, <1>1, <1>4, <2>1, UnbindFrame
<1> QED
  BY Zenon, <1>3, <1>5, <1>6, <1>7 DEF StoreInv, ArcInv

\* release_primary into the inactive pool preserves the invariant.
LEMMA ReleasePrimaryToInactiveInv ==
  ASSUME StoreInv, NEW i \in Inners, ReleasePrimaryToInactive(i)
  PROVE  StoreInv'
<1>1. PICK b \in Blocks, h \in Hashes :
         /\ b = block_id[i] /\ h = hashOf[b] /\ state[b] = "Primary" /\ innerOf[b] = i
         /\ active_by_hash[h] = b /\ inactive[h] = NoBlock
  BY Zenon, PrimaryFacts DEF ReleasePrimaryToInactive
<1>2. /\ \A c \in Blocks : c # b => state'[c] = state[c] /\ innerOf'[c] = innerOf[c]
      /\ state'[b] = "Inactive" /\ innerOf'[b] = NoInner /\ ~reset_on_release[b]
      /\ UNCHANGED <<hashOf, reset_on_release, capacity, fence, free, fenced, guard>>
  BY ZenonT(40), <1>1 DEF ReleasePrimaryToInactive, poolVars, StoreInv, StoreTypeOK, SlotTypes
<1>3. StoreTypeOK'
  BY <1>1 DEF ReleasePrimaryToInactive, StoreInv, StoreTypeOK, SlotTypes, PoolTypes, IndexTypes, ArcTypes,
     PresenceTypes, SlotStates, Phases, poolVars, presenceVars
<1>4. ResetPoolExact' /\ OccupiedWithinCapacity'
  BY ZenonT(40), <1>1, <1>2 DEF StoreInv, ResetPoolExact, OccupiedWithinCapacity, Ceiling
<1>5. GuardOwnsSlot' /\ SlotFields'
  <2>1. GuardOwnsSlot /\ SlotFields
    BY Zenon DEF StoreInv
  <2>2. GuardOwnsSlot'
    BY <1>1, <1>2, <2>1 DEF GuardOwnsSlot
  <2>3. SlotFields'
    BY ZenonT(40), <1>1, <1>2, <2>1, StoreConstants DEF SlotFields, Registered
  <2> QED
    BY Zenon, <2>2, <2>3
<1>6. IndexesExact' /\ ActiveOrInactive'
  <2>1. /\ \A g \in Hashes : active_by_hash'[g] = IF g = h THEN NoBlock ELSE active_by_hash[g]
        /\ \A g \in Hashes : inactive'[g] = IF g = h THEN b ELSE inactive[g]
        /\ UNCHANGED held_by_hash
    BY Zenon, <1>1 DEF ReleasePrimaryToInactive, StoreInv, StoreTypeOK, IndexTypes
  <2> QED
    BY <1>1, <1>2, <2>1, PrimaryIndexes
<1>7. ArcInv'
  <2>1. /\ phase[i] = "dropping" /\ keepalive[i] = NoInner
        /\ state' = [state EXCEPT ![b] = "Inactive"] /\ innerOf' = [innerOf EXCEPT ![b] = NoInner]
        /\ phase' = [phase EXCEPT ![i] = "free"] /\ block_id' = [block_id EXCEPT ![i] = NoBlock]
        /\ UNCHANGED <<refs, keepalive, unmarked>>
    BY Zenon, <1>1 DEF ReleasePrimaryToInactive, IsPrimary, presenceVars
  <2> QED
    BY Zenon, <1>1, <1>2, <2>1, UnbindFrame
<1>8. FreshTenantHasDefault' /\ EvictOnResetNeverCached'
  BY Zenon, <1>2 DEF StoreInv, FreshTenantHasDefault, EvictOnResetNeverCached
<1> QED
  BY Zenon, <1>3, <1>4, <1>5, <1>6, <1>7, <1>8 DEF StoreInv, ArcInv

\* A duplicate's slot is in no index: resetting it disturbs none.
LEMMA DuplicateIndexes ==
  ASSUME StoreInv, NEW b \in Blocks, state[b] = "Duplicate", state'[b] = "Reset",
         \A c \in Blocks : c # b => state'[c] = state[c] /\ hashOf'[c] = hashOf[c],
         UNCHANGED <<active_by_hash, inactive, held_by_hash>>
  PROVE  IndexesExact' /\ ActiveOrInactive'
<1>1. IndexMatches(active_by_hash, "Primary")'
  BY DEF StoreInv, IndexesExact, IndexMatches
<1>2. IndexMatches(inactive, "Inactive")'
  BY DEF StoreInv, IndexesExact, IndexMatches
<1>3. IndexMatches(held_by_hash, "Held")'
  BY DEF StoreInv, IndexesExact, IndexMatches
<1> QED
  BY Zenon, <1>1, <1>2, <1>3 DEF StoreInv, IndexesExact, ActiveOrInactive

\* When a dropping duplicate's slot b is reset and its arc i is left with its
\* keepalive field to drop, the invariants about arcs are preserved.
LEMMA DuplicateFrame ==
  ASSUME StoreInv, NEW i \in Inners, NEW b \in Blocks,
         phase[i] = "dropping", ~IsPrimary(i), innerOf[b] = i, state'[b] = "Reset",
         \A c \in Blocks : c # b => state'[c] = state[c] /\ hashOf'[c] = hashOf[c] /\ innerOf'[c] = innerOf[c],
         phase'[i] = "fields", \A j \in Inners : j # i => phase'[j] = phase[j],
         UNCHANGED <<refs, block_id, keepalive, unmarked>>
  PROVE  ArcInv'
<1>1. \A j \in Inners : phase[j] = "live" => j # i /\ block_id[j] \in Blocks /\ block_id[j] # b
  BY DEF StoreInv, LiveArcOwnsSlot, Owns
<1>2. SlotHasArc'
  BY DEF StoreInv, PoolTypes, SlotFields, SlotHasArc, IsPrimary
<1>3. LiveArcOwnsSlot'
  BY <1>1 DEF StoreInv, LiveArcOwnsSlot, IsPrimary, Owns
<1>4. LiveHasOwner' /\ ArcFields'
  BY DEF StoreInv, LiveHasOwner, ArcFields, Keepers, IsPrimary
<1>5. DuplicatePinsPrimary'
  BY <1>1 DEF StoreInv, StoreTypeOK, ArcTypes, DuplicatePinsPrimary, IsPrimary
<1>6. DuplicateNeverMovesOn'
  BY DEF StoreInv, ArcFields, DuplicateNeverMovesOn, IsPrimary, Owns
<1> QED
  BY Zenon, <1>2, <1>3, <1>4, <1>5, <1>6 DEF ArcInv

\* release_duplicate preserves the invariant.
LEMMA ReleaseDuplicateInv ==
  ASSUME StoreInv, NEW i \in Inners, ReleaseDuplicate(i)
  PROVE  StoreInv'
<1>1. PICK b \in Blocks : /\ b = block_id[i] /\ state[b] = "Duplicate" /\ innerOf[b] = i
                          /\ phase[i] = "dropping" /\ ~IsPrimary(i)
  BY Zenon DEF StoreInv, ArcFields, ReleaseDuplicate, Owns
<1>2. /\ ResetSlot(b) /\ UNCHANGED guard
      /\ UNCHANGED <<active_by_hash, inactive, held_by_hash>>
      /\ UNCHANGED <<refs, block_id, keepalive, unmarked>>
  BY Zenon, <1>1 DEF ReleaseDuplicate, indexVars
<1>3. /\ ResetPoolExact' /\ OccupiedWithinCapacity' /\ GuardOwnsSlot' /\ SlotFields'
      /\ FreshTenantHasDefault' /\ EvictOnResetNeverCached'
      /\ \A c \in Blocks : c # b => state'[c] = state[c] /\ hashOf'[c] = hashOf[c] /\ innerOf'[c] = innerOf[c]
      /\ state'[b] = "Reset"
  BY Zenon, <1>1, <1>2, ResetSlotFrame
<1>4. phase'[i] = "fields" /\ \A j \in Inners : j # i => phase'[j] = phase[j]
  BY Zenon DEF ReleaseDuplicate, StoreInv, StoreTypeOK, ArcTypes
<1>5. StoreTypeOK'
  <2>1. hashOf[b] \in Hashes
    BY Zenon, <1>1 DEF StoreInv, SlotFields, Registered
  <2>2. SlotTypes' /\ PoolTypes'
    BY ZenonT(40), <1>1, <2>1 DEF ReleaseDuplicate, StoreInv, StoreTypeOK, SlotTypes, PoolTypes, SlotStates, ResetSlot,
       push_reset_free, push_reset_fenced
  <2>3. IndexTypes' /\ ArcTypes' /\ PresenceTypes'
    BY <1>1, <2>1 DEF ReleaseDuplicate, StoreInv, StoreTypeOK, IndexTypes, ArcTypes, PresenceTypes, Phases, indexVars
  <2> QED
    BY Zenon, <2>2, <2>3 DEF StoreTypeOK
<1>6. IndexesExact' /\ ActiveOrInactive'
  BY Zenon, <1>1, <1>2, <1>3, DuplicateIndexes
<1>7. ArcInv'
  BY Zenon, <1>1, <1>2, <1>3, <1>4, DuplicateFrame
<1> QED
  BY Zenon, <1>3, <1>5, <1>6, <1>7 DEF StoreInv, ArcInv
=============================================================================
