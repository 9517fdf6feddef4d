-------------------------- MODULE BlockStoreProofs ---------------------------
(***************************************************************************)
(* Registering the first block of a hash, or a duplicate of one, preserves *)
(* the invariant StoreInv of module BlockStore.  With the operations treated*)
(* in BlockStoreArcProofs, every behaviour of the block store satisfies it,*)
(* for any number of slots, hashes and arcs and any interleaving of its    *)
(* callers, and with it the safety properties of module BlockStore.        *)
(***************************************************************************)
EXTENDS BlockStoreArcProofs

(***************************************************************************)
(* The first block of a hash                                               *)
(***************************************************************************)

\* Registering the first block of a hash preserves the invariant.
LEMMA RegisterPrimaryInv ==
  ASSUME StoreInv, NEW b \in Blocks, NEW i \in Inners, RegisterPrimary(b, i)
  PROVE  StoreInv'
<1>1. PICK h \in Hashes : h = hashOf[b] /\ state[b] = "Staged" /\ guard[b] = "Complete"
  BY Zenon DEF RegisterPrimary, StoreInv, GuardOwnsSlot, SlotFields
<1>2. /\ active_by_hash[h] = NoBlock /\ inactive[h] = NoBlock
      /\ i \in FreshInners
      /\ state' = [state EXCEPT ![b] = "Primary"]
      /\ innerOf' = [innerOf EXCEPT ![b] = i]
      /\ active_by_hash' = [active_by_hash EXCEPT ![h] = b]
      /\ guard' = [guard EXCEPT ![b] = "None"]
      /\ phase' = [phase EXCEPT ![i] = "live"]
      /\ refs' = [refs EXCEPT ![i] = 1]
      /\ block_id' = [block_id EXCEPT ![i] = b]
      /\ unmarked' = unmarked \cup {i}
      /\ UNCHANGED <<hashOf, generation, inactive_epoch, reset_on_release, poolVars,
                     inactive, held_by_hash, keepalive, presence, pendingAbsent>>
  BY Zenon, <1>1 DEF RegisterPrimary, Found
<1>3. phase[i] = "free" /\ refs[i] = 0 /\ keepalive[i] = NoInner /\ \A c \in Blocks : innerOf[c] # i
  BY Zenon, <1>2, FreshFacts
<1>4. /\ \A c \in Blocks : c # b => state'[c] = state[c] /\ innerOf'[c] = innerOf[c] /\ guard'[c] = guard[c]
      /\ state'[b] = "Primary" /\ innerOf'[b] = i /\ guard'[b] = "None"
      /\ \A j \in Inners : j # i => phase'[j] = phase[j] /\ refs'[j] = refs[j] /\ block_id'[j] = block_id[j]
      /\ phase'[i] = "live" /\ refs'[i] = 1 /\ block_id'[i] = b
  BY Zenon, <1>2 DEF StoreInv, StoreTypeOK, SlotTypes, PoolTypes, ArcTypes, PresenceTypes
<1>5. StoreTypeOK'
  BY <1>2 DEF StoreInv, StoreTypeOK, SlotTypes, PoolTypes, IndexTypes, ArcTypes, PresenceTypes, SlotStates,
     Guards, Phases, poolVars
<1>6. ResetPoolExact' /\ OccupiedWithinCapacity'
  BY <1>1, <1>2 DEF StoreInv, ResetPoolExact, OccupiedWithinCapacity, Ceiling, poolVars
<1>7. GuardOwnsSlot' /\ SlotFields'
  BY <1>1, <1>2, <1>4 DEF StoreInv, GuardOwnsSlot, SlotFields, Registered
<1>8. IndexesExact' /\ ActiveOrInactive'
  <2>1. \A g \in Hashes : active_by_hash'[g] = IF g = h THEN b ELSE active_by_hash[g]
    BY Zenon, <1>2 DEF StoreInv, StoreTypeOK, SlotTypes, PoolTypes, IndexTypes, ArcTypes, PresenceTypes
  <2>2. IndexMatches(active_by_hash, "Primary")'
    BY <1>1, <1>2, <1>4, <2>1 DEF StoreInv, IndexesExact, IndexMatches
  <2>3. IndexMatches(inactive, "Inactive")' /\ IndexMatches(held_by_hash, "Held")'
    BY <1>1, <1>2 DEF StoreInv, IndexesExact, IndexMatches
  <2>4. ActiveOrInactive'
    BY <1>2 DEF StoreInv, ActiveOrInactive
  <2> QED
    BY Zenon, <2>2, <2>3, <2>4 DEF IndexesExact
<1>9. ArcInv'
  <2>1. \A j \in Inners : phase[j] = "live" => j # i /\ block_id[j] \in Blocks /\ block_id[j] # b
    BY Zenon, <1>1, <1>3 DEF StoreInv, LiveArcOwnsSlot, Owns
  <2>2. SlotHasArc'
    BY <1>2, <1>3, <1>4 DEF StoreInv, SlotTypes, PoolTypes, IndexTypes, ArcTypes, PresenceTypes, SlotHasArc,
       IsPrimary
  <2>3. LiveArcOwnsSlot'
    BY <1>2, <1>3, <1>4, <2>1 DEF StoreInv, LiveArcOwnsSlot, IsPrimary, Owns
  <2>4. LiveHasOwner' /\ ArcFields'
    BY <1>2, <1>4 DEF StoreInv, LiveHasOwner, ArcFields, Keepers, IsPrimary
  <2>5. DuplicatePinsPrimary'
    BY <1>2, <1>3 DEF StoreInv, DuplicatePinsPrimary, IsPrimary
  <2>6. DuplicateNeverMovesOn'
    BY <1>1, <1>2, <1>4 DEF StoreInv, DuplicateNeverMovesOn, IsPrimary, Owns
  <2> QED
    BY Zenon, <2>2, <2>3, <2>4, <2>5, <2>6 DEF ArcInv
<1>10. FreshTenantHasDefault' /\ EvictOnResetNeverCached'
  BY <1>2, <1>4 DEF StoreInv, FreshTenantHasDefault, EvictOnResetNeverCached
<1> QED
  BY Zenon, <1>5, <1>6, <1>7, <1>8, <1>9, <1>10 DEF StoreInv, ArcInv

\* Slot b, staged under hash h, becomes the duplicate with arc i of slot p with arc k.
DuplicateStep(b, i, k, h, p) ==
    /\ state' = [state EXCEPT ![p] = "Primary", ![b] = "Duplicate"]
    /\ innerOf' = [innerOf EXCEPT ![p] = k, ![b] = i]
    /\ inactive_epoch' \in [Blocks -> Nat]
    /\ active_by_hash' = [active_by_hash EXCEPT ![h] = p]
    /\ inactive' = [inactive EXCEPT ![h] = NoBlock]
    /\ guard' = [guard EXCEPT ![b] = "None"]
    /\ phase' = [phase EXCEPT ![k] = "live", ![i] = "live"]
    /\ block_id' = [block_id EXCEPT ![k] = p, ![i] = b]
    /\ refs' = [refs EXCEPT ![i] = 1]
    /\ keepalive' = [keepalive EXCEPT ![i] = k]
    /\ unmarked' = unmarked \cup {i}
    /\ UNCHANGED <<hashOf, generation, reset_on_release, poolVars, held_by_hash, presence, pendingAbsent>>

\* The lookup inside register_completed_block finds one slot, which differs from
\* the staged one, and binds the arc that the duplicate keeps alive to it.
LEMMA DuplicateFinds ==
  ASSUME StoreInv, NEW b \in Blocks, NEW i \in Inners, NEW k \in Inners, RegisterDuplicate(b, i, k)
  PROVE  \E h \in Hashes, p \in Blocks :
            /\ h = hashOf[b] /\ hashOf[p] = h /\ p # b /\ Binds(p, k)
            /\ \A c \in Blocks : hashOf[c] = h /\ state[c] \in {"Primary", "Inactive"} => c = p
            /\ DuplicateStep(b, i, k, h, p)
<1>1. PICK h \in Hashes : h = hashOf[b] /\ state[b] = "Staged" /\ Found(h)
  BY Zenon DEF RegisterDuplicate, StoreInv, GuardOwnsSlot, SlotFields
<1> DEFINE H == {h}
           f == [g \in H |-> k]
<1>2. f \in ArcChoices(H) /\ f[h] = k
  BY Zenon, <1>1 DEF ArcChoices, RegisterDuplicate
<1>3. H \in SUBSET Hashes /\ (\A g \in H : Found(g)) /\ \A g : g \in H <=> g = h
  BY Zenon, <1>1
<1>4. /\ state' = [LookupState(H) EXCEPT ![b] = "Duplicate"]
      /\ innerOf' = [LookupInnerOf(H, f) EXCEPT ![b] = i]
      /\ inactive_epoch' = LookupEpoch(H)
      /\ active_by_hash' = LookupActive(H)
      /\ inactive' = LookupInactive(H)
      /\ guard' = [guard EXCEPT ![b] = "None"]
      /\ phase' = [LookupPhase(H, f) EXCEPT ![i] = "live"]
      /\ block_id' = [LookupBlockId(H, f) EXCEPT ![i] = b]
      /\ refs' = [refs EXCEPT ![i] = 1]
      /\ keepalive' = [keepalive EXCEPT ![i] = k]
      /\ unmarked' = unmarked \cup {i}
      /\ UNCHANGED <<hashOf, generation, reset_on_release, poolVars, held_by_hash, presence, pendingAbsent>>
  BY Zenon, <1>1 DEF RegisterDuplicate
<1> HIDE DEF H, f
<1>5. PICK slot : /\ LookupPlan(H, f, slot)
                  /\ Looked(H, f, slot, LookupState(H), LookupInnerOf(H, f), LookupActive(H),
                            LookupPhase(H, f), LookupBlockId(H, f))
                  /\ LookupEpoch(H) \in [Blocks -> Nat]
  BY Zenon, <1>2, <1>3, LookupValues
<1>6. PICK p \in Blocks : p = slot[h] /\ hashOf[p] = h /\ Binds(p, k) /\ p # b
  BY <1>1, <1>2, <1>3, <1>5 DEF LookupPlan, Binds
<1>7. \A c \in Blocks : hashOf[c] = h /\ state[c] \in {"Primary", "Inactive"} => c = p
  BY Zenon, <1>3, <1>5, <1>6 DEF LookupPlan
<1>8. LookupState(H) = [state EXCEPT ![p] = "Primary"]
  <2>1. \A c \in Blocks : hashOf[c] \in H /\ state[c] \in {"Primary", "Inactive"} <=> c = p
    BY Zenon, <1>3, <1>6, <1>7 DEF Binds
  <2>2. LookupState(H) = [c \in Blocks |-> IF hashOf[c] \in H /\ state[c] \in {"Primary", "Inactive"} THEN "Primary" ELSE state[c]]
    BY Zenon, <1>5 DEF Looked
  <2> QED
    BY Zenon, <2>1, <2>2 DEF StoreInv, StoreTypeOK, SlotTypes
<1>9. LookupInnerOf(H, f) = [innerOf EXCEPT ![p] = k]
  <2>1. \A c \in Blocks : hashOf[c] \in H /\ state[c] \in {"Primary", "Inactive"} <=> c = p
    BY Zenon, <1>3, <1>6, <1>7 DEF Binds
  <2>2. LookupInnerOf(H, f) = [c \in Blocks |-> IF hashOf[c] \in H /\ state[c] \in {"Primary", "Inactive"} THEN f[hashOf[c]] ELSE innerOf[c]]
    BY <1>5 DEF Looked
  <2>3. LookupInnerOf(H, f) = [c \in Blocks |-> IF c = p THEN k ELSE innerOf[c]]
    BY ZenonT(40), <2>1, <2>2, <1>2, <1>6
  <2> QED
    BY Zenon, <2>3 DEF StoreInv, StoreTypeOK, SlotTypes
<1>10. LookupActive(H) = [active_by_hash EXCEPT ![h] = p] /\ LookupInactive(H) = [inactive EXCEPT ![h] = NoBlock]
  <2>1. LookupActive(H) = [g \in Hashes |-> IF g \in H THEN slot[g] ELSE active_by_hash[g]]
    BY <1>5 DEF Looked
  <2>2. /\ LookupActive(H) = [g \in Hashes |-> IF g = h THEN p ELSE active_by_hash[g]]
        /\ LookupInactive(H) = [g \in Hashes |-> IF g = h THEN NoBlock ELSE inactive[g]]
    BY Zenon, <1>3, <1>6, <2>1 DEF LookupInactive
  <2> QED
    BY Zenon, <2>2 DEF StoreInv, StoreTypeOK, IndexTypes
<1>11. LookupPhase(H, f) = [phase EXCEPT ![k] = "live"] /\ LookupBlockId(H, f) = [block_id EXCEPT ![k] = p]
  BY <1>2, <1>3, <1>5, <1>6 DEF Looked, StoreInv, StoreTypeOK, ArcTypes
<1>12. DuplicateStep(b, i, k, h, p)
  BY Zenon, <1>4, <1>5, <1>8, <1>9, <1>10, <1>11 DEF DuplicateStep
<1> QED
  BY Zenon, <1>1, <1>6, <1>7, <1>12

(***************************************************************************)
(* A duplicate                                                             *)
(***************************************************************************)

\* Registering a duplicate preserves the invariant, whether the primary is live,
\* inside its drop, or inactive.
LEMMA RegisterDuplicateInv ==
  ASSUME StoreInv, NEW b \in Blocks, NEW i \in Inners, NEW k \in Inners, RegisterDuplicate(b, i, k)
  PROVE  StoreInv'
<1>1. PICK h \in Hashes, p \in Blocks :
         /\ h = hashOf[b] /\ hashOf[p] = h /\ p # b /\ Binds(p, k)
         /\ \A c \in Blocks : hashOf[c] = h /\ state[c] \in {"Primary", "Inactive"} => c = p
         /\ DuplicateStep(b, i, k, h, p)
  BY Zenon, DuplicateFinds
<1>2. state[b] = "Staged" /\ guard[b] = "Complete" /\ i \in FreshInners /\ i # k
  BY Zenon DEF RegisterDuplicate, StoreInv, GuardOwnsSlot
<1>3. phase[i] = "free" /\ refs[i] = 0 /\ keepalive[i] = NoInner /\ Keepers(i) = {} /\ \A c \in Blocks : innerOf[c] # i
  BY Zenon, <1>2, FreshFacts
<1>4. /\ state[p] \in {"Primary", "Inactive"} /\ keepalive[k] = NoInner
      /\ phase[k] = "live" => state[p] = "Primary" /\ innerOf[p] = k /\ block_id[k] = p
      /\ phase[k] # "live" => phase[k] = "free" /\ refs[k] = 0 /\ \A c \in Blocks : innerOf[c] # k
      /\ phase[k] # "live" => (state[p] = "Primary" => phase[innerOf[p]] = "dropping")
  BY Zenon, <1>1, FreshFacts DEF Binds
<1>5. /\ \A c \in Blocks : c # b /\ c # p => state'[c] = state[c] /\ innerOf'[c] = innerOf[c]
      /\ state'[b] = "Duplicate" /\ innerOf'[b] = i /\ state'[p] = "Primary" /\ innerOf'[p] = k
      /\ hashOf' = hashOf /\ reset_on_release' = reset_on_release
  BY <1>1 DEF DuplicateStep, StoreInv, StoreTypeOK, SlotTypes, IndexTypes
<1>6. /\ \A j \in Inners : j # i /\ j # k => phase'[j] = phase[j] /\ block_id'[j] = block_id[j]
      /\ \A j \in Inners : j # i => refs'[j] = refs[j] /\ keepalive'[j] = keepalive[j]
      /\ phase'[i] = "live" /\ refs'[i] = 1 /\ block_id'[i] = b /\ keepalive'[i] = k
      /\ phase'[k] = "live" /\ block_id'[k] = p
  BY <1>1 DEF DuplicateStep, StoreInv, StoreTypeOK, ArcTypes
<1>7. StoreTypeOK'
  <2>1. SlotTypes' /\ PoolTypes'
    BY <1>1 DEF DuplicateStep, StoreInv, StoreTypeOK, SlotTypes, PoolTypes, SlotStates, Guards, poolVars
  <2>2. IndexTypes'
    BY Zenon, <1>1 DEF DuplicateStep, StoreInv, StoreTypeOK, IndexTypes
  <2>3. ArcTypes' /\ PresenceTypes'
    BY Zenon, <1>1 DEF DuplicateStep, StoreInv, StoreTypeOK, ArcTypes, PresenceTypes, Phases
  <2> QED
    BY Zenon, <2>1, <2>2, <2>3 DEF StoreTypeOK
<1>8. ResetPoolExact' /\ OccupiedWithinCapacity'
  <2>1. UNCHANGED <<capacity, fence, free, fenced>>
    BY Zenon, <1>1 DEF DuplicateStep, poolVars
  <2> QED
    BY <1>2, <1>4, <1>5, <2>1 DEF StoreInv, ResetPoolExact, OccupiedWithinCapacity, Ceiling
<1>9. GuardOwnsSlot' /\ SlotFields'
  <2>1. \A c \in Blocks : guard'[c] = IF c = b THEN "None" ELSE guard[c]
    BY <1>1 DEF DuplicateStep, StoreInv, StoreTypeOK, SlotTypes
  <2> QED
    BY <1>2, <1>4, <1>5, <2>1 DEF StoreInv, GuardOwnsSlot, SlotFields, Registered
<1>10. IndexesExact' /\ ActiveOrInactive'
  <2>1. /\ \A g \in Hashes : active_by_hash'[g] = IF g = h THEN p ELSE active_by_hash[g]
        /\ \A g \in Hashes : inactive'[g] = IF g = h THEN NoBlock ELSE inactive[g]
        /\ held_by_hash' = held_by_hash
    BY <1>1 DEF DuplicateStep, StoreInv, StoreTypeOK, IndexTypes
  <2>2. IndexMatches(active_by_hash, "Primary")'
    BY <1>1, <1>5, <2>1 DEF StoreInv, IndexesExact, IndexMatches
  <2>3. IndexMatches(inactive, "Inactive")'
    BY <1>1, <1>5, <2>1, BlockFacts DEF StoreInv, IndexesExact, IndexMatches
  <2>4. IndexMatches(held_by_hash, "Held")'
    BY <1>2, <1>4, <1>5, <2>1 DEF StoreInv, IndexesExact, IndexMatches
  <2>5. ActiveOrInactive'
    BY Zenon, <2>1 DEF StoreInv, ActiveOrInactive
  <2> QED
    BY Zenon, <2>2, <2>3, <2>4, <2>5 DEF IndexesExact
<1>11. SlotHasArc'
  <2> SUFFICES ASSUME NEW c \in Blocks, state'[c] \in {"Primary", "Duplicate"}
               PROVE  /\ phase'[innerOf'[c]] \in {"live", "dropping"}
                      /\ block_id'[innerOf'[c]] = c
                      /\ keepalive'[innerOf'[c]] = NoInner <=> state'[c] = "Primary"
    BY Zenon DEF SlotHasArc, IsPrimary
  <2>1. CASE c = p \/ c = b
    BY <2>1, <1>4, <1>5, <1>6, StoreConstants
  <2>2. CASE c # p /\ c # b
    <3>1. PICK j \in Inners : /\ j = innerOf[c] /\ block_id[j] = c /\ phase[j] \in {"live", "dropping"}
                              /\ keepalive[j] = NoInner <=> state[c] = "Primary"
      BY <2>2, <1>5 DEF StoreInv, SlotFields, SlotHasArc, IsPrimary
    <3>2. j # i /\ j # k
      BY Zenon, <2>2, <3>1, <1>3, <1>4
    <3> QED
      BY <2>2, <3>1, <3>2, <1>5, <1>6
  <2> QED
    BY Zenon, <2>1, <2>2
<1>12. LiveArcOwnsSlot'
  <2> SUFFICES ASSUME NEW j \in Inners, phase'[j] = "live"
               PROVE  /\ block_id'[j] \in Blocks /\ innerOf'[block_id'[j]] = j
                      /\ state'[block_id'[j]] = IF keepalive'[j] = NoInner THEN "Primary" ELSE "Duplicate"
    BY Zenon DEF LiveArcOwnsSlot, Owns, IsPrimary
  <2>1. CASE j = i \/ j = k
    BY <2>1, <1>4, <1>5, <1>6, StoreConstants
  <2>2. CASE j # i /\ j # k
    <3>1. PICK c \in Blocks : /\ c = block_id[j] /\ innerOf[c] = j /\ phase[j] = "live"
                              /\ state[c] = IF keepalive[j] = NoInner THEN "Primary" ELSE "Duplicate"
      BY <2>2, <1>6 DEF StoreInv, LiveArcOwnsSlot, Owns, IsPrimary
    <3>2. c # p /\ c # b
      BY Zenon, <2>2, <3>1, <1>2, <1>4
    <3> QED
      BY <2>2, <3>1, <3>2, <1>5, <1>6
  <2> QED
    BY Zenon, <2>1, <2>2
<1>13. LiveHasOwner'
  <2>1. i \in Keepers(k)' /\ \A j \in Inners : j # k => Keepers(j)' = Keepers(j)
    <3>1. i \in Keepers(k)'
      BY Zenon, <1>6 DEF Keepers
    <3>2. ASSUME NEW j \in Inners, j # k PROVE Keepers(j)' = Keepers(j)
      BY <3>2, <1>3, <1>6, StoreConstants DEF Keepers
    <3> QED
      BY Zenon, <3>1, <3>2
  <2> QED
    BY <1>6, <2>1 DEF StoreInv, LiveHasOwner
<1>14. ArcFields'
  <2>1. unmarked' = unmarked \cup {i}
    BY Zenon, <1>1 DEF DuplicateStep
  <2> QED
    BY <1>6, <2>1 DEF StoreInv, ArcFields, IsPrimary
<1>15. DuplicatePinsPrimary'
  <2> SUFFICES ASSUME NEW j \in Inners, phase'[j] # "free", keepalive'[j] # NoInner
               PROVE  /\ phase'[keepalive'[j]] = "live" /\ keepalive'[keepalive'[j]] = NoInner
                      /\ phase'[j] = "live" => hashOf'[block_id'[keepalive'[j]]] = hashOf'[block_id'[j]]
    BY Zenon DEF DuplicatePinsPrimary, IsPrimary
  <2>1. CASE j = i
    BY <2>1, <1>1, <1>4, <1>5, <1>6
  <2>2. CASE j # i
    <3>1. j # k /\ keepalive[j] \in Inners /\ keepalive'[j] = keepalive[j] /\ phase'[j] = phase[j] /\ block_id'[j] = block_id[j]
      BY <2>2, <1>4, <1>6 DEF StoreInv, StoreTypeOK, ArcTypes
    <3>2. PICK q \in Inners : /\ q = keepalive[j] /\ phase[q] = "live" /\ keepalive[q] = NoInner
                              /\ phase[j] = "live" => hashOf[block_id[q]] = hashOf[block_id[j]]
      BY ZenonT(40), <3>1 DEF StoreInv, DuplicatePinsPrimary, IsPrimary
    <3>3. q # i /\ phase'[q] = "live" /\ keepalive'[q] = NoInner /\ block_id'[q] = block_id[q]
      BY <3>2, <1>3, <1>4, <1>6
    <3> QED
      BY ZenonT(40), <3>1, <3>2, <3>3, <1>5
  <2> QED
    BY Zenon, <2>1, <2>2
<1>16. DuplicateNeverMovesOn'
  <2>1. ASSUME NEW j \in Inners, phase'[j] = "dropping", keepalive'[j] # NoInner
        PROVE  state'[block_id'[j]] = "Duplicate" /\ innerOf'[block_id'[j]] = j
    <3>1. j # i /\ j # k /\ block_id'[j] = block_id[j]
      BY ZenonT(40), <2>1, <1>6
    <3>2. PICK c \in Blocks : c = block_id[j] /\ state[c] = "Duplicate" /\ innerOf[c] = j
      BY <2>1, <1>6 DEF StoreInv, ArcFields, DuplicateNeverMovesOn, Owns, IsPrimary
    <3> QED
      BY Zenon, <3>1, <3>2, <1>2, <1>4, <1>5
  <2> QED
    BY Zenon, <2>1 DEF DuplicateNeverMovesOn, Owns, IsPrimary
<1>17. FreshTenantHasDefault' /\ EvictOnResetNeverCached'
  BY Zenon, <1>5 DEF StoreInv, FreshTenantHasDefault, EvictOnResetNeverCached
<1> QED
  BY Zenon, <1>7, <1>8, <1>9, <1>10, <1>11, <1>12, <1>13, <1>14, <1>15, <1>16, <1>17 DEF StoreInv

\* A step that changes nothing preserves the invariant.
LEMMA StutterInv ==
  ASSUME StoreInv, UNCHANGED storeVars
  PROVE  StoreInv'
<1> USE DEF storeVars, slotVars
<1>1. SlotTypes' /\ PoolTypes'
  BY Zenon DEF StoreInv, StoreTypeOK, SlotTypes, PoolTypes, poolVars
<1>2. IndexTypes' /\ ArcTypes' /\ PresenceTypes'
  BY DEF StoreInv, StoreTypeOK, IndexTypes, ArcTypes, PresenceTypes, indexVars, arcVars, presenceVars
<1>3. FreshTenantHasDefault' /\ EvictOnResetNeverCached'
  BY Zenon DEF StoreInv, FreshTenantHasDefault, EvictOnResetNeverCached
<1>4. ResetPoolExact' /\ OccupiedWithinCapacity'
  BY Zenon, PoolFrame
<1> QED
  BY <1>1, <1>2, <1>3, <1>4, SlotFrame DEF StoreTypeOK, presenceVars

\* Allocating the reset slots of R and evicting the inactive slots of V preserves
\* the invariant (allocate_atomic, drain_inactive_to_mutable, inactive_tail_to_mutable).
LEMMA EvictInv ==
  ASSUME StoreInv, NEW R \in SUBSET free, NEW V \in SUBSET InactiveBlocks, Evict(R, V)
  PROVE  StoreInv'
<1>1. Ceiling \in Int /\ Ceiling <= capacity /\ capacity \in Nat /\ \A b \in Blocks : b \in Int
  BY CeilingFacts, BlockFacts DEF StoreInv
<1>2. \A b \in R : b \in Blocks /\ state[b] = "Reset" /\ b < Ceiling /\ b < capacity
  BY <1>1 DEF StoreInv, ResetPoolExact, StoreTypeOK, PoolTypes
<1>3. \A b \in V : b \in Blocks /\ state[b] = "Inactive" /\ b < capacity
  BY DEF StoreInv, OccupiedWithinCapacity, InactiveBlocks
<1>4. \A b \in Blocks : state'[b] = IF b \in R \/ (b \in V /\ b < Ceiling) THEN "Mutable"
                                    ELSE IF b \in V THEN "Reset" ELSE state[b]
  <2>1. state' = [b \in Blocks |-> IF b \in R \cup {c \in V : c < Ceiling} THEN "Mutable"
                                  ELSE IF b \in {c \in V : c >= Ceiling} THEN "Reset" ELSE state[b]]
    BY Zenon DEF Evict, Retire
  <2> QED
    BY <2>1, <1>1
<1>5. \A b \in Blocks : hashOf'[b] = IF b \in R \/ b \in V THEN NoHash ELSE hashOf[b]
  BY <1>1 DEF Evict, Retire, Forget
<1>6. StoreTypeOK'
  <2>1. SlotTypes'
    BY <1>2, <1>3, StoreConstants DEF StoreInv, StoreTypeOK, SlotTypes, SlotStates, Guards, Forget, Evict, Retire
  <2>2. PoolTypes' /\ IndexTypes'
    BY <1>3, StoreConstants DEF StoreInv, StoreTypeOK, PoolTypes, IndexTypes, Without, push_reset_fenced, Evict
  <2>3. ArcTypes' /\ PresenceTypes'
    BY DEF StoreInv, StoreTypeOK, ArcTypes, PresenceTypes, arcVars, Evict
  <2> QED
    BY Zenon, <2>1, <2>2, <2>3 DEF StoreTypeOK
<1>7. ResetPoolExact' /\ OccupiedWithinCapacity'
  <2>1. /\ Ceiling' = Ceiling /\ capacity' = capacity
        /\ free' = free \ R /\ fenced' = fenced \cup {b \in V : b >= Ceiling}
    BY Zenon DEF Evict, Ceiling, effective_ceiling, push_reset_fenced
  <2>2. ASSUME NEW b \in Blocks
        PROVE  b \in free' <=> state'[b] = "Reset" /\ b < Ceiling'
    BY <1>3, <1>4, <2>1 DEF StoreInv, ResetPoolExact
  <2>3. ASSUME NEW b \in Blocks
        PROVE  b \in fenced' <=> state'[b] = "Reset" /\ Ceiling' <= b /\ b < capacity'
    BY <1>1, <1>3, <1>4, <2>1 DEF StoreInv, ResetPoolExact
  <2>4. OccupiedWithinCapacity'
    BY <1>2, <1>3, <1>4, <2>1 DEF StoreInv, OccupiedWithinCapacity
  <2> QED
    BY Zenon, <2>2, <2>3, <2>4 DEF ResetPoolExact
<1>8. GuardOwnsSlot' /\ SlotFields'
  <2>1. /\ \A b \in Blocks : guard'[b] = IF b \in R \/ (b \in V /\ b < Ceiling) THEN "Mutable" ELSE guard[b]
        /\ innerOf' = innerOf
    BY Zenon DEF Evict, Retire, PoolTypes, PresenceTypes
  <2>2. GuardOwnsSlot'
    BY <1>3, <1>4, <2>1 DEF StoreInv, GuardOwnsSlot
  <2>3. SlotFields'
    BY <1>2, <1>3, <1>4, <1>5, <2>1, StoreConstants DEF StoreInv, SlotFields, Registered
  <2> QED
    BY Zenon, <2>2, <2>3
<1>9. IndexesExact' /\ ActiveOrInactive'
  <2>1. /\ \A h \in Hashes : inactive'[h] = IF inactive[h] \in V THEN NoBlock ELSE inactive[h]
        /\ active_by_hash' = active_by_hash /\ held_by_hash' = held_by_hash
    BY Zenon DEF Evict, Without
  <2>2. IndexMatches(inactive, "Inactive")'
    <3>1. \A b \in Blocks : state'[b] = "Inactive" <=> state[b] = "Inactive" /\ b \notin V
      BY <1>2, <1>4
    <3>2. \A b \in Blocks : state[b] = "Inactive" /\ b \notin V => hashOf'[b] = hashOf[b]
      BY <1>2, <1>5
    <3>3. IndexMatches(inactive, "Inactive")
      BY Zenon DEF StoreInv, IndexesExact
    <3> QED
      BY <2>1, <3>1, <3>2, <3>3, BlockFacts DEF IndexMatches
  <2>3. IndexMatches(active_by_hash, "Primary")' /\ IndexMatches(held_by_hash, "Held")'
    <3>1. \A b \in Blocks : \A s \in {"Primary", "Held"} : state'[b] = s <=> state[b] = s
      BY <1>2, <1>3, <1>4
    <3>2. \A b \in Blocks : state[b] \in {"Primary", "Held"} => hashOf'[b] = hashOf[b]
      BY <1>2, <1>3, <1>5
    <3>3. IndexMatches(active_by_hash, "Primary") /\ IndexMatches(held_by_hash, "Held")
      BY Zenon DEF StoreInv, IndexesExact
    <3> QED
      BY <2>1, <3>1, <3>2, <3>3 DEF IndexMatches
  <2>4. ActiveOrInactive'
    BY <2>1 DEF StoreInv, ActiveOrInactive
  <2> QED
    BY Zenon, <2>2, <2>3, <2>4 DEF IndexesExact
<1>10. ArcInv'
  BY Zenon, <1>2, <1>3, <1>5, ArcFrame DEF Evict, Retire
<1>11. FreshTenantHasDefault' /\ EvictOnResetNeverCached'
  <2>1. \A b \in Blocks : reset_on_release'[b] = IF b \in R \/ b \in V THEN DefaultReset ELSE reset_on_release[b]
    BY <1>1, <1>3 DEF Evict, Retire
  <2> QED
    BY Zenon, <1>4, <2>1 DEF StoreInv, FreshTenantHasDefault, EvictOnResetNeverCached
<1> QED
  BY Zenon, <1>6, <1>7, <1>8, <1>9, <1>10, <1>11 DEF StoreInv, ArcInv

\* Every allocation and eviction preserves the invariant.
LEMMA AllocateStepInv ==
  ASSUME StoreInv, AllocateStep
  PROVE  StoreInv'
<1>1. ASSUME NEW n \in 1 .. MaxBlocks, AllocateReset(n)
      PROVE  StoreInv'
  <2>1. Lowest(n) \in SUBSET free /\ {} \in SUBSET InactiveBlocks
    BY Zenon DEF Lowest
  <2>2. Evict(Lowest(n), {})
    <3>1. /\ Retire(Lowest(n), {}) /\ free' = free \ Lowest(n)
          /\ UNCHANGED <<capacity, fence, fenced, indexVars, arcVars, presenceVars>>
      BY Zenon, <1>1 DEF AllocateReset
    <3>2. /\ Lowest(n) \cup {b \in {} : b < Ceiling} = Lowest(n)
          /\ {b \in {} : b >= Ceiling} = {} /\ fenced \cup {b \in {} : b >= Ceiling} = fenced
      OBVIOUS
    <3>3. Retire(Lowest(n) \cup {b \in {} : b < Ceiling}, {b \in {} : b >= Ceiling})
      BY Zenon, <3>1, <3>2
    <3>4. inactive = Without(inactive, {})
      BY Zenon DEF Without, StoreInv, StoreTypeOK, IndexTypes
    <3>5. pendingAbsent = [h \in Hashes |->
             IF inactive[h] \in {} THEN pendingAbsent[h] + 1 ELSE pendingAbsent[h]]
      BY DEF StoreInv, StoreTypeOK, PresenceTypes
    <3> QED
      BY <3>1, <3>4, <3>5 DEF Evict, push_reset_fenced, indexVars, presenceVars
  <2> QED
    BY <2>1, <2>2, EvictInv
<1>2. ASSUME NEW n \in 1 .. MaxBlocks, NEW V \in SUBSET InactiveBlocks, AllocateAtomic(n, V)
      PROVE  StoreInv'
  BY Zenon, <1>2, EvictInv DEF AllocateAtomic, Lowest
<1>3. ASSUME DrainInactive PROVE StoreInv'
  BY <1>3, EvictInv DEF DrainInactive
<1>4. ASSUME NEW m \in 0 .. MaxBlocks, NEW A \in SUBSET InactiveBlocks, EvictTail(m, A)
      PROVE  StoreInv'
  <2>1. InactiveTail(m) \cup A \in SUBSET InactiveBlocks
    BY Zenon DEF InactiveTail
  <2> QED
    BY <1>4, <2>1, EvictInv DEF EvictTail
<1> QED
  BY <1>1, <1>2, <1>3, <1>4 DEF AllocateStep


\* A store as BlockStore::new builds it satisfies the invariant.
LEMMA InitInv ==
  ASSUME StoreInit
  PROVE  StoreInv
<1>1. StoreTypeOK
  BY StoreConstants DEF StoreInit, Blocks, NoFence, StoreTypeOK, SlotTypes, PoolTypes, IndexTypes, ArcTypes,
     PresenceTypes, SlotStates, Guards, Phases
<1>2. ResetPoolExact /\ OccupiedWithinCapacity
  BY StoreConstants DEF StoreInit, Blocks, NoFence, ResetPoolExact, OccupiedWithinCapacity, Ceiling,
     effective_ceiling
<1>3. GuardOwnsSlot /\ SlotFields
  BY Zenon, StoreConstants DEF StoreInit, GuardOwnsSlot, SlotFields, Registered
<1>4. IndexesExact /\ ActiveOrInactive
  BY Zenon, BlockFacts DEF StoreInit, IndexesExact, IndexMatches, ActiveOrInactive
<1>5. SlotHasArc /\ LiveArcOwnsSlot /\ LiveHasOwner /\ ArcFields
  BY StoreConstants DEF StoreInit, SlotHasArc, LiveArcOwnsSlot, LiveHasOwner, ArcFields, Keepers, IsPrimary
<1>6. DuplicatePinsPrimary /\ DuplicateNeverMovesOn /\ FreshTenantHasDefault /\ EvictOnResetNeverCached
  BY Zenon DEF StoreInit, DuplicatePinsPrimary, DuplicateNeverMovesOn, FreshTenantHasDefault, EvictOnResetNeverCached
<1> QED
  BY Zenon, <1>1, <1>2, <1>3, <1>4, <1>5, <1>6 DEF StoreInv

\* The steps of requests preserve the invariant.
LEMMA RequestNextInv ==
  ASSUME StoreInv, RequestNext
  PROVE  StoreInv'
<1>1. ASSUME GuardStep PROVE StoreInv'
  BY <1>1, ReleaseGuardInv, StageInv, ResetStagedInv DEF GuardStep
<1>2. ASSUME RegisterStep PROVE StoreInv'
  BY Zenon, <1>2, RegisterPrimaryInv, RegisterDuplicateInv, RegisterRejectInv DEF RegisterStep
<1>3. ASSUME NEW i \in Inners, FinishStep(i) PROVE StoreInv'
  BY <1>3, MarkPresentInv, ReleasePrimaryToResetInv, ReleasePrimaryToInactiveInv, ReleasePrimaryNoopInv,
     ReleaseDuplicateInv, DropKeepaliveInv DEF FinishStep
<1>4. ASSUME RefStep PROVE StoreInv'
  BY Zenon, <1>4, UpgradeInv, DropRefInv DEF RefStep
<1> QED
  BY Zenon, <1>1, <1>2, <1>3, <1>4, AllocateStepInv, AcquireInv, MarkAbsentInv DEF RequestNext

\* Every step of the store preserves the invariant.
LEMMA NextInv ==
  ASSUME StoreInv, [StoreNext]_storeVars
  PROVE  StoreInv'
<1>1. ASSUME OverrideStep PROVE StoreInv'
  BY Zenon, <1>1, SetEvictStagedInv, SetEvictInv DEF OverrideStep
<1>2. ASSUME ResizeStep PROVE StoreInv'
  BY <1>2, SetCapacityInv, SetAllocationCeilingInv DEF ResizeStep
<1> QED
  BY Zenon, <1>1, <1>2, RequestNextInv, StutterInv DEF StoreNext

\* The invariant holds in every reachable state of the store.
THEOREM StoreSafety == StoreSpec => []StoreInv
<1>1. StoreInit => StoreInv
  BY Zenon, InitInv
<1>2. StoreInv /\ [StoreNext]_storeVars => StoreInv'
  BY Zenon, NextInv
<1> QED
  BY <1>1, <1>2, PTL DEF StoreSpec

\* Every variable of the store keeps its type.
THEOREM StoreTypeCorrect == StoreSpec => []StoreTypeOK
<1>1. StoreInv => StoreTypeOK
  BY DEF StoreInv
<1> QED
  BY <1>1, StoreSafety, PTL

\* The reset pool is exact and no occupied slot leaves the capacity, however
\* set_capacity, set_allocation_ceiling, evictions and releases interleave.
THEOREM PoolAccounting == StoreSpec => [](ResetPoolExact /\ OccupiedWithinCapacity)
<1>1. StoreInv => ResetPoolExact /\ OccupiedWithinCapacity
  BY Zenon DEF StoreInv
<1> QED
  BY <1>1, StoreSafety, PTL

\* The hash indexes agree with the slots and a hash is never active and inactive
\* at once: the panics of acquire_registered_for_hash_locked and of the inactive
\* backends' insert are unreachable.
THEOREM IndexConsistency == StoreSpec => [](IndexesExact /\ ActiveOrInactive)
<1>1. StoreInv => IndexesExact /\ ActiveOrInactive
  BY Zenon DEF StoreInv
<1> QED
  BY <1>1, StoreSafety, PTL

\* A held block is never taken away: while an ImmutableBlock exists, its slot is
\* registered to it, and a duplicate's primary stays registered with it.
THEOREM HoldersKeepBlocks == StoreSpec => [](LiveArcOwnsSlot /\ DuplicatePinsPrimary /\ DuplicateNeverMovesOn)
<1>1. StoreInv => LiveArcOwnsSlot /\ DuplicatePinsPrimary /\ DuplicateNeverMovesOn
  BY Zenon DEF StoreInv
<1> QED
  BY <1>1, StoreSafety, PTL

\* Guards own their slots alone, a new tenant starts with the default override,
\* and a block marked for eviction is never cached.
THEOREM GuardsAndOverrides ==
  StoreSpec => [](GuardOwnsSlot /\ FreshTenantHasDefault /\ EvictOnResetNeverCached)
<1>1. StoreInv => GuardOwnsSlot /\ FreshTenantHasDefault /\ EvictOnResetNeverCached
  BY Zenon DEF StoreInv
<1> QED
  BY <1>1, StoreSafety, PTL
==============================================================================
