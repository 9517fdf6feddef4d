------------------------------- MODULE Rebind -------------------------------
(***************************************************************************)
(* Moving a registered block to another physical slot.  A plan reserves a  *)
(* destination, the caller copies the bytes outside the store mutex, and a *)
(* commit rebinds the registration if the source is still the tenant that  *)
(* was planned.  Between the three steps the source may be hit, released,  *)
(* evicted, reallocated and rewritten.                                     *)
(*                                                                         *)
(* The variable content is what the bytes of a slot are: those of a hash,  *)
(* or nothing usable.  It is written by the owners of the slots and by the *)
(* copies, never by the store.                                             *)
(***************************************************************************)
EXTENDS BlockStore

CONSTANT MaxPlans         \* bound: plans outstanding at once

ASSUME PlanConstants == MaxPlans \in Nat

VARIABLES
    plans,                \* RebindPlan objects
    content               \* the bytes of each slot

rebindVars == <<storeVars, plans, content>>

RebindInit == StoreInit /\ plans = {} /\ content = [b \in Blocks |-> NoHash]

\* The owner of a fresh slot has not written it yet; a staged slot is written.
Written ==
    [b \in Blocks |-> IF state'[b] = "Staged" THEN hashOf'[b]
                      ELSE IF state'[b] = "Mutable" /\ state[b] # "Mutable" THEN NoHash
                      ELSE content[b]]

(***************************************************************************)
(* Preparing and copying                                                   *)
(***************************************************************************)

\* The plan for the tenant of slot src: dst is the lowest free slot, which
\* becomes Mutable with the plan as its owner.
Prepare(src, inner) ==
    /\ Cardinality(plans) < MaxPlans
    /\ \E dst \in Lowest(1) :
           /\ generation[dst] < MaxGeneration
           /\ plans' = plans \cup {[hash |-> hashOf[src], src |-> src, dst |-> dst,
                                    generation |-> generation[src], inner |-> inner,
                                    copied |-> FALSE]}
           /\ state' = [state EXCEPT ![dst] = "Mutable"]
           /\ generation' = [generation EXCEPT ![dst] = @ + 1]
           /\ reset_on_release' = [reset_on_release EXCEPT ![dst] = DefaultReset]
           /\ guard' = [guard EXCEPT ![dst] = "Plan"]
           /\ free' = free \ {dst}
           /\ content' = [content EXCEPT ![dst] = NoHash]
    /\ UNCHANGED <<hashOf, innerOf, inactive_epoch, capacity, fence, fenced, indexVars,
                   arcVars, presenceVars>>

\* prepare_rebind of an inactive block
PrepareInactive(src) ==
    /\ src < capacity
    /\ state[src] = "Inactive"
    /\ Prepare(src, NoInner)

\* prepare_live_rebind of a block that the caller holds
PrepareLive(i) ==
    /\ refs[i] > 0
    /\ Owns(i, "Primary") \/ Owns(i, "Duplicate")
    /\ Prepare(block_id[i], i)

\* The caller copies the bytes, at any time before it commits.
Copy(p) ==
    /\ p \in plans
    /\ content' = [content EXCEPT ![p.dst] = content[p.src]]
    /\ plans' = (plans \ {p}) \cup {[p EXCEPT !.copied = TRUE]}
    /\ UNCHANGED storeVars

(***************************************************************************)
(* Ending a plan                                                           *)
(***************************************************************************)

\* release_reserved_destination
ReleaseDestination(p) ==
    /\ plans' = plans \ {p}
    /\ state' = [state EXCEPT ![p.dst] = "Reset"]
    /\ reset_on_release' = [reset_on_release EXCEPT ![p.dst] = DefaultReset]
    /\ guard' = [guard EXCEPT ![p.dst] = "None"]
    /\ free' = push_reset_free({p.dst})
    /\ fenced' = push_reset_fenced({p.dst})
    /\ UNCHANGED <<hashOf, innerOf, generation, inactive_epoch, capacity, fence, indexVars,
                   arcVars, presenceVars, content>>

\* Mutant: the same hash in the same slot passes for the same tenant.
SameTenant_AnyGeneration(p, s) ==
    /\ state[p.src] = s
    /\ hashOf[p.src] = p.hash

\* The source still is the planned tenant, in state s.
SameTenant(p, s) ==
    /\ state[p.src] = s
    /\ hashOf[p.src] = p.hash
    /\ generation[p.src] = p.generation

\* The planned arc, when the plan names one, is the one bound to the source.
SameArc(p) == p.inner \in {NoInner, innerOf[p.src]}

\* Drop for RebindPlan
DropPlan(p) == p \in plans /\ ReleaseDestination(p)

\* Mutant: the moved arc keeps its old block_id.
Rebound_Stale(p) == block_id

\* The arc bound to the source names the destination from now on.
Rebound(p) == [i \in Inners |-> IF i = innerOf[p.src] THEN p.dst ELSE block_id[i]]

\* The destination takes over the source's tenant; the source is reset.  A slot
\* that moves while inactive starts an inactive tenure at its destination.
Move(p) ==
    LET s == state[p.src]
    IN  /\ plans' = plans \ {p}
        /\ state' = [state EXCEPT ![p.dst] = s, ![p.src] = "Reset"]
        /\ hashOf' = [hashOf EXCEPT ![p.dst] = p.hash, ![p.src] = NoHash]
        /\ innerOf' = [innerOf EXCEPT ![p.dst] = innerOf[p.src], ![p.src] = NoInner]
        /\ inactive_epoch' = [inactive_epoch EXCEPT ![p.dst] = IF s = "Inactive" THEN @ + 1 ELSE @]
        /\ reset_on_release' = [reset_on_release EXCEPT ![p.dst] = reset_on_release[p.src],
                                                        ![p.src] = DefaultReset]
        /\ guard' = [guard EXCEPT ![p.dst] = "None"]
        /\ free' = push_reset_free({p.src})
        /\ fenced' = push_reset_fenced({p.src})
        /\ inactive' = IF s = "Inactive" THEN [inactive EXCEPT ![p.hash] = p.dst] ELSE inactive
        /\ active_by_hash' = IF s = "Primary" THEN [active_by_hash EXCEPT ![p.hash] = p.dst]
                                              ELSE active_by_hash
        /\ block_id' = Rebound(p)
        /\ UNCHANGED <<generation, capacity, fence, held_by_hash, phase, refs, keepalive,
                       presenceVars, content>>

\* RebindPlan::commit: Fenced, Moved, Busy (the plan stays) or Stale.
Commit(p) ==
    /\ p \in plans /\ p.copied
    /\ \/ p.dst >= Ceiling /\ ReleaseDestination(p)
       \/ p.dst < Ceiling /\ SameTenant(p, "Inactive") /\ Move(p)
       \/ /\ p.dst < Ceiling
          /\ \A s \in Registered : ~SameTenant(p, s)
          /\ ReleaseDestination(p)

\* RebindPlan::commit_live: a live holder's arc is moved in place; a dead one
\* is Busy; anything else is Stale.
CommitLive(p) ==
    /\ p \in plans /\ p.copied
    /\ \/ p.dst >= Ceiling /\ ReleaseDestination(p)
       \/ p.dst < Ceiling /\ SameTenant(p, "Inactive") /\ Move(p)
       \/ /\ p.dst < Ceiling
          /\ \E s \in {"Primary", "Duplicate"} : SameTenant(p, s)
          /\ SameArc(p)
          /\ phase[innerOf[p.src]] = "live"
          /\ Move(p)
       \/ /\ p.dst < Ceiling
          /\ ~SameTenant(p, "Inactive")
          /\ ~(SameArc(p) /\ \E s \in {"Primary", "Duplicate"} : SameTenant(p, s))
          /\ ReleaseDestination(p)

PlanStep ==
    \/ \E b \in Blocks : PrepareInactive(b)
    \/ \E i \in Inners : PrepareLive(i)
    \/ \E p \in plans : Copy(p) \/ Commit(p) \/ CommitLive(p) \/ DropPlan(p)

RebindNext ==
    \/ PlanStep
    \/ StoreNext /\ content' = Written /\ UNCHANGED plans

RebindSpec == RebindInit /\ [][RebindNext]_rebindVars

(***************************************************************************)
(* Properties                                                              *)
(***************************************************************************)

\* The variables of the operation have their types; StoreInv has those of the store.
RebindTypeOK ==
    /\ plans \subseteq [hash : Hashes, src : Blocks, dst : Blocks, generation : Nat,
                        inner : Inners \cup {NoInner}, copied : BOOLEAN]
    /\ content \in [Blocks -> Hashes \cup {NoHash}]

\* A registered slot holds the bytes of its hash: no commit registers a
\* destination that was copied from a slot which had a different or unfinished
\* tenant at any time between the plan and the commit.
ContentIntegrity ==
    \A b \in Blocks : state[b] \in Registered => content[b] = hashOf[b]

\* A holder is moved, never robbed: while an arc stays live, the slot it names
\* keeps the same hash, although a live rebind may exchange the slot itself.
HolderKeepsHash ==
    [][\A i \in Inners :
          phase[i] = "live" /\ phase'[i] = "live" => hashOf'[block_id'[i]] = hashOf[block_id[i]]]_rebindVars

\* A plan owns its destination until it ends; the assertions "rebind plan no
\* longer owns its mutable destination" are unreachable.
PlanOwnsDestination ==
    /\ \A p \in plans : guard[p.dst] = "Plan" /\ state[p.dst] = "Mutable"
    /\ \A p, q \in plans : p.dst = q.dst => p = q
=============================================================================
