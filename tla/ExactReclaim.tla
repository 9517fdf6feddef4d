---------------------------- MODULE ExactReclaim ----------------------------
(***************************************************************************)
(* Exact reclaim: a caller names complete inactive entries, later resolves *)
(* the names to a fresh plan (every victim with its generation and epoch,  *)
(* and the number of free slots), and later still executes the plan, which *)
(* either reclaims exactly the planned victims and allocates from the      *)
(* result, or changes nothing.  Each of the three is one critical section; *)
(* requests run in between.                                                *)
(***************************************************************************)
EXTENDS Lineage

CONSTANTS
    MaxNames,             \* bound: entry names retained at once
    MaxFresh              \* bound: fresh plans outstanding at once

ASSUME ReclaimConstants == MaxNames \in Nat /\ MaxFresh \in Nat

VARIABLES
    names,                \* ExactReclaimEntryPlan objects
    fresh                 \* FreshExactReclaimPlan objects

reclaimVars == <<storeVars, names, fresh>>

ReclaimInit == StoreInit /\ names = {} /\ fresh = {}

BlocksOf(p) == {v.block : v \in p.victims}
HashesOf(p) == {v.hash : v \in p.victims}

\* Mutant: the removal is not compared with the lineage index.
RemovalClosed_Unchecked(H) == TRUE

\* preflight_exact_reclaim: the removal leaves no inactive child behind, and takes
\* every inactive ancestor along.
RemovalClosed(H) ==
    \A h \in H :
        /\ \A g \in Children(h) : inactive[g] # NoBlock => g \in H
        /\ Parent[h] # NoHash /\ inactive[Parent[h]] # NoBlock => Parent[h] \in H

\* What a step does to an observer's note on each plan: a victim's slot has left
\* the inactive pool since the plan was made.
WatchPlans(P) ==
    {[p EXCEPT !.hit = @ \/ \E b \in BlocksOf(p) : state'[b] \notin {"Inactive", "Held"}] : p \in P}

(***************************************************************************)
(* Actions                                                                 *)
(***************************************************************************)

\* name_complete_inactive_entry_by_hash: a name binds leaf slot and generation, no epoch.
Name(h) ==
    /\ Cardinality(names) < MaxNames
    /\ inactive[h] # NoBlock
    /\ CompleteLineage(h)
    /\ names' = names \cup {[hash |-> h, block |-> inactive[h],
                             generation |-> generation[inactive[h]]]}
    /\ UNCHANGED <<storeVars, fresh>>

DropName(e) ==
    /\ e \in names
    /\ names' = names \ {e}
    /\ UNCHANGED <<storeVars, fresh>>

\* refresh_and_combine_exact_reclaim of the names E
Refresh(E) ==
    LET H == UNION {Lineage(e.hash) : e \in E}
    IN  /\ E # {} /\ E \subseteq names
        /\ Cardinality(fresh) < MaxFresh
        /\ \A e \in E : /\ state[e.block] = "Inactive"
                        /\ hashOf[e.block] = e.hash
                        /\ generation[e.block] = e.generation
                        /\ CompleteLineage(e.hash)
        /\ \A d, e \in E : d # e => Lineage(d.hash) \cap Lineage(e.hash) = {}
        /\ RemovalClosed(H)
        /\ fresh' = fresh \cup
               {[reset |-> Cardinality(free), hit |-> FALSE,
                 victims |-> {[hash |-> h, block |-> inactive[h],
                               generation |-> generation[inactive[h]],
                               epoch |-> inactive_epoch[inactive[h]]] : h \in H}]}
        /\ UNCHANGED <<storeVars, names>>

\* Mutant: the validation misses the inactive tenure.
Executable_AnyTenure(p, n) ==
    /\ Cardinality(free) = p.reset
    /\ n > 0
    /\ n <= Cardinality(free) + Cardinality(p.victims)
    /\ \A v \in p.victims :
           /\ state[v.block] = "Inactive" /\ hashOf[v.block] = v.hash
           /\ generation[v.block] = v.generation
           /\ v.block < Ceiling
    /\ RemovalClosed(HashesOf(p))

\* The validation of allocate_exact_reclaim
Executable(p, n) ==
    /\ Cardinality(free) = p.reset
    /\ n > 0
    /\ n <= Cardinality(free) + Cardinality(p.victims)
    /\ \A v \in p.victims :
           /\ state[v.block] = "Inactive" /\ hashOf[v.block] = v.hash
           /\ generation[v.block] = v.generation
           /\ inactive_epoch[v.block] = v.epoch
           /\ v.block < Ceiling
    /\ RemovalClosed(HashesOf(p))

\* allocate_exact_reclaim: the victims are reset, then the n lowest free slots
\* are allocated.  The plan is used up; a failure only drops it.
Execute(p, n) ==
    LET V == BlocksOf(p)
        F == push_reset_free(V)
        A == {b \in F : Cardinality({c \in F : c < b}) < n}
    IN  /\ p \in fresh
        /\ Executable(p, n)
        /\ Retire(A, V \ A)
        /\ free' = F \ A
        /\ fenced' = push_reset_fenced(V)
        /\ inactive' = Without(inactive, V)
        /\ pendingAbsent' = [h \in Hashes |-> IF inactive[h] \in V THEN pendingAbsent[h] + 1
                                                                   ELSE pendingAbsent[h]]
        /\ fresh' = WatchPlans(fresh \ {p})
        /\ UNCHANGED <<capacity, fence, active_by_hash, held_by_hash, arcVars, presence, unmarked, names>>

DropFresh(p) ==
    /\ p \in fresh
    /\ fresh' = fresh \ {p}
    /\ UNCHANGED <<storeVars, names>>

ReclaimStep ==
    \/ \E h \in Hashes : Name(h)
    \/ \E e \in names : DropName(e)
    \/ \E E \in SUBSET names : Refresh(E)
    \/ \E p \in fresh : DropFresh(p) \/ \E n \in 1 .. MaxBlocks : Execute(p, n)

ReclaimNext ==
    \/ ReclaimStep
    \/ StoreNext /\ fresh' = WatchPlans(fresh) /\ UNCHANGED names

ReclaimSpec == ReclaimInit /\ [][ReclaimNext]_reclaimVars

(***************************************************************************)
(* Properties                                                              *)
(***************************************************************************)

Victims == [hash : Hashes, block : Blocks, generation : Nat, epoch : Nat]

\* The variables of the operation have their types; StoreInv has those of the store.
ReclaimTypeOK ==
    /\ names \subseteq [hash : Hashes, block : Blocks, generation : Nat]
    /\ fresh \subseteq [reset : Nat, hit : BOOLEAN, victims : SUBSET Victims]

\* No plan reclaims a block that was used after the plan was made, even if the
\* block is inactive again under the same hash and in the same mutable tenure:
\* a plan that saw a hit is never executed.
HitRevokesPlan ==
    [][\A p \in fresh : p.hit => ~\E n \in 1 .. MaxBlocks : Execute(p, n)]_reclaimVars

\* Reclaim leaves no orphan: an inactive block whose parent's block was reclaimed
\* by the step is reclaimed by the same step, although children may enter the
\* inactive pool between refresh and execution.
NoOrphanAfterReclaim ==
    [][\A p \in fresh, n \in 1 .. MaxBlocks : Execute(p, n) =>
          \A h \in HashesOf(p) : \A g \in Children(h) : inactive'[g] = NoBlock]_reclaimVars

\* A plan that passes its validation is never short: the free slots and the
\* victims below the ceiling cover the request, so the expectation "validated
\* exact reclaim capacity was lost under the store lock" cannot fail.
ValidPlanNeverShort ==
    \A p \in fresh, n \in 1 .. MaxBlocks :
        Executable(p, n) => n <= Cardinality(push_reset_free(BlocksOf(p)))
=============================================================================
