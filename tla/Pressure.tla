------------------------------ MODULE Pressure ------------------------------
(***************************************************************************)
(* The three pressure operations of a block manager at work on one store:  *)
(* lineage holds, rebind plans and exact reclaim.  Each owns tokens that   *)
(* outlive the critical section that made them; requests and the other two *)
(* operations run in between.                                              *)
(***************************************************************************)
EXTENDS LineageHold, Rebind, ExactReclaim

CONSTANT MaxAtWork        \* bound: operations with tokens outstanding at once

pressureVars == <<storeVars, holds, preflights, notices, plans, content, names, fresh>>

\* A preflight becomes a hold, and a name stays with the plan made from it.
AtWork == {k \in {"hold", "rebind", "reclaim"} :
             \/ k = "hold" /\ holds \cup preflights # {}
             \/ k = "rebind" /\ plans # {}
             \/ k = "reclaim" /\ names \cup fresh # {}}

PressureInit ==
    /\ StoreInit
    /\ holds = {} /\ preflights = {} /\ notices = {}
    /\ plans = {} /\ content = [b \in Blocks |-> NoHash]
    /\ names = {} /\ fresh = {}

\* What a step of the store, or of one operation, leaves to the other operations.
BesideHolds == preflights' = Watch(preflights) /\ UNCHANGED <<holds, notices>>
BesidePlans == content' = Written /\ UNCHANGED plans
BesideReclaim == fresh' = WatchPlans(fresh) /\ UNCHANGED names

Beside(StoreStep) == StoreStep /\ BesideHolds /\ BesidePlans /\ BesideReclaim

PressureStep ==
    /\ \/ HoldStep /\ BesidePlans /\ BesideReclaim
       \/ PlanStep /\ BesideHolds /\ BesideReclaim
       \/ ReclaimStep /\ BesideHolds /\ BesidePlans
    /\ Cardinality(AtWork)' <= MaxAtWork

PressureNext == PressureStep \/ Beside(StoreNext)

PressureSpec == PressureInit /\ [][PressureNext]_pressureVars

(***************************************************************************)
(* Properties                                                              *)
(***************************************************************************)

\* The tokens of each operation have their types; StoreInv has those of the store.
PressureTypeOK == HoldTypeOK /\ RebindTypeOK /\ ReclaimTypeOK

\* The tokens in flight own what they claimed: a hold its lineage and every held slot
\* its hold, a rebind plan its destination, a valid reclaim plan the slots it promises;
\* and no commit registers a slot with the bytes of another tenant.
PressureInv ==
    /\ PressureTypeOK
    /\ HoldOwnsLineage /\ HeldHasOwner
    /\ PlanOwnsDestination /\ ContentIntegrity
    /\ ValidPlanNeverShort
=============================================================================
