----------------------------- MODULE MCPressure -----------------------------
(***************************************************************************)
(* Small instances of Pressure for TLC: a root hash and its child.         *)
(***************************************************************************)
EXTENDS Pressure, TLC

CONSTANTS root, leaf

ChainParent == (root :> NoHash) @@ (leaf :> root)

\* Requests with the allocation ceiling moving, without overrides and resizing, which
\* multiply the states and meet the operations only in the reset pool.
MCNext ==
    \/ PressureStep
    \/ Beside(RequestNext)
    \/ \E f \in {-1, 1} : Beside(SetAllocationCeiling(f))

MCSpec == PressureInit /\ [][MCNext]_pressureVars

\* The registry's counters are left out of the fingerprint: MarkAbsent alone reads
\* pendingAbsent, it changes nothing else, and no property of this run relates them.
PressureView ==
    <<slotVars, poolVars, indexVars, guard, arcVars, unmarked, holds, preflights, notices,
      plans, content, names, fresh>>

ArcSymmetry == Permutations(Inners)
=============================================================================
