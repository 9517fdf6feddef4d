--------------------------- MODULE MCTierPlacement ---------------------------
(***************************************************************************)
(* Instances of TierPlacement with two placement keys.                      *)
(***************************************************************************)
EXTENDS TierPlacement, TLC

CONSTANTS
    k1, k2,
    MaxWork               \* bound: changes, numbers, snapshots and registrations together

\* A registration counts for two and one more once its epoch is adopted: long streams of
\* one registration, shorter ones across a rolled-back one, short ones of two.
Work == changes + last_seq + sequencer.generation + 2 * repushes + 2 * epochs + sequencer.epoch

\* No operation prefers a key.
KeySymmetry == Permutations(Keys)

MCNext == TierNext /\ Work' <= MaxWork
MCSpec == TierInit /\ [][MCNext]_tierVars
==============================================================================
