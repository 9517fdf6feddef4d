------------------------------ MODULE MCSequence -----------------------------
(***************************************************************************)
(* Two requests with the same prompt and the same output, on one manager:  *)
(* one scheduled, one driven directly with deferred registration.          *)
(***************************************************************************)
EXTENDS SchedulableSequence, TLC

CONSTANTS r1, r2, s1, s2, s3

SameHashes == [r \in {r1, r2} |-> <<11, 12, 13>>]
Inputs == [r \in {r1, r2} |-> IF r = r1 THEN 2 ELSE 3]
Outputs == [r \in {r1, r2} |-> IF r = r1 THEN 3 ELSE 1]

\* No operation prefers a slot.
SlotSymmetry == Permutations(Slots)

\* The stale content of a free slot is never read: an allocation resets it.
SequenceView ==
    <<req, sched, before, [pool EXCEPT !.content = [s \in Slots |-> IF s \in Free THEN None ELSE @[s]]]>>
==============================================================================
