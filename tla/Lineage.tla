------------------------------ MODULE Lineage ------------------------------
(***************************************************************************)
(* Complete lineages in the inactive pool, as the store asks the lineage   *)
(* index for them.  A hash names its parent.  The index calls a node a     *)
(* leaf when no child is linked to it; here a hash is a leaf when no child *)
(* of it is inactive, which admits every lineage that the index admits.    *)
(***************************************************************************)
EXTENDS BlockStore

CONSTANT Parent           \* the parent hash of each hash, NoHash for a root

ASSUME ParentAssumption == Parent \in [Hashes -> Hashes \cup {NoHash}]

Children(h) == {g \in Hashes : Parent[g] = h}

\* The hashes from the root to h: the least set with h that is closed under Parent.
Lineage(h) ==
    LET closed == {S \in SUBSET Hashes : h \in S /\ \A g \in S : Parent[g] \in S \cup {NoHash}}
    IN  {g \in Hashes : \A S \in closed : g \in S}

\* complete_lineage_indices: every ancestor of leaf h is inactive too.
CompleteLineage(h) ==
    /\ \A g \in Lineage(h) : inactive[g] # NoBlock
    /\ \A g \in Children(h) : inactive[g] = NoBlock

SourceBlocks(h) == [g \in Lineage(h) |-> inactive[g]]
=============================================================================
