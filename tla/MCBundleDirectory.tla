-------------------------- MODULE MCBundleDirectory --------------------------
(***************************************************************************)
(* Instances of BundleDirectory.                                           *)
(***************************************************************************)
EXTENDS BundleDirectory, TLC

CONSTANTS k1, k2, k3, o1

\* Bundles meet only in the counts of the capacities, where generations play no
\* part: it is enough that one at a time goes beyond its first generation.
Regenerated == {i \in Identities : Max({advertisements[i].generation, retired[i].generation,
                                        fences[i].top}) > 1}

MCNext == DirectoryNext /\ Cardinality(Regenerated)' <= 1

MCSpec == DirectoryInit /\ [][MCNext]_directoryVars

KeySymmetry == Permutations(Keys)
==============================================================================
