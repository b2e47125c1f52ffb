--------------------------- MODULE MCArtifactStore --------------------------
(* Two processes publish one generation of one blob under two timestamps.    *)
EXTENDS ArtifactStore, TLC

MCSymmetry == Permutations(Processes) \union Permutations(Temps) \union Permutations(Stamps)
=============================================================================
