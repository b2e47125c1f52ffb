---------------------------- MODULE MCRunStream -----------------------------
(* A small instance of RunStream: three revisions of a two-node loop, the   *)
(* second in two shapes so that a version identity could be reused.         *)
EXTENDS RunStream, TLC

CONSTANTS build, check

Graph(revision, entry, nodes, edges) ==
    [specId |-> "loop", revision |-> revision,
     entry |-> entry, nodes |-> nodes, edges |-> edges]

First == Graph(1, build, {build}, {<<build, build>>})
Second == Graph(2, build, {build, check}, {<<build, check>>, <<check, build>>})
SecondReshaped == Graph(2, check, {check}, {})
Third == Graph(3, check, {check}, {<<check, check>>})

MCInitialSpecs == {First}
MCLoopSpecs == {First, Second, SecondReshaped, Third}
MCSymmetry == Permutations(Generations)
=============================================================================
