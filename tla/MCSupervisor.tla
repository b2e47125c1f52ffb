---------------------------- MODULE MCSupervisor ----------------------------
(* Small instances of Supervisor: supervisors and an operator over a loop   *)
(* of one node, of which later revisions may be promoted.                   *)
EXTENDS Supervisor, TLC

CONSTANTS build

Graph(revision) ==
    [specId |-> "loop", revision |-> revision,
     entry |-> build, nodes |-> {build}, edges |-> {<<build, build>>}]

MCInitialSpecs == {Graph(1)}
OneGraph == {Graph(1)}
ThreeGraphs == {Graph(1), Graph(2), Graph(3)}

\* Nothing tells supervisors, attempt ids or generation ids apart.
MCSymmetry ==
    Permutations(Supervisors) \union Permutations(Attempts) \union Permutations(Generations)
=============================================================================
