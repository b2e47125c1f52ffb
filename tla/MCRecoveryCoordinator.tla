----------------------- MODULE MCRecoveryCoordinator ------------------------
(* Two coordinators and a worker on a one-node loop.                        *)
EXTENDS RecoveryCoordinator, TLC

CONSTANTS build

Loop(revision_) ==
    [specId |-> "loop", revision |-> revision_, entry |-> build,
     nodes |-> {build}, edges |-> {<<build, build>>}]

MCInitialSpecs == {Loop(1)}
MCLoopSpecs == {Loop(1), Loop(2)}
MCSymmetry == Permutations(Coordinators)
=============================================================================
