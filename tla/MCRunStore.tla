----------------------------- MODULE MCRunStore -----------------------------
(* Three processes, two of them of the same operator, so with one holder id. *)
EXTENDS RunStore, TLC

CONSTANTS worker, cliA, cliB, workerHolder, operatorHolder

MCProcesses == {worker, cliA, cliB}
MCHolders == {workerHolder, operatorHolder}
MCHolderOf == (worker :> workerHolder) @@ (cliA :> operatorHolder) @@ (cliB :> operatorHolder)
MCSymmetry == Permutations({cliA, cliB})
=============================================================================
