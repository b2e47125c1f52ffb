----------------------------- MODULE MCDshBridge -----------------------------
(* Small instances of DshBridge: two processes attach to a run whose graph  *)
(* is the one node dsh-pre-step with its self-loop.                         *)
EXTENDS DshBridge, TLC

MCGraphs == {[specId |-> "dsh", revision |-> 1, entry |-> "dsh-pre-step",
              nodes |-> {"dsh-pre-step"},
              edges |-> {<<"dsh-pre-step", "dsh-pre-step">>}]}
MCPreStep == "dsh-pre-step"

\* Nothing tells processes or steps apart.
MCSymmetry == Permutations(Supervisors) \union Permutations(Attempts)
=============================================================================
