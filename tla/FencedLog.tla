----------------------------- MODULE FencedLog ------------------------------
(***************************************************************************)
(* What the run store promises its callers: ownership is a sequence of     *)
(* epochs, each granted to one holder and never granted again, and the log *)
(* of a run grows only at its end and only by entries of the epoch that    *)
(* owns it, so an owner that was replaced can never write again.           *)
(***************************************************************************)
EXTENDS Naturals, Sequences

VARIABLES
    epoch,    \* the last epoch granted
    owner,    \* the epoch that owns the log, 0 if none does
    log       \* the epoch of every entry

vars == <<epoch, owner, log>>

Init == epoch = 0 /\ owner = 0 /\ log = <<>>

\* A new owner; the previous one, if any, is replaced for good.
Grant ==
    /\ epoch' = epoch + 1
    /\ owner' = epoch'
    /\ UNCHANGED log

\* The owner gives the log up.
Yield ==
    /\ owner' = 0
    /\ UNCHANGED <<epoch, log>>

Write ==
    /\ owner # 0
    /\ log' = Append(log, owner)
    /\ UNCHANGED <<epoch, owner>>

Next == Grant \/ Yield \/ Write

Spec == Init /\ [][Next]_vars
=============================================================================
