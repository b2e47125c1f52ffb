------------------------- MODULE WriteOnceRegister --------------------------
(***************************************************************************)
(* What a content store promises about its names.  A name is written once; *)
(* nothing replaces what it holds.  What it holds becomes permanent at     *)
(* some later moment, and only until then may a power loss take it away.   *)
(***************************************************************************)
CONSTANTS Names, Values, Nothing

VARIABLES value, permanent

vars == <<value, permanent>>

Init ==
    /\ value = [name \in Names |-> Nothing]
    /\ permanent = {}

Write(name, v) ==
    /\ value[name] = Nothing
    /\ value' = [value EXCEPT ![name] = v]
    /\ UNCHANGED permanent

Settle ==
    /\ permanent \subseteq permanent'
    /\ \A name \in permanent' : value[name] # Nothing
    /\ UNCHANGED value

PowerLoss ==
    /\ value' \in [Names -> Values \union {Nothing}]
    /\ \A name \in Names : value'[name] \in {value[name], Nothing}
    /\ \A name \in permanent : value'[name] = value[name]
    /\ permanent' = {name \in Names : value'[name] # Nothing}

Next ==
    \/ \E name \in Names, v \in Values : Write(name, v)
    \/ Settle
    \/ PowerLoss

Spec == Init /\ [][Next]_vars
=============================================================================
