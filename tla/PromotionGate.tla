--------------------------- MODULE PromotionGate ----------------------------
(***************************************************************************)
(* What a run promises about the graph it executes, with the journal, the  *)
(* phases and the requests forgotten: the graph is replaced only on        *)
(* accepted evidence about that very graph, by a later revision of the     *)
(* same specification which a human approved if a gate is configured, and  *)
(* otherwise only restored to a graph promoted before.                     *)
(***************************************************************************)
EXTENDS Naturals

CONSTANTS LoopSpecs, InitialSpecs, None

VARIABLES
    graph,       \* the graph in force
    snapshots,   \* the graphs ever promoted
    evidence,    \* the graph that accepted evidence is about, or None
    approved,    \* the candidate a human approved on that evidence, or None
    gated        \* promotion needs a human

vars == <<graph, snapshots, evidence, approved, gated>>

Init ==
    /\ graph \in InitialSpecs
    /\ snapshots = {}
    /\ evidence = None
    /\ approved = None
    /\ gated \in BOOLEAN

AcceptEvidence ==
    /\ evidence = None
    /\ evidence' = graph
    /\ UNCHANGED <<graph, snapshots, approved, gated>>

\* Refused by a human, consumed by the loop, or lost.
DiscardEvidence ==
    /\ evidence' = None
    /\ approved' = None
    /\ UNCHANGED <<graph, snapshots, gated>>

Approve(spec) ==
    /\ evidence # None
    /\ approved = None
    /\ approved' = spec
    /\ UNCHANGED <<graph, snapshots, evidence, gated>>

Promote(spec) ==
    /\ evidence = graph
    /\ gated => approved = spec
    /\ spec.specId = graph.specId
    /\ spec.revision > graph.revision
    /\ graph' = spec
    /\ snapshots' = snapshots \union {spec}
    /\ evidence' = None
    /\ approved' = None
    /\ UNCHANGED gated

RollBack(spec) ==
    /\ evidence = None
    /\ spec \in snapshots
    /\ graph' = spec
    /\ UNCHANGED <<snapshots, evidence, approved, gated>>

Next ==
    \/ AcceptEvidence
    \/ DiscardEvidence
    \/ \E spec \in LoopSpecs : Approve(spec) \/ Promote(spec) \/ RollBack(spec)

Spec == Init /\ [][Next]_vars
=============================================================================
