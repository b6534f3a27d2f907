----------------------------- MODULE MCFlowRuns -----------------------------
(* Small instances of FlowRuns for TLC.                                      *)
EXTENDS FlowRuns, TLC

CONSTANTS r1, w1, w2

Slots == Permutations(Workers)
ActAnchorAct == <<"act", "anchor", "act">>

AppFirst == {"app"}
AdminOnly == {"none"}
AppOrAdmin == {"app", "none"}
=============================================================================
