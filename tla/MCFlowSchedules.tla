-------------------------- MODULE MCFlowSchedules --------------------------
(* A small instance of FlowSchedules, in the worker process the code starts. *)
EXTENDS FlowSchedules

CONSTANTS f1, daily, weekly

AppFirst == {"app"}
=============================================================================
