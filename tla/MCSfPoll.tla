------------------------------ MODULE MCSfPoll ------------------------------
(* Small instances of SfPoll.                                                *)
EXTENDS SfPoll

CONSTANTS x, y, z, p1
=============================================================================
