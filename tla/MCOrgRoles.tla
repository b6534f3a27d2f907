----------------------------- MODULE MCOrgRoles -----------------------------
(* Small instances of OrgRoles for TLC.                                      *)
EXTENDS OrgRoles, TLC

CONSTANTS ada, bob, sales, q1, q2, none, some

Stored == {{}, {"roles"}}
RequestSymmetry == Permutations({q1, q2})
=============================================================================
