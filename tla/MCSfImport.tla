----------------------------- MODULE MCSfImport -----------------------------
(* Small instances of SfImport for TLC: two contacts of an account that      *)
(* refers back to one of them.                                               *)
EXTENDS SfImport, TLC

CONSTANTS a1, c1, c2, w1, w2

Kinds == (a1 :> "account") @@ (c1 :> "contact") @@ (c2 :> "contact")
Order == <<"contact", "account">>
Lookups ==
    {(a1 :> c1) @@ (c1 :> a1) @@ (c2 :> NoId), (a1 :> c2) @@ (c1 :> NoId) @@ (c2 :> a1)}
=============================================================================
