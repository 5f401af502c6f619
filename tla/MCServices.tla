------------------------------ MODULE MCServices ------------------------------
(* Services for TLC: the second build drops a service of the first, or all *)
(* builds have the same services.                                          *)
EXTENDS Services, TLC

CONSTANTS v1, v2, web, db

MCConfig == (v1 :> {web, db}) @@ (v2 :> {web})
MCConfigOne == [v \in Stores |-> Names]
=============================================================================
