----------------------- MODULE MCDynamicRegistration -----------------------
(* DynamicRegistration for TLC: one store behind all workers.  The second    *)
(* platform has a document of its own, and one under the issuer of the first. *)
EXTENDS DynamicRegistration, TLC

OneStore == [w \in Workers |-> "db"]
CONSTANTS i1, i2, e1, e2, p1, p2
Served == {[issuer |-> i1, endpoints |-> e1, at |-> p1],
           [issuer |-> i2, endpoints |-> e2, at |-> p2],
           [issuer |-> i1, endpoints |-> e2, at |-> p2]}
=============================================================================
