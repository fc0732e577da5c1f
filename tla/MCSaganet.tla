------------------------------ MODULE MCSaganet ------------------------------
(* Instances of Saganet for TLC. *)
EXTENDS Saganet

CONSTANTS p1, p2

\* Every order wants one unit of each product.
OneEach == [o \in Orders |-> <<[product |-> p1, quantity |-> 1], [product |-> p2, quantity |-> 1]>>]
=============================================================================
