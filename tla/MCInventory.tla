----------------------------- MODULE MCInventory -----------------------------
(* Instances of Inventory for TLC. *)
EXTENDS Inventory, TLC

CONSTANTS o1, o2, p1, p2

Line(p, q) == [product |-> p, quantity |-> q]

\* Two orders that want the same two products in opposite orders.
Crossed == (o1 :> <<Line(p1, 1), Line(p2, 1)>>) @@ (o2 :> <<Line(p2, 1), Line(p1, 1)>>)

\* An order that names a product twice, and one that wants one unit of it.
Repeated == (o1 :> <<Line(p1, 1), Line(p1, 1)>>) @@ (o2 :> <<Line(p1, 1)>>)

\* Adjustments an administrator may make.
LossOrGain == {-1, 1}
Loss == {-1}
=============================================================================
