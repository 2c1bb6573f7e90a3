----------------------------- MODULE MCPayments -----------------------------
(* Small instances of Payments for TLC: one customer, one or two payments. *)
EXTENDS Payments

CONSTANTS u1, p1, p2  \* the customer and the payments, as model values

OwnerIsU1 == [p \in Payments |-> u1]
EachIsOne == [p \in Payments |-> 1]
=============================================================================
