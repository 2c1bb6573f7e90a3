----------------------------- MODULE MCCheckout -----------------------------
(* Two requests at a time over one gateway order and one Stars charge. *)
EXTENDS Checkout
=============================================================================
