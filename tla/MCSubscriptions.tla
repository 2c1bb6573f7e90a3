--------------------------- MODULE MCSubscriptions ---------------------------
(* Small instances of Subscriptions for TLC. *)
EXTENDS Subscriptions

PriceIsOne == [k \in Plans |-> 1]
TwoDays == [k \in Plans |-> 2]
\* The lower plan runs for a day, the higher one for life.
DayAndLife == [k \in Plans |-> IF k = "plus" THEN 1 ELSE 0]
=============================================================================
