----------------------------- MODULE MCDelivery -----------------------------
(***************************************************************************)
(* Two scenes of the wallet's users: the updates that sell and deliver a   *)
(* file, and the wallet's other callers (the panel's wallet form, other    *)
(* updates) on their own.  A sale writes the wallet as those callers do.   *)
(***************************************************************************)
EXTENDS Delivery

CONSTANTS s1, s2, u1, u2, m1

VARIABLE scene

OwnerIsU2 == [m \in Files |-> u2]

\* The file's price and limit matter in one scene only.
UserInit ==
  /\ DeliveryInit
  /\ scene \in {"delivery", "wallet"}
  /\ scene = "wallet" => file[m1].price = 1 /\ file[m1].limit = 1

UserNext ==
  /\ UNCHANGED scene
  /\ \/ scene = "delivery" /\ DeliveryNext
     \/ scene = "wallet" /\ WalletNext /\ UNCHANGED <<shopVars, used, blind, edits, slots>>

UserSpec == UserInit /\ [][UserNext]_<<scene, vars>>
=============================================================================
