------------------------------ MODULE Accounts ------------------------------
(***************************************************************************)
(* What the wallet promises (the header of                                 *)
(* src/app/services/wallet_service.py): every movement of money is one     *)
(* atomic posting that adds its amount to the balance and records it, and  *)
(* no posting makes a balance negative.                                    *)
(***************************************************************************)
EXTENDS Integers, Sequences

CONSTANTS Users,  \* the account holders
          Moves   \* the signed amounts of the postings

VARIABLES funds,    \* [Users -> Nat]
          postings  \* [Users -> Seq(Moves)]: oldest first

Init ==
  /\ funds = [u \in Users |-> 0]
  /\ postings = [u \in Users |-> <<>>]

\* One atomic posting.
Post(u, a) ==
  /\ funds[u] + a >= 0
  /\ funds' = [funds EXCEPT ![u] = @ + a]
  /\ postings' = [postings EXCEPT ![u] = Append(@, a)]

Next == \E u \in Users, a \in Moves : Post(u, a)

Spec == Init /\ [][Next]_<<funds, postings>>
=============================================================================
