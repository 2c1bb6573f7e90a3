------------------------------ MODULE MCWallet ------------------------------
(* Small instances of Wallet for TLC. *)
EXTENDS Wallet, Functions

\* The header of wallet_service.py (line 5) and of models/wallet.py: the sum of
\* a user's ledger amounts is the balance, always.
LedgerSumIsBalance ==
  \A u \in Users : balance[u] = FoldFunction(+, 0, Postings[u])

=============================================================================
