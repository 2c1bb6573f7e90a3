------------------------------- MODULE Wallet -------------------------------
(***************************************************************************)
(* The wallet: users.balance, the wallet_transactions ledger, the row lock *)
(* on users, and the sessions that write them through WalletService        *)
(* (src/app/services/wallet_service.py).                                   *)
(*                                                                         *)
(* Every write locks the user row with SELECT ... FOR UPDATE and computes  *)
(* the new balance from the ORM instance.  A session keeps the rows it has *)
(* already loaded in its identity map (autoflush=False,                    *)
(* expire_on_commit=False, src/app/db/session.py:27), and the locking      *)
(* select does not refresh an instance that is there already.  So a        *)
(* session that loaded the user before it asked for the lock computes from *)
(* the value it loaded then: that copy is the variable cached.             *)
(***************************************************************************)
EXTENDS Integers, Sequences

CONSTANTS Users,       \* rows of the users table
          Sessions,    \* database sessions: one per update, request or sweep
          Preloading,  \* the sessions that load the user before the service
                       \* runs: every bot update, the panel's wallet form
          Amounts,     \* the amounts a credit or a debit may have
          MaxRows,     \* bound: a user's ledger grows to about this many rows
          NotLoaded,   \* the user is not in the session's identity map
          Unlocked     \* no session holds the row lock

ASSUME PreloadingAssumption == Preloading \subseteq Sessions
ASSUME AmountsAssumption == Amounts \subseteq Nat \ {0}
ASSUME MaxRowsAssumption == MaxRows \in Nat
ASSUME NotLoadedAssumption == NotLoaded \notin Nat
ASSUME UnlockedAssumption == Unlocked \notin Sessions

VARIABLES balance,   \* [Users -> Nat]: the committed users.balance
          ledger,    \* [Users -> Seq(Row)]: the committed wallet_transactions
          userLock,  \* [Users -> Sessions or Unlocked]: the row locks
          cached,    \* [Sessions -> [Users -> Nat or NotLoaded]]: identity maps
          op         \* [Sessions -> write in flight]: flushed, not committed

walletVars == <<balance, ledger, userLock, cached, op>>

\* A ledger row: the signed amount and balance_after.  loaded is history: the
\* writer had the user in its identity map before it took the lock.
Row == [amount : Int, after : Nat, loaded : BOOLEAN]

\* A write in flight: the row lock on user is held and row is not committed.
Write == [user : Users, row : Row]

NoWrite == [user |-> NotLoaded]

EmptyMap == [u \in Users |-> NotLoaded]

WalletTypeOK ==
  /\ balance \in [Users -> Nat]
  /\ ledger \in [Users -> Seq(Row)]
  /\ userLock \in [Users -> Sessions \cup {Unlocked}]
  /\ cached \in [Sessions -> [Users -> Nat \cup {NotLoaded}]]
  /\ op \in [Sessions -> Write \cup {NoWrite}]

WalletInit ==
  /\ balance = [u \in Users |-> 0]
  /\ ledger = [u \in Users |-> <<>>]
  /\ userLock = [u \in Users |-> Unlocked]
  /\ cached = [s \in Sessions |-> EmptyMap]
  /\ op = [s \in Sessions |-> NoWrite]

-----------------------------------------------------------------------------
\* A plain SELECT of the user: an instance in the identity map is kept as it is.
LoadUser(s, u) ==
  /\ op[s] = NoWrite
  /\ cached' = [cached EXCEPT ![s][u] = IF @ = NotLoaded THEN balance[u] ELSE @]
  /\ UNCHANGED <<balance, ledger, userLock, op>>

\* The balance the session computes from once it has the row lock.
SeenBalance(s, u) ==
  IF cached[s][u] = NotLoaded THEN balance[u] ELSE cached[s][u]

\* SELECT ... FOR UPDATE returns: no other session has the row lock.
LockFree_NotLocking(u) == TRUE \* mutant: a plain SELECT
LockFree(u) == userLock[u] = Unlocked

Affords(s, u, a) == SeenBalance(s, u) + a >= 0

\* _apply up to the flush: lock the user, check the funds, add the ledger row.
ApplyNoCommit(s, u, a) ==
  LET new == SeenBalance(s, u) + a
      row == [amount |-> a, after |-> new, loaded |-> cached[s][u] # NotLoaded]
  IN /\ op[s] = NoWrite
     /\ LockFree(u)
     /\ Affords(s, u, a)
     /\ userLock' = [userLock EXCEPT ![u] = s]
     /\ op' = [op EXCEPT ![s] = [user |-> u, row |-> row]]
     /\ cached' = [cached EXCEPT ![s][u] = IF @ = NotLoaded THEN @ ELSE new]
     /\ UNCHANGED <<balance, ledger>>

\* InsufficientFunds: every caller rolls back, which drops the lock just taken
\* and expires the identity map.
Refuse(s, u, a) ==
  /\ op[s] = NoWrite
  /\ LockFree(u)
  /\ ~ Affords(s, u, a)
  /\ cached' = [cached EXCEPT ![s] = EmptyMap]
  /\ UNCHANGED <<balance, ledger, userLock, op>>

\* Mutant: the UPDATE adds the amount to the column instead.
CommitWrite_Increments(s) ==
  /\ op[s] # NoWrite
  /\ balance' = [balance EXCEPT ![op[s].user] = @ + op[s].row.amount]
  /\ ledger' = [ledger EXCEPT ![op[s].user] = Append(@, op[s].row)]
  /\ userLock' = [userLock EXCEPT ![op[s].user] = Unlocked]
  /\ op' = [op EXCEPT ![s] = NoWrite]
  /\ UNCHANGED cached

\* COMMIT of a session with a write in flight: balance and row land together
\* and the lock is released; the identity map survives.
CommitWrite(s) ==
  /\ op[s] # NoWrite
  /\ balance' = [balance EXCEPT ![op[s].user] = op[s].row.after]
  /\ ledger' = [ledger EXCEPT ![op[s].user] = Append(@, op[s].row)]
  /\ userLock' = [userLock EXCEPT ![op[s].user] = Unlocked]
  /\ op' = [op EXCEPT ![s] = NoWrite]
  /\ UNCHANGED cached

\* Mutant: a closed session goes back to the pool without a rollback.
EndSession_NoRollback(s) ==
  /\ cached' = [cached EXCEPT ![s] = EmptyMap]
  /\ op' = [op EXCEPT ![s] = NoWrite]
  /\ UNCHANGED <<balance, ledger, userLock>>

\* The session is closed: after its work, by an exception, by a lost
\* connection or by the death of the process.  Nothing in flight survives.
EndSession(s) ==
  /\ userLock' = [u \in Users |-> IF userLock[u] = s THEN Unlocked ELSE userLock[u]]
  /\ op' = [op EXCEPT ![s] = NoWrite]
  /\ cached' = [cached EXCEPT ![s] = EmptyMap]
  /\ UNCHANGED <<balance, ledger>>

-----------------------------------------------------------------------------
\* The wallet on its own: panel adjustments (user_wallet) and any other caller
\* of credit and debit, in sessions that did or did not load the user first.
Preload(s, u) == s \in Preloading /\ LoadUser(s, u)

Credit(s, u) ==
  \E a \in Amounts : Len(ledger[u]) < MaxRows /\ ApplyNoCommit(s, u, a)

Debit(s, u) ==
  \E a \in Amounts : Len(ledger[u]) < MaxRows /\ ApplyNoCommit(s, u, -a)

DebitRefused(s, u) == \E a \in Amounts : Refuse(s, u, -a)

WalletNext ==
  \E s \in Sessions :
     \/ \E u \in Users : \/ Preload(s, u)
                         \/ Credit(s, u)
                         \/ Debit(s, u)
                         \/ DebitRefused(s, u)
     \/ CommitWrite(s)
     \/ EndSession(s)

WalletSpec == WalletInit /\ [][WalletNext]_walletVars

-----------------------------------------------------------------------------
\* The balance_after of the row that precedes row i, 0 for the first row.
Before(u, i) == IF i = 1 THEN 0 ELSE ledger[u][i - 1].after

\* The newest ledger row of a user carries the balance the user has: the two
\* commit together, whichever sessions interleave and wherever one dies.
NewestRowIsBalance ==
  \A u \in Users :
     balance[u] = IF ledger[u] = <<>> THEN 0 ELSE ledger[u][Len(ledger[u])].after

\* A session that meets the user for the first time under the row lock extends
\* the ledger from its newest row, whatever the other sessions hold in their
\* identity maps: only a preloaded row can break the chain.
FreshRowsChain ==
  \A u \in Users : \A i \in 1..Len(ledger[u]) :
     ledger[u][i].loaded \/ ledger[u][i].after = Before(u, i) + ledger[u][i].amount

\* Every ledger row of every user extends the one before it.
LedgerChain ==
  \A u \in Users : \A i \in 1..Len(ledger[u]) :
     ledger[u][i].after = Before(u, i) + ledger[u][i].amount

\* The amounts of a user's ledger rows, oldest first.
Postings == [u \in Users |-> [i \in 1..Len(ledger[u]) |-> ledger[u][i].amount]]

AtomicAccounts ==
  INSTANCE Accounts WITH Moves <- Amounts \cup {-a : a \in Amounts},
                         funds <- balance, postings <- Postings

\* The wallet implements the atomic accounts: each commit is one posting on the
\* committed balance and every other step is invisible.  It does when no
\* session loads the user before the lock.
ImplementsAccounts == AtomicAccounts!Spec
=============================================================================
