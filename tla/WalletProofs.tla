---------------------------- MODULE WalletProofs ----------------------------
(***************************************************************************)
(* Proofs about Wallet, for any users, sessions, amounts and bounds.  The  *)
(* step lemmas are about WalletStep, the wallet's own steps without the    *)
(* bound on the ledger, so that the modules that use the wallet as a part  *)
(* can cite them.                                                          *)
(***************************************************************************)
EXTENDS Wallet, TLAPS

\* The signed amounts that are posted.
Postable == Amounts \cup {-a : a \in Amounts}

WalletStep ==
  \E s \in Sessions :
     \/ \E u \in Users : \/ Preload(s, u)
                         \/ \E a \in Postable : ApplyNoCommit(s, u, a)
                         \/ \E a \in Postable : Refuse(s, u, a)
     \/ CommitWrite(s)
     \/ EndSession(s)

\* A write in flight holds the row lock on its user.
WritersHoldLock ==
  \A s \in Sessions : op[s] # NoWrite => userLock[op[s].user] = s

\* What a session that did not load the user is about to commit extends the
\* balance the database holds: under the lock, nobody else changes it.
FreshWritesExtend ==
  \A s \in Sessions :
     (op[s] # NoWrite /\ ~ op[s].row.loaded)
       => op[s].row.after = balance[op[s].user] + op[s].row.amount

WalletIInv ==
  /\ WalletTypeOK
  /\ WritersHoldLock
  /\ FreshWritesExtend
  /\ NewestRowIsBalance
  /\ FreshRowsChain

-----------------------------------------------------------------------------
\* The bounded steps that TLC runs are wallet steps (wallet_service.py).
LEMMA NextIsWalletStep == WalletNext => WalletStep
<1> SUFFICES ASSUME WalletNext PROVE WalletStep
  OBVIOUS
<1> USE DEF WalletStep, Postable
<1>1. PICK s \in Sessions :
         \/ \E u \in Users : \/ Preload(s, u)
                             \/ Credit(s, u)
                             \/ Debit(s, u)
                             \/ DebitRefused(s, u)
         \/ CommitWrite(s)
         \/ EndSession(s)
  BY DEF WalletNext
<1>2. ASSUME NEW u \in Users, Credit(s, u) PROVE WalletStep
  BY <1>2 DEF Credit
<1>3. ASSUME NEW u \in Users, Debit(s, u) PROVE WalletStep
  BY <1>3 DEF Debit
<1>4. ASSUME NEW u \in Users, DebitRefused(s, u) PROVE WalletStep
  BY <1>4 DEF DebitRefused
<1> QED BY <1>1, <1>2, <1>3, <1>4

\* A posting is an integer.
LEMMA PostableIsInt == Postable \subseteq Int
BY AmountsAssumption DEF Postable

\* The empty ledger satisfies the inductive invariant.
LEMMA WalletInitIInv == WalletInit => WalletIInv
<1> SUFFICES ASSUME WalletInit PROVE WalletIInv
  OBVIOUS
<1> USE DEF WalletInit
<1>1. WalletTypeOK
  BY DEF WalletTypeOK, EmptyMap
<1>2. WritersHoldLock /\ FreshWritesExtend
  BY DEF WritersHoldLock, FreshWritesExtend
<1>3. NewestRowIsBalance
  BY DEF NewestRowIsBalance
<1>4. FreshRowsChain
  BY DEF FreshRowsChain
<1> QED BY <1>1, <1>2, <1>3, <1>4 DEF WalletIInv

\* A write that starts: the balance and the ledger stand still, and the new
\* write holds the lock and extends the balance unless the user was cached.
LEMMA ApplyKeepsIInv ==
  ASSUME WalletIInv, NEW s \in Sessions, NEW u \in Users, NEW a \in Int,
         ApplyNoCommit(s, u, a)
  PROVE  WalletIInv'
<1> DEFINE new == SeenBalance(s, u) + a
           row == [amount |-> a, after |-> new, loaded |-> cached[s][u] # NotLoaded]
           w == [user |-> u, row |-> row]
<1>1. new \in Nat /\ w \in Write
  BY DEF WalletIInv, WalletTypeOK, ApplyNoCommit, LockFree, Affords, SeenBalance, Write, Row
<1>2. /\ op' = [op EXCEPT ![s] = w]
      /\ userLock' = [userLock EXCEPT ![u] = s]
      /\ cached' = [cached EXCEPT ![s][u] = IF @ = NotLoaded THEN @ ELSE new]
      /\ op[s] = NoWrite
      /\ userLock[u] = Unlocked
      /\ UNCHANGED <<balance, ledger>>
  BY DEF ApplyNoCommit, LockFree, Affords
<1> HIDE DEF new, w
<1>3. WalletTypeOK'
  BY <1>1, <1>2 DEF WalletIInv, WalletTypeOK
<1>4. WritersHoldLock'
  <2> SUFFICES ASSUME NEW t \in Sessions, op'[t] # NoWrite
               PROVE  userLock'[op'[t].user] = t
    BY DEF WritersHoldLock
  <2>1. CASE t = s
    BY <1>2, <2>1 DEF WalletIInv, WalletTypeOK, w
  <2>2. CASE t # s
    <3>1. op'[t] = op[t] /\ userLock[op[t].user] = t /\ op[t].user \in Users
      BY <1>2, <2>2 DEF WalletIInv, WalletTypeOK, WritersHoldLock, Write
    <3>2. op[t].user # u
      BY <1>2, <3>1, UnlockedAssumption
    <3> QED BY <1>2, <3>1, <3>2 DEF WalletIInv, WalletTypeOK
  <2> QED BY <2>1, <2>2
<1>5. FreshWritesExtend'
  <2> SUFFICES ASSUME NEW t \in Sessions, op'[t] # NoWrite, ~ op'[t].row.loaded
               PROVE  op'[t].row.after = balance'[op'[t].user] + op'[t].row.amount
    BY DEF FreshWritesExtend
  <2>1. CASE t = s
    <3>1. op'[t] = w
      BY <1>2, <2>1 DEF WalletIInv, WalletTypeOK
    <3>2. cached[s][u] = NotLoaded
      <4>1. w.row.loaded = (cached[s][u] # NotLoaded)
        BY Zenon DEF w
      <4>2. ~ w.row.loaded
        BY <3>1, Zenon
      <4> QED BY <4>1, <4>2
    <3>3. new = balance[u] + a
      BY <3>2 DEF new, SeenBalance
    <3> QED BY <1>2, <3>1, <3>3 DEF w
  <2>2. CASE t # s
    BY <1>2, <2>2 DEF WalletIInv, WalletTypeOK, FreshWritesExtend
  <2> QED BY <2>1, <2>2
<1>6. NewestRowIsBalance' /\ FreshRowsChain'
  BY <1>2 DEF WalletIInv, NewestRowIsBalance, FreshRowsChain, Before
<1> QED BY <1>3, <1>4, <1>5, <1>6 DEF WalletIInv

\* A commit: the row in flight becomes the newest row and the balance.
LEMMA CommitKeepsIInv ==
  ASSUME WalletIInv, NEW s \in Sessions, CommitWrite(s)
  PROVE  WalletIInv'
<1> DEFINE u == op[s].user
           row == op[s].row
<1>1. /\ u \in Users /\ row \in Row /\ op[s] # NoWrite /\ userLock[u] = s
      /\ ~ row.loaded => row.after = balance[u] + row.amount
  BY DEF WalletIInv, WalletTypeOK, WritersHoldLock, FreshWritesExtend, CommitWrite, Write
<1>2. /\ balance' = [balance EXCEPT ![u] = row.after]
      /\ ledger' = [ledger EXCEPT ![u] = Append(@, row)]
      /\ userLock' = [userLock EXCEPT ![u] = Unlocked]
      /\ op' = [op EXCEPT ![s] = NoWrite]
      /\ cached' = cached
  BY DEF CommitWrite
<1> HIDE DEF u, row
<1>3. WalletTypeOK'
  BY <1>1, <1>2 DEF WalletIInv, WalletTypeOK, Row
<1>4. \A t \in Sessions : op'[t] # NoWrite =>
         op'[t] = op[t] /\ op[t].user \in Users /\ op[t].user # u
  <2> SUFFICES ASSUME NEW t \in Sessions, op'[t] # NoWrite
               PROVE  op'[t] = op[t] /\ op[t].user \in Users /\ op[t].user # u
    OBVIOUS
  <2>1. t # s /\ op'[t] = op[t]
    BY <1>2 DEF WalletIInv, WalletTypeOK
  <2>2. op[t].user \in Users /\ userLock[op[t].user] = t
    BY <2>1 DEF WalletIInv, WalletTypeOK, WritersHoldLock, Write
  <2> QED BY <1>1, <2>1, <2>2
<1>5. WritersHoldLock'
  BY <1>2, <1>4 DEF WalletIInv, WalletTypeOK, WritersHoldLock
<1>6. FreshWritesExtend'
  BY <1>2, <1>4 DEF WalletIInv, WalletTypeOK, FreshWritesExtend
<1>7. ASSUME NEW v \in Users
      PROVE  /\ v # u => ledger'[v] = ledger[v] /\ balance'[v] = balance[v]
             /\ v = u => ledger'[v] = Append(ledger[v], row) /\ balance'[v] = row.after
  BY <1>1, <1>2 DEF WalletIInv, WalletTypeOK
<1>8. NewestRowIsBalance'
  <2> SUFFICES ASSUME NEW v \in Users
               PROVE  balance'[v] = IF ledger'[v] = <<>> THEN 0
                                    ELSE ledger'[v][Len(ledger'[v])].after
    BY DEF NewestRowIsBalance
  <2>1. CASE v # u
    BY <1>7, <2>1 DEF WalletIInv, NewestRowIsBalance
  <2>2. CASE v = u
    <3>1. ledger[v] \in Seq(Row)
      BY DEF WalletIInv, WalletTypeOK
    <3>2. ledger'[v] = Append(ledger[v], row) /\ balance'[v] = row.after
      BY <1>7, <2>2
    <3> QED BY <1>1, <3>1, <3>2
  <2> QED BY <2>1, <2>2
<1>9. FreshRowsChain'
  <2> SUFFICES ASSUME NEW v \in Users, NEW i \in 1..Len(ledger'[v])
               PROVE  \/ ledger'[v][i].loaded
                      \/ ledger'[v][i].after
                           = (IF i = 1 THEN 0 ELSE ledger'[v][i - 1].after)
                               + ledger'[v][i].amount
    BY DEF FreshRowsChain, Before
  <2>1. CASE v # u
    BY <1>7, <2>1 DEF WalletIInv, FreshRowsChain, Before
  <2>2. CASE v = u
    <3> DEFINE n == Len(ledger[v])
    <3>1. ledger[v] \in Seq(Row) /\ n \in Nat
      BY DEF WalletIInv, WalletTypeOK
    <3>2. ledger'[v] = Append(ledger[v], row)
      BY <1>7, <2>2
    <3>3. Len(ledger'[v]) = n + 1 /\ ledger'[v][n + 1] = row
      BY <1>1, <3>1, <3>2
    <3>4. \A j \in 1..n : ledger'[v][j] = ledger[v][j]
      BY <1>1, <3>1, <3>2
    <3>5. CASE i # n + 1
      <4>1. i \in 1..n /\ (i # 1 => i - 1 \in 1..n)
        BY <3>1, <3>3, <3>5
      <4>2. ledger[v][i].loaded \/ ledger[v][i].after = Before(v, i) + ledger[v][i].amount
        BY <4>1 DEF WalletIInv, FreshRowsChain
      <4> QED BY <3>4, <4>1, <4>2 DEF Before
    <3>6. CASE i = n + 1
      <4>1. (IF i = 1 THEN 0 ELSE ledger'[v][i - 1].after) = balance[v]
        <5>1. CASE n = 0
          <6>1. ledger[v] = <<>>
            BY <3>1, <5>1
          <6> QED BY <3>6, <5>1, <6>1 DEF WalletIInv, NewestRowIsBalance
        <5>2. CASE n # 0
          <6>1. ledger[v] # <<>> /\ n \in 1..n /\ i # 1 /\ i - 1 = n
            BY <3>1, <3>6, <5>2
          <6> QED BY <3>4, <6>1 DEF WalletIInv, NewestRowIsBalance
        <5> QED BY <5>1, <5>2
      <4> QED BY <1>1, <2>2, <3>3, <3>6, <4>1
    <3> QED BY <3>5, <3>6
  <2> QED BY <2>1, <2>2
<1> QED BY <1>3, <1>5, <1>6, <1>8, <1>9 DEF WalletIInv

\* A session that ends, by its own doing or not, takes its write and its locks
\* with it and leaves the books alone.
LEMMA EndKeepsIInv ==
  ASSUME WalletIInv, NEW s \in Sessions, EndSession(s)
  PROVE  WalletIInv'
<1> USE DEF EndSession
<1>1. WalletTypeOK'
  BY DEF WalletIInv, WalletTypeOK, EmptyMap
<1>2. \A t \in Sessions : op'[t] # NoWrite =>
         t # s /\ op'[t] = op[t] /\ op[t].user \in Users
  BY DEF WalletIInv, WalletTypeOK, Write
<1>3. WritersHoldLock'
  BY <1>2 DEF WalletIInv, WalletTypeOK, WritersHoldLock
<1>4. FreshWritesExtend'
  BY <1>2 DEF WalletIInv, FreshWritesExtend
<1>5. NewestRowIsBalance' /\ FreshRowsChain'
  BY DEF WalletIInv, NewestRowIsBalance, FreshRowsChain, Before
<1> QED BY <1>1, <1>3, <1>4, <1>5 DEF WalletIInv

\* A step that changes only what a session has in its identity map.
LEMMA CacheKeepsIInv ==
  ASSUME WalletIInv, UNCHANGED <<balance, ledger, userLock, op>>,
         cached' \in [Sessions -> [Users -> Nat \cup {NotLoaded}]]
  PROVE  WalletIInv'
BY DEF WalletIInv, WalletTypeOK, WritersHoldLock, FreshWritesExtend,
       NewestRowIsBalance, FreshRowsChain, Before

\* Every step of the wallet, and every step that leaves it alone, keeps the
\* inductive invariant.
LEMMA WalletStepKeepsIInv == WalletIInv /\ [WalletStep]_walletVars => WalletIInv'
<1> SUFFICES ASSUME WalletIInv, [WalletStep]_walletVars PROVE WalletIInv'
  OBVIOUS
<1>1. CASE UNCHANGED walletVars
  BY <1>1, CacheKeepsIInv DEF walletVars, WalletIInv, WalletTypeOK
<1>2. ASSUME NEW s \in Sessions, NEW u \in Users, Preload(s, u) PROVE WalletIInv'
  BY <1>2, CacheKeepsIInv DEF Preload, LoadUser, WalletIInv, WalletTypeOK
<1>3. ASSUME NEW s \in Sessions, NEW u \in Users, NEW a \in Int, Refuse(s, u, a)
      PROVE  WalletIInv'
  BY <1>3, CacheKeepsIInv DEF Refuse, EmptyMap, WalletIInv, WalletTypeOK
<1>4. CASE WalletStep
  BY <1>2, <1>3, <1>4, PostableIsInt, ApplyKeepsIInv, CommitKeepsIInv, EndKeepsIInv
     DEF WalletStep
<1> QED BY <1>1, <1>4

\* The inductive invariant holds throughout.
THEOREM WalletInvariant == WalletSpec => []WalletIInv
<1>1. WalletIInv /\ [WalletNext]_walletVars => WalletIInv'
  BY NextIsWalletStep, WalletStepKeepsIInv
<1> QED BY <1>1, WalletInitIInv, PTL DEF WalletSpec

\* The wallet's variables keep their types (wallet_service.py, models/wallet.py);
\* in particular no balance and no balance_after is ever negative.
THEOREM WalletTypeCorrect == WalletSpec => []WalletTypeOK
<1>1. WalletIInv => WalletTypeOK
  BY DEF WalletIInv
<1> QED BY <1>1, WalletInvariant, PTL

\* The newest ledger row carries the balance, whatever the sessions hold in
\* their identity maps and wherever they die (WalletService._apply).
THEOREM NewestRowHolds == WalletSpec => []NewestRowIsBalance
<1>1. WalletIInv => NewestRowIsBalance
  BY DEF WalletIInv
<1> QED BY <1>1, WalletInvariant, PTL

\* A session that meets the user under the lock extends the ledger from its
\* newest row, next to any sessions that did not (WalletService._apply).
THEOREM FreshRowsChainHolds == WalletSpec => []FreshRowsChain
<1>1. WalletIInv => FreshRowsChain
  BY DEF WalletIInv
<1> QED BY <1>1, WalletInvariant, PTL

-----------------------------------------------------------------------------
(* The wallet without preloading sessions. *)

\* No user is in any identity map when its row is locked.
NothingCached ==
  /\ \A s \in Sessions, u \in Users : cached[s][u] = NotLoaded
  /\ \A s \in Sessions : op[s] # NoWrite => ~ op[s].row.loaded
  /\ \A u \in Users : \A i \in 1..Len(ledger[u]) : ~ ledger[u][i].loaded

\* When no session loads the user before the lock, no step of the wallet puts
\* one into an identity map.
LEMMA NothingCachedHolds ==
  ASSUME Preloading = {}, WalletTypeOK, NothingCached, [WalletStep]_walletVars
  PROVE  NothingCached'
<1>1. CASE UNCHANGED walletVars
  BY <1>1 DEF walletVars, NothingCached
<1>2. ASSUME NEW s \in Sessions, NEW u \in Users, Preload(s, u) PROVE NothingCached'
  BY <1>2 DEF Preload
<1>3. ASSUME NEW s \in Sessions, NEW u \in Users, NEW a \in Int, Refuse(s, u, a)
      PROVE  NothingCached'
  BY <1>3 DEF Refuse, NothingCached, WalletTypeOK, EmptyMap
<1>4. ASSUME NEW s \in Sessions, NEW u \in Users, NEW a \in Int, ApplyNoCommit(s, u, a)
      PROVE  NothingCached'
  <2> DEFINE new == SeenBalance(s, u) + a
             w == [user |-> u, row |-> [amount |-> a, after |-> new,
                                        loaded |-> cached[s][u] # NotLoaded]]
  <2>1. cached[s][u] = NotLoaded
    BY DEF NothingCached
  <2>2. w.row.loaded = (cached[s][u] # NotLoaded)
    BY Zenon
  <2>3. ~ w.row.loaded
    BY <2>1, <2>2
  <2>4. /\ op' = [op EXCEPT ![s] = w]
        /\ cached' = [cached EXCEPT ![s][u] = IF @ = NotLoaded THEN @ ELSE new]
        /\ ledger' = ledger
    BY <1>4 DEF ApplyNoCommit, LockFree, Affords
  <2> HIDE DEF w, new
  <2> QED BY <2>1, <2>3, <2>4 DEF NothingCached, WalletTypeOK
<1>5. ASSUME NEW s \in Sessions, CommitWrite(s) PROVE NothingCached'
  <2> DEFINE u == op[s].user
             row == op[s].row
  <2>1. u \in Users /\ row \in Row /\ ~ row.loaded
    BY <1>5 DEF CommitWrite, NothingCached, WalletTypeOK, Write
  <2>2. /\ ledger' = [ledger EXCEPT ![u] = Append(@, row)]
        /\ op' = [op EXCEPT ![s] = NoWrite]
        /\ cached' = cached
    BY <1>5 DEF CommitWrite
  <2> HIDE DEF u, row
  <2>3. ASSUME NEW v \in Users, NEW i \in 1..Len(ledger'[v])
        PROVE  ~ ledger'[v][i].loaded
    <3>1. CASE v # u
      BY <2>1, <2>2, <3>1 DEF NothingCached, WalletTypeOK
    <3>2. CASE v = u
      <4>1. ledger[v] \in Seq(Row) /\ ledger'[v] = Append(ledger[v], row)
        BY <2>1, <2>2, <3>2 DEF WalletTypeOK
      <4>2. CASE i \in 1..Len(ledger[v])
        <5>1. ledger'[v][i] = ledger[v][i]
          BY <2>1, <4>1, <4>2
        <5> QED BY <4>2, <5>1 DEF NothingCached
      <4>3. CASE i = Len(ledger[v]) + 1
        <5>1. ledger'[v][i] = row
          BY <2>1, <4>1, <4>3
        <5> QED BY <2>1, <5>1
      <4> QED BY <2>1, <4>1, <4>2, <4>3
    <3> QED BY <3>1, <3>2
  <2> QED BY <2>2, <2>3 DEF NothingCached, WalletTypeOK
<1>6. ASSUME NEW s \in Sessions, EndSession(s) PROVE NothingCached'
  BY <1>6 DEF EndSession, NothingCached, WalletTypeOK, EmptyMap
<1>7. CASE WalletStep
  BY <1>2, <1>3, <1>4, <1>5, <1>6, <1>7, PostableIsInt DEF WalletStep
<1> QED BY <1>1, <1>7

\* The amount in flight is one of the postings of the abstract accounts.
MovesInFlight ==
  \A s \in Sessions : op[s] # NoWrite => op[s].row.amount \in Postable

\* Credits and debits only put their own amounts in flight.
LEMMA MovesInFlightHold ==
  ASSUME WalletTypeOK, MovesInFlight, [WalletStep]_walletVars
  PROVE  MovesInFlight'
<1>1. CASE UNCHANGED walletVars
  BY <1>1 DEF walletVars, MovesInFlight
<1>2. ASSUME NEW s \in Sessions, NEW u \in Users, NEW a \in Postable,
             ApplyNoCommit(s, u, a)
      PROVE  MovesInFlight'
  <2> DEFINE w == [user |-> u, row |-> [amount |-> a, after |-> SeenBalance(s, u) + a,
                                        loaded |-> cached[s][u] # NotLoaded]]
  <2>1. op' = [op EXCEPT ![s] = w]
    BY <1>2 DEF ApplyNoCommit, LockFree, Affords
  <2>2. w.row.amount = a
    OBVIOUS
  <2> HIDE DEF w
  <2> QED BY <2>1, <2>2 DEF MovesInFlight, WalletTypeOK
<1>3. ASSUME NEW s \in Sessions, NEW u \in Users, NEW a \in Postable, Refuse(s, u, a)
      PROVE  MovesInFlight'
  BY <1>3 DEF Refuse, MovesInFlight
<1>4. ASSUME NEW s \in Sessions, NEW u \in Users, Preload(s, u)
      PROVE  MovesInFlight'
  BY <1>4 DEF Preload, LoadUser, MovesInFlight
<1>5. ASSUME NEW s \in Sessions, CommitWrite(s) \/ EndSession(s)
      PROVE  MovesInFlight'
  BY <1>5 DEF CommitWrite, EndSession, MovesInFlight, WalletTypeOK
<1>6. CASE WalletStep
  BY <1>2, <1>3, <1>4, <1>5, <1>6 DEF WalletStep
<1> QED BY <1>1, <1>6

\* What the two theorems below rest on.
ChainIInv == WalletIInv /\ NothingCached /\ MovesInFlight

\* The empty ledger satisfies it.
LEMMA ChainInit == WalletInit => ChainIInv
BY WalletInitIInv DEF WalletInit, EmptyMap, ChainIInv, NothingCached, MovesInFlight

\* It is inductive when no session preloads.
LEMMA StepKeepsChain ==
  ASSUME Preloading = {}, ChainIInv, [WalletStep]_walletVars
  PROVE  ChainIInv'
<1>1. WalletIInv' /\ WalletTypeOK
  BY WalletStepKeepsIInv DEF ChainIInv, WalletIInv
<1>2. NothingCached'
  BY <1>1, NothingCachedHolds DEF ChainIInv
<1>3. MovesInFlight'
  BY <1>1, MovesInFlightHold DEF ChainIInv
<1> QED BY <1>1, <1>2, <1>3 DEF ChainIInv

\* So it holds throughout.
LEMMA ChainInvariant == ASSUME Preloading = {} PROVE WalletSpec => []ChainIInv
<1>1. ChainIInv /\ [WalletNext]_walletVars => ChainIInv'
  BY NextIsWalletStep, StepKeepsChain
<1> QED BY <1>1, ChainInit, PTL DEF WalletSpec

\* The newest rows and the fresh rows make up the whole chain.
LEMMA ChainFollows == ChainIInv => LedgerChain
BY DEF ChainIInv, WalletIInv, NothingCached, FreshRowsChain, LedgerChain

\* Without preloading sessions every ledger row extends the one before it, so
\* the ledger sums up to the balance (the header of wallet_service.py).
THEOREM LedgerChainHolds == ASSUME Preloading = {} PROVE WalletSpec => []LedgerChain
BY ChainFollows, ChainInvariant, PTL

\* A wallet step is one posting of the abstract accounts or is invisible there.
LEMMA StepImplementsAccounts ==
  ASSUME ChainIInv, ChainIInv', [WalletStep]_walletVars
  PROVE  [AtomicAccounts!Next]_<<balance, Postings>>
<1>1. ASSUME UNCHANGED <<balance, ledger>>
      PROVE  UNCHANGED <<balance, Postings>>
  BY <1>1 DEF Postings
<1>2. ASSUME NEW s \in Sessions, CommitWrite(s)
      PROVE  AtomicAccounts!Next
  <2> DEFINE u == op[s].user
             row == op[s].row
  <2>1. /\ u \in Users /\ row \in Row /\ row.amount \in Postable
        /\ row.after = balance[u] + row.amount
    BY <1>2 DEF CommitWrite, ChainIInv, WalletIInv, WalletTypeOK, NothingCached,
                MovesInFlight, FreshWritesExtend, Write
  <2>2. /\ balance' = [balance EXCEPT ![u] = row.after]
        /\ ledger' = [ledger EXCEPT ![u] = Append(@, row)]
    BY <1>2 DEF CommitWrite
  <2>3. /\ balance \in [Users -> Nat]
        /\ ledger \in [Users -> Seq(Row)]
    BY DEF ChainIInv, WalletIInv, WalletTypeOK
  <2>4. row.after \in Nat
    BY <2>1 DEF Row
  <2> HIDE DEF u, row
  <2>5. balance[u] + row.amount >= 0
        /\ balance' = [balance EXCEPT ![u] = @ + row.amount]
    BY <2>1, <2>2, <2>3, <2>4
  <2>6. Postings' = [Postings EXCEPT ![u] = Append(@, row.amount)]
    <3>1. ASSUME NEW v \in Users, v # u
          PROVE  Postings'[v] = Postings[v]
      BY <2>1, <2>2, <2>3, <3>1 DEF Postings
    <3>2. Postings'[u] = Append(Postings[u], row.amount)
      <4> DEFINE n == Len(ledger[u])
      <4>1. ledger[u] \in Seq(Row) /\ n \in Nat /\ ledger'[u] = Append(ledger[u], row)
        BY <2>1, <2>2, <2>3
      <4>2. /\ Len(ledger'[u]) = n + 1
            /\ ledger'[u][n + 1] = row
            /\ \A i \in 1..n : ledger'[u][i] = ledger[u][i]
        BY <2>1, <4>1
      <4>3. Postings[u] = [i \in 1..n |-> ledger[u][i].amount]
            /\ Postings'[u] = [i \in 1..(n + 1) |-> ledger'[u][i].amount]
        BY <2>1, <4>2 DEF Postings
      <4>4. /\ row.amount \in Int
            /\ \A i \in 1..n : ledger[u][i].amount \in Int
        <5>1. row.amount \in Int
          BY <2>1 DEF Row
        <5>2. ASSUME NEW i \in 1..n PROVE ledger[u][i].amount \in Int
          <6>1. ledger[u][i] \in Row
            BY <4>1, <5>2
          <6> QED BY <6>1 DEF Row
        <5> QED BY <5>1, <5>2
      <4> HIDE DEF n
      <4>5. Postings[u] \in Seq(Int) /\ Len(Postings[u]) = n
        BY <4>1, <4>3, <4>4
      <4>6. Append(Postings[u], row.amount)
              = [i \in 1..(n + 1) |-> IF i = n + 1 THEN row.amount ELSE Postings[u][i]]
        BY <4>1, <4>4, <4>5
      <4> QED BY <4>1, <4>2, <4>3, <4>6
    <3> QED BY <2>1, <3>1, <3>2 DEF Postings
  <2> QED BY <2>1, <2>5, <2>6 DEF AtomicAccounts!Next, AtomicAccounts!Post, Postable
<1>3. CASE UNCHANGED walletVars
  BY <1>1, <1>3 DEF walletVars
<1>4. CASE WalletStep
  <2>1. ASSUME NEW s \in Sessions, NEW u \in Users, NEW a \in Postable,
               ApplyNoCommit(s, u, a) \/ Refuse(s, u, a)
        PROVE  UNCHANGED <<balance, ledger>>
    BY <2>1 DEF ApplyNoCommit, LockFree, Affords, Refuse
  <2>2. ASSUME NEW s \in Sessions, NEW u \in Users, Preload(s, u)
        PROVE  UNCHANGED <<balance, ledger>>
    BY <2>2 DEF Preload, LoadUser
  <2>3. ASSUME NEW s \in Sessions, EndSession(s)
        PROVE  UNCHANGED <<balance, ledger>>
    BY <2>3 DEF EndSession
  <2> QED BY <1>1, <1>2, <1>4, <2>1, <2>2, <2>3 DEF WalletStep
<1> QED BY <1>3, <1>4

\* Without preloading sessions the wallet implements the atomic accounts, for
\* any number of users and sessions (the promise of wallet_service.py).
THEOREM WalletImplementsAccounts ==
  ASSUME Preloading = {} PROVE WalletSpec => ImplementsAccounts
<1>1. WalletInit => AtomicAccounts!Init
  BY DEF WalletInit, AtomicAccounts!Init, Postings
<1>2. ChainIInv /\ ChainIInv' /\ [WalletNext]_walletVars
        => [AtomicAccounts!Next]_<<balance, Postings>>
  BY NextIsWalletStep, StepImplementsAccounts
<1> QED BY <1>1, <1>2, ChainInvariant, PTL
        DEF WalletSpec, ImplementsAccounts, AtomicAccounts!Spec
=============================================================================
