------------------------ MODULE SubscriptionsProofs ------------------------
(***************************************************************************)
(* Proofs about Subscriptions, for any users, sessions, plans, durations   *)
(* and bounds.                                                             *)
(***************************************************************************)
EXTENDS Subscriptions, WalletProofs

-----------------------------------------------------------------------------
\* A busy session's purchase, typed.
LEMMA Buying ==
  ASSUME SubTypeOK, NEW s \in Sessions, buy[s] # NoPurchase
  PROVE  /\ buy[s] \in Purchase
         /\ buy[s].user \in Users /\ buy[s].plan \in Plans /\ buy[s].row \in UserRow
         /\ Price[buy[s].plan] \in Amounts
BY PriceAssumption DEF SubTypeOK, Purchase

\* The users row that _compute_expiry returns has an expiry (_compute_expiry).
LEMMA NewExpiryIsExpiry ==
  ASSUME today \in Nat, NEW row \in UserRow, NEW k \in Plans
  PROVE  NewExpiry(row, k) \in Expiry
<1>1. Days[k] \in Nat
  BY DaysAssumption
<1>2. row.expires \in Nat \cup {Never}
  BY DEF UserRow, Expiry
<1>3. IsFuture(row.expires) => row.expires \in Nat
  BY <1>2 DEF IsFuture
<1>4. CASE Days[k] = 0
  BY <1>4 DEF NewExpiry, Expiry
<1>5. CASE Days[k] # 0 /\ Rank(row.plan) >= Rank(k) /\ IsFuture(row.expires)
  <2>1. NewExpiry(row, k) = row.expires + Days[k]
    BY <1>5 DEF NewExpiry
  <2> QED BY <1>1, <1>3, <1>5, <2>1 DEF Expiry
<1>6. CASE Days[k] # 0 /\ ~ (Rank(row.plan) >= Rank(k) /\ IsFuture(row.expires))
  <2>1. NewExpiry(row, k) = today + Days[k]
    BY <1>6 DEF NewExpiry
  <2> QED BY <1>1, <2>1 DEF Expiry
<1> QED BY <1>4, <1>5, <1>6

\* The UPDATE of a users row keeps the types of its columns.
LEMMA WriteBackTyped ==
  ASSUME SubTypeOK, NEW u \in Users, NEW row \in UserRow, NEW k \in PlanKeys,
         NEW e \in Expiry, WriteBack(u, row, k, e)
  PROVE  plan' \in [Users -> PlanKeys] /\ expires' \in [Users -> Expiry]
BY DEF WriteBack, SubTypeOK

\* A new subscription row, and the deactivation of old ones, keep theirs.
LEMMA SubRowsTyped ==
  ASSUME SubTypeOK, NEW u \in Users
  PROVE  /\ \A k \in PlanKeys : AddSub(u, k) =>
              subs' \in [Users -> Seq([plan : PlanKeys, active : BOOLEAN])]
         /\ \A n \in Nat : Deactivate(subs[u], n)
                             \in Seq([plan : PlanKeys, active : BOOLEAN])
<1> DEFINE SubRow == [plan : PlanKeys, active : BOOLEAN]
<1>1. subs \in [Users -> Seq(SubRow)]
  BY DEF SubTypeOK
<1>2. ASSUME NEW k \in PlanKeys, AddSub(u, k) PROVE subs' \in [Users -> Seq(SubRow)]
  <2> DEFINE r == [plan |-> k, active |-> TRUE]
  <2>1. r \in SubRow
    OBVIOUS
  <2>2. subs' = [subs EXCEPT ![u] = Append(@, r)]
    BY <1>2 DEF AddSub
  <2> HIDE DEF r, SubRow
  <2> QED BY <1>1, <2>1, <2>2
<1>3. ASSUME NEW n \in Nat PROVE Deactivate(subs[u], n) \in Seq(SubRow)
  <2> DEFINE rows == subs[u]
  <2>1. rows \in Seq(SubRow)
    BY <1>1
  <2> HIDE DEF SubRow, rows
  <2>2. ASSUME NEW i \in 1..Len(rows)
        PROVE  (IF i <= n THEN [rows[i] EXCEPT !.active = FALSE] ELSE rows[i]) \in SubRow
    <3>1. rows[i] \in SubRow
      BY <2>1, <2>2
    <3> QED BY <3>1 DEF SubRow
  <2>3. Deactivate(rows, n) \in [1..Len(rows) -> SubRow]
    BY <2>2 DEF Deactivate
  <2>4. Len(rows) \in Nat
    BY <2>1
  <2> QED BY <2>3, <2>4 DEF rows
<1> QED BY <1>2, <1>3

-----------------------------------------------------------------------------
\* The steps of a purchase keep the types (SubscriptionService.purchase).
LEMMA BuyTyped ==
  ASSUME SubTypeOK, NEW s \in Sessions,
         \/ \E u \in Users, k \in Plans : BuyConfirm(s, u, k)
         \/ BuyStep(s) \/ BuyFails(s) \/ BuyCrash(s)
  PROVE  SubTypeOK'
<1>1. ASSUME NEW u \in Users, NEW k \in Plans, BuyConfirm(s, u, k) PROVE SubTypeOK'
  <2> DEFINE b == [user |-> u, plan |-> k, row |-> RowOf(u), at |-> "arrived"]
  <2>1. RowOf(u) \in UserRow
    BY DEF SubTypeOK, RowOf, UserRow
  <2>2. b \in Purchase
    BY <2>1 DEF Purchase
  <2>3. buy' = [buy EXCEPT ![s] = b]
        /\ UNCHANGED <<plan, expires, subs, held, today, sweep, panel>>
    BY <1>1 DEF BuyConfirm
  <2> HIDE DEF b
  <2> QED BY <2>2, <2>3 DEF SubTypeOK
<1>2. ASSUME BuyDuplicate(s) \/ BuyInsufficient(s) \/ BuyFails(s) \/ BuyEnd(s) \/ BuyCrash(s)
      PROVE  SubTypeOK'
  <2>1. /\ buy' = [buy EXCEPT ![s] = NoPurchase]
        /\ held' \subseteq held
        /\ UNCHANGED <<plan, expires, subs, today, sweep, panel>>
    BY <1>2 DEF BuyDuplicate, BuyInsufficient, BuyFails, BuyEnd, BuyCrash, EndPurchase
  <2> QED BY <2>1 DEF SubTypeOK
<1>3. ASSUME buy[s] # NoPurchase, NEW stage \in {"arrived", "locked", "debited", "granted"},
             BuyAt(s, stage)
      PROVE  buy' \in [Sessions -> Purchase \cup {NoPurchase}]
  <2>1. [buy[s] EXCEPT !.at = stage] \in Purchase
    BY <1>3, Buying DEF Purchase
  <2> QED BY <1>3, <2>1 DEF BuyAt, SubTypeOK
<1>4. ASSUME BuyLock(s) PROVE SubTypeOK'
  <2>1. buy[s] # NoPurchase
    BY <1>4 DEF BuyLock, NoPurchase
  <2>2. LockKey(s) \in Users \X Plans
    BY <2>1, Buying DEF LockKey
  <2>3. held' \subseteq Users \X Plans
    BY <1>4, <2>2 DEF BuyLock, SubTypeOK
  <2> QED BY <1>3, <1>4, <2>1, <2>3 DEF BuyLock, SubTypeOK
<1>5. ASSUME BuyDebit(s) PROVE SubTypeOK'
  <2>1. buy[s] # NoPurchase
    BY <1>5 DEF BuyDebit, NoPurchase
  <2> QED BY <1>3, <1>5, <2>1 DEF BuyDebit, SubTypeOK
<1>6. ASSUME BuyCommit(s) PROVE SubTypeOK'
  <2> DEFINE b == buy[s]
  <2>1. b # NoPurchase
    BY <1>6 DEF BuyCommit, NoPurchase
  <2>2. b.user \in Users /\ b.plan \in Plans /\ b.row \in UserRow /\ b.plan \in PlanKeys
    BY <2>1, Buying DEF PlanKeys
  <2>3. /\ WriteBack(b.user, b.row, b.plan, NewExpiry(b.row, b.plan))
        /\ AddSub(b.user, b.plan) /\ BuyAt(s, "granted")
        /\ UNCHANGED <<held, today, sweep, panel>>
    BY <1>6 DEF BuyCommit
  <2>4. NewExpiry(b.row, b.plan) \in Expiry
    BY <2>2, NewExpiryIsExpiry DEF SubTypeOK
  <2>5. plan' \in [Users -> PlanKeys] /\ expires' \in [Users -> Expiry]
    BY <2>2, <2>3, <2>4, WriteBackTyped
  <2>6. subs' \in [Users -> Seq([plan : PlanKeys, active : BOOLEAN])]
    BY <2>2, <2>3, SubRowsTyped
  <2> QED BY <1>3, <2>1, <2>3, <2>5, <2>6 DEF SubTypeOK
<1> QED BY <1>1, <1>2, <1>4, <1>5, <1>6 DEF BuyStep

\* The sweep keeps the types (process_expiry_sweep).
LEMMA SweepTyped ==
  ASSUME SubTypeOK, SweepRead \/ SweepMark \/ SweepCommit \/ SweepCrash
  PROVE  SubTypeOK'
<1>1. CASE SweepRead
  BY <1>1 DEF SweepRead, SubTypeOK, Sweep, NoSweep
<1>2. CASE SweepMark
  <2>1. \A u \in Users : Len(subs[u]) \in Nat
    BY DEF SubTypeOK
  <2> QED BY <1>2, <2>1 DEF SweepMark, SubTypeOK, Sweep
<1>3. CASE SweepCommit
  <2>1. sweep.seen \in [Users -> Nat]
    BY DEF SubTypeOK, Sweep
  <2>2. \A u \in Users : Deactivate(subs[u], sweep.seen[u])
                            \in Seq([plan : PlanKeys, active : BOOLEAN])
    BY <2>1, SubRowsTyped
  <2> QED BY <1>3, <2>2 DEF SweepCommit, SubTypeOK, Sweep, NoSweep, PlanKeys
<1>4. CASE SweepCrash
  BY <1>4 DEF SweepCrash, SubTypeOK, Sweep, NoSweep
<1> QED BY <1>1, <1>2, <1>3, <1>4

\* A grant of the panel writes a plan and an expiry, and adds a row of that plan.
LEMMA GrantForm ==
  ASSUME SubTypeOK, PanelGrant
  PROVE  \E k \in PlanKeys, e \in Expiry : PanelWrite(k, e) /\ AddSub(panel.user, k)
<1>1. panel # NoForm
  BY DEF PanelGrant
<1>2. /\ panel.user \in Users /\ panel.row \in UserRow
      /\ panel.row.plan \in PlanKeys /\ panel.row.expires \in Expiry
  BY <1>1 DEF SubTypeOK, PanelForm, UserRow
<1>3. CASE \E k \in PlanKeys :
             PanelWrite(k, panel.row.expires) /\ AddSub(panel.user, k)
  BY <1>2, <1>1, <1>3
<1>4. CASE \E d \in 1..2 :
             LET base == IF IsFuture(panel.row.expires) THEN panel.row.expires ELSE today
             IN  base <= MaxDay /\ PanelWrite(panel.row.plan, base + d)
                 /\ AddSub(panel.user, panel.row.plan)
  <2> DEFINE base == IF IsFuture(panel.row.expires) THEN panel.row.expires ELSE today
  <2>1. base \in Nat
    BY <1>2, <1>1 DEF IsFuture, Expiry, SubTypeOK
  <2>2. PICK d \in 1..2 :
            PanelWrite(panel.row.plan, base + d) /\ AddSub(panel.user, panel.row.plan)
    BY <1>4
  <2> HIDE DEF base
  <2>3. base + d \in Expiry
    BY <2>1 DEF Expiry
  <2> QED BY <1>2, <1>1, <2>2, <2>3
<1>5. CASE \E d \in 0..MaxDay :
             PanelWrite(panel.row.plan, d) /\ AddSub(panel.user, panel.row.plan)
  BY <1>2, <1>1, <1>5, BoundsAssumption DEF Expiry
<1>6. CASE PanelWrite(panel.row.plan, Never) /\ AddSub(panel.user, panel.row.plan)
  BY <1>2, <1>1, <1>6 DEF Expiry
  <1> QED BY <1>3, <1>4, <1>5, <1>6 DEF PanelGrant

\* The panel's form keeps the types (user_subscription).
LEMMA PanelTyped ==
  ASSUME SubTypeOK,
         \/ \E u \in Users : PanelLoad(u)
         \/ PanelCancel \/ PanelGrant \/ PanelInvalid
  PROVE  SubTypeOK'
<1> DEFINE SubRows == [Users -> Seq([plan : PlanKeys, active : BOOLEAN])]
<1>1. ASSUME NEW u \in Users, PanelLoad(u) PROVE SubTypeOK'
  <2>1. [user |-> u, row |-> RowOf(u)] \in PanelForm
    BY DEF SubTypeOK, RowOf, UserRow, PanelForm
  <2> QED BY <1>1, <2>1 DEF PanelLoad, SubTypeOK
<1>2. panel # NoForm =>
         /\ panel.user \in Users /\ panel.row \in UserRow
         /\ panel.row.plan \in PlanKeys /\ panel.row.expires \in Expiry
  BY DEF SubTypeOK, PanelForm, UserRow
<1>3. ASSUME NEW k \in PlanKeys, NEW e \in Expiry, PanelWrite(k, e), subs' \in SubRows
      PROVE  SubTypeOK'
  <2>1. /\ panel # NoForm /\ WriteBack(panel.user, panel.row, k, e)
        /\ panel' = NoForm /\ UNCHANGED <<held, today, buy, sweep>>
    BY <1>3 DEF PanelWrite
  <2>2. plan' \in [Users -> PlanKeys] /\ expires' \in [Users -> Expiry]
    BY <1>2, <2>1, WriteBackTyped
  <2> QED BY <1>3, <2>1, <2>2 DEF SubTypeOK
<1>4. ASSUME NEW k \in PlanKeys, panel # NoForm, AddSub(panel.user, k)
      PROVE  subs' \in SubRows
  BY <1>2, <1>4, SubRowsTyped
<1>5. CASE PanelCancel
  <2>1. Len(subs[panel.user]) \in Nat
    BY <1>2, <1>5 DEF PanelCancel, SubTypeOK
  <2>2. Deactivate(subs[panel.user], Len(subs[panel.user]))
           \in Seq([plan : PlanKeys, active : BOOLEAN])
    BY <1>2, <1>5, <2>1, SubRowsTyped DEF PanelCancel
  <2>3. subs' \in SubRows
    BY <1>2, <1>5, <2>2 DEF PanelCancel, SubTypeOK
  <2>4. "free" \in PlanKeys /\ Never \in Expiry
    BY DEF PlanKeys, Expiry
  <2> QED BY <1>3, <1>5, <2>3, <2>4 DEF PanelCancel
<1>6. CASE PanelGrant
  <2>1. panel # NoForm
    BY <1>6 DEF PanelGrant
  <2>2. \E k \in PlanKeys, e \in Expiry : PanelWrite(k, e) /\ AddSub(panel.user, k)
    BY <1>6, GrantForm
  <2> QED BY <1>3, <1>4, <2>1, <2>2
<1>7. CASE PanelInvalid
  BY <1>7 DEF PanelInvalid, SubTypeOK
<1> QED BY <1>1, <1>5, <1>6, <1>7

\* Every step keeps the types.
LEMMA NextTyped == SubTypeOK /\ [Next]_vars => SubTypeOK'
<1> SUFFICES ASSUME SubTypeOK, [Next]_vars PROVE SubTypeOK'
  OBVIOUS
<1>1. CASE UNCHANGED vars
  BY <1>1 DEF vars, subVars, SubTypeOK
<1>2. ASSUME NEW s \in Sessions, (\E u \in Users : TopUp(s, u)) \/ TopUpCommit(s)
      PROVE  SubTypeOK'
  BY <1>2 DEF TopUp, TopUpCommit, subVars, SubTypeOK
<1>3. ASSUME NEW u \in Users, NEW k \in Plans, LockExpires(u, k) PROVE SubTypeOK'
  BY <1>3 DEF LockExpires, SubTypeOK
<1>4. CASE Tick
  <2>1. today \in 0..MaxDay /\ today < MaxDay /\ today' = today + 1
    BY <1>4 DEF Tick, SubTypeOK
  <2>2. today' \in 0..MaxDay
    BY <2>1, BoundsAssumption
  <2>3. UNCHANGED <<plan, expires, subs, held, buy, sweep, panel>>
    BY <1>4 DEF Tick
  <2> QED BY <2>2, <2>3 DEF SubTypeOK
<1> QED BY <1>1, <1>2, <1>3, <1>4, BuyTyped, SweepTyped, PanelTyped DEF Next

-----------------------------------------------------------------------------
\* Purchases, the sweep and the panel move money only by steps of the wallet.
LEMMA StepIsWalletStep == SubTypeOK /\ [Next]_vars => [WalletStep]_walletVars
<1> SUFFICES ASSUME SubTypeOK, [Next]_vars PROVE [WalletStep]_walletVars
  OBVIOUS
<1>1. CASE UNCHANGED vars
  BY <1>1 DEF vars
<1>2. ASSUME NEW s \in Sessions, NEW u \in Users, NEW k \in Plans, BuyConfirm(s, u, k)
      PROVE  WalletStep
  BY <1>2 DEF BuyConfirm, Preload, WalletStep
<1>3. ASSUME NEW s \in Sessions,
             BuyDuplicate(s) \/ BuyFails(s) \/ BuyEnd(s) \/ BuyCrash(s)
      PROVE  WalletStep
  BY <1>3 DEF BuyDuplicate, BuyFails, BuyEnd, BuyCrash, EndPurchase, WalletStep
<1>4. ASSUME NEW s \in Sessions, BuyDebit(s) \/ BuyInsufficient(s) PROVE WalletStep
  <2>1. buy[s] # NoPurchase
    BY <1>4 DEF BuyDebit, BuyInsufficient, NoPurchase
  <2>2. buy[s].user \in Users /\ -Price[buy[s].plan] \in Postable
    BY <2>1, Buying DEF Postable
  <2> QED BY <1>4, <2>2 DEF BuyDebit, BuyInsufficient, WalletStep
<1>5. ASSUME NEW s \in Sessions, BuyCommit(s) \/ TopUpCommit(s) PROVE WalletStep
  BY <1>5 DEF BuyCommit, TopUpCommit, WalletStep
<1>6. ASSUME NEW s \in Sessions, NEW u \in Users, TopUp(s, u) PROVE WalletStep
  BY <1>6 DEF TopUp, Credit, WalletStep, Postable
<1>7. ASSUME NEW s \in Sessions, BuyLock(s) PROVE UNCHANGED walletVars
  BY <1>7 DEF BuyLock
<1>8. CASE \/ \E u \in Users : PanelLoad(u) \/ \E k \in Plans : LockExpires(u, k)
           \/ SweepRead \/ SweepMark \/ SweepCommit \/ SweepCrash
           \/ PanelCancel \/ PanelGrant \/ PanelInvalid \/ Tick
  BY <1>8 DEF PanelLoad, LockExpires, SweepRead, SweepMark, SweepCommit, SweepCrash,
     PanelCancel, PanelGrant, PanelInvalid, PanelWrite, Tick
<1> QED BY <1>1, <1>2, <1>3, <1>4, <1>5, <1>6, <1>7, <1>8 DEF Next, BuyStep

\* The invariant of both parts holds throughout.
THEOREM SubscriptionsInvariant == Spec => [](WalletIInv /\ SubTypeOK)
<1>1. Init => WalletIInv
  BY WalletInitIInv DEF Init
<1>2. Init => SubTypeOK
  BY BoundsAssumption DEF Init, SubTypeOK, PlanKeys, Expiry, Sweep, NoSweep
<1>3. WalletIInv /\ SubTypeOK /\ [Next]_vars => WalletIInv' /\ SubTypeOK'
  BY StepIsWalletStep, WalletStepKeepsIInv, NextTyped
<1> QED BY <1>1, <1>2, <1>3, PTL DEF Spec

\* The variables of subscriptions and wallet keep their types: whatever is bought,
\* swept and granted at once, no balance is negative.
THEOREM SubscriptionsTypeCorrect == Spec => []TypeOK
<1>1. WalletIInv /\ SubTypeOK => TypeOK
  BY DEF WalletIInv, TypeOK
<1> QED BY <1>1, SubscriptionsInvariant, PTL

-----------------------------------------------------------------------------
(* The double-tap guard. *)

Paying(s) == buy[s].at \in {"locked", "debited"}

\* A purchase past the Redis lock has its key set.
PayersHoldKeys == \A s \in Sessions : Paying(s) => LockKey(s) \in held

\* Together they are inductive while Redis answers and the key outlives the
\* purchase that set it.
LEMMA StepKeepsKeys ==
  ASSUME Parts \cap {"slow", "redis_down"} = {}, SubTypeOK, PayersHoldKeys,
         NoTwinPurchases, [Next]_vars
  PROVE  PayersHoldKeys' /\ NoTwinPurchases'
<1> USE DEF Paying
<1>1. ASSUME UNCHANGED <<buy, held>> PROVE PayersHoldKeys' /\ NoTwinPurchases'
  BY <1>1 DEF PayersHoldKeys, NoTwinPurchases, LockKey
<1>2. ASSUME NEW s \in Sessions, NEW u \in Users, NEW k \in Plans, BuyConfirm(s, u, k)
      PROVE  PayersHoldKeys' /\ NoTwinPurchases'
  BY <1>2 DEF BuyConfirm, PayersHoldKeys, NoTwinPurchases, LockKey, SubTypeOK
<1>3. ASSUME NEW s \in Sessions, BuyDuplicate(s) \/ BuyEnd(s) \/ BuyCrash(s)
      PROVE  PayersHoldKeys' /\ NoTwinPurchases'
  <2>1. buy' = [buy EXCEPT ![s] = NoPurchase] /\ held' = held
    BY <1>3 DEF BuyDuplicate, BuyEnd, BuyCrash, EndPurchase
  <2> QED BY <2>1 DEF PayersHoldKeys, NoTwinPurchases, LockKey, SubTypeOK, NoPurchase
<1>4. ASSUME NEW s \in Sessions, BuyInsufficient(s) \/ BuyFails(s)
      PROVE  PayersHoldKeys' /\ NoTwinPurchases'
  <2>1. /\ Paying(s)
        /\ buy' = [buy EXCEPT ![s] = NoPurchase] /\ held' = held \ {LockKey(s)}
    BY <1>4 DEF BuyInsufficient, BuyFails, EndPurchase
  <2>2. ASSUME NEW t \in Sessions, buy'[t].at \in {"locked", "debited"}
        PROVE  t # s /\ buy'[t] = buy[t] /\ LockKey(t) # LockKey(s)
    <3>1. t # s /\ buy'[t] = buy[t]
      BY <2>1, <2>2 DEF SubTypeOK, NoPurchase
    <3> QED BY <2>1, <2>2, <3>1 DEF NoTwinPurchases
  <2> QED BY <2>1, <2>2 DEF PayersHoldKeys, NoTwinPurchases, LockKey
<1>5. ASSUME NEW s \in Sessions, buy[s] # NoPurchase,
             NEW stage \in {"locked", "debited", "granted"}, BuyAt(s, stage)
      PROVE  /\ \A t \in Sessions \ {s} : buy'[t] = buy[t]
             /\ LockKey(s)' = LockKey(s) /\ buy'[s].at = stage
             /\ \A t \in Sessions : LockKey(t)' = LockKey(t)
  <2>1. buy' = [buy EXCEPT ![s] = [buy[s] EXCEPT !.at = stage]]
    BY <1>5 DEF BuyAt
  <2>2. /\ buy'[s] = [buy[s] EXCEPT !.at = stage]
        /\ \A t \in Sessions \ {s} : buy'[t] = buy[t]
    BY <2>1 DEF SubTypeOK
  <2>3. buy[s] \in Purchase
    BY <1>5, Buying
  <2>4. buy'[s].user = buy[s].user /\ buy'[s].plan = buy[s].plan /\ buy'[s].at = stage
    BY <2>2, <2>3 DEF Purchase
  <2> QED BY <2>2, <2>4 DEF LockKey
<1>6. ASSUME NEW s \in Sessions, BuyLock(s) PROVE PayersHoldKeys' /\ NoTwinPurchases'
  <2>1. buy[s] # NoPurchase /\ BuyAt(s, "locked")
        /\ LockKey(s) \notin held /\ held' = held \cup {LockKey(s)}
    BY <1>6 DEF BuyLock, NoPurchase
  <2>2. \A t \in Sessions : Paying(t) => LockKey(t) # LockKey(s)
    BY <2>1 DEF PayersHoldKeys
  <2> QED BY <1>5, <2>1, <2>2 DEF PayersHoldKeys, NoTwinPurchases
<1>7. ASSUME NEW s \in Sessions, BuyDebit(s) \/ BuyCommit(s)
      PROVE  PayersHoldKeys' /\ NoTwinPurchases'
  <2>1. /\ buy[s] # NoPurchase /\ Paying(s) /\ held' = held
        /\ \E stage \in {"debited", "granted"} : BuyAt(s, stage)
    BY <1>7 DEF BuyDebit, BuyCommit, NoPurchase
  <2> QED BY <1>5, <2>1 DEF PayersHoldKeys, NoTwinPurchases
<1>8. ASSUME NEW u \in Users, NEW k \in Plans, LockExpires(u, k)
      PROVE  PayersHoldKeys' /\ NoTwinPurchases'
  <2>1. /\ \A s \in Sessions : Paying(s) => LockKey(s) # <<u, k>>
        /\ held' = held \ {<<u, k>>} /\ buy' = buy
    BY <1>8 DEF LockExpires, NoPurchase
  <2> QED BY <2>1 DEF PayersHoldKeys, NoTwinPurchases, LockKey
<1>9. ASSUME NEW s \in Sessions, (\E u \in Users : TopUp(s, u)) \/ TopUpCommit(s)
      PROVE  UNCHANGED <<buy, held>>
  BY <1>9 DEF TopUp, TopUpCommit, subVars
<1>10. CASE \/ \E u \in Users : PanelLoad(u)
            \/ SweepRead \/ SweepMark \/ SweepCommit \/ SweepCrash
            \/ PanelCancel \/ PanelGrant \/ PanelInvalid \/ Tick
  <2>1. UNCHANGED <<buy, held>>
    BY <1>10 DEF PanelLoad, SweepRead, SweepMark, SweepCommit, SweepCrash,
       PanelCancel, PanelGrant, PanelInvalid, PanelWrite, Tick
  <2> QED BY <1>1, <2>1
<1>11. CASE UNCHANGED vars
  BY <1>1, <1>11 DEF vars, subVars
<1> QED BY <1>1, <1>2, <1>3, <1>4, <1>6, <1>7, <1>8, <1>9, <1>10, <1>11
        DEF Next, BuyStep

\* While Redis answers and no purchase is slower than its key, two purchases of one
\* plan by one user never run between the lock and the commit, for any number of
\* taps, users and plans (SubscriptionService.purchase).
THEOREM NoTwinPurchasesEver ==
  ASSUME Parts \cap {"slow", "redis_down"} = {} PROVE Spec => []NoTwinPurchases
<1>1. Init => PayersHoldKeys /\ NoTwinPurchases
  BY DEF Init, PayersHoldKeys, NoTwinPurchases, Paying, NoPurchase
<1>2. /\ WalletIInv /\ SubTypeOK /\ PayersHoldKeys /\ NoTwinPurchases /\ [Next]_vars
      => PayersHoldKeys' /\ NoTwinPurchases'
  BY StepKeepsKeys
<1> QED BY <1>1, <1>2, SubscriptionsInvariant, PTL DEF Spec

-----------------------------------------------------------------------------
(* Purchases of one plan, with no other writer of the users row. *)

\* Deposits may come; there is no sweep, no panel, no slow purchase.
OnlyTopUps == Parts \subseteq {"topup"}
OnePlan == \A k, l \in Plans : k = l

NobodyElse == sweep = NoSweep /\ panel = NoForm

Waiting(s) == buy[s].at \in {"arrived", "locked", "debited"}

\* The row a purchase has in memory is the committed one, unless the purchase is
\* about to be answered DUPLICATE: the key is set and nobody who holds it can
\* still fail and delete it.
RowsFresh ==
  \A s \in Sessions : Waiting(s) =>
     \/ buy[s].row = RowOf(buy[s].user)
     \/ /\ buy[s].at = "arrived" /\ LockKey(s) \in held
        /\ \A t \in Sessions : Paying(t) => LockKey(t) # LockKey(s)

\* Only the commit of a purchase grants.
LEMMA GrantIsCommit ==
  ASSUME SubTypeOK, Next, NEW s \in Sessions, Grants(s)
  PROVE  BuyCommit(s)
<1>1. buy' # buy /\ buy[s].at = "debited" /\ buy'[s].at = "granted"
  BY DEF Grants
<1>2. ASSUME NEW t \in Sessions, NEW b, buy' = [buy EXCEPT ![t] = b],
             t = s => b.at # "granted"
      PROVE  FALSE
  BY <1>1, <1>2 DEF SubTypeOK
<1>3. ASSUME NEW t \in Sessions,
             \/ \E u \in Users, k \in Plans : BuyConfirm(t, u, k)
             \/ BuyDuplicate(t) \/ BuyInsufficient(t) \/ BuyFails(t)
             \/ BuyEnd(t) \/ BuyCrash(t)
      PROVE  FALSE
  BY <1>2, <1>3 DEF BuyConfirm, BuyDuplicate, BuyInsufficient, BuyFails, BuyEnd,
     BuyCrash, EndPurchase, NoPurchase
<1>4. ASSUME NEW t \in Sessions, BuyLock(t) \/ BuyDebit(t) PROVE FALSE
  <2>1. /\ buy[t] # NoPurchase
        /\ \E stage \in {"locked", "debited"} :
              buy' = [buy EXCEPT ![t] = [buy[t] EXCEPT !.at = stage]]
    BY <1>4 DEF BuyLock, BuyDebit, BuyAt, NoPurchase
  <2>2. PICK stage \in {"locked", "debited"} :
           buy' = [buy EXCEPT ![t] = [buy[t] EXCEPT !.at = stage]]
    BY <2>1
  <2>3. [buy[t] EXCEPT !.at = stage].at = stage
    BY <2>1, Buying DEF Purchase
  <2> QED BY <1>2, <2>2, <2>3
<1>5. ASSUME NEW t \in Sessions, t # s, BuyCommit(t) PROVE FALSE
  BY <1>1, <1>5 DEF BuyCommit, BuyAt, SubTypeOK
<1>6. ASSUME NEW t \in Sessions, (\E u \in Users : TopUp(t, u)) \/ TopUpCommit(t)
      PROVE  FALSE
  BY <1>1, <1>6 DEF TopUp, TopUpCommit, subVars
<1>7. ASSUME \/ \E u \in Users : PanelLoad(u) \/ \E k \in Plans : LockExpires(u, k)
             \/ SweepRead \/ SweepMark \/ SweepCommit \/ SweepCrash
             \/ PanelCancel \/ PanelGrant \/ PanelInvalid \/ Tick
      PROVE  FALSE
  BY <1>1, <1>7 DEF PanelLoad, LockExpires, SweepRead, SweepMark, SweepCommit,
     SweepCrash, PanelCancel, PanelGrant, PanelInvalid, PanelWrite, Tick
<1> QED BY <1>3, <1>4, <1>5, <1>6, <1>7 DEF Next, BuyStep

\* Neither the sweep nor the panel starts.
LEMMA NobodyElseHolds ==
  ASSUME OnlyTopUps, NobodyElse, [Next]_vars PROVE NobodyElse'
<1> USE DEF OnlyTopUps, NobodyElse
<1>1. CASE UNCHANGED vars
  BY <1>1 DEF vars, subVars
<1>2. ASSUME NEW s \in Sessions,
             \/ \E u \in Users : TopUp(s, u) \/ \E k \in Plans : BuyConfirm(s, u, k)
             \/ TopUpCommit(s) \/ BuyStep(s) \/ BuyFails(s) \/ BuyCrash(s)
      PROVE  NobodyElse'
  BY <1>2 DEF TopUp, BuyConfirm, TopUpCommit, BuyStep, BuyDuplicate, BuyLock, BuyDebit,
     BuyInsufficient, BuyCommit, BuyEnd, BuyFails, BuyCrash, EndPurchase, subVars
<1>3. CASE (\E u \in Users, k \in Plans : LockExpires(u, k)) \/ Tick
  BY <1>3 DEF LockExpires, Tick
<1>4. CASE \/ \E u \in Users : PanelLoad(u)
           \/ SweepRead \/ SweepMark \/ SweepCommit \/ SweepCrash
           \/ PanelCancel \/ PanelGrant \/ PanelInvalid
  BY <1>4 DEF PanelLoad, SweepRead, SweepMark, SweepCommit, SweepCrash, PanelCancel,
     PanelGrant, PanelInvalid, NoSweep
<1> QED BY <1>1, <1>2, <1>3, <1>4 DEF Next

\* With nobody else about, the row that a purchase is granted on is the committed
\* one, though purchases, crashes and the end of the key interleave.
LEMMA StepKeepsRowsFresh ==
  ASSUME OnlyTopUps, OnePlan, SubTypeOK, PayersHoldKeys, NoTwinPurchases,
         NobodyElse, RowsFresh, [Next]_vars
  PROVE  RowsFresh'
<1> USE DEF Paying, Waiting
<1>1. ASSUME UNCHANGED <<buy, held, plan, expires>> PROVE RowsFresh'
  BY <1>1 DEF RowsFresh, LockKey, RowOf
<1>2. ASSUME NEW s \in Sessions, NEW u \in Users, NEW k \in Plans, BuyConfirm(s, u, k)
      PROVE  RowsFresh'
  <2>1. /\ buy' = [buy EXCEPT ![s] = [user |-> u, plan |-> k, row |-> RowOf(u),
                                      at |-> "arrived"]]
        /\ buy[s] = NoPurchase /\ UNCHANGED <<held, plan, expires>>
    BY <1>2 DEF BuyConfirm
  <2> QED BY <2>1 DEF RowsFresh, LockKey, RowOf, SubTypeOK, NoPurchase
<1>3. ASSUME NEW s \in Sessions, BuyDuplicate(s) \/ BuyEnd(s) \/ BuyCrash(s)
      PROVE  RowsFresh'
  <2>1. /\ buy' = [buy EXCEPT ![s] = NoPurchase]
        /\ UNCHANGED <<held, plan, expires>>
    BY <1>3 DEF BuyDuplicate, BuyEnd, BuyCrash, EndPurchase
  <2> QED BY <2>1 DEF RowsFresh, LockKey, RowOf, SubTypeOK, NoPurchase
<1>4. ASSUME NEW s \in Sessions, BuyInsufficient(s) \/ BuyFails(s)
      PROVE  RowsFresh'
  <2>1. /\ Paying(s) /\ buy' = [buy EXCEPT ![s] = NoPurchase]
        /\ held' = held \ {LockKey(s)} /\ UNCHANGED <<plan, expires>>
    BY <1>4 DEF BuyInsufficient, BuyFails, EndPurchase
  <2>2. ASSUME NEW t \in Sessions, Waiting(t)'
        PROVE  t # s /\ buy'[t] = buy[t] /\ Waiting(t) /\ LockKey(t)' = LockKey(t)
    BY <2>1, <2>2 DEF SubTypeOK, NoPurchase, LockKey
  <2>3. \A t \in Sessions : Paying(t)' => Paying(t) /\ LockKey(t)' = LockKey(t)
    BY <2>2
  <2>4. ASSUME NEW t \in Sessions, Waiting(t)', buy[t].row # RowOf(buy[t].user)
        PROVE  /\ buy'[t].at = "arrived" /\ LockKey(t)' \in held'
               /\ \A q \in Sessions : Paying(q)' => LockKey(q)' # LockKey(t)'
    BY <2>1, <2>2, <2>3, <2>4 DEF RowsFresh
  <2>5. \A t \in Sessions : Waiting(t)' => /\ buy'[t].row = buy[t].row
                                           /\ RowOf(buy[t].user)' = RowOf(buy[t].user)
    BY <2>1, <2>2 DEF RowOf
  <2> QED BY <2>2, <2>4, <2>5 DEF RowsFresh
<1>5. ASSUME NEW s \in Sessions, NEW stage \in {"locked", "debited", "granted"},
             buy[s] # NoPurchase, BuyAt(s, stage)
      PROVE  /\ buy'[s].at = stage /\ buy'[s].row = buy[s].row
             /\ \A t \in Sessions : /\ t # s => buy'[t] = buy[t]
                                    /\ buy'[t].user = buy[t].user
                                    /\ LockKey(t)' = LockKey(t)
  <2>1. buy' = [buy EXCEPT ![s] = [buy[s] EXCEPT !.at = stage]]
    BY <1>5 DEF BuyAt
  <2>2. /\ buy'[s] = [buy[s] EXCEPT !.at = stage]
        /\ \A t \in Sessions : t # s => buy'[t] = buy[t]
    BY <2>1 DEF SubTypeOK
  <2>3. buy[s] \in Purchase
    BY <1>5, Buying
  <2>4. /\ buy'[s].user = buy[s].user /\ buy'[s].plan = buy[s].plan
        /\ buy'[s].at = stage /\ buy'[s].row = buy[s].row
    BY <2>2, <2>3 DEF Purchase
  <2> QED BY <2>2, <2>4 DEF LockKey
<1>6. ASSUME NEW s \in Sessions, BuyLock(s) PROVE RowsFresh'
  <2>1. /\ buy[s] # NoPurchase /\ buy[s].at = "arrived" /\ BuyAt(s, "locked")
        /\ LockKey(s) \notin held /\ held' = held \cup {LockKey(s)}
        /\ UNCHANGED <<plan, expires>>
    BY <1>6 DEF BuyLock, NoPurchase, OnlyTopUps
  <2>2. buy[s].row = RowOf(buy[s].user)
    BY <2>1 DEF RowsFresh
  <2>3. \A u : RowOf(u)' = RowOf(u)
    BY <2>1 DEF RowOf
  <2> QED BY <1>5, <2>1, <2>2, <2>3 DEF RowsFresh
<1>7. ASSUME NEW s \in Sessions, BuyDebit(s) PROVE RowsFresh'
  <2>1. /\ buy[s] # NoPurchase /\ buy[s].at = "locked" /\ BuyAt(s, "debited")
        /\ UNCHANGED <<held, plan, expires>>
    BY <1>7 DEF BuyDebit, NoPurchase
  <2>2. buy[s].row = RowOf(buy[s].user)
    BY <2>1 DEF RowsFresh
  <2>3. \A u : RowOf(u)' = RowOf(u)
    BY <2>1 DEF RowOf
  <2> QED BY <1>5, <2>1, <2>2, <2>3 DEF RowsFresh
<1>8. ASSUME NEW s \in Sessions, BuyCommit(s) PROVE RowsFresh'
  <2> DEFINE u == buy[s].user
  <2>1. /\ buy[s] # NoPurchase /\ buy[s].at = "debited" /\ BuyAt(s, "granted")
        /\ held' = held
        /\ WriteBack(u, buy[s].row, buy[s].plan, NewExpiry(buy[s].row, buy[s].plan))
    BY <1>8 DEF BuyCommit, NoPurchase
  <2>2. LockKey(s) \in held
    BY <2>1 DEF PayersHoldKeys
  <2>3. \A v \in Users : v # u => RowOf(v)' = RowOf(v)
    BY <2>1 DEF RowOf, WriteBack, SubTypeOK
  <2>4. ASSUME NEW t \in Sessions, Waiting(t)'
        PROVE  /\ t # s /\ buy'[t] = buy[t] /\ LockKey(t)' = LockKey(t)
               /\ buy[t] # NoPurchase /\ Waiting(t)
    BY <1>5, <2>1, <2>4 DEF NoPurchase
  <2>5. \A t \in Sessions : Paying(t)' => t # s /\ Paying(t) /\ LockKey(t)' = LockKey(t)
    BY <1>5, <2>1, <2>4
  <2>6. ASSUME NEW t \in Sessions, Waiting(t)', buy[t].user = u
        PROVE  /\ buy'[t].at = "arrived" /\ LockKey(t)' \in held'
               /\ \A q \in Sessions : Paying(q)' => LockKey(q)' # LockKey(t)'
    <3>1. buy[t].plan = buy[s].plan
      BY <2>1, <2>4, <2>6, Buying DEF OnePlan
    <3>2. LockKey(t) = LockKey(s)
      BY <2>6, <3>1 DEF LockKey
    <3>3. ~ Paying(t)
      BY <2>1, <2>4, <2>6, <3>2 DEF NoTwinPurchases
    <3>4. \A q \in Sessions : Paying(q)' => LockKey(q) # LockKey(s)
      BY <2>1, <2>5 DEF NoTwinPurchases
    <3> QED BY <2>1, <2>2, <2>4, <2>5, <2>6, <3>2, <3>3, <3>4
  <2>7. ASSUME NEW t \in Sessions, Waiting(t)', buy[t].user # u
        PROVE  \/ buy'[t].row = RowOf(buy[t].user)'
               \/ /\ buy'[t].at = "arrived" /\ LockKey(t)' \in held'
                  /\ \A q \in Sessions : Paying(q)' => LockKey(q)' # LockKey(t)'
    <3>1. buy[t].user \in Users
      BY <2>4, <2>7, Buying
    <3>2. \A v \in Users : (v # u /\ v = buy'[t].user)
                               => RowOf(buy[t].user)' = RowOf(v)
      BY <2>3 DEF RowOf
    <3>3. RowOf(buy[t].user)' = RowOf(buy[t].user)
      BY <2>4, <2>7, <3>1, <3>2
    <3> QED BY <2>1, <2>4, <2>5, <2>7, <3>3 DEF RowsFresh
  <2> QED BY <2>6, <2>7 DEF RowsFresh
<1>9. ASSUME NEW u \in Users, NEW k \in Plans, LockExpires(u, k) PROVE RowsFresh'
  <2>1. /\ \A s \in Sessions : (buy[s] # NoPurchase /\ LockKey(s) = <<u, k>>)
                                 => buy[s].row = RowOf(u)
        /\ held' = held \ {<<u, k>>} /\ UNCHANGED <<buy, plan, expires>>
    BY <1>9 DEF LockExpires, OnlyTopUps
  <2>2. \A s \in Sessions : Waiting(s) =>
           buy[s] # NoPurchase /\ (LockKey(s) = <<u, k>> => buy[s].user = u)
    BY DEF NoPurchase, LockKey
  <2>3. \A s \in Sessions : /\ (Waiting(s)' <=> Waiting(s)) /\ (Paying(s)' <=> Paying(s))
                            /\ LockKey(s)' = LockKey(s)
                            /\ RowOf(buy[s].user)' = RowOf(buy[s].user)
    BY <2>1 DEF LockKey, RowOf
  <2> QED BY <2>1, <2>2, <2>3 DEF RowsFresh
<1>10. ASSUME NEW s \in Sessions, (\E u \in Users : TopUp(s, u)) \/ TopUpCommit(s)
       PROVE  UNCHANGED <<buy, held, plan, expires>>
  BY <1>10 DEF TopUp, TopUpCommit, subVars
<1>11. CASE \/ \E u \in Users : PanelLoad(u)
            \/ SweepRead \/ SweepMark \/ SweepCommit \/ SweepCrash
            \/ PanelCancel \/ PanelGrant \/ PanelInvalid \/ Tick
  <2>1. UNCHANGED <<buy, held, plan, expires>>
    BY <1>11 DEF PanelLoad, SweepRead, SweepMark, SweepCommit, SweepCrash,
       PanelCancel, PanelGrant, PanelInvalid, Tick, NobodyElse, NoSweep, OnlyTopUps
  <2> QED BY <1>1, <2>1
<1>12. CASE UNCHANGED vars
  BY <1>1, <1>12 DEF vars, subVars
<1> QED BY <1>1, <1>2, <1>3, <1>4, <1>6, <1>7, <1>8, <1>9, <1>10, <1>11, <1>12
        DEF Next, BuyStep

\* What a purchase that is granted on the committed row writes.
LEMMA FreshGrant ==
  ASSUME SubTypeOK, RowsFresh, NEW s \in Sessions, BuyCommit(s)
  PROVE  LET u == buy[s].user
             k == buy[s].plan
         IN  (plan[u] = k /\ IsFuture(expires[u]) /\ Days[k] # 0)
               => expires'[u] = expires[u] + Days[k]
<1> DEFINE u == buy[s].user
           k == buy[s].plan
           e == NewExpiry(buy[s].row, k)
<1>1. /\ buy[s] # NoPurchase /\ buy[s].at = "debited"
      /\ WriteBack(u, buy[s].row, k, e)
  BY DEF BuyCommit, NoPurchase
<1>2. u \in Users /\ k \in Plans
  BY <1>1, Buying
<1>3. buy[s].row = RowOf(u)
  BY <1>1 DEF RowsFresh, Waiting
<1>4. ASSUME plan[u] = k, IsFuture(expires[u]), Days[k] # 0
      PROVE  expires'[u] = expires[u] + Days[k]
  <2>1. expires[u] \in Nat /\ Days[k] \in Nat /\ Days[k] # 0
    BY <1>2, <1>4, DaysAssumption DEF SubTypeOK, Expiry, IsFuture
  <2>2. Rank(k) >= Rank(k)
    BY <1>2, PlansAssumption DEF Rank
  <2>3. buy[s].row.plan = k /\ buy[s].row.expires = expires[u]
    BY <1>3, <1>4 DEF RowOf
  <2>4. e = expires[u] + Days[k]
    BY <1>4, <2>2, <2>3 DEF NewExpiry
  <2>5. e # buy[s].row.expires
    BY <2>1, <2>3, <2>4
  <2>6. expires' = [expires EXCEPT ![u] = e]
    BY <1>1, <2>5 DEF WriteBack
  <2> QED BY <1>2, <2>4, <2>6 DEF SubTypeOK
<1> QED BY <1>4

PromptIInv ==
  /\ WalletIInv /\ SubTypeOK
  /\ PayersHoldKeys /\ NoTwinPurchases /\ NobodyElse /\ RowsFresh

\* The invariant of the prompt case holds in every run.
LEMMA PromptInvariant ==
  ASSUME OnlyTopUps, OnePlan PROVE Spec => []PromptIInv
<1>1. Init => PayersHoldKeys /\ NoTwinPurchases /\ NobodyElse /\ RowsFresh
  BY DEF Init, PayersHoldKeys, NoTwinPurchases, Paying, NoPurchase, NobodyElse,
     RowsFresh, Waiting
<1>2. /\ WalletIInv /\ SubTypeOK /\ PayersHoldKeys /\ NoTwinPurchases
      /\ NobodyElse /\ RowsFresh /\ [Next]_vars
      => PayersHoldKeys' /\ NoTwinPurchases' /\ NobodyElse' /\ RowsFresh'
  <2>1. Parts \cap {"slow", "redis_down"} = {}
    BY DEF OnlyTopUps
  <2> QED BY <2>1, StepKeepsKeys, NobodyElseHolds, StepKeepsRowsFresh
<1> QED BY <1>1, <1>2, SubscriptionsInvariant, PTL DEF Spec, PromptIInv

\* While one plan is sold, nobody else writes the users row and purchases are
\* quicker than their key, no paid time is lost: a renewal adds its whole duration
\* to the expiry that is committed when it commits (_compute_expiry).
THEOREM EveryRenewalExtends ==
  ASSUME Parts \subseteq {"topup"}, \A k, l \in Plans : k = l
  PROVE  Spec => RenewalExtends
<1>1. OnlyTopUps /\ OnePlan
  BY DEF OnlyTopUps, OnePlan
<1>2. PromptIInv /\ [Next]_vars
      => [\A s \in Sessions :
            LET u == buy[s].user
                k == buy[s].plan
            IN  (Grants(s) /\ plan[u] = k /\ IsFuture(expires[u]) /\ Days[k] # 0)
                  => expires'[u] = expires[u] + Days[k]]_vars
  BY GrantIsCommit, FreshGrant DEF PromptIInv
<1>3. Spec => []PromptIInv
  BY <1>1, PromptInvariant
<1> QED BY <1>2, <1>3, PTL DEF Spec, RenewalExtends

-----------------------------------------------------------------------------
(* A paid plan keeps an active subscription, whoever writes. *)

\* What a purchase or a grant does to its user's rows leaves them backed: the
\* new row is of the plan that is written, and no older row is touched.
LEMMA NewRowBacks ==
  ASSUME SubTypeOK, NEW u \in Users, Backed(u), NEW v \in Users, NEW row \in UserRow,
         NEW k \in PlanKeys, NEW e \in Expiry, WriteBack(v, row, k, e), AddSub(v, k)
  PROVE  Backed(u)'
<1> DEFINE r == [plan |-> k, active |-> TRUE]
           SubRow == [plan : PlanKeys, active : BOOLEAN]
<1>1. subs[u] \in Seq(SubRow) /\ r \in SubRow
  BY DEF SubTypeOK
<1>2. subs' = [subs EXCEPT ![v] = Append(subs[v], r)] /\ subs \in [Users -> Seq(SubRow)]
  BY DEF AddSub, SubTypeOK
<1>3. CASE u # v
  <2>1. plan'[u] = plan[u] /\ subs'[u] = subs[u]
    BY <1>2, <1>3 DEF WriteBack, SubTypeOK
  <2> QED BY <2>1 DEF Backed
<1>4. CASE u = v
  <2>1. subs'[u] = Append(subs[u], r)
    BY <1>2, <1>4
  <2>2. CASE plan'[u] = plan[u]
    <3> HIDE DEF r, SubRow
    <3>1. \A i \in DOMAIN subs[u] : i \in DOMAIN subs'[u] /\ subs'[u][i] = subs[u][i]
      BY <1>1, <2>1
    <3> QED BY <2>2, <3>1 DEF Backed
  <2>3. CASE plan'[u] = k
    <3>1. Len(subs[u]) + 1 \in DOMAIN subs'[u] /\ subs'[u][Len(subs[u]) + 1] = r
      <4> HIDE DEF r, SubRow
      <4> QED BY <1>1, <2>1
    <3> QED BY <2>3, <3>1 DEF Backed
  <2> QED BY <1>4, <2>2, <2>3 DEF WriteBack, SubTypeOK
<1> QED BY <1>3, <1>4

\* A step that leaves the plans and the rows alone.
LEMMA IdleBacks ==
  ASSUME UNCHANGED <<plan, subs>>, NEW u \in Users, Backed(u) PROVE Backed(u)'
BY DEF Backed

\* Every step keeps a backed user backed, but the cancellation of an unseen plan.
LEMMA StepKeepsBacked ==
  ASSUME SubTypeOK, [Next]_vars, NEW u \in Users, Backed(u),
         ~ (panel # NoForm /\ panel.user = u /\ panel.row.plan = "free")
  PROVE  Backed(u)'
<1>1. ASSUME NEW s \in Sessions, BuyCommit(s) PROVE Backed(u)'
  <2> DEFINE b == buy[s]
  <2>1. /\ b # NoPurchase
        /\ WriteBack(b.user, b.row, b.plan, NewExpiry(b.row, b.plan))
        /\ AddSub(b.user, b.plan)
    BY <1>1 DEF BuyCommit, NoPurchase
  <2>2. b.user \in Users /\ b.plan \in Plans /\ b.row \in UserRow
    BY <2>1, Buying
  <2>3. NewExpiry(b.row, b.plan) \in Expiry /\ b.plan \in PlanKeys
    BY <2>2, NewExpiryIsExpiry DEF PlanKeys, SubTypeOK
  <2> HIDE DEF b
  <2> QED BY <2>1, <2>2, <2>3, NewRowBacks
<1>2. CASE SweepCommit
  <2>1. CASE u \in sweep.users
    BY <1>2, <2>1 DEF SweepCommit, Backed
  <2>2. CASE u \notin sweep.users
    <3>1. plan'[u] = plan[u] /\ subs'[u] = subs[u]
      BY <1>2, <2>2 DEF SweepCommit
    <3> QED BY <3>1 DEF Backed
  <2> QED BY <2>1, <2>2
<1>3. CASE PanelCancel
  <2>1. /\ panel # NoForm /\ panel.user \in Users
        /\ WriteBack(panel.user, panel.row, "free", Never)
        /\ subs' = [subs EXCEPT ![panel.user] = Deactivate(@, Len(@))]
    BY <1>3 DEF PanelCancel, PanelWrite, SubTypeOK, PanelForm
  <2>2. CASE panel.user = u
    <3>1. plan'[u] = "free"
      BY <2>1, <2>2 DEF WriteBack, SubTypeOK
    <3> QED BY <3>1 DEF Backed
  <2>3. CASE panel.user # u
    <3>1. plan'[u] = plan[u] /\ subs'[u] = subs[u]
      BY <2>1, <2>3 DEF WriteBack, SubTypeOK
    <3> QED BY <3>1 DEF Backed
  <2> QED BY <2>2, <2>3
<1>4. CASE PanelGrant
  <2>1. PICK k \in PlanKeys, e \in Expiry : PanelWrite(k, e) /\ AddSub(panel.user, k)
    BY <1>4, GrantForm
  <2>2. /\ panel.user \in Users /\ panel.row \in UserRow
        /\ WriteBack(panel.user, panel.row, k, e)
    BY <2>1 DEF PanelWrite, SubTypeOK, PanelForm
  <2> QED BY <2>1, <2>2, NewRowBacks
<1>5. ASSUME NEW s \in Sessions,
             \/ \E v \in Users, k \in Plans : BuyConfirm(s, v, k)
             \/ \E v \in Users : TopUp(s, v)
             \/ TopUpCommit(s) \/ BuyDuplicate(s) \/ BuyLock(s) \/ BuyDebit(s)
             \/ BuyInsufficient(s) \/ BuyEnd(s) \/ BuyFails(s) \/ BuyCrash(s)
      PROVE  Backed(u)'
  <2>1. UNCHANGED <<plan, subs>>
    BY <1>5 DEF BuyConfirm, TopUp, TopUpCommit, subVars, BuyDuplicate, BuyLock, BuyDebit,
       BuyInsufficient, BuyEnd, BuyFails, BuyCrash, EndPurchase
  <2> QED BY <2>1, IdleBacks
<1>6. CASE \/ \E v \in Users : PanelLoad(v) \/ \E k \in Plans : LockExpires(v, k)
           \/ SweepRead \/ SweepMark \/ SweepCrash \/ PanelInvalid \/ Tick \/ UNCHANGED vars
  <2>1. UNCHANGED <<plan, subs>>
    BY <1>6 DEF PanelLoad, LockExpires, SweepRead, SweepMark, SweepCrash, PanelInvalid, Tick,
       vars, subVars
  <2> QED BY <2>1, IdleBacks
<1> QED BY <1>1, <1>2, <1>3, <1>4, <1>5, <1>6 DEF Next, BuyStep

\* Purchases, sweeps and forms of the panel write one users row and its
\* subscriptions from copies they loaded before (SubscriptionService.purchase,
\* process_expiry_sweep, user_subscription): for any number of them, a paid plan
\* loses its active subscription only when the panel cancels a plan it had not seen.
THEOREM PlansAlwaysBacked == Spec => PlansStayBacked
<1>1. SubTypeOK /\ [Next]_vars
      => [\A u \in Users :
            Backed(u) => Backed(u)' \/ (panel # NoForm /\ panel.user = u
                                         /\ panel.row.plan = "free")]_vars
  BY StepKeepsBacked
<1> QED BY <1>1, SubscriptionsInvariant, PTL DEF Spec, PlansStayBacked
=============================================================================
