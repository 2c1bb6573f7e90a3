--------------------------- MODULE CheckoutProofs ---------------------------
(***************************************************************************)
(* Proofs about Checkout, for any orders, charges, tasks and bounds: types *)
(* and with them a balance that no write makes negative, one deposit for   *)
(* each Stars charge, refunds that stick, and what is left of the deposits *)
(* when balances are written from outdated copies, which needs what a sum  *)
(* over a finite set is: first some facts on that.                         *)
(***************************************************************************)
EXTENDS Checkout, FiniteSetTheorems, TLAPS

(* Induction, with a set in the place of the predicate. *)

\* Induction over the naturals, with a set in the place of the predicate: the intervals
\* 0..k of the naturals k <= n outside of the set have a smallest one.
LEMMA NatsByInduction ==
  ASSUME NEW W, 0 \in W, \A n \in Nat : n \in W => n + 1 \in W
  PROVE  Nat \subseteq W
<1> SUFFICES ASSUME NEW n \in Nat, n \notin W PROVE FALSE
  OBVIOUS
<1> DEFINE Out == {k \in 0..n : k \notin W}
           Intervals == {0..k : k \in Out}
<1>1. IsWellFoundedOn(StrictSubsetOrdering(0..n), FiniteSubsetsOf(0..n))
  BY FS_StrictSubsetOrderingWellFounded
<1>2. Intervals \subseteq FiniteSubsetsOf(0..n)
  <2> SUFFICES ASSUME NEW k \in Out PROVE 0..k \in FiniteSubsetsOf(0..n)
    OBVIOUS
  <2>1. IsFiniteSet(0..k)
    BY FS_Interval
  <2> QED BY <2>1 DEF FiniteSubsetsOf
<1>3. Intervals # {}
  <2>1. n \in Out
    OBVIOUS
  <2> QED BY <2>1
<1>4. PICK least \in Intervals :
        \A other \in Intervals : ~ (<<other, least>> \in StrictSubsetOrdering(0..n))
  <2> HIDE DEF Intervals
  <2> QED BY <1>1, <1>2, <1>3, WFMin
<1>5. PICK k \in Out : least = 0..k
  OBVIOUS
<1>6. k \in Nat /\ k # 0 /\ k - 1 \in 0..n /\ k - 1 \notin W
  <2>1. k \in 0..n /\ k \notin W /\ k # 0
    OBVIOUS
  <2>2. k - 1 \in Nat /\ (k - 1) + 1 = k
    BY <2>1
  <2> QED BY <2>1, <2>2
<1>7. 0..(k - 1) \in Intervals
  BY <1>6
<1>8. <<0..(k - 1), 0..k>> \in StrictSubsetOrdering(0..n)
  <2>1. 0..(k - 1) \in SUBSET (0..n) /\ 0..k \in SUBSET (0..n) /\ 0..(k - 1) \subseteq 0..k
    BY <1>6
  <2>2. k \in 0..k /\ k \notin 0..(k - 1)
    BY <1>6
  <2>3. 0..(k - 1) # 0..k
    BY <2>2
  <2> QED BY <2>1, <2>3 DEF StrictSubsetOrdering
<1> QED BY <1>4, <1>5, <1>7, <1>8

\* Induction over the subsets of a finite set, with a set in the place of the predicate.
LEMMA SubsetsByInduction ==
  ASSUME NEW S, IsFiniteSet(S), NEW W,
         \A T \in SUBSET S : (\A x \in T : T \ {x} \in W) => T \in W
  PROVE  SUBSET S \subseteq W
<1> SUFFICES ASSUME NEW A \in SUBSET S, A \notin W PROVE FALSE
  OBVIOUS
<1> DEFINE Out == {T \in SUBSET S : T \notin W}
<1>1. IsWellFoundedOn(StrictSubsetOrdering(S), FiniteSubsetsOf(S))
  BY FS_StrictSubsetOrderingWellFounded
<1>2. Out \subseteq FiniteSubsetsOf(S) /\ Out # {}
  BY FS_FiniteSubsetsOfFinite
<1>3. PICK T \in Out : \A U \in Out : ~ (<<U, T>> \in StrictSubsetOrdering(S))
  <2> HIDE DEF Out
  <2> QED BY <1>1, <1>2, WFMin
<1>4. ASSUME NEW x \in T PROVE T \ {x} \in W
  <2>1. <<T \ {x}, T>> \in StrictSubsetOrdering(S)
    BY DEF StrictSubsetOrdering
  <2> QED BY <1>3, <2>1
<1> QED BY <1>4

-----------------------------------------------------------------------------
(* Sums over a finite set. *)

\* The sum of a function over a set, and the equation of its recursion.
Total(f, S) == MapThenSumSet(LAMBDA x : f[x], S)
Chosen(s) == CHOOSE x \in s : TRUE
SumOf(h, f, s) == IF s = {} THEN 0 ELSE f[Chosen(s)] + h[s \ {Chosen(s)}]
AddsUp(h, f, S) == h = [s \in SUBSET S |-> SumOf(h, f, s)]

\* Total takes a solution of the equation, if there is one.
LEMMA TotalUnfolds ==
  ASSUME NEW f, NEW S
  PROVE  Total(f, S) = (CHOOSE h : AddsUp(h, f, S))[S]
BY DEF Total, MapThenSumSet, MapThenFoldSet, AddsUp, SumOf, Chosen

\* A set that is not empty has an element to choose.
LEMMA ChosenIsIn == ASSUME NEW s, s # {} PROVE Chosen(s) \in s
BY DEF Chosen

\* The recursion has a solution: one that satisfies the equation for the sets with at most n
\* elements gives one for n + 1.
LEMMA SumExists ==
  ASSUME NEW S, IsFiniteSet(S), NEW f \in [S -> Nat]
  PROVE  \E h : AddsUp(h, f, S)
<1> DEFINE UpTo(h, n) == \A s \in SUBSET S : Cardinality(s) <= n => h[s] = SumOf(h, f, s)
           W == {n \in Nat : \E h \in [SUBSET S -> Nat] : UpTo(h, n)}
<1>1. \A s \in SUBSET S : IsFiniteSet(s) /\ Cardinality(s) \in Nat /\ Cardinality(s) <= Cardinality(S)
  BY FS_Subset, FS_CardinalityType
<1>2. ASSUME NEW h \in [SUBSET S -> Nat], NEW s \in SUBSET S PROVE SumOf(h, f, s) \in Nat
  <2>1. CASE s = {}
    BY <2>1 DEF SumOf
  <2>2. CASE s # {}
    <3>1. Chosen(s) \in S /\ s \ {Chosen(s)} \in SUBSET S
      BY <2>2, ChosenIsIn
    <3> QED BY <2>2, <3>1 DEF SumOf
  <2> QED BY <2>1, <2>2
<1>3. 0 \in W
  <2> DEFINE h == [s \in SUBSET S |-> 0]
  <2>1. ASSUME NEW s \in SUBSET S, Cardinality(s) <= 0 PROVE h[s] = SumOf(h, f, s)
    <3>1. s = {}
      BY <1>1, <2>1, FS_EmptySet
    <3> QED BY <3>1 DEF SumOf
  <2>2. h \in [SUBSET S -> Nat]
    OBVIOUS
  <2> HIDE DEF h
  <2> QED BY <2>1, <2>2
<1>4. ASSUME NEW n \in Nat, n \in W PROVE n + 1 \in W
  <2>1. PICK h \in [SUBSET S -> Nat] : UpTo(h, n)
    BY <1>4
  <2> DEFINE k == [s \in SUBSET S |-> SumOf(h, f, s)]
  <2>2. k \in [SUBSET S -> Nat]
    BY <1>2
  <2>3. ASSUME NEW s \in SUBSET S, Cardinality(s) <= n + 1 PROVE k[s] = SumOf(k, f, s)
    <3>1. CASE s = {}
      BY <3>1 DEF SumOf
    <3>2. CASE s # {}
      <4> DEFINE x == Chosen(s)
                 u == s \ {x}
      <4>1. x \in s /\ u \in SUBSET S
        BY <3>2, ChosenIsIn
      <4>2. Cardinality(u) = Cardinality(s) - 1
        BY <1>1, <4>1, FS_RemoveElement
      <4>3. Cardinality(u) <= n
        BY <1>1, <2>3, <4>2
      <4>4. k[u] = h[u]
        BY <2>1, <4>1, <4>3
      <4>5. k[s] = f[x] + h[u]
        BY <3>2 DEF SumOf
      <4>6. SumOf(k, f, s) = f[x] + k[u]
        BY <3>2 DEF SumOf
      <4> QED BY <4>4, <4>5, <4>6
    <3> QED BY <3>1, <3>2
  <2> HIDE DEF k
  <2> QED BY <2>2, <2>3
<1>5. Cardinality(S) \in W
  <2> HIDE DEF W
  <2>1. Nat \subseteq W
    BY <1>3, <1>4, NatsByInduction
  <2> QED BY <2>1, FS_CardinalityType
<1>6. PICK h \in [SUBSET S -> Nat] : UpTo(h, Cardinality(S))
  BY <1>5
<1>7. \A s \in SUBSET S : h[s] = SumOf(h, f, s)
  BY <1>1, <1>6
<1> QED BY <1>7 DEF AddsUp

\* What Total is: a solution of the equation, on the whole set.
LEMMA TotalSolves ==
  ASSUME NEW S, IsFiniteSet(S), NEW f \in [S -> Nat]
  PROVE  \E h : AddsUp(h, f, S) /\ Total(f, S) = h[S]
BY SumExists, TotalUnfolds

\* A solution is a number for every subset, zero if the function is.
LEMMA SumIsNat ==
  ASSUME NEW S, IsFiniteSet(S), NEW f \in [S -> Nat], NEW h, AddsUp(h, f, S)
  PROVE  \A s \in SUBSET S : h[s] \in Nat /\ ((\A x \in s : f[x] = 0) => h[s] = 0)
<1> DEFINE W == {s \in SUBSET S : h[s] \in Nat /\ ((\A x \in s : f[x] = 0) => h[s] = 0)}
<1>1. ASSUME NEW T \in SUBSET S, \A x \in T : T \ {x} \in W PROVE T \in W
  <2>1. CASE T = {}
    <3>1. h[T] = SumOf(h, f, T)
      BY DEF AddsUp
    <3>2. h[T] = 0
      BY <2>1, <3>1 DEF SumOf
    <3> QED BY <3>2
  <2>2. CASE T # {}
    <3> DEFINE x == Chosen(T)
               u == T \ {x}
    <3>1. x \in T /\ u \in W /\ h[T] = f[x] + h[u]
      <4>1. h[T] = SumOf(h, f, T)
        BY DEF AddsUp
      <4>2. x \in T
        BY <2>2, ChosenIsIn
      <4> QED BY <1>1, <2>2, <4>1, <4>2 DEF SumOf
    <3>2. f[x] \in Nat /\ h[u] \in Nat
      BY <3>1
    <3>3. (\A y \in T : f[y] = 0) => f[x] = 0 /\ h[u] = 0
      BY <3>1
    <3> HIDE DEF x, u
    <3> QED BY <3>1, <3>2, <3>3
  <2> QED BY <2>1, <2>2
<1> HIDE DEF W
<1>2. SUBSET S \subseteq W
  BY <1>1, SubsetsByInduction
<1> QED BY <1>2 DEF W

\* One element more or less at one place is one more or less in the sum.
LEMMA SumGrows ==
  ASSUME NEW S, IsFiniteSet(S), NEW f \in [S -> Nat], NEW g \in [S -> Nat], NEW x \in S,
         NEW d \in Nat, g[x] = f[x] + d, \A y \in S \ {x} : g[y] = f[y],
         NEW h, AddsUp(h, f, S), NEW k, AddsUp(k, g, S)
  PROVE  \A s \in SUBSET S : k[s] = h[s] + (IF x \in s THEN d ELSE 0)
<1> DEFINE W == {s \in SUBSET S : k[s] = h[s] + (IF x \in s THEN d ELSE 0)}
<1>1. ASSUME NEW T \in SUBSET S, \A y \in T : T \ {y} \in W PROVE T \in W
  <2>1. CASE T = {}
    <3>1. h[T] = SumOf(h, f, T) /\ k[T] = SumOf(k, g, T)
      BY DEF AddsUp
    <3>2. h[T] = 0 /\ k[T] = 0 /\ x \notin T
      BY <2>1, <3>1 DEF SumOf
    <3> QED BY <3>2
  <2>2. CASE T # {}
    <3> DEFINE y == Chosen(T)
               u == T \ {y}
    <3>1. y \in T /\ u \in SUBSET S /\ h[T] = f[y] + h[u] /\ k[T] = g[y] + k[u]
      <4>1. h[T] = SumOf(h, f, T) /\ k[T] = SumOf(k, g, T)
        BY DEF AddsUp
      <4>2. y \in T /\ u \in SUBSET S
        BY <2>2, ChosenIsIn
      <4> QED BY <2>2, <4>1, <4>2 DEF SumOf
    <3>2. k[u] = h[u] + (IF x \in u THEN d ELSE 0)
      BY <1>1, <3>1
    <3>3. h[u] \in Nat /\ f[y] \in Nat /\ g[y] \in Nat
      BY <3>1, SumIsNat
    <3>4. CASE x = y
      BY <3>1, <3>2, <3>3, <3>4
    <3>5. CASE x # y
      <4>1. g[y] = f[y] /\ (x \in u <=> x \in T)
        BY <3>1, <3>5
      <4> QED BY <3>1, <3>2, <3>3, <4>1
    <3> QED BY <3>4, <3>5
  <2> QED BY <2>1, <2>2
<1> HIDE DEF W
<1>2. SUBSET S \subseteq W
  BY <1>1, SubsetsByInduction
<1> QED BY <1>2 DEF W

\* Of a sum: its type, a sum of zeros, and what one change does to it.
LEMMA TotalZero ==
  ASSUME NEW S, IsFiniteSet(S), NEW f \in [S -> Nat], \A x \in S : f[x] = 0
  PROVE  Total(f, S) = 0
<1>1. PICK h : AddsUp(h, f, S) /\ Total(f, S) = h[S]
  BY TotalSolves
<1> QED BY <1>1, SumIsNat

\* One more at one place is one more in the sum.
LEMMA TotalGrows ==
  ASSUME NEW S, IsFiniteSet(S), NEW f \in [S -> Nat], NEW g \in [S -> Nat], NEW x \in S,
         NEW d \in Nat, g[x] = f[x] + d, \A y \in S \ {x} : g[y] = f[y]
  PROVE  Total(f, S) \in Nat /\ Total(g, S) = Total(f, S) + d
<1>1. PICK h : AddsUp(h, f, S) /\ Total(f, S) = h[S]
  BY TotalSolves
<1>2. PICK k : AddsUp(k, g, S) /\ Total(g, S) = k[S]
  BY TotalSolves
<1>3. \A s \in SUBSET S : k[s] = h[s] + (IF x \in s THEN d ELSE 0)
  BY <1>1, <1>2, SumGrows
<1>4. Total(f, S) \in Nat
  BY <1>1, SumIsNat
<1> QED BY <1>1, <1>2, <1>3, <1>4
-----------------------------------------------------------------------------
\* What a task relies on.  A purchase between its debit and its commit, and a refund
\* that has read the user, hold the lock of the user: the balance it writes is still no
\* less than the price, the plan is still the one the refund read.  A copy of the user
\* that no commit has outdated holds the committed balance.
TaskOK(t) ==
  coTask[t] # NoTask =>
    /\ coTask[t].kind = "verify" => coTask[t].pay \in Orders
    /\ coTask[t].kind = "stars" => coTask[t].pay \in Charges
    /\ coTask[t].at \in {"debited", "revoking"} => coHolder["user"] = t
    /\ coTask[t].at = "debited" => Balance(t) > 0
    /\ coTask[t].fresh => coTask[t].plan # "unseen" /\ coTask[t].wallet = coWallet
    /\ coTask[t].at = "revoking" => coTask[t].plan = coPlan

TasksOK == \A t \in Tasks : TaskOK(t)

\* A charge without a row has no deposit, one with a row has at most one.
ChargesOK == \A c \in Charges : coCredits[c] <= 1 /\ (coRow[c] = "none" => coCredits[c] = 0)

CheckoutInv == CheckoutTypeOK /\ TasksOK /\ ChargesOK /\ RefundSticks

-----------------------------------------------------------------------------
\* A task that is being served is of the type Task.
LEMMA ServedTask ==
  ASSUME CheckoutTypeOK, NEW t \in Tasks, coTask[t] # NoTask
  PROVE  /\ coTask[t] \in Task /\ t \notin {"nobody", "sweep"}
         /\ coTask[t].kind \in {"verify", "stars", "wallet", "refund"}
         /\ coTask[t].pay \in Payables \cup {"none"} /\ coTask[t].row \in Statuses
         /\ coTask[t].plan \in {"free", "plus", "unseen"}
         /\ coTask[t].wallet \in Nat /\ coTask[t].fresh \in BOOLEAN
         /\ Balance(t) \in Nat
BY CheckoutAssumption DEF CheckoutTypeOK, Task, Balance

\* Is holds of a task that is being served.
LEMMA IsServed ==
  ASSUME NEW t \in Tasks, NEW kind \in {"verify", "stars", "wallet", "refund"}, NEW at,
         Is(t, kind, at)
  PROVE  coTask[t] # NoTask
BY DEF Is, NoTask

\* A task that stands still: its lock on the user, and what that protects, stand.
LEMMA StandsStill ==
  ASSUME NEW t \in Tasks, TaskOK(t), coTask'[t] = coTask[t], coWallet' = coWallet,
         coHolder["user"] = t => coHolder'["user"] = t /\ coPlan' = coPlan
  PROVE  TaskOK(t)'
BY DEF TaskOK, Balance

\* A task whose copy a commit outdates: it did not hold the user, so it is not between
\* debit and commit.
LEMMA GetsOutdated ==
  ASSUME CheckoutTypeOK, NEW t \in Tasks, TaskOK(t), coTask'[t] = Outdated(t),
         coHolder["user"] # t
  PROVE  coTask'[t] \in Task \cup {NoTask} /\ TaskOK(t)'
<1>1. CASE coTask[t] = NoTask
  BY <1>1 DEF Outdated, TaskOK
<1>2. CASE coTask[t] # NoTask
  <2>1. coTask'[t] = [coTask[t] EXCEPT !.fresh = FALSE] /\ coTask[t] \in Task
    BY <1>2, ServedTask DEF Outdated
  <2>2. /\ coTask'[t] \in Task /\ coTask'[t].fresh = FALSE
        /\ coTask'[t].kind = coTask[t].kind /\ coTask'[t].pay = coTask[t].pay
        /\ coTask'[t].at = coTask[t].at
    BY <2>1 DEF Task
  <2>3. coTask[t].at \notin {"debited", "revoking"}
    BY <1>2 DEF TaskOK
  <2> QED BY <1>2, <2>2, <2>3 DEF TaskOK
<1> QED BY <1>1, <1>2

\* Locks are taken and released by one holder at a time; a lock of somebody else stays.
LEMMA LocksKept ==
  ASSUME CheckoutTypeOK, NEW who \in Tasks \cup {"sweep"},
         \/ Release(who)
         \/ \E rs \in SUBSET Rows : Take(rs, who) /\ ("user" \in rs => Free("user", who))
         \/ UNCHANGED coHolder
  PROVE  /\ coHolder' \in [Rows -> Tasks \cup {"nobody", "sweep"}]
         /\ \A t \in Tasks \ {who} : coHolder["user"] = t => coHolder'["user"] = t
<1>1. "user" \in Rows /\ coHolder \in [Rows -> Tasks \cup {"nobody", "sweep"}]
  BY DEF Rows, CheckoutTypeOK
<1>2. CASE Release(who)
  BY <1>1, <1>2 DEF Release
<1>3. ASSUME NEW rs \in SUBSET Rows, Take(rs, who), "user" \in rs => Free("user", who)
      PROVE  /\ coHolder' \in [Rows -> Tasks \cup {"nobody", "sweep"}]
             /\ \A t \in Tasks \ {who} : coHolder["user"] = t => coHolder'["user"] = t
  <2>1. coHolder' \in [Rows -> Tasks \cup {"nobody", "sweep"}]
    BY <1>1, <1>3 DEF Take
  <2>2. \A t \in Tasks \ {who} : coHolder["user"] = t => "user" \notin rs
    BY <1>3, CheckoutAssumption DEF Free
  <2> QED BY <1>1, <1>3, <2>1, <2>2 DEF Take
<1> QED BY <1>1, <1>2, <1>3

-----------------------------------------------------------------------------
\* The shop front and the clock leave tasks, money, plan and locks alone.
LEMMA FrontKeepsInv ==
  ASSUME CheckoutInv,
         \/ BuyOnline \/ GatewayChoice \/ PayAtGateway \/ StarsBuy \/ PreCheckout
         \/ TelegramCharges \/ OwnerSwitches \/ PlanRunsOut \/ RedisLockExpires
  PROVE  CheckoutInv'
<1>1. CheckoutTypeOK /\ TasksOK /\ ChargesOK /\ RefundSticks
  BY DEF CheckoutInv
<1>2. UNCHANGED <<coTask, coHolder, coWallet, coPlan, coSubs, coCredits, coBought, coLost, coRevoked,
                  coSweep, coStarted>>
  BY DEF BuyOnline, GatewayChoice, StartOnline, SendGatewayLink, PayAtGateway, StarsBuy,
     PreCheckout, TelegramCharges, OwnerSwitches, PlanRunsOut, RedisLockExpires, Fronts
<1>3. /\ coRow' \in [Payables -> Statuses]
      /\ \A c \in Charges : coRow'[c] = coRow[c]
  <2>1. CASE \E o \in Orders : coRow' = [coRow EXCEPT ![o] = "pending"]
    BY <1>1, <2>1, CheckoutAssumption DEF CheckoutTypeOK, Payables, Statuses
  <2>2. CASE UNCHANGED coRow
    BY <1>1, <2>2 DEF CheckoutTypeOK
  <2> QED BY <2>1, <2>2 DEF BuyOnline, GatewayChoice, StartOnline, SendGatewayLink, PayAtGateway,
             StarsBuy, PreCheckout, TelegramCharges, OwnerSwitches, PlanRunsOut, RedisLockExpires
<1>4. coPaid' \subseteq Payables /\ coStars' \in [Charges -> {"none", "offered", "allowed"}]
  BY <1>1 DEF BuyOnline, GatewayChoice, StartOnline, SendGatewayLink, PayAtGateway, StarsBuy,
     PreCheckout, TelegramCharges, OwnerSwitches, PlanRunsOut, RedisLockExpires, Fronts,
     CheckoutTypeOK, Payables
<1>5. coDue' \in BOOLEAN /\ coRedis' \in BOOLEAN
  <2>1. (coDue' = coDue \/ coDue' = TRUE) /\ (coRedis' = coRedis \/ coRedis' = FALSE)
    BY DEF BuyOnline, GatewayChoice, StartOnline, SendGatewayLink, PayAtGateway, StarsBuy,
       PreCheckout, TelegramCharges, OwnerSwitches, PlanRunsOut, RedisLockExpires, Fronts
  <2> QED BY <1>1, <2>1 DEF CheckoutTypeOK
<1>9. coShop' \subseteq Switches
  <2>1. coShop' = coShop \/ \E s \in Switches : coShop' = (coShop \ {s}) \cup ({s} \ coShop)
    BY DEF BuyOnline, GatewayChoice, StartOnline, SendGatewayLink, PayAtGateway, StarsBuy,
       PreCheckout, TelegramCharges, OwnerSwitches, PlanRunsOut, RedisLockExpires, Fronts
  <2> QED BY <1>1, <2>1 DEF CheckoutTypeOK
<1>10. coTroubles' \in 0..MaxTrouble
  <2>1. coTroubles' = coTroubles \/ Trouble
    BY DEF BuyOnline, GatewayChoice, StartOnline, SendGatewayLink, PayAtGateway, StarsBuy,
       PreCheckout, TelegramCharges, OwnerSwitches, PlanRunsOut, RedisLockExpires, Fronts
  <2> QED BY <1>1, <2>1, CheckoutAssumption DEF CheckoutTypeOK, Trouble
<1>6. CheckoutTypeOK'
  BY <1>1, <1>2, <1>3, <1>4, <1>5, <1>9, <1>10 DEF CheckoutTypeOK
<1>7. TasksOK'
  BY <1>1, <1>2, StandsStill DEF TasksOK
<1>8. ChargesOK' /\ RefundSticks'
  BY <1>1, <1>2, <1>3 DEF ChargesOK, RefundSticks
<1> QED BY <1>6, <1>7, <1>8 DEF CheckoutInv

\* A handler that starts holds nothing yet.
LEMMA ArrivalKeepsInv ==
  ASSUME CheckoutInv, PaymentCheck \/ SuccessfulPayment \/ BuyConfirm \/ PanelRefund
  PROVE  CheckoutInv'
<1>1. CheckoutTypeOK /\ TasksOK /\ ChargesOK /\ RefundSticks
  BY DEF CheckoutInv
<1>2. PICK kind \in {"verify", "stars", "wallet", "refund"}, p \in Payables \cup {"none"},
           seen \in BOOLEAN :
         /\ Arrive(kind, p, seen)
         /\ kind = "verify" => p \in Orders
         /\ kind = "stars" => p \in Charges
  BY <1>1 DEF PaymentCheck, SuccessfulPayment, BuyConfirm, PanelRefund, CheckoutTypeOK, Payables
<1> DEFINE new == [kind |-> kind, pay |-> p, at |-> "arrived", fresh |-> seen,
                   plan |-> IF seen THEN coPlan ELSE "unseen",
                   wallet |-> IF seen THEN coWallet ELSE 0,
                   row |-> IF p \in Payables THEN coRow[p] ELSE "none"]
<1>3. PICK t \in Tasks : coTask' = [coTask EXCEPT ![t] = new]
  BY <1>2 DEF Arrive
<1>4. /\ coStarted' \in 0..MaxTasks
      /\ UNCHANGED <<coRow, coPaid, coStars, coWallet, coPlan, coSubs, coDue, coRedis,
                     coShop, coSweep, coHolder, coCredits, coBought, coLost, coRevoked, coTroubles>>
  BY <1>1, <1>2, CheckoutAssumption DEF Arrive, CheckoutTypeOK
<1>5. /\ new \in Task /\ new.at = "arrived" /\ new.kind = kind /\ new.pay = p
      /\ new.fresh => new.plan # "unseen" /\ new.wallet = coWallet
  BY <1>1 DEF CheckoutTypeOK, Task, Statuses
<1> HIDE DEF new
<1>6. CheckoutTypeOK'
  BY <1>1, <1>3, <1>4, <1>5 DEF CheckoutTypeOK
<1>7. TasksOK'
  <2> SUFFICES ASSUME NEW s \in Tasks PROVE TaskOK(s)'
    BY DEF TasksOK
  <2>1. CASE s = t
    BY <1>1, <1>2, <1>3, <1>4, <1>5, <2>1 DEF TaskOK, CheckoutTypeOK
  <2>2. CASE s # t
    BY <1>1, <1>3, <1>4, <2>2, StandsStill DEF TasksOK, CheckoutTypeOK
  <2> QED BY <2>1, <2>2
<1>8. ChargesOK' /\ RefundSticks'
  BY <1>1, <1>4 DEF ChargesOK, RefundSticks
<1> QED BY <1>6, <1>7, <1>8 DEF CheckoutInv

-----------------------------------------------------------------------------
(* The steps of a task. *)

Ats == {"arrived", "asking", "inserting", "paid", "funded", "locked", "debited", "user",
        "revoking"}

\* A task that is over, or goes to a stage that needs no lock on the user.
LEMMA DoneTask ==
  ASSUME CheckoutTypeOK, NEW t \in Tasks, Done(t)
  PROVE  /\ coTask' \in [Tasks -> Task \cup {NoTask}]
         /\ \A s \in Tasks \ {t} : coTask'[s] = coTask[s]
         /\ TaskOK(t)'
BY DEF Done, CheckoutTypeOK, TaskOK

\* A handler that moves on without touching a row.
LEMMA GoingTask ==
  ASSUME CheckoutTypeOK, TasksOK, NEW t \in Tasks, coTask[t] # NoTask,
         NEW at \in Ats \ {"debited", "revoking"}, Goto(t, at), coWallet' = coWallet
  PROVE  /\ coTask' \in [Tasks -> Task \cup {NoTask}]
         /\ \A s \in Tasks \ {t} : coTask'[s] = coTask[s]
         /\ TaskOK(t)'
<1>1. coTask[t] \in Task
  BY ServedTask
<1>2. coTask' = [coTask EXCEPT ![t] = [coTask[t] EXCEPT !.at = at]]
  BY DEF Goto
<1> DEFINE task == [coTask[t] EXCEPT !.at = at]
<1>3. /\ task \in Task /\ task.at = at /\ task.kind = coTask[t].kind
      /\ task.pay = coTask[t].pay /\ task.plan = coTask[t].plan
      /\ task.fresh = coTask[t].fresh /\ task.wallet = coTask[t].wallet
  BY <1>1 DEF Task, Ats
<1>4. coTask' = [coTask EXCEPT ![t] = task]
  BY <1>2
<1> HIDE DEF task
<1>5. coTask' \in [Tasks -> Task \cup {NoTask}] /\ coTask'[t] = task
      /\ \A s \in Tasks \ {t} : coTask'[s] = coTask[s]
  BY <1>3, <1>4 DEF CheckoutTypeOK
<1> QED BY <1>3, <1>5 DEF TaskOK, TasksOK, Ats

\* A step of one task that moves no money and no plan.
LEMMA TaskStep ==
  ASSUME CheckoutInv, NEW t \in Tasks,
         UNCHANGED <<coWallet, coPlan, coSubs, coDue, coPaid, coStars, coShop, coCredits,
                     coBought, coLost, coRevoked, coStarted>>,
         \/ coRow' = coRow
         \/ \E p \in Payables \cup {"none"} : coRow' = [coRow EXCEPT ![p] = "rejected"],
         coRedis' \in BOOLEAN, coTroubles' \in 0..MaxTrouble,
         coSweep' \in {coSweep, NoSweepHere},
         \/ Release(t)
         \/ \E rs \in SUBSET Rows : Take(rs, t) /\ ("user" \in rs => Free("user", t))
         \/ UNCHANGED coHolder,
         coTask' \in [Tasks -> Task \cup {NoTask}],
         \A s \in Tasks \ {t} : coTask'[s] = coTask[s],
         TaskOK(t)'
  PROVE  CheckoutInv'
<1>1. CheckoutTypeOK /\ TasksOK /\ ChargesOK /\ RefundSticks
  BY DEF CheckoutInv
<1>2. /\ coHolder' \in [Rows -> Tasks \cup {"nobody", "sweep"}]
      /\ \A s \in Tasks \ {t} : coHolder["user"] = s => coHolder'["user"] = s
  BY <1>1, LocksKept
<1>3. /\ coRow' \in [Payables -> Statuses]
      /\ \A c \in Charges : coRow'[c] = coRow[c] \/ coRow'[c] # "none"
  BY <1>1 DEF CheckoutTypeOK, Payables, Statuses
<1>4. CheckoutTypeOK'
  BY <1>1, <1>2, <1>3 DEF CheckoutTypeOK
<1>5. TasksOK'
  <2> SUFFICES ASSUME NEW s \in Tasks, s # t PROVE TaskOK(s)'
    BY DEF TasksOK
  <2>1. coHolder["user"] = s => coHolder'["user"] = s
    BY <1>2
  <2> QED BY <1>1, <2>1, StandsStill DEF TasksOK
<1>6. ChargesOK' /\ RefundSticks'
  BY <1>1, <1>3 DEF ChargesOK, RefundSticks
<1> QED BY <1>4, <1>5, <1>6 DEF CheckoutInv

\* The requests that are turned away, wait, or give up (verify_and_apply,
\* apply_successful_payment, purchase), and the process that dies.
LEMMA TurnedAwayKeepsInv ==
  ASSUME CheckoutInv, NEW t \in Tasks,
         \/ VerifyOrder(t) \/ VerifyUnpaid(t) \/ VerifyMismatched(t)
         \/ StarsLookUp(t) \/ StarsDuplicate(t) \/ PurchaseLock(t) \/ PurchaseTurnedAway(t)
         \/ PurchaseInsufficient(t) \/ PurchaseFails(t) \/ ServerDies(t) \/ RefundLocks(t)
  PROVE  CheckoutInv'
<1>1. CheckoutTypeOK /\ TasksOK
  BY DEF CheckoutInv
<1>2. coTask[t] # NoTask
  BY IsServed DEF VerifyOrder, VerifyUnpaid, VerifyMismatched, StarsLookUp, StarsDuplicate,
     PurchaseLock, PurchaseTurnedAway, PurchaseInsufficient, PurchaseFails, ServerDies, RefundLocks
<1>3. coTask[t].pay \in Payables \cup {"none"}
  BY <1>1, <1>2, ServedTask
<1>4. UNCHANGED <<coWallet, coPlan, coSubs, coDue, coPaid, coStars, coShop, coCredits,
                  coBought, coLost, coRevoked, coStarted, coSweep>>
  BY DEF VerifyOrder, VerifyUnpaid, VerifyMismatched, StarsLookUp, StarsDuplicate, PurchaseLock,
     PurchaseTurnedAway, PurchaseInsufficient, PurchaseFails, ServerDies, RefundLocks, Moves
<1>5. \/ coRow' = coRow
      \/ \E p \in Payables \cup {"none"} : coRow' = [coRow EXCEPT ![p] = "rejected"]
  BY <1>3 DEF VerifyOrder, VerifyUnpaid, VerifyMismatched, StarsLookUp, StarsDuplicate,
     PurchaseLock, PurchaseTurnedAway, PurchaseInsufficient, PurchaseFails, ServerDies,
     RefundLocks, Moves
<1>6. coRedis' \in BOOLEAN
  <2>1. coRedis' = coRedis \/ coRedis' = TRUE \/ coRedis' = FALSE
    BY DEF VerifyOrder, VerifyUnpaid, VerifyMismatched, StarsLookUp, StarsDuplicate, PurchaseLock,
       PurchaseTurnedAway, PurchaseInsufficient, PurchaseFails, ServerDies, RefundLocks, Moves
  <2> QED BY <1>1, <2>1 DEF CheckoutTypeOK
<1>7. coTroubles' \in 0..MaxTrouble
  <2>1. coTroubles' = coTroubles \/ Trouble
    BY DEF VerifyOrder, VerifyUnpaid, VerifyMismatched, StarsLookUp, StarsDuplicate, PurchaseLock,
       PurchaseTurnedAway, PurchaseInsufficient, PurchaseFails, ServerDies, RefundLocks, Moves
  <2> QED BY <1>1, <2>1, CheckoutAssumption DEF CheckoutTypeOK, Trouble
<1>8. \/ Release(t)
      \/ \E rs \in SUBSET Rows : Take(rs, t) /\ ("user" \in rs => Free("user", t))
      \/ UNCHANGED coHolder
  <2>1. CASE Take({coTask[t].pay}, t) /\ coTask[t].pay \in Payables
    <3>1. {coTask[t].pay} \in SUBSET Rows /\ "user" \notin {coTask[t].pay}
      BY <2>1, CheckoutAssumption DEF Rows, Payables
    <3> QED BY <2>1, <3>1
  <2>2. CASE Take({coTask[t].pay}, t) /\ coTask[t].pay = "none"
    <3>1. UNCHANGED coHolder
      BY <1>1, <2>2, CheckoutAssumption DEF Take, Rows, Payables, CheckoutTypeOK
    <3> QED BY <3>1
  <2> QED BY <1>3, <2>1, <2>2 DEF VerifyOrder, VerifyUnpaid, VerifyMismatched, StarsLookUp,
             StarsDuplicate, PurchaseLock, PurchaseTurnedAway, PurchaseInsufficient, PurchaseFails,
             ServerDies, RefundLocks, Rollback
<1>9. Done(t) \/ \E at \in Ats \ {"debited", "revoking"} : Goto(t, at)
  BY DEF VerifyOrder, VerifyUnpaid, VerifyMismatched, StarsLookUp, StarsDuplicate, PurchaseLock,
     PurchaseTurnedAway, PurchaseInsufficient, PurchaseFails, ServerDies, RefundLocks, Ats
<1>10. /\ coTask' \in [Tasks -> Task \cup {NoTask}]
       /\ \A s \in Tasks \ {t} : coTask'[s] = coTask[s]
       /\ TaskOK(t)'
  BY <1>1, <1>2, <1>4, <1>9, DoneTask, GoingTask
<1> QED BY <1>4, <1>5, <1>6, <1>7, <1>8, <1>10, TaskStep

\* debit_nocommit and the refund's SELECT ... FOR UPDATE take the lock on the user.
LEMMA LockingKeepsInv ==
  ASSUME CheckoutInv, NEW t \in Tasks, PurchaseDebit(t) \/ RefundReadsUser(t)
  PROVE  CheckoutInv'
<1>1. CheckoutTypeOK /\ TasksOK
  BY DEF CheckoutInv
<1>2. coTask[t] # NoTask /\ coTask[t] \in Task
  BY <1>1, IsServed, ServedTask DEF PurchaseDebit, RefundReadsUser
<1>3. Moves /\ Take({"user"}, t) /\ Free("user", t)
  BY DEF PurchaseDebit, RefundReadsUser, LocksUser
<1>4. coHolder'["user"] = t /\ {"user"} \in SUBSET Rows
  BY <1>3 DEF Take, Rows
<1>5. PICK task \in Task :
         /\ coTask' = [coTask EXCEPT ![t] = task]
         /\ task.kind = coTask[t].kind /\ task.pay = coTask[t].pay
         /\ task.fresh = coTask[t].fresh /\ task.wallet = coTask[t].wallet
         /\ \/ task.at = "debited" /\ task.plan = coTask[t].plan /\ Balance(t) > 0
            \/ task.at = "revoking" /\ task.plan = coPlan
  <2>1. CASE PurchaseDebit(t)
    <3> DEFINE task == [coTask[t] EXCEPT !.at = "debited"]
    <3>1. /\ task \in Task /\ task.at = "debited" /\ task.kind = coTask[t].kind
          /\ task.pay = coTask[t].pay /\ task.plan = coTask[t].plan
          /\ task.fresh = coTask[t].fresh /\ task.wallet = coTask[t].wallet
      BY <1>2 DEF Task
    <3>2. coTask' = [coTask EXCEPT ![t] = task] /\ Balance(t) > 0
      BY <2>1 DEF PurchaseDebit, Goto
    <3> HIDE DEF task
    <3> QED BY <3>1, <3>2
  <2>2. CASE RefundReadsUser(t)
    <3> DEFINE task == [coTask[t] EXCEPT !.plan = coPlan, !.at = "revoking"]
    <3>1. /\ task \in Task /\ task.at = "revoking" /\ task.kind = coTask[t].kind
          /\ task.pay = coTask[t].pay /\ task.plan = coPlan
          /\ task.fresh = coTask[t].fresh /\ task.wallet = coTask[t].wallet
      BY <1>1, <1>2 DEF Task, CheckoutTypeOK
    <3>2. coTask' = [coTask EXCEPT ![t] = task]
      BY <2>2 DEF RefundReadsUser
    <3> HIDE DEF task
    <3> QED BY <3>1, <3>2
  <2> QED BY <2>1, <2>2
<1>6. /\ coTask' \in [Tasks -> Task \cup {NoTask}] /\ coTask'[t] = task
      /\ \A s \in Tasks \ {t} : coTask'[s] = coTask[s]
  BY <1>1, <1>5 DEF CheckoutTypeOK
<1>7. TaskOK(t)'
  <2>1. UNCHANGED <<coWallet, coPlan>>
    BY <1>3 DEF Moves
  <2>2. task.at = "debited" => Balance(t)' > 0
    BY <1>5, <1>6, <2>1 DEF Balance
  <2>3. coPlan # "unseen"
    BY <1>1 DEF CheckoutTypeOK
  <2> QED BY <1>1, <1>2, <1>4, <1>5, <1>6, <2>1, <2>2, <2>3 DEF TaskOK, TasksOK
<1>8. coRedis' \in BOOLEAN /\ coTroubles' \in 0..MaxTrouble
  BY <1>1, <1>3 DEF Moves, CheckoutTypeOK
<1> QED BY <1>3, <1>4, <1>6, <1>7, <1>8, TaskStep DEF Moves

\* The gateway's return page, the panel's recheck and the reconciler read the user after
\* the deposit.
LEMMA ReadingKeepsInv ==
  ASSUME CheckoutInv, NEW t \in Tasks, VerifyReadsUser(t) PROVE CheckoutInv'
<1>1. CheckoutTypeOK /\ TasksOK
  BY DEF CheckoutInv
<1>2. coTask[t] # NoTask /\ coTask[t] \in Task
  BY <1>1, IsServed, ServedTask DEF VerifyReadsUser
<1> DEFINE task == [coTask[t] EXCEPT !.at = "funded", !.plan = coPlan, !.wallet = coWallet,
                                     !.fresh = TRUE]
<1>3. /\ task \in Task /\ task.at = "funded" /\ task.kind = coTask[t].kind
      /\ task.pay = coTask[t].pay /\ task.plan # "unseen" /\ task.wallet = coWallet
  BY <1>1, <1>2 DEF Task, CheckoutTypeOK
<1>4. coTask' = [coTask EXCEPT ![t] = task] /\ Moves /\ UNCHANGED coHolder
  BY DEF VerifyReadsUser
<1> HIDE DEF task
<1>5. /\ coTask' \in [Tasks -> Task \cup {NoTask}] /\ coTask'[t] = task
      /\ \A s \in Tasks \ {t} : coTask'[s] = coTask[s]
  BY <1>1, <1>3, <1>4 DEF CheckoutTypeOK
<1>6. TaskOK(t)'
  BY <1>1, <1>2, <1>3, <1>4, <1>5 DEF TaskOK, TasksOK, Moves
<1>7. coRedis' \in BOOLEAN /\ coTroubles' \in 0..MaxTrouble
  BY <1>1, <1>4 DEF Moves, CheckoutTypeOK
<1> QED BY <1>4, <1>5, <1>6, <1>7, TaskStep DEF Moves

\* PostgreSQL aborts one of the two: a task that loses its lock is over, and the
\* refund that goes on keeps the user.
LEMMA DeadlockKeepsInv ==
  ASSUME CheckoutInv, NEW t \in Tasks, DeadlockBroken(t) PROVE CheckoutInv'
<1>1. CheckoutTypeOK /\ TasksOK
  BY DEF CheckoutInv
<1>2. UNCHANGED <<coRow, coPaid, coStars, coWallet, coPlan, coSubs, coDue, coRedis,
                  coShop, coCredits, coBought, coLost, coRevoked, coStarted, coTroubles>>
      /\ coHolder["user"] = t
  BY DEF DeadlockBroken, Deadlocked
<1>3. coRedis' \in BOOLEAN /\ coTroubles' \in 0..MaxTrouble
  BY <1>1, <1>2 DEF CheckoutTypeOK
<1>4. CASE Done(t) /\ Release(t) /\ UNCHANGED coSweep
  BY <1>1, <1>2, <1>3, <1>4, DoneTask, TaskStep
<1>5. CASE coSweep' = NoSweepHere /\ UNCHANGED coTask /\ Take({"subs"}, t)
  <2>1. {"subs"} \in SUBSET Rows /\ coHolder'["user"] = t
    BY <1>2, <1>5 DEF Take, Rows
  <2>2. coTask' \in [Tasks -> Task \cup {NoTask}] /\ \A s \in Tasks : coTask'[s] = coTask[s]
    BY <1>1, <1>5 DEF CheckoutTypeOK
  <2>3. TaskOK(t)'
    BY <1>1, <1>2, <2>1, <2>2, StandsStill DEF TasksOK
  <2>4. \E rs \in SUBSET Rows : Take(rs, t) /\ ("user" \in rs => Free("user", t))
    BY <1>5, <2>1
  <2> QED BY <1>2, <1>3, <1>5, <2>2, <2>3, <2>4, TaskStep
<1> QED BY <1>4, <1>5 DEF DeadlockBroken

\* A deposit waits for the lock on the user: nobody is between debit and commit, and
\* no refund has read the plan.  Only a charge without a row is deposited.
LEMMA DepositKeepsInv ==
  ASSUME CheckoutInv, NEW t \in Tasks, VerifyPaid(t) \/ StarsInsert(t)
  PROVE  CheckoutInv'
<1>1. CheckoutTypeOK /\ TasksOK /\ ChargesOK /\ RefundSticks
  BY DEF CheckoutInv
<1>2. /\ coTask[t] # NoTask /\ coTask[t] \in Task
      /\ Free("user", t) /\ Deposit(t)
  BY <1>1, IsServed, ServedTask DEF VerifyPaid, StarsInsert
<1> DEFINE p == coTask[t].pay
<1>3. p \in Charges => coRow[p] = "none"
  <2>1. CASE VerifyPaid(t)
    BY <1>1, <1>2, <2>1, CheckoutAssumption DEF VerifyPaid, Is, TasksOK, TaskOK
  <2>2. CASE StarsInsert(t)
    BY <2>2 DEF StarsInsert, Unique
  <2> QED BY <2>1, <2>2
<1> DEFINE task == IF coTask[t].plan = "unseen"
                   THEN [coTask[t] EXCEPT !.at = "paid"]
                   ELSE [coTask[t] EXCEPT !.at = "funded", !.wallet = coTask[t].wallet + 1,
                                          !.fresh = TRUE]
<1>4. /\ coTask' = [x \in Tasks |-> IF x = t THEN task ELSE Outdated(x)]
      /\ coWallet' = Balance(t) + 1 /\ coLost' = coLost + Overwritten(t)
  BY <1>2 DEF Deposit
<1>5. /\ task \in Task /\ task.at \in {"paid", "funded"} /\ task.kind = coTask[t].kind
      /\ task.pay = p /\ (task.fresh => task.plan # "unseen" /\ task.wallet = coWallet')
  <2>1. CASE coTask[t].plan = "unseen"
    <3>1. /\ task \in Task /\ task.at = "paid" /\ task.kind = coTask[t].kind
          /\ task.pay = p /\ task.fresh = coTask[t].fresh
      BY <1>2, <2>1 DEF Task
    <3>2. ~ coTask[t].fresh
      BY <1>1, <1>2, <2>1 DEF TasksOK, TaskOK
    <3> QED BY <3>1, <3>2
  <2>2. CASE coTask[t].plan # "unseen"
    <3>1. coTask[t].wallet \in Nat /\ coWallet' = coTask[t].wallet + 1
      BY <1>1, <1>2, <1>4, <2>2, ServedTask DEF Balance
    <3>2. coTask[t].wallet + 1 \in Nat
      BY <3>1
    <3>3. /\ task \in Task /\ task.at = "funded" /\ task.kind = coTask[t].kind
          /\ task.pay = p /\ task.plan = coTask[t].plan
          /\ task.wallet = coTask[t].wallet + 1
      BY <1>2, <2>2, <3>2 DEF Task
    <3> QED BY <2>2, <3>1, <3>3
  <2> QED BY <2>1, <2>2
<1> HIDE DEF task
<1>6. coHolder["user"] \notin Tasks \ {t}
  BY <1>2, CheckoutAssumption DEF Free
<1>7. /\ coTask' \in [Tasks -> Task \cup {NoTask}] /\ coTask'[t] = task
      /\ \A s \in Tasks \ {t} : TaskOK(s)'
  <2>1. ASSUME NEW s \in Tasks, s # t PROVE coTask'[s] \in Task \cup {NoTask} /\ TaskOK(s)'
    BY <1>1, <1>4, <1>6, <2>1, GetsOutdated DEF TasksOK
  <2> QED BY <1>4, <1>5, <2>1
<1>8. /\ coRow' = [coRow EXCEPT ![p] = "approved"]
      /\ coCredits' = [coCredits EXCEPT ![p] = coCredits[p] + 1] /\ Release(t)
      /\ UNCHANGED <<coPaid, coStars, coPlan, coSubs, coDue, coRedis, coShop, coSweep,
                     coBought, coRevoked, coStarted, coTroubles>>
  BY <1>2 DEF Deposit
<1>9. /\ coRow' \in [Payables -> Statuses] /\ coWallet' \in Nat /\ coLost' \in Int
      /\ coCredits' \in [Payables -> Nat]
  <2>0. coWallet' \in Nat /\ coLost' \in Int
    <3>1. Balance(t) \in Nat /\ Overwritten(t) \in Int
      BY <1>1, <1>2, ServedTask DEF Overwritten, CheckoutTypeOK
    <3> QED BY <1>1, <1>4, <3>1 DEF CheckoutTypeOK
  <2>1. coRow' \in [Payables -> Statuses]
    <3>1. coRow \in [Payables -> Statuses] /\ "approved" \in Statuses
      BY <1>1 DEF CheckoutTypeOK, Statuses
    <3> HIDE DEF p
    <3> QED BY <1>8, <3>1
  <2>2. CASE p \in Payables
    <3>1. coCredits[p] + 1 \in Nat
      BY <1>1, <2>2 DEF CheckoutTypeOK
    <3> QED BY <1>1, <1>8, <2>0, <2>1, <3>1 DEF CheckoutTypeOK
  <2>3. CASE p \notin Payables
    <3>1. coCredits' = coCredits
      BY <1>1, <1>8, <2>3 DEF CheckoutTypeOK
    <3> QED BY <1>1, <2>0, <2>1, <3>1 DEF CheckoutTypeOK
  <2> QED BY <2>2, <2>3
<1>10. /\ coHolder' \in [Rows -> Tasks \cup {"nobody", "sweep"}]
       /\ \A s \in Tasks \ {t} : coHolder["user"] = s => coHolder'["user"] = s
  BY <1>1, <1>8, LocksKept
<1>11. CheckoutTypeOK'
  BY <1>1, <1>7, <1>8, <1>9, <1>10 DEF CheckoutTypeOK
<1>12. TasksOK'
  <2>1. TaskOK(t)'
    BY <1>1, <1>2, <1>5, <1>7 DEF TaskOK, TasksOK
  <2> QED BY <1>7, <2>1 DEF TasksOK
<1>13. ChargesOK'
  <2> SUFFICES ASSUME NEW c \in Charges
               PROVE  coCredits'[c] <= 1 /\ (coRow'[c] = "none" => coCredits'[c] = 0)
    BY DEF ChargesOK
  <2>1. c \in Payables /\ coCredits[c] \in Nat
    BY <1>1 DEF Payables, CheckoutTypeOK
  <2>2. CASE c = p
    <3>1. coCredits[c] = 0
      BY <1>1, <1>3, <2>2 DEF ChargesOK
    <3>2. coCredits'[c] = 1 /\ coRow'[c] = "approved"
      BY <1>1, <1>8, <2>1, <2>2, <3>1 DEF CheckoutTypeOK
    <3> QED BY <3>2
  <2>3. CASE c # p
    BY <1>1, <1>8, <2>1, <2>3 DEF ChargesOK, CheckoutTypeOK
  <2> QED BY <2>2, <2>3
<1>14. RefundSticks'
  BY <1>1, <1>8 DEF RefundSticks
<1> QED BY <1>11, <1>12, <1>13, <1>14 DEF CheckoutInv

\* The purchase commits with the lock on the user: the balance it had read covers the
\* price, and no refund has read the plan.
LEMMA PurchaseKeepsInv ==
  ASSUME CheckoutInv, NEW t \in Tasks, PurchaseCommit(t) PROVE CheckoutInv'
<1>1. CheckoutTypeOK /\ TasksOK /\ ChargesOK
  BY DEF CheckoutInv
<1>2. coHolder["user"] = t /\ Balance(t) > 0 /\ Balance(t) \in Nat /\ Overwritten(t) \in Int
  BY <1>1, ServedTask DEF PurchaseCommit, TasksOK, TaskOK, Overwritten, CheckoutTypeOK
<1>3. /\ coWallet' = Balance(t) - 1 /\ coBought' = coBought + 1 /\ coSubs' = coSubs + 1
      /\ coLost' = coLost + Overwritten(t)
      /\ coPlan' \in {coPlan, "plus"} /\ coDue' = FALSE /\ coRevoked' = FALSE
      /\ coTask' = [x \in Tasks |-> IF x = t THEN NoTask ELSE Outdated(x)] /\ Release(t)
      /\ UNCHANGED <<coRow, coPaid, coStars, coRedis, coShop, coSweep, coCredits, coStarted,
                     coTroubles>>
  BY DEF PurchaseCommit
<1>4. coTask' \in [Tasks -> Task \cup {NoTask}] /\ TasksOK'
  <2>1. coTask'[t] = NoTask /\ TaskOK(t)'
    BY <1>3 DEF TaskOK
  <2>2. ASSUME NEW s \in Tasks, s # t PROVE coTask'[s] \in Task \cup {NoTask} /\ TaskOK(s)'
    BY <1>1, <1>2, <1>3, <2>2, GetsOutdated DEF TasksOK
  <2> QED BY <1>3, <2>1, <2>2 DEF TasksOK
<1>5. coHolder' \in [Rows -> Tasks \cup {"nobody", "sweep"}]
  BY <1>1, <1>3, LocksKept
<1>6. /\ coWallet' \in Nat /\ coBought' \in Nat /\ coSubs' \in Nat /\ coLost' \in Int
      /\ coPlan' \in {"free", "plus"}
  BY <1>1, <1>2, <1>3 DEF CheckoutTypeOK
<1>7. CheckoutTypeOK'
  BY <1>1, <1>3, <1>4, <1>5, <1>6 DEF CheckoutTypeOK
<1>8. ChargesOK' /\ RefundSticks'
  BY <1>1, <1>3 DEF ChargesOK, RefundSticks
<1> QED BY <1>4, <1>7, <1>8 DEF CheckoutInv

\* The refund commits with the lock on the user: the plan is still the one it read, and
\* it is free afterwards.
LEMMA RefundKeepsInv ==
  ASSUME CheckoutInv, NEW t \in Tasks, RefundCommit(t) PROVE CheckoutInv'
<1>1. CheckoutTypeOK /\ TasksOK /\ ChargesOK
  BY DEF CheckoutInv
<1>2. coTask[t] # NoTask /\ coTask[t].at = "revoking" /\ coTask[t] \in Task
  BY <1>1, IsServed, ServedTask DEF RefundCommit, Is
<1>3. coHolder["user"] = t /\ coTask[t].plan = coPlan
  BY <1>1, <1>2 DEF TasksOK, TaskOK
<1>4. /\ coRow' = [coRow EXCEPT ![coTask[t].pay] = "refunded"] /\ coRevoked' = TRUE
      /\ Done(t) /\ Release(t)
      /\ UNCHANGED <<coPaid, coStars, coWallet, coRedis, coShop, coSweep, coCredits, coBought, coLost,
                     coStarted, coTroubles>>
  BY DEF RefundCommit
<1>5. coPlan' = "free" /\ coSubs' \in Nat /\ coDue' \in BOOLEAN
  <2>1. coPlan \in {"free", "plus"} /\ coSubs \in Nat /\ coDue \in BOOLEAN
    BY <1>1 DEF CheckoutTypeOK
  <2>2. CASE coTask[t].plan = "plus"
    <3>1. coPlan' = "free" /\ coSubs' = 0 /\ coDue' = FALSE
      BY <2>2 DEF RefundCommit
    <3> QED BY <3>1
  <2>3. CASE coTask[t].plan # "plus"
    <3>1. UNCHANGED <<coPlan, coSubs, coDue>>
      BY <2>3 DEF RefundCommit
    <3> QED BY <1>3, <2>1, <2>3, <3>1
  <2> QED BY <2>2, <2>3
<1>6. /\ coTask' \in [Tasks -> Task \cup {NoTask}]
      /\ \A s \in Tasks \ {t} : coTask'[s] = coTask[s]
      /\ TaskOK(t)'
  BY <1>1, <1>4, DoneTask
<1>7. coHolder' \in [Rows -> Tasks \cup {"nobody", "sweep"}]
  BY <1>1, <1>4, LocksKept
<1>8. /\ coRow' \in [Payables -> Statuses]
      /\ \A c \in Charges : coRow'[c] = coRow[c] \/ coRow'[c] # "none"
  BY <1>1, <1>4 DEF CheckoutTypeOK, Payables, Statuses
<1>9. CheckoutTypeOK'
  BY <1>1, <1>4, <1>5, <1>6, <1>7, <1>8 DEF CheckoutTypeOK
<1>10. TasksOK'
  <2> SUFFICES ASSUME NEW s \in Tasks, s # t PROVE TaskOK(s)'
    BY <1>6 DEF TasksOK
  <2>1. TaskOK(s) /\ coTask'[s] = coTask[s] /\ coWallet' = coWallet /\ coHolder["user"] # s
    BY <1>1, <1>3, <1>4, <1>6 DEF TasksOK
  <2> QED BY <2>1, StandsStill
<1>11. ChargesOK' /\ RefundSticks'
  BY <1>1, <1>4, <1>5, <1>8 DEF ChargesOK, RefundSticks
<1> QED BY <1>9, <1>10, <1>11 DEF CheckoutInv

\* The sweep waits for the lock on the user before it commits.
LEMMA SweepKeepsInv == ASSUME CheckoutInv, SweepStep PROVE CheckoutInv'
<1>1. CheckoutTypeOK /\ TasksOK /\ ChargesOK /\ RefundSticks
  BY DEF CheckoutInv
<1>2. OnlySweep
  BY DEF SweepStep, SweepReads, SweepMarks, SweepCommits
<1>3. coPlan' \in {coPlan, "free"} /\ (coPlan' # coPlan => Free("user", "sweep"))
  BY DEF SweepStep, SweepReads, SweepMarks, SweepCommits
<1>4. \/ Release("sweep")
      \/ \E rs \in SUBSET Rows : Take(rs, "sweep") /\ ("user" \in rs => Free("user", "sweep"))
      \/ UNCHANGED coHolder
  <2>1. {"subs"} \in SUBSET Rows /\ {} \in SUBSET Rows
    BY DEF Rows
  <2>2. CASE SweepMarks
    <3>1. Take({"subs"}, "sweep") \/ Take({}, "sweep")
      BY <2>2 DEF SweepMarks
    <3> QED BY <2>1, <3>1
  <2> QED BY <2>2 DEF SweepStep, SweepReads, SweepCommits
<1>5. /\ coHolder' \in [Rows -> Tasks \cup {"nobody", "sweep"}]
      /\ \A s \in Tasks : coHolder["user"] = s => coHolder'["user"] = s
  BY <1>1, <1>4, LocksKept, CheckoutAssumption
<1>6. coDue' \in BOOLEAN /\ coSubs' \in Nat
      /\ coSweep' \in [at : {"read"}] \cup [at : {"marked"}, seen : Nat] \cup {NoSweepHere}
  <2>1. coDue \in BOOLEAN /\ coSubs \in Nat
    BY <1>1 DEF CheckoutTypeOK
  <2>2. CASE SweepReads
    BY <2>1, <2>2 DEF SweepReads
  <2>3. CASE SweepMarks
    <3>1. coSweep' = [at |-> "marked", seen |-> coSubs] /\ UNCHANGED <<coDue, coSubs>>
      BY <2>3 DEF SweepMarks
    <3> QED BY <2>1, <3>1
  <2>4. CASE SweepCommits
    <3>1. coSweep.at = "marked" /\ coSweep.seen \in Nat
      BY <1>1, <2>4 DEF SweepCommits, CheckoutTypeOK, NoSweepHere
    <3>2. coSubs' \in Nat
      BY <2>1, <2>4, <3>1 DEF SweepCommits
    <3>3. coDue' = FALSE /\ coSweep' = NoSweepHere
      BY <2>4 DEF SweepCommits
    <3> QED BY <3>2, <3>3
  <2> QED BY <2>2, <2>3, <2>4 DEF SweepStep
<1>7. CheckoutTypeOK'
  BY <1>1, <1>2, <1>3, <1>5, <1>6 DEF CheckoutTypeOK, OnlySweep
<1>8. TasksOK'
  <2> SUFFICES ASSUME NEW s \in Tasks PROVE TaskOK(s)'
    BY DEF TasksOK
  <2>1. coHolder["user"] = s => coHolder'["user"] = s /\ coPlan' = coPlan
    BY <1>3, <1>5, CheckoutAssumption DEF Free
  <2> QED BY <1>1, <1>2, <2>1, StandsStill DEF TasksOK, OnlySweep
<1>9. ChargesOK' /\ RefundSticks'
  BY <1>1, <1>2, <1>3 DEF ChargesOK, RefundSticks, OnlySweep
<1> QED BY <1>7, <1>8, <1>9 DEF CheckoutInv

-----------------------------------------------------------------------------
\* It holds at first and is kept by every step.
LEMMA CheckoutInvariant == CheckoutSpec => []CheckoutInv
<1>1. CheckoutInit => CheckoutInv
  <2> SUFFICES ASSUME CheckoutInit PROVE CheckoutInv
    OBVIOUS
  <2>1. CheckoutTypeOK
    <3>1. /\ coRow \in [Payables -> Statuses] /\ coCredits \in [Payables -> Nat]
          /\ coStars \in [Charges -> {"none", "offered", "allowed"}]
          /\ coHolder \in [Rows -> Tasks \cup {"nobody", "sweep"}]
          /\ coTask \in [Tasks -> Task \cup {NoTask}]
      BY DEF CheckoutInit, Statuses
    <3>2. {coDue, coRedis, coRevoked} \subseteq BOOLEAN
      BY DEF CheckoutInit
    <3>3. coStarted \in 0..MaxTasks /\ coTroubles \in 0..MaxTrouble
      BY CheckoutAssumption DEF CheckoutInit
    <3> QED BY <3>1, <3>2, <3>3 DEF CheckoutInit, CheckoutTypeOK
  <2>2. TasksOK /\ ChargesOK /\ RefundSticks
    BY DEF CheckoutInit, TasksOK, TaskOK, ChargesOK, RefundSticks, Payables
  <2> QED BY <2>1, <2>2 DEF CheckoutInv
<1>2. CheckoutInv /\ [CheckoutNext]_coVars => CheckoutInv'
  <2> SUFFICES ASSUME CheckoutInv, [CheckoutNext]_coVars PROVE CheckoutInv'
    OBVIOUS
  <2>1. CASE UNCHANGED coVars
    BY <2>1 DEF coVars, CheckoutInv, CheckoutTypeOK, TasksOK, TaskOK, Balance, ChargesOK,
       RefundSticks
  <2>2. ASSUME NEW t \in Tasks, Advance(t) \/ PurchaseFails(t) \/ ServerDies(t)
        PROVE  CheckoutInv'
    BY <2>2, TurnedAwayKeepsInv, LockingKeepsInv, ReadingKeepsInv, DeadlockKeepsInv, DepositKeepsInv,
       PurchaseKeepsInv, RefundKeepsInv DEF Advance
  <2> QED BY <2>1, <2>2, FrontKeepsInv, ArrivalKeepsInv, SweepKeepsInv DEF CheckoutNext
<1> QED BY <1>1, <1>2, PTL DEF CheckoutSpec

\* Types; the balance in particular is a number: however outdated the copy of the user a
\* deposit or a purchase computes it from, none of them writes a negative one
\* (WalletService._apply).
THEOREM CheckoutTypeCorrect == CheckoutSpec => []CheckoutTypeOK
<1>1. CheckoutInv => CheckoutTypeOK
  BY DEF CheckoutInv
<1> QED BY <1>1, CheckoutInvariant, PTL

\* Telegram may repeat a successful_payment as often as it likes
\* (apply_successful_payment): a charge is deposited once.
THEOREM OneDepositPerChargeEver == CheckoutSpec => []OneDepositPerCharge
<1>1. CheckoutInv => OneDepositPerCharge
  BY DEF CheckoutInv, ChargesOK, OneDepositPerCharge
<1> QED BY <1>1, CheckoutInvariant, PTL

\* After the refund of a plan order the user stays off the plan until a later purchase
\* (RefundService.refund, purchase, process_expiry_sweep).
THEOREM RefundAlwaysSticks == CheckoutSpec => []RefundSticks
<1>1. CheckoutInv => RefundSticks
  BY DEF CheckoutInv
<1> QED BY <1>1, CheckoutInvariant, PTL

-----------------------------------------------------------------------------
(* The money of the deposits. *)

\* Every step but a deposit and a committed purchase leaves the money alone.
LEMMA OthersMoveNoMoney ==
  ASSUME \/ BuyOnline \/ GatewayChoice \/ PayAtGateway \/ StarsBuy \/ PreCheckout
         \/ TelegramCharges \/ OwnerSwitches \/ PlanRunsOut \/ RedisLockExpires
         \/ PaymentCheck \/ SuccessfulPayment \/ BuyConfirm \/ PanelRefund \/ SweepStep
         \/ \E t \in Tasks :
              \/ VerifyOrder(t) \/ VerifyUnpaid(t) \/ VerifyMismatched(t)
              \/ StarsLookUp(t) \/ StarsDuplicate(t) \/ PurchaseLock(t) \/ PurchaseTurnedAway(t)
              \/ PurchaseDebit(t) \/ PurchaseInsufficient(t) \/ PurchaseFails(t)
              \/ VerifyReadsUser(t) \/ RefundLocks(t) \/ RefundReadsUser(t) \/ RefundCommit(t) \/ DeadlockBroken(t)
              \/ ServerDies(t)
  PROVE  UNCHANGED <<coWallet, coBought, coLost, coCredits>>
BY DEF BuyOnline, GatewayChoice, StartOnline, SendGatewayLink, PayAtGateway, StarsBuy, PreCheckout,
   TelegramCharges, OwnerSwitches, PlanRunsOut, RedisLockExpires, Fronts, PaymentCheck,
   SuccessfulPayment, BuyConfirm, PanelRefund, Arrive, SweepStep, SweepReads, SweepMarks,
   SweepCommits, OnlySweep, VerifyOrder, VerifyUnpaid, VerifyMismatched, StarsLookUp,
   StarsDuplicate, PurchaseLock, PurchaseTurnedAway, PurchaseDebit, PurchaseInsufficient,
   PurchaseFails, VerifyReadsUser, RefundLocks, RefundReadsUser, RefundCommit, DeadlockBroken, ServerDies, Moves

\* The property in terms of Total, before and after a step.
LEMMA DepositsTotal ==
  /\ DepositsAreKept <=> coWallet + coBought + coLost = Total(coCredits, Payables)
  /\ DepositsAreKept' <=> coWallet' + coBought' + coLost' = Total(coCredits', Payables)
<1>1. DepositsAreKept <=> coWallet + coBought + coLost = Total(coCredits, Payables)
  BY DEF DepositsAreKept, Total
<1>2. DepositsAreKept' <=> coWallet' + coBought' + coLost' = Total(coCredits', Payables)
  BY DEF DepositsAreKept, Total, MapThenSumSet, MapThenFoldSet
<1> QED BY <1>1, <1>2

\* What a balance is computed from, and what that overwrites, make the committed balance.
LEMMA BalanceAndLoss ==
  ASSUME CheckoutInv, NEW t \in Tasks, coTask[t] # NoTask
  PROVE  Balance(t) \in Nat /\ Overwritten(t) \in Int /\ Balance(t) + Overwritten(t) = coWallet
<1>1. CheckoutTypeOK /\ coWallet \in Nat /\ Balance(t) \in Nat
  BY ServedTask DEF CheckoutInv, CheckoutTypeOK
<1>2. CASE coTask[t].fresh
  <2>1. Balance(t) = coWallet
    BY <1>2 DEF CheckoutInv, TasksOK, TaskOK, Balance
  <2>2. Overwritten(t) = 0
    BY <1>2 DEF Overwritten
  <2> QED BY <1>1, <2>1, <2>2
<1>3. CASE ~ coTask[t].fresh
  <2>1. Overwritten(t) = coWallet - Balance(t)
    BY <1>3 DEF Overwritten
  <2> QED BY <1>1, <2>1
<1> QED BY <1>2, <1>3

\* A deposit is of a payment: it puts one price into the wallet and into the sum, and
\* counts what it overwrites.
LEMMA DepositIsKept ==
  ASSUME CheckoutInv, DepositsAreKept, NEW t \in Tasks, VerifyPaid(t) \/ StarsInsert(t)
  PROVE  DepositsAreKept'
<1>1. CheckoutTypeOK /\ TasksOK /\ Deposit(t)
  BY DEF CheckoutInv, VerifyPaid, StarsInsert
<1> DEFINE p == coTask[t].pay
<1>2. p \in Payables /\ coTask[t] # NoTask
  BY <1>1, IsServed DEF VerifyPaid, StarsInsert, Is, TasksOK, TaskOK, Payables
<1>3. /\ coCredits \in [Payables -> Nat] /\ coCredits[p] \in Nat
      /\ coWallet \in Nat /\ coBought \in Nat /\ coLost \in Int
  BY <1>1, <1>2 DEF CheckoutTypeOK
<1>4. /\ coCredits' = [coCredits EXCEPT ![p] = coCredits[p] + 1]
      /\ coWallet' = Balance(t) + 1 /\ coBought' = coBought
      /\ coLost' = coLost + Overwritten(t)
  BY <1>1 DEF Deposit
<1>9. /\ Balance(t) \in Nat /\ Overwritten(t) \in Int
      /\ Balance(t) + Overwritten(t) = coWallet
  BY <1>2, BalanceAndLoss
<1> HIDE DEF p
<1>5. /\ coCredits' \in [Payables -> Nat] /\ coCredits'[p] = coCredits[p] + 1
      /\ \A q \in Payables \ {p} : coCredits'[q] = coCredits[q]
  BY <1>2, <1>3, <1>4
<1>6. IsFiniteSet(Payables)
  BY PaymentsAreFinite, FS_Union DEF Payables
<1>7. /\ Total(coCredits, Payables) \in Nat
      /\ Total(coCredits', Payables) = Total(coCredits, Payables) + 1
  BY <1>2, <1>3, <1>5, <1>6, TotalGrows
<1>8. coWallet' + coBought' + coLost' = Total(coCredits', Payables)
  BY <1>3, <1>4, <1>7, <1>9, DepositsTotal
<1> QED BY <1>8, DepositsTotal

\* A committed purchase moves one price from the wallet to what was bought, and counts what
\* it overwrites.
LEMMA PurchaseKeepsDeposits ==
  ASSUME CheckoutInv, DepositsAreKept, NEW t \in Tasks, PurchaseCommit(t)
  PROVE  DepositsAreKept'
<1>1. /\ coWallet' = Balance(t) - 1 /\ coBought' = coBought + 1 /\ coCredits' = coCredits
      /\ coLost' = coLost + Overwritten(t) /\ coTask[t] # NoTask
  BY DEF PurchaseCommit
<1>2. /\ Balance(t) \in Nat /\ Overwritten(t) \in Int
      /\ Balance(t) + Overwritten(t) = coWallet
  BY <1>1, BalanceAndLoss
<1>3. coWallet' + coBought' + coLost' = coWallet + coBought + coLost
  BY <1>1, <1>2 DEF CheckoutInv, CheckoutTypeOK
<1> QED BY <1>1, <1>3, DepositsTotal

\* Whatever fails, is refused or is repeated after the deposit of a plan order: its money
\* is in the wallet or was spent on a committed purchase (verify_and_apply,
\* apply_successful_payment, purchase), unless a balance was written from a copy of the
\* user that another task's commit had outdated, and then exactly the difference is gone.
THEOREM DepositsAlwaysKept == CheckoutSpec => []DepositsAreKept
<1>1. CheckoutInit => DepositsAreKept
  <2> SUFFICES ASSUME CheckoutInit PROVE DepositsAreKept
    OBVIOUS
  <2>1. IsFiniteSet(Payables)
    BY PaymentsAreFinite, FS_Union DEF Payables
  <2>2. coCredits \in [Payables -> Nat] /\ \A p \in Payables : coCredits[p] = 0
    BY DEF CheckoutInit
  <2>3. Total(coCredits, Payables) = 0
    BY <2>1, <2>2, TotalZero
  <2> QED BY <2>3, DepositsTotal DEF CheckoutInit
<1>2. CheckoutInv /\ DepositsAreKept /\ [CheckoutNext]_coVars => DepositsAreKept'
  <2> SUFFICES ASSUME CheckoutInv, DepositsAreKept, [CheckoutNext]_coVars PROVE DepositsAreKept'
    OBVIOUS
  <2>1. CASE UNCHANGED <<coWallet, coBought, coLost, coCredits>>
    BY <2>1, DepositsTotal
  <2>2. ASSUME NEW t \in Tasks, Advance(t) \/ PurchaseFails(t) \/ ServerDies(t)
        PROVE  DepositsAreKept'
    BY <2>1, <2>2, OthersMoveNoMoney, DepositIsKept, PurchaseKeepsDeposits DEF Advance
  <2>3. CASE UNCHANGED coVars
    BY <2>1, <2>3 DEF coVars
  <2> QED BY <2>1, <2>2, <2>3, OthersMoveNoMoney DEF CheckoutNext
<1> QED BY <1>1, <1>2, CheckoutInvariant, PTL DEF CheckoutSpec
=============================================================================
