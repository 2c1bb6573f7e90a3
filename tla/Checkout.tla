------------------------------ MODULE Checkout ------------------------------
(***************************************************************************)
(* Plan orders: a payment whose intent is "plan:<key>".  A gateway order   *)
(* (GatewayService.verify_and_apply) or a Telegram Stars charge            *)
(* (StarsService.apply_successful_payment) first commits a deposit and     *)
(* then, in a second transaction, buys the plan from the wallet.  Against  *)
(* them: a purchase straight from the wallet, the panel's refund of such   *)
(* an order, and the worker's expiry sweep.  One user and one plan whose   *)
(* price is one unit of money; what a top-up order does is in Payments.    *)
(* A bot update has loaded the user before its handler runs: the balance   *)
(* it writes and the plan it compares come from that copy, although the    *)
(* row is locked by then (WalletService._apply).                           *)
(***************************************************************************)
EXTENDS Integers, FiniteSets, FiniteSetsExt

CONSTANTS Orders,     \* rows of payments that a gateway order may take
          Charges,    \* telegram_payment_charge_id values
          Tasks,      \* bot updates and web requests served at the same time
          MaxTasks,   \* bound: tasks that are ever started
          MaxTrouble  \* bound: crashes, failed commits, changes of the shop

\* Payments and tasks are none of the names given below to the other rows and lock holders.
ASSUME CheckoutAssumption ==
  /\ Orders \cap Charges = {}
  /\ (Orders \cup Charges) \cap {"none", "user", "subs"} = {}
  /\ Tasks \cap {"nobody", "sweep"} = {}
  /\ MaxTasks \in Nat /\ MaxTrouble \in Nat

\* The payments there will ever be can be added up.
ASSUME PaymentsAreFinite == IsFiniteSet(Orders) /\ IsFiniteSet(Charges)

VARIABLES coRow,      \* [Orders \cup Charges -> payments.status, or "none"]
          coPaid,     \* what the gateway or Telegram took the user's money for
          coStars,    \* [Charges -> how far the invoice of the charge went]
          coWallet,   \* users.wallet_balance, in prices of the plan
          coPlan,     \* users.plan: "free" or "plus"
          coSubs,     \* number of active subscriptions rows
          coDue,      \* users.plan_expires_at is in the past
          coRedis,    \* the purchase lock of (user, plan) is set
          coShop,     \* what the owner and the licence switch on
          coTask,     \* [Tasks -> the task being served]
          coSweep,    \* the worker's expiry sweep
          coHolder,   \* [row -> who holds its lock]
          coCredits,  \* history: [payment -> deposits committed for it]
          coBought,   \* history: purchases committed
          coLost,     \* history: what writes from outdated copies of the user
                      \* overwrote (negative: brought back)
          coRevoked,  \* history: the last of refund and purchase was a refund
          coStarted, coTroubles  \* spent bounds

coVars == <<coRow, coPaid, coStars, coWallet, coPlan, coSubs, coDue, coRedis,
            coShop, coTask, coSweep, coHolder, coCredits, coBought, coLost, coRevoked,
            coStarted, coTroubles>>

Payables == Orders \cup Charges
Statuses == {"none", "pending", "approved", "rejected", "refunded"}
Switches == {"plan", "stars", "gateway"}
Rows == Payables \cup {"user", "subs"}
NoTask == [kind |-> "none"]
NoSweepHere == [at |-> "idle"]

\* row is the status the task's session loaded.  plan and wallet are its copy of
\* the user, "unseen" before it loads one; fresh: no other session has committed
\* a balance since.
Task == [kind : {"verify", "stars", "wallet", "refund"},
         pay : Payables \cup {"none"}, row : Statuses,
         plan : {"free", "plus", "unseen"}, wallet : Nat, fresh : BOOLEAN,
         at : {"arrived", "asking", "inserting", "paid", "funded", "locked",
               "debited", "user", "revoking"}]

CheckoutTypeOK ==
  /\ coRow \in [Payables -> Statuses]
  /\ coPaid \subseteq Payables /\ coStars \in [Charges -> {"none", "offered", "allowed"}]
  /\ coWallet \in Nat /\ coSubs \in Nat /\ coBought \in Nat
  /\ coLost \in Int
  /\ coPlan \in {"free", "plus"}
  /\ {coDue, coRedis, coRevoked} \subseteq BOOLEAN
  /\ coShop \subseteq Switches
  /\ coTask \in [Tasks -> Task \cup {NoTask}]
  /\ coSweep \in [at : {"read"}] \cup [at : {"marked"}, seen : Nat] \cup {NoSweepHere}
  /\ coHolder \in [Rows -> Tasks \cup {"nobody", "sweep"}]
  /\ coCredits \in [Payables -> Nat]
  /\ coStarted \in 0..MaxTasks /\ coTroubles \in 0..MaxTrouble

CheckoutInit ==
  /\ coRow = [p \in Payables |-> "none"]
  /\ coPaid = {} /\ coStars = [c \in Charges |-> "none"]
  /\ coWallet = 0 /\ coSubs = 0 /\ coBought = 0 /\ coLost = 0
  /\ coPlan = "free"
  /\ coDue = FALSE /\ coRedis = FALSE /\ coRevoked = FALSE
  /\ coShop = Switches
  /\ coTask = [t \in Tasks |-> NoTask]
  /\ coSweep = NoSweepHere
  /\ coHolder = [r \in Rows |-> "nobody"]
  /\ coCredits = [p \in Payables |-> 0]
  /\ coStarted = 0 /\ coTroubles = 0

-----------------------------------------------------------------------------
(* Row locks: SELECT FOR UPDATE and UPDATE take one until the transaction  *)
(* ends.                                                                   *)

Free(r, who) == coHolder[r] \in {"nobody", who}
Take(rs, who) == coHolder' = [r \in Rows |-> IF r \in rs THEN who ELSE coHolder[r]]
Release(who) ==
  coHolder' = [r \in Rows |-> IF coHolder[r] = who THEN "nobody" ELSE coHolder[r]]

\* Mutant: a request that gives up leaves its session open.
Rollback_Not(who) == UNCHANGED coHolder

\* A request that gives up closes its session: the transaction is rolled back.
Rollback(who) == Release(who)

Is(t, kind, at) == coTask[t].kind = kind /\ coTask[t].at = at
Goto(t, at) == coTask' = [coTask EXCEPT ![t].at = at]
Done(t) == coTask' = [coTask EXCEPT ![t] = NoTask]
Trouble == coTroubles < MaxTrouble /\ coTroubles' = coTroubles + 1

\* A handler starts: the middleware, or verify_order, has loaded its rows.  seen:
\* the user is among them.
Arrive(kind, p, seen) ==
  /\ coStarted < MaxTasks /\ coStarted' = coStarted + 1
  /\ \E t \in Tasks :
       /\ coTask[t] = NoTask
       /\ coTask' = [coTask EXCEPT ![t] =
            [kind |-> kind, pay |-> p, at |-> "arrived", fresh |-> seen,
             plan |-> IF seen THEN coPlan ELSE "unseen",
             wallet |-> IF seen THEN coWallet ELSE 0,
             row |-> IF p \in Payables THEN coRow[p] ELSE "none"]]
  /\ UNCHANGED <<coRow, coPaid, coStars, coWallet, coPlan, coSubs, coDue, coRedis,
                 coShop, coSweep, coHolder, coCredits, coBought, coLost, coRevoked, coTroubles>>

\* WalletService._apply, SELECT ... FOR UPDATE: a user that the session had loaded
\* comes back as it was loaded.
Balance(t) == IF coTask[t].plan = "unseen" THEN coWallet ELSE coTask[t].wallet

\* What a balance computed from an outdated copy overwrites.
Overwritten(t) == IF coTask[t].fresh THEN 0 ELSE coWallet - Balance(t)

\* The copies of the others, once one task commits a balance.
Outdated(x) == IF coTask[x] = NoTask THEN NoTask ELSE [coTask[x] EXCEPT !.fresh = FALSE]

\* Only the task moves.
Moves == UNCHANGED <<coRow, coPaid, coStars, coWallet, coPlan, coSubs, coDue, coRedis,
                     coShop, coSweep, coCredits, coBought, coLost, coRevoked, coStarted,
                     coTroubles>>
\* Only the shop's front moves: no task, no money.
Fronts == UNCHANGED <<coWallet, coPlan, coSubs, coDue, coRedis, coTask, coSweep,
                      coHolder, coCredits, coBought, coLost, coRevoked, coStarted>>

-----------------------------------------------------------------------------
(* The shop front. *)

\* GatewayService.start: the order is committed as pending before the user
\* gets the link.
SendGatewayLink ==
  /\ "gateway" \in coShop
  /\ \E o \in Orders : coRow[o] = "none" /\ coRow' = [coRow EXCEPT ![o] = "pending"]
  /\ Fronts /\ UNCHANGED <<coPaid, coStars, coShop, coTroubles>>

\* _start_online: one gateway gives a link at once, several give a keyboard.
StartOnline == SendGatewayLink

\* The plan is read when the button is pressed, not when it was shown.
BuyOnline == "plan" \in coShop /\ StartOnline

\* A button of the keyboard: plan and gateway are read again.
GatewayChoice == "plan" \in coShop /\ SendGatewayLink

\* The user pays at the gateway, at any time after the link was made.
PayAtGateway ==
  /\ \E o \in Orders \ coPaid : coRow[o] = "pending" /\ coPaid' = coPaid \cup {o}
  /\ Fronts /\ UNCHANGED <<coRow, coStars, coShop, coTroubles>>

\* stars_buy: the invoice, sent while the plan and the toggle allow it.
StarsBuy ==
  /\ {"plan", "stars"} \subseteq coShop
  /\ \E c \in Charges : coStars[c] = "none" /\ coStars' = [coStars EXCEPT ![c] = "offered"]
  /\ Fronts /\ UNCHANGED <<coRow, coPaid, coShop, coTroubles>>

\* stars_pre_checkout: the toggle and the plan are read again.
PreCheckout ==
  /\ {"plan", "stars"} \subseteq coShop
  /\ \E c \in Charges : coStars[c] = "offered" /\ coStars' = [coStars EXCEPT ![c] = "allowed"]
  /\ Fronts /\ UNCHANGED <<coRow, coPaid, coShop, coTroubles>>

\* Telegram takes the Stars of an allowed checkout.
TelegramCharges ==
  /\ \E c \in Charges \ coPaid : coStars[c] = "allowed" /\ coPaid' = coPaid \cup {c}
  /\ Fronts /\ UNCHANGED <<coRow, coStars, coShop, coTroubles>>

\* The owner turns the plan, the Stars or the gateways off or on.
OwnerSwitches ==
  /\ Trouble
  /\ \E s \in Switches : coShop' = (coShop \ {s}) \cup ({s} \ coShop)
  /\ Fronts /\ UNCHANGED <<coRow, coPaid, coStars>>

\* The plan the user holds runs out.
PlanRunsOut ==
  /\ coPlan = "plus" /\ ~coDue /\ coDue' = TRUE
  /\ UNCHANGED <<coRow, coPaid, coStars, coWallet, coPlan, coSubs, coRedis, coShop,
                 coTask, coSweep, coHolder, coCredits, coBought, coLost, coRevoked, coStarted,
                 coTroubles>>

-----------------------------------------------------------------------------
(* GatewayService.verify_and_apply of a plan order. *)

\* The bot's payment_check has loaded the user; the gateway's return page, the
\* panel's recheck and the reconciler have not.
PaymentCheck ==
  \E o \in Orders, seen \in BOOLEAN : coRow[o] # "none" /\ Arrive("verify", o, seen)

\* The row is locked, but its status is the one verify_order loaded.
VerifyOrder(t) ==
  /\ Is(t, "verify", "arrived") /\ Free(coTask[t].pay, t)
  /\ IF coTask[t].row \in {"approved", "rejected"}
     THEN Done(t) /\ UNCHANGED coHolder
     ELSE Goto(t, "asking") /\ Take({coTask[t].pay}, t)
  /\ Moves

\* The gateway has no payment for the order, or does not answer.
VerifyUnpaid(t) ==
  /\ Is(t, "verify", "asking") /\ Done(t) /\ Rollback(t) /\ Moves

\* The gateway confirms another amount or another user.
VerifyMismatched(t) ==
  /\ Is(t, "verify", "asking") /\ coTask[t].pay \in coPaid
  /\ coRow' = [coRow EXCEPT ![coTask[t].pay] = "rejected"]
  /\ Done(t) /\ Release(t) /\ Trouble
  /\ UNCHANGED <<coPaid, coStars, coWallet, coPlan, coSubs, coDue, coRedis, coShop,
                 coSweep, coCredits, coBought, coLost, coRevoked, coStarted>>

\* The deposit and the status in one commit: the end of the first half.  A user
\* that is not loaded yet is read under the lock, and dropped after the commit.
Deposit(t) ==
  LET new == IF coTask[t].plan = "unseen"
             THEN [coTask[t] EXCEPT !.at = "paid"]
             ELSE [coTask[t] EXCEPT !.at = "funded", !.wallet = @ + 1, !.fresh = TRUE]
  IN /\ coRow' = [coRow EXCEPT ![coTask[t].pay] = "approved"]
     /\ coWallet' = Balance(t) + 1
     /\ coLost' = coLost + Overwritten(t)
     /\ coCredits' = [coCredits EXCEPT ![coTask[t].pay] = @ + 1]
     /\ coTask' = [x \in Tasks |-> IF x = t THEN new ELSE Outdated(x)]
     /\ Release(t)
     /\ UNCHANGED <<coPaid, coStars, coPlan, coSubs, coDue, coRedis, coShop, coSweep,
                    coBought, coRevoked, coStarted, coTroubles>>

VerifyPaid(t) ==
  /\ Is(t, "verify", "asking") /\ coTask[t].pay \in coPaid
  /\ Free("user", t) /\ Deposit(t)

\* The purchase needs the user: a plain SELECT, if none is loaded.
VerifyReadsUser(t) ==
  /\ Is(t, "verify", "paid")
  /\ coTask' = [coTask EXCEPT ![t].at = "funded", ![t].plan = coPlan,
                              ![t].wallet = coWallet, ![t].fresh = TRUE]
  /\ Moves /\ UNCHANGED coHolder

-----------------------------------------------------------------------------
(* StarsService.apply_successful_payment. *)

\* Telegram delivers successful_payment, again if it got no answer.
SuccessfulPayment == \E c \in Charges \cap coPaid : Arrive("stars", c, TRUE)

\* The plan and the amount are checked again, then the charge id is looked up.
StarsLookUp(t) ==
  /\ Is(t, "stars", "arrived")
  /\ IF "plan" \notin coShop \/ coRow[coTask[t].pay] # "none"
     THEN Done(t) ELSE Goto(t, "inserting")
  /\ Moves /\ UNCHANGED coHolder

\* Mutant: provider_ref has no unique index.
Unique_No(c) == TRUE

\* The partial unique index on (method, provider_ref).
Unique(c) == coRow[c] = "none"

StarsInsert(t) ==
  /\ Is(t, "stars", "inserting") /\ Free("user", t)
  /\ Unique(coTask[t].pay) /\ Deposit(t)

\* IntegrityError: a duplicate of this update was first.
StarsDuplicate(t) ==
  /\ Is(t, "stars", "inserting") /\ ~Unique(coTask[t].pay)
  /\ Done(t) /\ Rollback(t) /\ Moves

-----------------------------------------------------------------------------
(* SubscriptionService.purchase, the second half of both, and buy_confirm. *)

BuyConfirm == "plan" \in coShop /\ Arrive("wallet", "none", TRUE)

\* The plan is still on sale and the Redis lock is free.
PurchaseLock(t) ==
  /\ coTask[t] # NoTask
  /\ Is(t, "wallet", "arrived") \/ coTask[t].at = "funded"
  /\ "plan" \in coShop /\ ~coRedis
  /\ coRedis' = TRUE /\ Goto(t, "locked")
  /\ UNCHANGED <<coRow, coPaid, coStars, coWallet, coPlan, coSubs, coDue, coShop,
                 coSweep, coHolder, coCredits, coBought, coLost, coRevoked, coStarted, coTroubles>>

\* NOT_AVAILABLE or DUPLICATE: the deposit stays in the wallet.
PurchaseTurnedAway(t) ==
  /\ coTask[t] # NoTask
  /\ Is(t, "wallet", "arrived") \/ coTask[t].at = "funded"
  /\ "plan" \notin coShop \/ coRedis
  /\ Done(t) /\ Moves /\ UNCHANGED coHolder

\* debit_nocommit: the users row is locked until the commit, and the loaded
\* balance is tested.
PurchaseDebit(t) ==
  /\ coTask[t] # NoTask /\ coTask[t].at = "locked" /\ Free("user", t)
  /\ Balance(t) > 0
  /\ Goto(t, "debited") /\ Take({"user"}, t) /\ Moves

\* InsufficientFunds: rollback, and the Redis lock is given back.
PurchaseInsufficient(t) ==
  /\ coTask[t] # NoTask /\ coTask[t].at = "locked" /\ Free("user", t)
  /\ Balance(t) = 0
  /\ coRedis' = FALSE /\ Done(t) /\ Rollback(t)
  /\ UNCHANGED <<coRow, coPaid, coStars, coWallet, coPlan, coSubs, coDue, coShop,
                 coSweep, coCredits, coBought, coLost, coRevoked, coStarted, coTroubles>>

\* One commit.  The balance is the loaded one less the price, users.plan is in
\* the UPDATE only if the loaded value differs; the lock in Redis is kept.
PurchaseCommit(t) ==
  /\ coTask[t] # NoTask /\ coTask[t].at = "debited"
  /\ coWallet' = Balance(t) - 1 /\ coBought' = coBought + 1
  /\ coLost' = coLost + Overwritten(t)
  /\ coPlan' = IF coTask[t].plan = "plus" THEN coPlan ELSE "plus"
  /\ coSubs' = coSubs + 1 /\ coDue' = FALSE /\ coRevoked' = FALSE
  /\ coTask' = [x \in Tasks |-> IF x = t THEN NoTask ELSE Outdated(x)]
  /\ Release(t)
  /\ UNCHANGED <<coRow, coPaid, coStars, coRedis, coShop, coSweep, coCredits,
                 coStarted, coTroubles>>

\* Mutant: the debit was committed on its own.
PurchaseFails_AfterDebit(t) ==
  /\ coTask[t] # NoTask /\ coTask[t].at = "debited" /\ Trouble
  /\ coWallet' = Balance(t) - 1
  /\ coRedis' = FALSE /\ Done(t) /\ Rollback(t)
  /\ UNCHANGED <<coRow, coPaid, coStars, coPlan, coSubs, coDue, coShop,
                 coSweep, coCredits, coBought, coLost, coRevoked, coStarted>>

\* The commit fails: everything after the deposit is rolled back.
PurchaseFails(t) ==
  /\ coTask[t] # NoTask /\ coTask[t].at = "debited" /\ Trouble
  /\ coRedis' = FALSE /\ Done(t) /\ Rollback(t)
  /\ UNCHANGED <<coRow, coPaid, coStars, coWallet, coPlan, coSubs, coDue, coShop,
                 coSweep, coCredits, coBought, coLost, coRevoked, coStarted>>

\* The ten seconds of the lock are over.
RedisLockExpires ==
  /\ coRedis /\ coRedis' = FALSE
  /\ \A t \in Tasks : coTask[t] # NoTask => coTask[t].at \notin {"locked", "debited"}
  /\ UNCHANGED <<coRow, coPaid, coStars, coWallet, coPlan, coSubs, coDue, coShop,
                 coTask, coSweep, coHolder, coCredits, coBought, coLost, coRevoked, coStarted,
                 coTroubles>>

\* The bot or the web process is restarted: the connection's transaction ends.
ServerDies(t) ==
  /\ coTask[t] # NoTask /\ Trouble
  /\ Done(t) /\ Rollback(t)
  /\ UNCHANGED <<coRow, coPaid, coStars, coWallet, coPlan, coSubs, coDue, coRedis,
                 coShop, coSweep, coCredits, coBought, coLost, coRevoked, coStarted>>

-----------------------------------------------------------------------------
(* RefundService.refund of a plan order: no money moves. *)

PanelRefund == \E p \in Payables : coRow[p] # "none" /\ Arrive("refund", p, FALSE)

\* Nothing of the payment is loaded before this lock: the status is current.
RefundLocks(t) ==
  /\ Is(t, "refund", "arrived") /\ Free(coTask[t].pay, t)
  /\ IF coRow[coTask[t].pay] # "approved"
     THEN Done(t) /\ UNCHANGED coHolder
     ELSE Goto(t, "user") /\ Take({coTask[t].pay}, t)
  /\ Moves

\* Mutant: the user is read without FOR UPDATE.
LocksUser_No(t) == Free("user", t) /\ UNCHANGED coHolder

\* SELECT users ... FOR UPDATE.
LocksUser(t) == Free("user", t) /\ Take({"user"}, t)

RefundReadsUser(t) ==
  /\ Is(t, "refund", "user") /\ LocksUser(t)
  /\ coTask' = [coTask EXCEPT ![t].plan = coPlan, ![t].at = "revoking"]
  /\ Moves

\* UPDATE subscriptions waits for the rows the sweep has updated.
RefundCommit(t) ==
  /\ Is(t, "refund", "revoking")
  /\ coTask[t].plan = "plus" /\ coSubs > 0 => Free("subs", t)
  /\ IF coTask[t].plan = "plus"
     THEN coPlan' = "free" /\ coSubs' = 0 /\ coDue' = FALSE
     ELSE UNCHANGED <<coPlan, coSubs, coDue>>
  /\ coRow' = [coRow EXCEPT ![coTask[t].pay] = "refunded"]
  /\ coRevoked' = TRUE
  /\ Done(t) /\ Release(t)
  /\ UNCHANGED <<coPaid, coStars, coWallet, coRedis, coShop, coSweep, coCredits,
                 coBought, coLost, coStarted, coTroubles>>

-----------------------------------------------------------------------------
(* process_expiry_sweep: the subscriptions first, the users at the commit.  *)

OnlySweep == UNCHANGED <<coRow, coPaid, coStars, coWallet, coRedis, coShop, coTask,
                         coCredits, coBought, coLost, coRevoked, coStarted, coTroubles>>

SweepReads ==
  /\ coSweep = NoSweepHere /\ coDue /\ coPlan = "plus"
  /\ coSweep' = [at |-> "read"]
  /\ OnlySweep /\ UNCHANGED <<coPlan, coSubs, coDue, coHolder>>

SweepMarks ==
  /\ coSweep.at = "read"
  /\ coSubs > 0 => Free("subs", "sweep")
  /\ coSweep' = [at |-> "marked", seen |-> coSubs]
  /\ Take(IF coSubs > 0 THEN {"subs"} ELSE {}, "sweep")
  /\ OnlySweep /\ UNCHANGED <<coPlan, coSubs, coDue>>

SweepCommits ==
  /\ coSweep.at = "marked" /\ Free("user", "sweep")
  /\ coPlan' = "free" /\ coDue' = FALSE
  /\ coSubs' = IF coSweep.seen > coSubs THEN 0 ELSE coSubs - coSweep.seen
  /\ coSweep' = NoSweepHere /\ Release("sweep")
  /\ OnlySweep

\* The refund waits for the sweep's subscriptions and the sweep for the
\* refund's user.  PostgreSQL notices and aborts one of the two: the page
\* fails, or the worker's next pass sweeps again; the one left gets the rows
\* it was waiting for.
Deadlocked(t) ==
  /\ Is(t, "refund", "revoking") /\ coHolder["user"] = t
  /\ coSweep.at = "marked" /\ coHolder["subs"] = "sweep"

DeadlockBroken(t) ==
  /\ Deadlocked(t)
  /\ \/ Done(t) /\ Release(t) /\ UNCHANGED coSweep
     \/ /\ coSweep' = NoSweepHere /\ UNCHANGED coTask
        /\ Take({"subs"}, t)
  /\ UNCHANGED <<coRow, coPaid, coStars, coWallet, coPlan, coSubs, coDue, coRedis,
                 coShop, coCredits, coBought, coLost, coRevoked, coStarted, coTroubles>>

-----------------------------------------------------------------------------
Advance(t) ==
  \/ VerifyOrder(t) \/ VerifyUnpaid(t) \/ VerifyMismatched(t) \/ VerifyPaid(t)
  \/ VerifyReadsUser(t)
  \/ StarsLookUp(t) \/ StarsInsert(t) \/ StarsDuplicate(t)
  \/ PurchaseLock(t) \/ PurchaseTurnedAway(t) \/ PurchaseDebit(t)
  \/ PurchaseInsufficient(t) \/ PurchaseCommit(t)
  \/ RefundLocks(t) \/ RefundReadsUser(t) \/ RefundCommit(t) \/ DeadlockBroken(t)

SweepStep == SweepReads \/ SweepMarks \/ SweepCommits

CheckoutNext ==
  \/ BuyOnline \/ GatewayChoice \/ PayAtGateway \/ StarsBuy \/ PreCheckout \/ TelegramCharges \/ OwnerSwitches
  \/ PlanRunsOut \/ PaymentCheck \/ SuccessfulPayment \/ BuyConfirm \/ PanelRefund
  \/ RedisLockExpires \/ SweepStep
  \/ \E t \in Tasks : Advance(t) \/ PurchaseFails(t) \/ ServerDies(t)

\* A served request and the worker's sweep keep running; nobody has to order,
\* pay, refund or fail.
CheckoutFairness ==
  /\ \A t \in Tasks : WF_coVars(Advance(t))
  /\ WF_coVars(SweepStep)

CheckoutSpec == CheckoutInit /\ [][CheckoutNext]_coVars /\ CheckoutFairness

-----------------------------------------------------------------------------
\* Telegram may deliver a successful_payment any number of times, also while
\* the first is being served: the charge is deposited at most once, whether
\* the lookup or the unique index stops the second.
OneDepositPerCharge == \A c \in Charges : coCredits[c] <= 1

\* Whatever happens after the deposit of a plan order (the plan off sale, a
\* duplicate purchase, a failed commit, a restart), its money is in the wallet
\* or was spent on a committed purchase.  The one thing that loses some of it is
\* a balance that a task wrote from a copy of the user which another task's
\* commit had outdated.
DepositsAreKept ==
  coWallet + coBought + coLost = MapThenSumSet(LAMBDA p : coCredits[p], Payables)

\* After the refund of a plan order the user is not on the plan until a
\* purchase commits later, whichever purchase, sweep or refund ran beside it.
RefundSticks == coRevoked => coPlan = "free"

\* Every request is answered and every sweep ends, although the refund and the
\* sweep lock the user and the subscriptions in opposite orders.
EveryCheckoutEnds ==
  /\ \A t \in Tasks : []<>(coTask[t] = NoTask)
  /\ []<>(coSweep = NoSweepHere)
=============================================================================
