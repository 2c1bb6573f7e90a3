--------------------------- MODULE Subscriptions ---------------------------
(***************************************************************************)
(* Paid plans: a purchase from the wallet (SubscriptionService.purchase),  *)
(* the worker's expiry sweep, and the panel's grants.  The three write the *)
(* same users row.  Each loads it first and writes back only the columns   *)
(* it changed in memory: a column set to the value it was loaded with is   *)
(* not part of the UPDATE, whatever the database holds by then.            *)
(***************************************************************************)
EXTENDS Wallet

CONSTANTS Plans,   \* the paid plans on sale, among "plus" and "max"
          Price,   \* [Plans -> Amounts]
          Days,    \* [Plans -> Nat]: duration_days, 0 for a lifetime plan
          Never,   \* plan_expires_at is NULL
          MaxDay,  \* bound: the last day of the model
          MaxSubs, \* bound: subscription rows per user
          Parts    \* what else happens: see PartNames

\* sweep, panel: those actors are present.  slow: a purchase may take longer
\* than the ten seconds of its Redis lock.  redis_down: Redis may not answer.
PartNames == {"topup", "sweep", "panel", "slow", "redis_down"}

ASSUME PlansAssumption == Plans \subseteq {"plus", "max"}
ASSUME PriceAssumption == Price \in [Plans -> Amounts]
ASSUME DaysAssumption == Days \in [Plans -> Nat]
ASSUME NeverAssumption == Never \notin Nat
ASSUME BoundsAssumption == MaxDay \in Nat /\ MaxSubs \in Nat
ASSUME PartsAssumption == Parts \subseteq PartNames

VARIABLES plan,     \* [Users -> plan or "free"]: users.plan
          expires,  \* [Users -> day or Never]: users.plan_expires_at
          subs,     \* [Users -> Seq]: subscriptions rows, oldest first
          held,     \* the (user, plan) pairs whose Redis purchase lock is set
          today,    \* the clock, in days
          buy,      \* [Sessions -> purchase being served]
          sweep,    \* the worker's expiry sweep
          panel     \* the panel's subscription form being served

subVars == <<plan, expires, subs, held, today, buy, sweep, panel>>
vars == <<walletVars, subVars>>

PlanKeys == Plans \cup {"free"}
Expiry == Nat \cup {Never}

\* The columns of the users row a session has in memory.
UserRow == [plan : PlanKeys, expires : Expiry]
RowOf(u) == [plan |-> plan[u], expires |-> expires[u]]

Purchase == [user : Users, plan : Plans, row : UserRow,
             at : {"arrived", "locked", "debited", "granted"}]
NoPurchase == [at |-> "idle"]

\* A sweep: the users it read as expired and, once its UPDATE on subscriptions
\* ran, how many rows of each that statement saw.
Sweep == [at : {"idle", "read", "marked"}, users : SUBSET Users, seen : [Users -> Nat]]
NoSweep == [at |-> "idle", users |-> {}, seen |-> [u \in Users |-> 0]]

PanelForm == [user : Users, row : UserRow]
NoForm == [user |-> NotLoaded]

SubTypeOK ==
  /\ plan \in [Users -> PlanKeys]
  /\ expires \in [Users -> Expiry]
  /\ subs \in [Users -> Seq([plan : PlanKeys, active : BOOLEAN])]
  /\ held \subseteq Users \X Plans
  /\ today \in 0..MaxDay
  /\ buy \in [Sessions -> Purchase \cup {NoPurchase}]
  /\ sweep \in Sweep
  /\ panel \in PanelForm \cup {NoForm}

TypeOK == WalletTypeOK /\ SubTypeOK

Init ==
  /\ WalletInit
  /\ plan = [u \in Users |-> "free"]
  /\ expires = [u \in Users |-> Never]
  /\ subs = [u \in Users |-> <<>>]
  /\ held = {}
  /\ today = 0
  /\ buy = [s \in Sessions |-> NoPurchase]
  /\ sweep = NoSweep
  /\ panel = NoForm

-----------------------------------------------------------------------------
\* PLAN_ORDER.
Rank(k) == CASE k = "free" -> 0 [] k = "plus" -> 1 [] k = "max" -> 2

IsPast(e) == e # Never /\ e < today
IsFuture(e) == e # Never /\ e > today

\* _compute_expiry, from the row in memory.
NewExpiry(row, k) ==
  CASE Days[k] = 0 -> Never
    [] Days[k] # 0 /\ Rank(row.plan) >= Rank(k) /\ IsFuture(row.expires)
         -> row.expires + Days[k]
    [] OTHER -> today + Days[k]

\* The UPDATE of a users row that was loaded as row and is now (k, e) in memory.
WriteBack(u, row, k, e) ==
  /\ plan' = IF k = row.plan THEN plan ELSE [plan EXCEPT ![u] = k]
  /\ expires' = IF e = row.expires THEN expires ELSE [expires EXCEPT ![u] = e]

\* UPDATE subscriptions SET is_active = false over the first n rows.
Deactivate(rows, n) ==
  [i \in 1..Len(rows) |-> IF i <= n THEN [rows[i] EXCEPT !.active = FALSE] ELSE rows[i]]

AddSub(u, k) ==
  subs' = [subs EXCEPT ![u] = Append(@, [plan |-> k, active |-> TRUE])]

-----------------------------------------------------------------------------
(* SubscriptionService.purchase, called with the user the bot update loaded. *)

LockKey(s) == <<buy[s].user, buy[s].plan>>

BuyAt(s, stage) == buy' = [buy EXCEPT ![s].at = stage]

\* The confirm button: the update loads the user, then calls purchase.
BuyConfirm(s, u, k) ==
  /\ buy[s] = NoPurchase
  /\ s \in Preloading
  /\ Len(ledger[u]) < MaxRows /\ Len(subs[u]) < MaxSubs
  /\ LoadUser(s, u)
  /\ buy' = [buy EXCEPT ![s] = [user |-> u, plan |-> k, row |-> RowOf(u), at |-> "arrived"]]
  /\ UNCHANGED <<plan, expires, subs, held, today, sweep, panel>>

EndPurchase(s) ==
  /\ EndSession(s)
  /\ buy' = [buy EXCEPT ![s] = NoPurchase]
  /\ UNCHANGED <<plan, expires, subs, today, sweep, panel>>

\* SET NX found the lock: DUPLICATE.
BuyDuplicate(s) ==
  /\ buy[s].at = "arrived"
  /\ LockKey(s) \in held
  /\ EndPurchase(s)
  /\ UNCHANGED held

\* Mutant: SET without NX.
BuyLock_NoNX(s) ==
  /\ buy[s].at = "arrived"
  /\ held' = held \cup {LockKey(s)}
  /\ BuyAt(s, "locked")
  /\ UNCHANGED <<walletVars, plan, expires, subs, today, sweep, panel>>

\* SET NX took the lock, or Redis did not answer and the purchase goes on.
BuyLock(s) ==
  /\ buy[s].at = "arrived"
  /\ \/ LockKey(s) \notin held /\ held' = held \cup {LockKey(s)}
     \/ "redis_down" \in Parts /\ UNCHANGED held
  /\ BuyAt(s, "locked")
  /\ UNCHANGED <<walletVars, plan, expires, subs, today, sweep, panel>>

\* debit_nocommit: the price leaves the wallet, not committed yet.
BuyDebit(s) ==
  /\ buy[s].at = "locked"
  /\ ApplyNoCommit(s, buy[s].user, -Price[buy[s].plan])
  /\ BuyAt(s, "debited")
  /\ UNCHANGED <<plan, expires, subs, held, today, sweep, panel>>

\* INSUFFICIENT: rolled back, and the Redis lock is deleted.
BuyInsufficient(s) ==
  /\ buy[s].at = "locked"
  /\ Refuse(s, buy[s].user, -Price[buy[s].plan])
  /\ buy' = [buy EXCEPT ![s] = NoPurchase]
  /\ held' = held \ {LockKey(s)}
  /\ UNCHANGED <<plan, expires, subs, today, sweep, panel>>

\* Debit, plan and subscription row commit together; the Redis lock stays.
BuyCommit(s) ==
  LET b == buy[s] IN
  /\ b.at = "debited"
  /\ CommitWrite(s)
  /\ WriteBack(b.user, b.row, b.plan, NewExpiry(b.row, b.plan))
  /\ AddSub(b.user, b.plan)
  /\ BuyAt(s, "granted")
  /\ UNCHANGED <<held, today, sweep, panel>>

\* An exception after the lock: full rollback, the Redis lock is deleted.
BuyFails(s) ==
  /\ buy[s].at \in {"locked", "debited"}
  /\ held' = held \ {LockKey(s)}
  /\ EndPurchase(s)

\* The answer is sent (and the invoice recorded): the update is done.
BuyEnd(s) ==
  /\ buy[s].at = "granted"
  /\ EndPurchase(s)
  /\ UNCHANGED held

\* The process dies: the Redis lock outlives it.
BuyCrash(s) ==
  /\ buy[s] # NoPurchase
  /\ EndPurchase(s)
  /\ UNCHANGED held

\* The ten seconds are over.  Unless purchases may be slow, the one that took
\* the lock has ended by then, and so has every update that loaded the user
\* before it committed.
LockExpires(u, k) ==
  /\ <<u, k>> \in held
  /\ \/ "slow" \in Parts
     \/ \A s \in Sessions :
          (buy[s] # NoPurchase /\ LockKey(s) = <<u, k>>)
            => buy[s].at = "arrived" /\ buy[s].row = RowOf(u)
  /\ held' = held \ {<<u, k>>}
  /\ UNCHANGED <<walletVars, plan, expires, subs, today, buy, sweep, panel>>

\* Money arrives in a session that did not load the user.
TopUp(s, u) ==
  /\ "topup" \in Parts
  /\ s \notin Preloading
  /\ Credit(s, u)
  /\ UNCHANGED subVars

TopUpCommit(s) ==
  /\ s \notin Preloading
  /\ CommitWrite(s)
  /\ UNCHANGED subVars

-----------------------------------------------------------------------------
(* process_expiry_sweep, in the one worker. *)

\* SELECT the expired users.
SweepRead ==
  /\ "sweep" \in Parts
  /\ sweep.at = "idle"
  /\ LET late == {u \in Users : plan[u] # "free" /\ IsPast(expires[u])}
     IN  late # {} /\ sweep' = [NoSweep EXCEPT !.at = "read", !.users = late]
  /\ UNCHANGED <<walletVars, plan, expires, subs, held, today, buy, panel>>

\* UPDATE their subscriptions: the statement sees the rows committed by now.
SweepMark ==
  /\ sweep.at = "read"
  /\ sweep' = [sweep EXCEPT !.at = "marked", !.seen = [u \in Users |-> Len(subs[u])]]
  /\ UNCHANGED <<walletVars, plan, expires, subs, held, today, buy, panel>>

\* Mutant: the users are left on their plan.
SweepCommit_SubsOnly ==
  /\ sweep.at = "marked"
  /\ \A u \in sweep.users : userLock[u] = Unlocked
  /\ subs' = [u \in Users |-> IF u \in sweep.users
                              THEN Deactivate(subs[u], sweep.seen[u]) ELSE subs[u]]
  /\ sweep' = NoSweep
  /\ UNCHANGED <<walletVars, plan, expires, held, today, buy, panel>>

\* Mutant: the commit looks at the expiry again, for the users row alone.
SweepCommit_Recheck ==
  /\ sweep.at = "marked"
  /\ \A u \in sweep.users : userLock[u] = Unlocked
  /\ plan' = [u \in Users |-> IF u \in sweep.users /\ IsPast(expires[u]) THEN "free" ELSE plan[u]]
  /\ subs' = [u \in Users |-> IF u \in sweep.users
                              THEN Deactivate(subs[u], sweep.seen[u]) ELSE subs[u]]
  /\ sweep' = NoSweep
  /\ UNCHANGED <<walletVars, expires, held, today, buy, panel>>

\* COMMIT: plan = free for every user read, once their row locks are free.
SweepCommit ==
  /\ sweep.at = "marked"
  /\ \A u \in sweep.users : userLock[u] = Unlocked
  /\ plan' = [u \in Users |-> IF u \in sweep.users THEN "free" ELSE plan[u]]
  /\ subs' = [u \in Users |-> IF u \in sweep.users
                              THEN Deactivate(subs[u], sweep.seen[u]) ELSE subs[u]]
  /\ sweep' = NoSweep
  /\ UNCHANGED <<walletVars, expires, held, today, buy, panel>>

\* The worker dies in the middle: nothing was committed.
SweepCrash ==
  /\ sweep.at # "idle"
  /\ sweep' = NoSweep
  /\ UNCHANGED <<walletVars, plan, expires, subs, held, today, buy, panel>>

-----------------------------------------------------------------------------
(* The panel's subscription form (user_subscription). *)

PanelLoad(u) ==
  /\ "panel" \in Parts
  /\ panel = NoForm
  /\ Len(subs[u]) < MaxSubs
  /\ panel' = [user |-> u, row |-> RowOf(u)]
  /\ UNCHANGED <<walletVars, plan, expires, subs, held, today, buy, sweep>>

PanelWrite(k, e) ==
  /\ panel # NoForm
  /\ userLock[panel.user] = Unlocked
  /\ WriteBack(panel.user, panel.row, k, e)
  /\ panel' = NoForm
  /\ UNCHANGED <<walletVars, held, today, buy, sweep>>

\* The form does not parse: nothing is written.
PanelInvalid ==
  /\ panel # NoForm
  /\ panel' = NoForm
  /\ UNCHANGED <<walletVars, plan, expires, subs, held, today, buy, sweep>>

\* The sweep's UPDATE holds the row lock of an active subscription of u.
SweepHoldsSubs(u) ==
  /\ sweep.at = "marked"
  /\ u \in sweep.users
  /\ \E i \in 1..sweep.seen[u] : subs[u][i].active

\* action = cancel: UPDATE subscriptions, then the users row at the commit.
PanelCancel ==
  /\ panel # NoForm
  /\ ~ SweepHoldsSubs(panel.user)
  /\ PanelWrite("free", Never)
  /\ subs' = [subs EXCEPT ![panel.user] = Deactivate(@, Len(@))]

\* action = change, extend, expiry or lifetime: any plan, any later day.
PanelGrant ==
  /\ panel # NoForm
  /\ \/ \E k \in PlanKeys : PanelWrite(k, panel.row.expires) /\ AddSub(panel.user, k)
     \/ \E d \in 1..2 :
          LET base == IF IsFuture(panel.row.expires) THEN panel.row.expires ELSE today
          IN  base <= MaxDay /\ PanelWrite(panel.row.plan, base + d)
              /\ AddSub(panel.user, panel.row.plan)
     \/ \E d \in 0..MaxDay :
          PanelWrite(panel.row.plan, d) /\ AddSub(panel.user, panel.row.plan)
     \/ PanelWrite(panel.row.plan, Never) /\ AddSub(panel.user, panel.row.plan)

-----------------------------------------------------------------------------
Tick ==
  /\ today < MaxDay
  /\ today' = today + 1
  /\ UNCHANGED <<walletVars, plan, expires, subs, held, buy, sweep, panel>>

BuyStep(s) ==
  \/ BuyDuplicate(s) \/ BuyLock(s) \/ BuyDebit(s) \/ BuyInsufficient(s)
  \/ BuyCommit(s) \/ BuyEnd(s)

Next ==
  \/ \E s \in Sessions :
        \/ \E u \in Users : \/ \E k \in Plans : BuyConfirm(s, u, k)
                            \/ TopUp(s, u)
        \/ TopUpCommit(s)
        \/ BuyStep(s) \/ BuyFails(s) \/ BuyCrash(s)
  \/ \E u \in Users : PanelLoad(u) \/ \E k \in Plans : LockExpires(u, k)
  \/ SweepRead \/ SweepMark \/ SweepCommit \/ SweepCrash
  \/ PanelCancel \/ PanelGrant \/ PanelInvalid
  \/ Tick

Spec == Init /\ [][Next]_vars

\* The event loop runs every update, Redis counts the seconds of its keys, and
\* the worker's loop sweeps again and again and waits its turn for a row lock.
FairSpec ==
  /\ Spec
  /\ \A s \in Sessions : SF_vars(BuyStep(s)) /\ WF_vars(TopUpCommit(s))
  /\ \A u \in Users, k \in Plans : SF_vars(LockExpires(u, k))
  /\ WF_vars(SweepRead) /\ SF_vars(SweepMark) /\ SF_vars(SweepCommit)

-----------------------------------------------------------------------------
\* Session s commits its purchase in this step.
Grants(s) == buy[s].at = "debited" /\ buy'[s].at = "granted"

\* Two purchases of one plan by one user never run between the Redis lock and
\* their commit: the double-tap guard, while Redis answers and purchases are
\* quicker than the lock's ten seconds.
NoTwinPurchases ==
  \A s, t \in Sessions :
     (/\ s # t
      /\ buy[s].at \in {"locked", "debited"}
      /\ buy[t].at \in {"locked", "debited"})
     => LockKey(s) # LockKey(t)

\* u is on the free plan, or one of its subscriptions is active and of its plan.
Backed(u) ==
  \/ plan[u] = "free"
  \/ \E i \in DOMAIN subs[u] : subs[u][i] = [plan |-> plan[u], active |-> TRUE]

\* The users row and the subscriptions rows are written by a purchase, the sweep
\* and the panel, each from columns it loaded before.  Whatever they overtake, a
\* paid plan keeps an active subscription of that plan.  The one step that takes
\* it away is the panel's form that loaded the user as free and cancels the plan
\* it never saw: it deactivates the rows and leaves the plan.
PlansStayBacked ==
  [][\A u \in Users :
       Backed(u) => Backed(u)' \/ (panel # NoForm /\ panel.user = u /\ panel.row.plan = "free")]_vars

\* No paid time is lost: renewing an unexpired plan moves its expiry on by the
\* whole duration, counted from the expiry the database holds at the commit and
\* not from an older one.
RenewalExtends ==
  [][\A s \in Sessions :
       LET u == buy[s].user
           k == buy[s].plan
       IN  (Grants(s) /\ plan[u] = k /\ IsFuture(expires[u]) /\ Days[k] # 0)
             => expires'[u] = expires[u] + Days[k]]_vars

\* workers/main.py:305: the sweep downgrades "users whose paid plan has expired".
SweepSparesUnexpired ==
  [][\A u \in Users : (sweep.at = "marked" /\ plan'[u] # plan[u])
                        => IsPast(expires[u])]_vars

\* An expired plan does not stay: it is swept, renewed or changed, however often
\* the worker dies in the middle of a sweep.
ExpiredIsDowngraded ==
  \A u \in Users : (plan[u] # "free" /\ IsPast(expires[u]))
                     ~> (plan[u] = "free" \/ ~ IsPast(expires[u]))

\* Every purchase is answered, though it waits for the row lock of a user whom
\* deposits and other purchases keep locking.
EveryPurchaseEnds ==
  \A s \in Sessions : (buy[s] # NoPurchase) ~> (buy[s] = NoPurchase)
=============================================================================
