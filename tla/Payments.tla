------------------------------ MODULE Payments ------------------------------
(***************************************************************************)
(* Top-ups and the wallet they fund.  A payment row is created by a        *)
(* top-up, settled by an owner (card, PaymentService) or by an online      *)
(* gateway (GatewayService), rejected, expired by the reconciler or        *)
(* refunded (RefundService).  Every change runs in one database session    *)
(* that locks the payment row and then, when money moves, the user row.    *)
(* Orders of intent "plan:<key>" and Telegram Stars are not in this module.*)
(*                                                                         *)
(* Some entry points read the payment before the service locks it, so it   *)
(* is in the session's identity map and the locking select does not        *)
(* refresh it: the guards then test the status read first.  job[s].seen is *)
(* that copy.                                                              *)
(***************************************************************************)
EXTENDS Wallet

CONSTANTS Payments,      \* rows of the payments table
          CardPayments,  \* those of method card; the others are gateway orders
          Owner,         \* [Payments -> Users]: payments.user_id
          Amount,        \* [Payments -> Amounts]: payments.amount
          Flows          \* the entry points requests arrive at

EntryPoints == {"bot_approve", "bot_reject", "panel_approve", "panel_reject",
                "api_approve", "pay_return", "bot_check", "panel_recheck",
                "panel_reconcile", "panel_refund", "spend"}

ASSUME CardPaymentsAssumption == CardPayments \subseteq Payments
ASSUME OwnerAssumption == Owner \in [Payments -> Users]
ASSUME AmountAssumption == Amount \in [Payments -> Amounts]
ASSUME FlowsAssumption == Flows \subseteq EntryPoints

Statuses == {"absent", "pending", "approved", "rejected", "refunded", "expired"}

VARIABLES status,   \* [Payments -> Statuses]: the committed payments.status
          payLock,  \* [Payments -> Sessions or Unlocked]: the row locks
          gate,     \* [Payments -> what the gateway knows of the order]
          job,      \* [Sessions -> the request a session serves]
          credits,  \* [Payments -> Nat]: deposits in the ledger for a payment
          refunds,  \* [Payments -> Nat]: refund rows in the ledger for it
          receipts  \* invoices: <<"topup" or "refund", payment>>

payVars == <<status, payLock, gate, job, credits, refunds, receipts>>
vars == <<walletVars, payVars>>

Kinds == {"approve", "reject", "verify", "reconcile", "refund", "spend"}
Stages == {"lock", "verify", "wallet", "commit", "receipt"}

\* A request: what it does, to which payment, how far it is, the status in its
\* identity map (or NotLoaded) and, as history, the deposits of that payment
\* that had been committed when the request arrived.
Job == [kind : Kinds, pay : Payments \cup {NotLoaded}, at : Stages,
        seen : Statuses \cup {NotLoaded}, since : Nat]

Idle == [at |-> "idle"]

PayTypeOK ==
  /\ status \in [Payments -> Statuses]
  /\ payLock \in [Payments -> Sessions \cup {Unlocked}]
  /\ gate \in [Payments -> {"none", "unpaid", "paid", "mismatch"}]
  /\ job \in [Sessions -> Job \cup {Idle}]
  /\ credits \in [Payments -> Nat]
  /\ refunds \in [Payments -> Nat]
  /\ receipts \subseteq {"topup", "refund"} \X Payments

PaymentsTypeOK == WalletTypeOK /\ PayTypeOK

Init ==
  /\ WalletInit
  /\ status = [p \in Payments |-> "absent"]
  /\ payLock = [p \in Payments |-> Unlocked]
  /\ gate = [p \in Payments |-> "none"]
  /\ job = [s \in Sessions |-> Idle]
  /\ credits = [p \in Payments |-> 0]
  /\ refunds = [p \in Payments |-> 0]
  /\ receipts = {}

-----------------------------------------------------------------------------
(* Creating a payment, and the world of the gateway. *)

\* topup_receipt -> PaymentService.create: a card receipt is filed.
SubmitReceipt(p) ==
  /\ p \in CardPayments
  /\ status[p] = "absent"
  /\ status' = [status EXCEPT ![p] = "pending"]
  /\ UNCHANGED <<walletVars, payLock, gate, job, credits, refunds, receipts>>

\* GatewayService.start, first commit: the row exists before the gateway is asked.
StartOrder(p) ==
  /\ p \notin CardPayments
  /\ status[p] = "absent"
  /\ status' = [status EXCEPT ![p] = "pending"]
  /\ UNCHANGED <<walletVars, payLock, gate, job, credits, refunds, receipts>>

\* GatewayService.start, second half: the gateway issued a link and its token
\* is committed.  When this never happens the order stays pending, unpayable.
LinkOrder(p) ==
  /\ p \notin CardPayments
  /\ status[p] = "pending"
  /\ gate[p] = "none"
  /\ gate' = [gate EXCEPT ![p] = "unpaid"]
  /\ UNCHANGED <<walletVars, status, payLock, job, credits, refunds, receipts>>

\* The customer pays at the gateway: the order's amount, or something that
\* does not match the order.
CustomerPays(p) ==
  /\ gate[p] = "unpaid"
  /\ \E g \in {"paid", "mismatch"} : gate' = [gate EXCEPT ![p] = g]
  /\ UNCHANGED <<walletVars, status, payLock, job, credits, refunds, receipts>>

-----------------------------------------------------------------------------
(* Entry points: a session starts to serve a request for a payment. *)

Arrive(s, p, kind, seen) ==
  /\ job[s] = Idle
  /\ status[p] # "absent"
  /\ Len(ledger[Owner[p]]) < MaxRows
  /\ job' = [job EXCEPT ![s] = [kind |-> kind, pay |-> p, at |-> "lock",
                                seen |-> seen, since |-> credits[p]]]
  /\ UNCHANGED <<status, payLock, gate, credits, refunds, receipts>>

\* The owner's approve button under a card receipt; nothing is read first.
BotApprove(s, p) ==
  /\ "bot_approve" \in Flows /\ p \in CardPayments
  /\ Arrive(s, p, "approve", NotLoaded) /\ UNCHANGED walletVars

\* The owner's reject button.
BotReject(s, p) ==
  /\ "bot_reject" \in Flows /\ p \in CardPayments
  /\ Arrive(s, p, "reject", NotLoaded) /\ UNCHANGED walletVars

\* The panel reads the payment to check its method, then approves it.
PanelApprove(s, p) ==
  /\ "panel_approve" \in Flows /\ p \in CardPayments
  /\ Arrive(s, p, "approve", status[p]) /\ UNCHANGED walletVars

\* The panel reads the payment to check its method, then rejects it.
PanelReject(s, p) ==
  /\ "panel_reject" \in Flows /\ p \in CardPayments
  /\ Arrive(s, p, "reject", status[p]) /\ UNCHANGED walletVars

\* The admin API reads the payment to check its method, then approves it.
ApiApprove(s, p) ==
  /\ "api_approve" \in Flows /\ p \in CardPayments
  /\ Arrive(s, p, "approve", status[p]) /\ UNCHANGED walletVars

\* The gateway redirects the customer back: the order is resolved, then verified.
PayReturn(s, p) ==
  /\ "pay_return" \in Flows /\ p \notin CardPayments
  /\ Arrive(s, p, "verify", status[p]) /\ UNCHANGED walletVars

\* The customer's check button: a bot update, which loads the customer too.
BotCheck(s, p) ==
  /\ "bot_check" \in Flows /\ p \notin CardPayments
  /\ s \in Preloading
  /\ Arrive(s, p, "verify", status[p])
  /\ LoadUser(s, Owner[p])

\* The panel's recheck button.
PanelRecheck(s, p) ==
  /\ "panel_recheck" \in Flows /\ p \notin CardPayments
  /\ Arrive(s, p, "verify", status[p]) /\ UNCHANGED walletVars

\* One row of a reconcile batch: the batch read it while it was pending.
PanelReconcile(s, p) ==
  /\ "panel_reconcile" \in Flows /\ p \notin CardPayments
  /\ status[p] = "pending"
  /\ Arrive(s, p, "reconcile", status[p]) /\ UNCHANGED walletVars

\* The panel's refund form; nothing is read first.
PanelRefund(s, p) ==
  /\ "panel_refund" \in Flows
  /\ Arrive(s, p, "refund", NotLoaded) /\ UNCHANGED walletVars

\* Money leaves the wallet some other way: a purchase, a panel debit.
Spend(s, u) ==
  /\ "spend" \in Flows
  /\ job[s] = Idle
  /\ Len(ledger[u]) < MaxRows
  /\ \E a \in Amounts : ApplyNoCommit(s, u, -a)
  /\ job' = [job EXCEPT ![s] = [kind |-> "spend", pay |-> NotLoaded, at |-> "commit",
                                seen |-> NotLoaded, since |-> 0]]
  /\ UNCHANGED <<status, payLock, gate, credits, refunds, receipts>>

-----------------------------------------------------------------------------
(* The services, from the locking select on. *)

\* The status the guards test once the payment row is locked.
SeenStatus(s) ==
  IF job[s].seen = NotLoaded THEN status[job[s].pay] ELSE job[s].seen

\* Mutant: the payment row stays locked.
Close_KeepsPayment(s) ==
  /\ EndSession(s)
  /\ job' = [job EXCEPT ![s] = Idle]
  /\ UNCHANGED payLock

\* The request is over or dies: its session closes and drops all its locks.
Close(s) ==
  /\ EndSession(s)
  /\ job' = [job EXCEPT ![s] = Idle]
  /\ payLock' = [p \in Payments |-> IF payLock[p] = s THEN Unlocked ELSE payLock[p]]

Advance(s, stage) == job' = [job EXCEPT ![s].at = stage]

\* The row lock on the payment is free and session s is about to take it.
AtPayment(s, kinds) ==
  /\ job[s].at = "lock"
  /\ job[s].kind \in kinds
  /\ payLock[job[s].pay] = Unlocked

TakePayment(s, stage) ==
  /\ payLock' = [payLock EXCEPT ![job[s].pay] = s]
  /\ Advance(s, stage)
  /\ UNCHANGED <<walletVars, status, gate, credits, refunds, receipts>>

\* Mutant: approve does not look at the status.
NothingToDo_ApproveAgain(s) ==
  \/ job[s].kind = "reject" /\ SeenStatus(s) # "pending"
  \/ job[s].kind \in {"verify", "reconcile"} /\ SeenStatus(s) \in {"approved", "rejected"}
  \/ job[s].kind = "refund" /\ SeenStatus(s) # "approved"

\* Mutant: refund forgets that a refunded payment is settled already.
NothingToDo_RefundAgain(s) ==
  \/ job[s].kind = "approve" /\ SeenStatus(s) = "approved"
  \/ job[s].kind = "reject" /\ SeenStatus(s) # "pending"
  \/ job[s].kind \in {"verify", "reconcile"} /\ SeenStatus(s) \in {"approved", "rejected"}
  \/ job[s].kind = "refund" /\ SeenStatus(s) \notin {"approved", "refunded"}

\* The guards after the lock that leave everything as it is.
NothingToDo(s) ==
  \/ job[s].kind = "approve" /\ SeenStatus(s) = "approved"
  \/ job[s].kind = "reject" /\ SeenStatus(s) # "pending"
  \/ job[s].kind \in {"verify", "reconcile"} /\ SeenStatus(s) \in {"approved", "rejected"}
  \/ job[s].kind = "refund" /\ SeenStatus(s) # "approved"

ReturnEarly(s) ==
  /\ AtPayment(s, {"approve", "reject", "verify", "reconcile", "refund"})
  /\ NothingToDo(s)
  /\ Close(s)
  /\ UNCHANGED <<status, gate, credits, refunds, receipts>>

\* PaymentService.approve up to the credit: only "approved" stops it.
Approve(s) ==
  /\ AtPayment(s, {"approve"})
  /\ ~ NothingToDo(s)
  /\ TakePayment(s, "wallet")

\* PaymentService.reject: lock, test, commit.
Reject(s) ==
  /\ AtPayment(s, {"reject"})
  /\ ~ NothingToDo(s)
  /\ status' = [status EXCEPT ![job[s].pay] = "rejected"]
  /\ Close(s)
  /\ UNCHANGED <<gate, credits, refunds, receipts>>

\* GatewayService.verify_and_apply up to the call of the provider.
BeginVerify(s) ==
  /\ AtPayment(s, {"verify", "reconcile"})
  /\ ~ NothingToDo(s)
  /\ TakePayment(s, "verify")

\* RefundService.refund up to the reversal.
BeginRefund(s) ==
  /\ AtPayment(s, {"refund"})
  /\ ~ NothingToDo(s)
  /\ TakePayment(s, "wallet")

\* The provider says no, or does not answer: the order is left as it is, but
\* the reconciler expires a stale one that is still pending in the database.
VerifyFails(s) ==
  /\ job[s].at = "verify"
  /\ \/ UNCHANGED status
     \/ /\ job[s].kind = "reconcile"
        /\ status[job[s].pay] = "pending"
        /\ status' = [status EXCEPT ![job[s].pay] = "expired"]
  /\ Close(s)
  /\ UNCHANGED <<gate, credits, refunds, receipts>>

\* The provider reports another amount or user: rejected, never credited.
VerifyMismatch(s) ==
  /\ job[s].at = "verify"
  /\ gate[job[s].pay] = "mismatch"
  /\ status' = [status EXCEPT ![job[s].pay] = "rejected"]
  /\ Close(s)
  /\ UNCHANGED <<gate, credits, refunds, receipts>>

\* Mutant: any amount the gateway confirms will do.
VerifyOk_AnyAmount(s) ==
  /\ job[s].at = "verify"
  /\ gate[job[s].pay] \in {"paid", "mismatch"}
  /\ Advance(s, "wallet")
  /\ UNCHANGED <<walletVars, status, payLock, gate, credits, refunds, receipts>>

\* The provider confirms the amount: go on to credit the wallet.
VerifyOk(s) ==
  /\ job[s].at = "verify"
  /\ gate[job[s].pay] = "paid"
  /\ Advance(s, "wallet")
  /\ UNCHANGED <<walletVars, status, payLock, gate, credits, refunds, receipts>>

\* The signed amount a request moves.
Move(s) == IF job[s].kind = "refund" THEN -Amount[job[s].pay] ELSE Amount[job[s].pay]

\* Mutant: the receipt is recorded, and committed, ahead of the money.
MoveMoney_ReceiptFirst(s) ==
  /\ job[s].at = "wallet"
  /\ ApplyNoCommit(s, Owner[job[s].pay], Move(s))
  /\ Advance(s, "commit")
  /\ receipts' = receipts \cup
          {<<IF job[s].kind = "refund" THEN "refund" ELSE "topup", job[s].pay>>}
  /\ UNCHANGED <<status, payLock, gate, credits, refunds>>

\* WalletService._apply: lock the user and flush the ledger row.
MoveMoney(s) ==
  /\ job[s].at = "wallet"
  /\ ApplyNoCommit(s, Owner[job[s].pay], Move(s))
  /\ Advance(s, "commit")
  /\ UNCHANGED <<status, payLock, gate, credits, refunds, receipts>>

\* The refund is more than the wallet holds: rolled back.
RefundRefused(s) ==
  /\ job[s].at = "wallet"
  /\ Refuse(s, Owner[job[s].pay], Move(s))
  /\ job' = [job EXCEPT ![s] = Idle]
  /\ payLock' = [payLock EXCEPT ![job[s].pay] = Unlocked]
  /\ UNCHANGED <<status, gate, credits, refunds, receipts>>

\* The commit of a deposit: status, balance and ledger row land together.
CommitDeposit(s) ==
  /\ job[s].at = "commit"
  /\ job[s].kind \in {"approve", "verify", "reconcile"}
  /\ CommitWrite(s)
  /\ status' = [status EXCEPT ![job[s].pay] = "approved"]
  /\ credits' = [credits EXCEPT ![job[s].pay] = @ + 1]
  /\ payLock' = [payLock EXCEPT ![job[s].pay] = Unlocked]
  /\ Advance(s, "receipt")
  /\ UNCHANGED <<gate, refunds, receipts>>

\* The commit of a top-up's refund.
CommitRefund(s) ==
  /\ job[s].at = "commit"
  /\ job[s].kind = "refund"
  /\ CommitWrite(s)
  /\ status' = [status EXCEPT ![job[s].pay] = "refunded"]
  /\ refunds' = [refunds EXCEPT ![job[s].pay] = @ + 1]
  /\ payLock' = [payLock EXCEPT ![job[s].pay] = Unlocked]
  /\ Advance(s, "receipt")
  /\ UNCHANGED <<gate, credits, receipts>>

CommitSpend(s) ==
  /\ job[s].at = "commit"
  /\ job[s].kind = "spend"
  /\ CommitWrite(s)
  /\ job' = [job EXCEPT ![s] = Idle]
  /\ UNCHANGED <<status, payLock, gate, credits, refunds, receipts>>

\* safe_record after the commit, best effort: the receipt is recorded (once
\* per source) or lost.
Receipt(s) ==
  /\ job[s].at = "receipt"
  /\ \/ receipts' = receipts \cup
           {<<IF job[s].kind = "refund" THEN "refund" ELSE "topup", job[s].pay>>}
     \/ UNCHANGED receipts
  /\ Close(s)
  /\ UNCHANGED <<status, gate, credits, refunds>>

\* An exception, a lost connection or the death of the process, at any point.
Crash(s) ==
  /\ job[s] # Idle
  /\ Close(s)
  /\ UNCHANGED <<status, gate, credits, refunds, receipts>>

-----------------------------------------------------------------------------
ArriveAny(s) ==
  \/ \E p \in Payments :
        \/ BotApprove(s, p) \/ PanelApprove(s, p) \/ ApiApprove(s, p)
        \/ BotReject(s, p) \/ PanelReject(s, p)
        \/ PayReturn(s, p) \/ BotCheck(s, p) \/ PanelRecheck(s, p)
        \/ PanelReconcile(s, p) \/ PanelRefund(s, p)
  \/ \E u \in Users : Spend(s, u)

\* A request moves on; everything but the death of its session.
Step(s) ==
  \/ ReturnEarly(s) \/ Approve(s) \/ Reject(s) \/ BeginVerify(s) \/ BeginRefund(s)
  \/ VerifyFails(s) \/ VerifyMismatch(s) \/ VerifyOk(s)
  \/ MoveMoney(s) \/ RefundRefused(s)
  \/ CommitDeposit(s) \/ CommitRefund(s) \/ CommitSpend(s) \/ Receipt(s)

Outside(p) == SubmitReceipt(p) \/ StartOrder(p) \/ LinkOrder(p) \/ CustomerPays(p)

Next ==
  \/ \E p \in Payments : Outside(p)
  \/ \E s \in Sessions : ArriveAny(s) \/ Step(s) \/ Crash(s)

Spec == Init /\ [][Next]_vars

\* A request that can go on infinitely often does: the event loop runs every
\* task, the provider call has a timeout, and PostgreSQL queues lock waiters.
FairSpec == Spec /\ \A s \in Sessions : SF_vars(Step(s))

-----------------------------------------------------------------------------
(* What the payments promise. *)

\* The entry points that read the payment before the service locks it.
Rereading == {"panel_approve", "panel_reject", "api_approve", "pay_return",
              "bot_check", "panel_recheck", "panel_reconcile"}

Approved(p) == IF status[p] = "approved" THEN 1 ELSE 0

\* The books and the status agree: a payment's deposits minus its refunds is one
\* exactly while it is approved, whatever is approved, rejected and refunded
\* again in whatever order and wherever a session dies.  So a payment can be
\* neither credited twice nor left credited and rejected.  It needs Flows to
\* stay clear of Rereading.
BooksMatchStatus == \A p \in Payments : credits[p] = refunds[p] + Approved(p)

\* Money is never taken back that was not given, with every entry point open: an
\* approved payment still has a deposit that no refund has reversed.
RefundsAreBacked == \A p \in Payments : credits[p] >= refunds[p] + Approved(p)

\* A request about to credit a payment that is already approved arrived before
\* the deposit that approved it was committed: only overlapping requests can
\* credit twice, a request sent after the fact never does.
RecreditNeedsOverlap ==
  \A s \in Sessions :
     (/\ job[s].at \in {"wallet", "commit"}
      /\ job[s].kind \in {"approve", "verify", "reconcile"}
      /\ status[job[s].pay] = "approved")
     => job[s].since < credits[job[s].pay]

\* A gateway order is credited only if the gateway holds its exact amount.
OnlyPaidOrdersAreCredited ==
  \A p \in Payments \ CardPayments : credits[p] > 0 => gate[p] = "paid"

\* Every receipt is for money that did move: a session that dies before its
\* commit leaves no receipt behind (invoice_service.py: it runs post-commit).
ReceiptsAreBacked ==
  \A p \in Payments : /\ <<"topup", p>> \in receipts => credits[p] > 0
                      /\ <<"refund", p>> \in receipts => refunds[p] > 0

\* A request that arrives is answered: no session waits for ever for a row lock,
\* though it takes two of them (the payment, then the user).
EveryRequestEnds ==
  \A s \in Sessions : job[s] # Idle ~> job[s] = Idle

\* gateway_service.py:4: "an approved order is never re-verified or re-credited
\* - including under concurrent double-returns".
NeverRecredited ==
  [][\A p \in Payments : status[p] = "approved" => credits'[p] = credits[p]]_vars

\* refund_service.py:7: "refunded is terminal".
RefundedIsTerminal ==
  [][\A p \in Payments : status[p] = "refunded" => status'[p] = "refunded"]_vars
=============================================================================
