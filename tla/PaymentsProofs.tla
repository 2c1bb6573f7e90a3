--------------------------- MODULE PaymentsProofs ---------------------------
(***************************************************************************)
(* Proofs about Payments, for any customers, payments, sessions, bounds    *)
(* and any choice of entry points.  The invariant is split in two: JobOK   *)
(* says what a session may rely on while it serves a request, PayOK what   *)
(* the books say of a payment.  A step of one session disturbs another's   *)
(* JobOK only through the rows both look at: Frame bounds what it may do.  *)
(***************************************************************************)
EXTENDS Payments, WalletProofs

Deposits == {"approve", "verify", "reconcile"}
Locked == {"verify", "wallet", "commit"}

\* What holds of the request a session serves.  The third conjunct is the row
\* lock on the payment; the rest is what the guards saw and nobody could change
\* since, or, where the guards tested a copy, what its age implies.
JobOK(s) ==
  LET j == job[s] IN
  job[s] # Idle =>
    /\ j.kind = "spend" => j.at = "commit"
    /\ j.kind # "spend" => j.pay \in Payments /\ j.since <= credits[j.pay]
    /\ (j.kind # "spend" /\ j.at \in Locked) => payLock[j.pay] = s
    /\ j.at = "verify" => j.kind \in {"verify", "reconcile"}
    /\ j.kind = "approve" => j.pay \in CardPayments
    /\ j.kind = "refund" => j.seen = NotLoaded
    /\ (j.kind = "refund" /\ j.at \in {"wallet", "commit"}) => status[j.pay] = "approved"
    /\ (j.kind \in Deposits /\ j.at \in Locked) =>
          IF j.seen = NotLoaded THEN status[j.pay] # "approved" ELSE j.seen # "approved"
    /\ (/\ j.kind \in Deposits
        /\ j.seen # NotLoaded /\ j.seen # "approved"
        /\ status[j.pay] = "approved") => j.since < credits[j.pay]
    /\ (j.kind \in {"verify", "reconcile"} /\ j.at \in {"wallet", "commit"})
         => gate[j.pay] = "paid"
    /\ j.at = "receipt" => IF j.kind = "refund" THEN refunds[j.pay] > 0
                           ELSE j.kind \in Deposits /\ credits[j.pay] > 0

\* What the books say of a payment.
PayOK(p) ==
  /\ credits[p] >= refunds[p] + Approved(p)
  /\ (p \notin CardPayments /\ credits[p] > 0) => gate[p] = "paid"
  /\ <<"topup", p>> \in receipts => credits[p] > 0
  /\ <<"refund", p>> \in receipts => refunds[p] > 0

PayIInv ==
  /\ PayTypeOK
  /\ \A s \in Sessions : JobOK(s)
  /\ \A p \in Payments : PayOK(p)

PaymentsIInv == WalletIInv /\ PayIInv

\* What a step on behalf of session s may do to what the others look at.
Frame(s) ==
  /\ \A t \in Sessions \ {s} : job'[t] = job[t]
  /\ \A p \in Payments :
        /\ payLock[p] \notin {s, Unlocked} =>
              payLock'[p] = payLock[p] /\ status'[p] = status[p]
        /\ credits'[p] >= credits[p]
        /\ refunds'[p] >= refunds[p]
        /\ gate[p] = "paid" => gate'[p] = "paid"
        /\ (status'[p] = "approved" /\ status[p] # "approved") => credits'[p] > credits[p]

-----------------------------------------------------------------------------
\* A step inside the frame leaves the other sessions what they rely on.
LEMMA FrameKeepsOthers ==
  ASSUME PayIInv, PayTypeOK', NEW s \in Sessions, Frame(s),
         NEW t \in Sessions, t # s
  PROVE  JobOK(t)'
<1>1. job'[t] = job[t] /\ JobOK(t)
  BY DEF Frame, PayIInv
<1>2. CASE job[t] = Idle
  BY <1>1, <1>2 DEF JobOK
<1>3. CASE job[t] # Idle
  <2>1. job[t] \in Job
    BY <1>3 DEF PayIInv, PayTypeOK
  <2>2. CASE job[t].kind = "spend"
    BY <1>1, <1>3, <2>1, <2>2 DEF JobOK, Job, Deposits
  <2>3. CASE job[t].kind # "spend"
    <3> DEFINE p == job[t].pay
    <3>1. p \in Payments /\ job[t].since <= credits[p]
      BY <1>1, <1>3, <2>3 DEF JobOK
    <3>2. /\ credits'[p] >= credits[p] /\ refunds'[p] >= refunds[p]
          /\ gate[p] = "paid" => gate'[p] = "paid"
          /\ (status'[p] = "approved" /\ status[p] # "approved") => credits'[p] > credits[p]
          /\ payLock[p] = t => payLock'[p] = t /\ status'[p] = status[p]
      BY <3>1, UnlockedAssumption DEF Frame
    <3>3. /\ credits[p] \in Nat /\ refunds[p] \in Nat /\ job[t].since \in Nat
          /\ credits'[p] \in Nat /\ refunds'[p] \in Nat
      BY <2>1, <3>1 DEF PayIInv, PayTypeOK, Job
    <3> QED BY <1>1, <1>3, <2>1, <2>3, <3>1, <3>2, <3>3 DEF JobOK, Job, Deposits, Locked
  <2> QED BY <2>2, <2>3
<1> QED BY <1>2, <1>3

\* So a step is checked by its own session, its types and its books.
LEMMA StepKeepsPayIInv ==
  ASSUME PayIInv, PayTypeOK', NEW s \in Sessions, Frame(s), JobOK(s)',
         \A p \in Payments : PayOK(p)'
  PROVE  PayIInv'
BY FrameKeepsOthers DEF PayIInv

\* The empty books.
LEMMA InitPayIInv == Init => PayIInv
<1> SUFFICES ASSUME Init PROVE PayIInv
  OBVIOUS
<1>1. PayTypeOK
  BY DEF Init, PayTypeOK, Statuses
<1>2. \A s \in Sessions : JobOK(s)
  BY DEF Init, JobOK
<1>3. \A p \in Payments : PayOK(p)
  BY DEF Init, PayOK, Approved
<1> QED BY <1>1, <1>2, <1>3 DEF PayIInv

-----------------------------------------------------------------------------
(* One lemma per kind of step. *)

\* A payment is filed, linked or paid for: no request can have it locked.
LEMMA OutsideKeeps ==
  ASSUME PayIInv, NEW p \in Payments, Outside(p)
  PROVE  PayIInv'
<1>1. PayTypeOK'
  BY DEF Outside, SubmitReceipt, StartOrder, LinkOrder, CustomerPays, PayIInv,
         PayTypeOK, Statuses
<1>2. /\ \A q \in Payments : /\ status[q] = "approved" <=> status'[q] = "approved"
                             /\ gate[q] = "paid" => gate'[q] = "paid"
      /\ UNCHANGED <<payLock, job, credits, refunds, receipts>>
  BY DEF Outside, SubmitReceipt, StartOrder, LinkOrder, CustomerPays, PayIInv, PayTypeOK
<1>3. ASSUME NEW s \in Sessions PROVE JobOK(s)'
  <2>1. JobOK(s)
    BY DEF PayIInv
  <2>2. CASE job[s] = Idle
    BY <1>2, <2>2 DEF JobOK
  <2>3. CASE job[s] # Idle /\ job[s].kind # "spend"
    BY <1>2, <2>1, <2>3 DEF JobOK, Deposits, Locked
  <2>4. CASE job[s] # Idle /\ job[s].kind = "spend"
    BY <1>2, <2>1, <2>4 DEF JobOK, Deposits, Locked
  <2> QED BY <2>2, <2>3, <2>4
<1>4. ASSUME NEW q \in Payments PROVE PayOK(q)'
  BY <1>2 DEF PayIInv, PayOK, Approved
<1> QED BY <1>1, <1>3, <1>4 DEF PayIInv

\* A request arrives: it holds nothing yet, and the copy of the status it read
\* is as old as its count of the deposits.
LEMMA ArriveKeeps ==
  ASSUME PayIInv, NEW s \in Sessions, NEW p \in Payments,
         NEW kind \in Kinds \ {"spend"}, NEW seen \in Statuses \cup {NotLoaded},
         Arrive(s, p, kind, seen),
         kind = "approve" => p \in CardPayments,
         kind = "refund" => seen = NotLoaded,
         seen # NotLoaded => seen = status[p]
  PROVE  PayIInv'
<1> DEFINE j == [kind |-> kind, pay |-> p, at |-> "lock", seen |-> seen,
                 since |-> credits[p]]
<1>1. /\ job' = [job EXCEPT ![s] = j]
      /\ UNCHANGED <<status, payLock, gate, credits, refunds, receipts>>
  BY DEF Arrive
<1>2. j \in Job /\ credits[p] \in Nat
  BY DEF Job, Stages, PayIInv, PayTypeOK
<1>3. /\ j.kind = kind /\ j.pay = p /\ j.at = "lock" /\ j.seen = seen
      /\ j.since = credits[p]
  OBVIOUS
<1> HIDE DEF j
<1>4. PayTypeOK'
  BY <1>1, <1>2 DEF PayIInv, PayTypeOK
<1>5. Frame(s)
  BY <1>1 DEF Frame, PayIInv, PayTypeOK
<1>6. JobOK(s)'
  <2>1. job'[s] = j
    BY <1>1 DEF PayIInv, PayTypeOK
  <2> QED BY <1>1, <1>2, <1>3, <2>1 DEF JobOK, Deposits, Locked
<1>7. \A q \in Payments : PayOK(q)'
  BY <1>1 DEF PayIInv, PayOK, Approved
<1> QED BY <1>4, <1>5, <1>6, <1>7, StepKeepsPayIInv

\* A request ends or dies: its locks go, and the books stand still.
LEMMA CloseKeeps ==
  ASSUME PayIInv, NEW s \in Sessions, Close(s),
         UNCHANGED <<status, gate, credits, refunds, receipts>>
  PROVE  PayIInv'
<1> USE DEF Close
<1>1. PayTypeOK'
  BY DEF PayIInv, PayTypeOK
<1>2. Frame(s)
  BY DEF Frame, PayIInv, PayTypeOK
<1>3. JobOK(s)'
  BY DEF JobOK, PayIInv, PayTypeOK
<1>4. \A q \in Payments : PayOK(q)'
  BY DEF PayIInv, PayOK, Approved
<1> QED BY <1>1, <1>2, <1>3, <1>4, StepKeepsPayIInv

\* The request of a busy session, typed.
LEMMA Serving ==
  ASSUME PayIInv, NEW s \in Sessions, job[s] # Idle
  PROVE  /\ job[s] \in Job
         /\ job[s].kind # "spend" =>
              /\ job[s].pay \in Payments
              /\ job[s].since \in Nat /\ job[s].since <= credits[job[s].pay]
<1>1. job[s] \in Job /\ JobOK(s)
  BY DEF PayIInv, PayTypeOK
<1> QED BY <1>1 DEF JobOK, Job

\* The payment row is locked after the guards passed.
LEMMA TakeKeeps ==
  ASSUME PayIInv, NEW s \in Sessions, Approve(s) \/ BeginVerify(s) \/ BeginRefund(s)
  PROVE  PayIInv'
<1> DEFINE j == job[s]
           p == job[s].pay
           stage == IF job[s].kind \in {"verify", "reconcile"} THEN "verify" ELSE "wallet"
           k == [job[s] EXCEPT !.at = stage]
<1>1. /\ j.at = "lock" /\ j.kind \in {"approve", "verify", "reconcile", "refund"}
      /\ payLock[p] = Unlocked /\ ~ NothingToDo(s)
      /\ payLock' = [payLock EXCEPT ![p] = s]
      /\ job' = [job EXCEPT ![s] = k]
      /\ UNCHANGED <<status, gate, credits, refunds, receipts>>
  BY DEF Approve, BeginVerify, BeginRefund, AtPayment, TakePayment, Advance
<1>2. j # Idle /\ j \in Job /\ p \in Payments /\ JobOK(s)
      /\ j.since \in Nat /\ j.since <= credits[p]
  BY <1>1, Serving DEF Idle, PayIInv
<1>3. /\ k \in Job /\ k.at = stage
      /\ k.kind = j.kind /\ k.pay = p /\ k.seen = j.seen /\ k.since = j.since
  BY <1>2 DEF Job, Stages
<1>4. job'[s] = k
  BY <1>1 DEF PayIInv, PayTypeOK
<1>5. PayTypeOK'
  BY <1>1, <1>2, <1>3 DEF PayIInv, PayTypeOK
<1>6. Frame(s)
  BY <1>1, <1>2 DEF Frame, PayIInv, PayTypeOK
<1>7. payLock'[p] = s
  BY <1>1, <1>2 DEF PayIInv, PayTypeOK
<1>8. /\ j.kind = "approve" => SeenStatus(s) # "approved"
      /\ j.kind \in {"verify", "reconcile"} => SeenStatus(s) \notin {"approved", "rejected"}
      /\ j.kind = "refund" => SeenStatus(s) = "approved"
  BY <1>1 DEF NothingToDo
<1>9. stage \in {"verify", "wallet"} /\ (stage = "verify" <=> j.kind \in {"verify", "reconcile"})
  OBVIOUS
<1> HIDE DEF k, stage
<1>10. JobOK(s)'
  <2>1. UNCHANGED <<status, gate, credits, refunds>>
    BY <1>1
  <2> QED BY <1>1, <1>2, <1>3, <1>4, <1>7, <1>8, <1>9, <2>1
          DEF JobOK, Deposits, Locked, SeenStatus
<1>11. \A q \in Payments : PayOK(q)'
  BY <1>1 DEF PayIInv, PayOK, Approved
<1> QED BY <1>5, <1>6, <1>10, <1>11, StepKeepsPayIInv

\* A payment that is rejected or expires claims no deposit.
LEMMA ClaimsNoDeposit ==
  ASSUME PayIInv, NEW p \in Payments, NEW x \in Statuses \ {"approved"},
         status' = [status EXCEPT ![p] = x],
         UNCHANGED <<gate, credits, refunds, receipts>>
  PROVE  \A q \in Payments : PayOK(q)'
<1> SUFFICES ASSUME NEW q \in Payments PROVE PayOK(q)'
  OBVIOUS
<1>1. PayOK(q) /\ credits[q] \in Nat /\ refunds[q] \in Nat
  BY DEF PayIInv, PayTypeOK
<1>2. status'[q] = "approved" => status[q] = "approved"
  BY DEF PayIInv, PayTypeOK
<1>3. credits[q] >= refunds[q] + Approved(q)'
  BY <1>1, <1>2 DEF PayOK, Approved
<1> QED BY <1>1, <1>3 DEF PayOK

\* A rejection, from the locking select to its commit.
LEMMA RejectKeeps ==
  ASSUME PayIInv, NEW s \in Sessions, Reject(s)
  PROVE  PayIInv'
<1> DEFINE p == job[s].pay
<1>1. /\ job[s].at = "lock" /\ job[s].kind = "reject" /\ payLock[p] = Unlocked
      /\ status' = [status EXCEPT ![p] = "rejected"]
      /\ job' = [job EXCEPT ![s] = Idle]
      /\ payLock' = [q \in Payments |-> IF payLock[q] = s THEN Unlocked ELSE payLock[q]]
      /\ UNCHANGED <<gate, credits, refunds, receipts>>
  BY DEF Reject, AtPayment, Close
<1>2. p \in Payments
  BY <1>1, Serving DEF Idle
<1>3. PayTypeOK'
  BY <1>1, <1>2 DEF PayIInv, PayTypeOK, Statuses
<1>4. Frame(s)
  BY <1>1, <1>2 DEF Frame, PayIInv, PayTypeOK
<1>5. JobOK(s)'
  BY <1>1 DEF JobOK, PayIInv, PayTypeOK
<1>6. \A q \in Payments : PayOK(q)'
  BY <1>1, <1>2, ClaimsNoDeposit DEF Statuses
<1> QED BY <1>3, <1>4, <1>5, <1>6, StepKeepsPayIInv

\* The gateway does not confirm the order: it stays, expires or is rejected.
LEMMA VerifyFailsKeeps ==
  ASSUME PayIInv, NEW s \in Sessions, VerifyFails(s) \/ VerifyMismatch(s)
  PROVE  PayIInv'
<1> DEFINE p == job[s].pay
<1>1. job[s].at = "verify" /\ Close(s) /\ UNCHANGED <<gate, credits, refunds, receipts>>
  BY DEF VerifyFails, VerifyMismatch
<1>2. job[s] # Idle /\ JobOK(s) /\ job[s].kind \in {"verify", "reconcile"}
  BY <1>1 DEF Idle, PayIInv, JobOK
<1>3. p \in Payments /\ payLock[p] = s
  BY <1>1, <1>2 DEF JobOK, Locked
<1>4. CASE UNCHANGED status
  BY <1>1, <1>4, CloseKeeps
<1>5. CASE \E x \in {"expired", "rejected"} : status' = [status EXCEPT ![p] = x]
  <2>1. /\ job' = [job EXCEPT ![s] = Idle]
        /\ payLock' = [q \in Payments |-> IF payLock[q] = s THEN Unlocked ELSE payLock[q]]
    BY <1>1 DEF Close
  <2>2. PayTypeOK'
    BY <1>1, <1>3, <1>5, <2>1 DEF PayIInv, PayTypeOK, Statuses
  <2>3. Frame(s)
    BY <1>1, <1>3, <1>5, <2>1 DEF Frame, PayIInv, PayTypeOK
  <2>4. JobOK(s)'
    BY <2>1 DEF JobOK, PayIInv, PayTypeOK
  <2>5. \A q \in Payments : PayOK(q)'
    BY <1>1, <1>3, <1>5, ClaimsNoDeposit DEF Statuses
  <2> QED BY <2>2, <2>3, <2>4, <2>5, StepKeepsPayIInv
<1> QED BY <1>4, <1>5 DEF VerifyFails, VerifyMismatch

\* The gateway confirms the amount, or the ledger row is flushed: the request
\* keeps the payment and moves on.
LEMMA MoveOnKeeps ==
  ASSUME PayIInv, NEW s \in Sessions, VerifyOk(s) \/ MoveMoney(s)
  PROVE  PayIInv'
<1> DEFINE j == job[s]
           p == job[s].pay
           stage == IF job[s].at = "verify" THEN "wallet" ELSE "commit"
           k == [job[s] EXCEPT !.at = stage]
<1>1. /\ j.at \in {"verify", "wallet"}
      /\ j.at = "verify" => gate[p] = "paid"
      /\ job' = [job EXCEPT ![s] = k]
      /\ UNCHANGED <<status, payLock, gate, credits, refunds, receipts>>
  BY DEF VerifyOk, MoveMoney, Advance
<1>2. j # Idle /\ j \in Job /\ JobOK(s)
  BY <1>1, Serving DEF Idle, PayIInv
<1>3. /\ k \in Job /\ k.at = stage
      /\ k.kind = j.kind /\ k.pay = p /\ k.seen = j.seen /\ k.since = j.since
  BY <1>2 DEF Job, Stages
<1>4. job'[s] = k
  BY <1>1 DEF PayIInv, PayTypeOK
<1>5. PayTypeOK'
  BY <1>1, <1>3 DEF PayIInv, PayTypeOK
<1>6. Frame(s)
  BY <1>1, <1>2 DEF Frame, PayIInv, PayTypeOK
<1>7. stage \in {"wallet", "commit"} /\ (stage = "wallet" <=> j.at = "verify")
  BY <1>1
<1> HIDE DEF k, stage
<1>8. JobOK(s)'
  BY <1>1, <1>2, <1>3, <1>4, <1>7 DEF JobOK, Deposits, Locked
<1>9. \A q \in Payments : PayOK(q)'
  BY <1>1 DEF PayIInv, PayOK, Approved
<1> QED BY <1>5, <1>6, <1>8, <1>9, StepKeepsPayIInv

\* The commit of a deposit: one more, and the payment is approved.
LEMMA CommitDepositKeeps ==
  ASSUME PayIInv, NEW s \in Sessions, CommitDeposit(s)
  PROVE  PayIInv'
<1> DEFINE j == job[s]
           p == job[s].pay
           k == [job[s] EXCEPT !.at = "receipt"]
<1>1. /\ j.at = "commit" /\ j.kind \in Deposits
      /\ status' = [status EXCEPT ![p] = "approved"]
      /\ credits' = [credits EXCEPT ![p] = @ + 1]
      /\ payLock' = [payLock EXCEPT ![p] = Unlocked]
      /\ job' = [job EXCEPT ![s] = k]
      /\ UNCHANGED <<gate, refunds, receipts>>
  BY DEF CommitDeposit, Advance, Deposits
<1>2. /\ j # Idle /\ j \in Job /\ JobOK(s) /\ p \in Payments
      /\ j.since \in Nat /\ j.since <= credits[p]
  BY <1>1, Serving DEF Idle, PayIInv, Deposits
<1>3. payLock[p] = s /\ (p \notin CardPayments => gate[p] = "paid")
  BY <1>1, <1>2 DEF JobOK, Locked, Deposits
<1>4. /\ k \in Job /\ k.at = "receipt"
      /\ k.kind = j.kind /\ k.pay = p /\ k.seen = j.seen /\ k.since = j.since
  BY <1>2 DEF Job, Stages
<1>5. job'[s] = k
  BY <1>1 DEF PayIInv, PayTypeOK
<1> HIDE DEF k
<1>6. PayTypeOK'
  BY <1>1, <1>2, <1>4 DEF PayIInv, PayTypeOK, Statuses
<1>7. /\ credits'[p] = credits[p] + 1 /\ credits[p] \in Nat /\ status'[p] = "approved"
      /\ \A q \in Payments \ {p} : credits'[q] = credits[q] /\ status'[q] = status[q]
  BY <1>1, <1>2 DEF PayIInv, PayTypeOK
<1>8. Frame(s)
  BY <1>1, <1>2, <1>3, <1>7 DEF Frame, PayIInv, PayTypeOK
<1>9. JobOK(s)'
  BY <1>1, <1>2, <1>4, <1>5, <1>7 DEF JobOK, Deposits, Locked
<1>10. ASSUME NEW q \in Payments PROVE PayOK(q)'
  <2>1. PayOK(q) /\ credits[q] \in Nat /\ refunds[q] \in Nat
    BY DEF PayIInv, PayTypeOK
  <2>2. CASE q # p
    BY <1>1, <1>7, <2>1, <2>2 DEF PayOK, Approved
  <2>3. CASE q = p
    <3>1. Approved(q) \in Nat /\ Approved(q)' = 1
      BY <1>7, <2>3 DEF Approved
    <3>2. /\ credits'[q] = credits[q] + 1 /\ refunds'[q] = refunds[q]
          /\ receipts' = receipts /\ gate'[q] = gate[q]
          /\ q \notin CardPayments => gate[q] = "paid"
      BY <1>1, <1>3, <1>7, <2>3
    <3> QED BY <2>1, <3>1, <3>2 DEF PayOK
  <2> QED BY <2>2, <2>3
<1> QED BY <1>6, <1>8, <1>9, <1>10, StepKeepsPayIInv

\* The commit of a refund: the lock kept the payment approved, so its deposit
\* is there to be reversed.
LEMMA CommitRefundKeeps ==
  ASSUME PayIInv, NEW s \in Sessions, CommitRefund(s)
  PROVE  PayIInv'
<1> DEFINE j == job[s]
           p == job[s].pay
           k == [job[s] EXCEPT !.at = "receipt"]
<1>1. /\ j.at = "commit" /\ j.kind = "refund"
      /\ status' = [status EXCEPT ![p] = "refunded"]
      /\ refunds' = [refunds EXCEPT ![p] = @ + 1]
      /\ payLock' = [payLock EXCEPT ![p] = Unlocked]
      /\ job' = [job EXCEPT ![s] = k]
      /\ UNCHANGED <<gate, credits, receipts>>
  BY DEF CommitRefund, Advance
<1>2. /\ j # Idle /\ j \in Job /\ JobOK(s) /\ p \in Payments
      /\ j.since \in Nat /\ j.since <= credits[p]
  BY <1>1, Serving DEF Idle, PayIInv
<1>3. payLock[p] = s /\ status[p] = "approved"
  BY <1>1, <1>2 DEF JobOK, Locked
<1>4. /\ k \in Job /\ k.at = "receipt"
      /\ k.kind = j.kind /\ k.pay = p /\ k.seen = j.seen /\ k.since = j.since
  BY <1>2 DEF Job, Stages
<1>5. job'[s] = k
  BY <1>1 DEF PayIInv, PayTypeOK
<1> HIDE DEF k
<1>6. PayTypeOK'
  BY <1>1, <1>2, <1>4 DEF PayIInv, PayTypeOK, Statuses
<1>7. /\ refunds'[p] = refunds[p] + 1 /\ refunds[p] \in Nat /\ status'[p] = "refunded"
      /\ \A q \in Payments \ {p} : refunds'[q] = refunds[q] /\ status'[q] = status[q]
  BY <1>1, <1>2 DEF PayIInv, PayTypeOK
<1>8. Frame(s)
  BY <1>1, <1>2, <1>3, <1>7 DEF Frame, PayIInv, PayTypeOK
<1>9. JobOK(s)'
  BY <1>1, <1>2, <1>4, <1>5, <1>7 DEF JobOK, Deposits, Locked
<1>10. ASSUME NEW q \in Payments PROVE PayOK(q)'
  <2>1. PayOK(q) /\ credits[q] \in Nat /\ refunds[q] \in Nat
    BY DEF PayIInv, PayTypeOK
  <2>2. CASE q # p
    BY <1>1, <1>7, <2>1, <2>2 DEF PayOK, Approved
  <2>3. CASE q = p
    <3>1. Approved(q) = 1 /\ Approved(q)' = 0
      BY <1>3, <1>7, <2>3 DEF Approved
    <3>2. /\ credits'[q] = credits[q] /\ refunds'[q] = refunds[q] + 1
          /\ receipts' = receipts /\ gate'[q] = gate[q]
      BY <1>1, <1>7, <2>3
    <3> QED BY <2>1, <3>1, <3>2 DEF PayOK
  <2> QED BY <2>2, <2>3
<1> QED BY <1>6, <1>8, <1>9, <1>10, StepKeepsPayIInv

\* Money leaves the wallet some other way: no payment is concerned.
LEMMA SpendKeeps ==
  ASSUME PayIInv, NEW s \in Sessions, NEW u \in Users, Spend(s, u)
  PROVE  PayIInv'
<1> DEFINE k == [kind |-> "spend", pay |-> NotLoaded, at |-> "commit",
                 seen |-> NotLoaded, since |-> 0]
<1>1. job' = [job EXCEPT ![s] = k]
      /\ UNCHANGED <<status, payLock, gate, credits, refunds, receipts>>
  BY DEF Spend
<1>2. k \in Job /\ k.kind = "spend" /\ k.at = "commit"
  BY DEF Job, Kinds, Stages
<1> HIDE DEF k
<1>3. PayTypeOK'
  BY <1>1, <1>2 DEF PayIInv, PayTypeOK
<1>4. Frame(s)
  BY <1>1 DEF Frame, PayIInv, PayTypeOK
<1>5. job'[s] = k
  BY <1>1 DEF PayIInv, PayTypeOK
<1>6. JobOK(s)'
  BY <1>2, <1>5 DEF JobOK, Deposits
<1>7. \A q \in Payments : PayOK(q)'
  BY <1>1 DEF PayIInv, PayOK, Approved
<1> QED BY <1>3, <1>4, <1>6, <1>7, StepKeepsPayIInv

\* The refund is refused, or the spending commits: the session is idle again.
LEMMA IdleAgainKeeps ==
  ASSUME PayIInv, NEW s \in Sessions, RefundRefused(s) \/ CommitSpend(s)
  PROVE  PayIInv'
<1> DEFINE p == job[s].pay
<1>1. /\ job' = [job EXCEPT ![s] = Idle]
      /\ UNCHANGED <<status, gate, credits, refunds, receipts>>
      /\ \/ payLock' = payLock
         \/ job[s].at = "wallet" /\ payLock' = [payLock EXCEPT ![p] = Unlocked]
  BY DEF RefundRefused, CommitSpend
<1>2. job[s].at = "wallet" => p \in Payments /\ payLock[p] = s
  <2> SUFFICES ASSUME job[s].at = "wallet" PROVE p \in Payments /\ payLock[p] = s
    OBVIOUS
  <2>1. job[s] # Idle /\ JobOK(s)
    BY DEF Idle, PayIInv
  <2> QED BY <2>1 DEF JobOK, Locked
<1>3. PayTypeOK'
  BY <1>1, <1>2 DEF PayIInv, PayTypeOK
<1>4. Frame(s)
  BY <1>1, <1>2 DEF Frame, PayIInv, PayTypeOK
<1>5. JobOK(s)'
  BY <1>1 DEF JobOK, PayIInv, PayTypeOK
<1>6. \A q \in Payments : PayOK(q)'
  BY <1>1 DEF PayIInv, PayOK, Approved
<1> QED BY <1>3, <1>4, <1>5, <1>6, StepKeepsPayIInv

\* A receipt is recorded after the commit that it is for, or is lost.
LEMMA ReceiptKeeps ==
  ASSUME PayIInv, NEW s \in Sessions, Receipt(s)
  PROVE  PayIInv'
<1> DEFINE p == job[s].pay
           r == <<IF job[s].kind = "refund" THEN "refund" ELSE "topup", p>>
<1>1. /\ job[s].at = "receipt" /\ Close(s)
      /\ receipts' = receipts \cup {r} \/ receipts' = receipts
      /\ UNCHANGED <<status, gate, credits, refunds>>
  BY DEF Receipt
<1>2. job[s] # Idle /\ JobOK(s) /\ job[s] \in Job
  BY <1>1, Serving DEF Idle, PayIInv
<1>3. /\ p \in Payments
      /\ IF job[s].kind = "refund" THEN refunds[p] > 0 ELSE credits[p] > 0
  BY <1>1, <1>2 DEF JobOK, Deposits
<1>4. /\ job' = [job EXCEPT ![s] = Idle]
      /\ payLock' = [q \in Payments |-> IF payLock[q] = s THEN Unlocked ELSE payLock[q]]
  BY <1>1 DEF Close
<1>5. PayTypeOK'
  BY <1>1, <1>3, <1>4 DEF PayIInv, PayTypeOK
<1>6. Frame(s)
  BY <1>1, <1>4 DEF Frame, PayIInv, PayTypeOK
<1>7. JobOK(s)'
  BY <1>4 DEF JobOK, PayIInv, PayTypeOK
<1>8. ASSUME NEW q \in Payments PROVE PayOK(q)'
  <2>1. PayOK(q) /\ Approved(q)' = Approved(q)
    BY <1>1 DEF PayIInv, Approved
  <2>2. <<"topup", q>> \in receipts' => credits[q] > 0
    BY <1>1, <1>3, <2>1 DEF PayOK
  <2>3. <<"refund", q>> \in receipts' => refunds[q] > 0
    BY <1>1, <1>3, <2>1 DEF PayOK
  <2> QED BY <1>1, <2>1, <2>2, <2>3 DEF PayOK
<1> QED BY <1>5, <1>6, <1>7, <1>8, StepKeepsPayIInv

-----------------------------------------------------------------------------
\* Every entry point keeps the invariant.
LEMMA ArriveAnyKeeps ==
  ASSUME PayIInv, NEW s \in Sessions, ArriveAny(s)
  PROVE  PayIInv'
<1>1. ASSUME NEW u \in Users, Spend(s, u) PROVE PayIInv'
  BY <1>1, SpendKeeps
<1>2. ASSUME NEW p \in Payments,
             \/ BotApprove(s, p) \/ PanelApprove(s, p) \/ ApiApprove(s, p)
             \/ BotReject(s, p) \/ PanelReject(s, p)
             \/ PayReturn(s, p) \/ BotCheck(s, p) \/ PanelRecheck(s, p)
             \/ PanelReconcile(s, p) \/ PanelRefund(s, p)
      PROVE  PayIInv'
  <2>1. status[p] \in Statuses
    BY DEF PayIInv, PayTypeOK
  <2>2. \E kind \in Kinds \ {"spend"}, seen \in Statuses \cup {NotLoaded} :
          /\ Arrive(s, p, kind, seen)
          /\ kind = "approve" => p \in CardPayments
          /\ kind = "refund" => seen = NotLoaded
          /\ seen # NotLoaded => seen = status[p]
    <3>1. CASE BotApprove(s, p)
      BY <3>1 DEF BotApprove, Kinds
    <3>2. CASE PanelApprove(s, p) \/ ApiApprove(s, p)
      BY <2>1, <3>2 DEF PanelApprove, ApiApprove, Kinds
    <3>3. CASE BotReject(s, p)
      BY <3>3 DEF BotReject, Kinds
    <3>4. CASE PanelReject(s, p)
      BY <2>1, <3>4 DEF PanelReject, Kinds
    <3>5. CASE PayReturn(s, p) \/ BotCheck(s, p) \/ PanelRecheck(s, p)
      BY <2>1, <3>5 DEF PayReturn, BotCheck, PanelRecheck, Kinds
    <3>6. CASE PanelReconcile(s, p)
      BY <2>1, <3>6 DEF PanelReconcile, Kinds
    <3>7. CASE PanelRefund(s, p)
      BY <3>7 DEF PanelRefund, Kinds
    <3> QED BY <1>2, <3>1, <3>2, <3>3, <3>4, <3>5, <3>6, <3>7
  <2> QED BY <2>2, ArriveKeeps
<1> QED BY <1>1, <1>2 DEF ArriveAny

\* Every step of every session, and of the world outside, keeps the invariant.
LEMMA NextKeepsPayIInv == PayIInv /\ [Next]_vars => PayIInv'
<1> SUFFICES ASSUME PayIInv, [Next]_vars PROVE PayIInv'
  OBVIOUS
<1>1. CASE UNCHANGED vars
  <2>1. PayTypeOK'
    BY <1>1 DEF vars, payVars, PayIInv, PayTypeOK
  <2>2. \A s \in Sessions : JobOK(s)'
    BY <1>1 DEF vars, payVars, PayIInv, JobOK
  <2>3. \A p \in Payments : PayOK(p)'
    BY <1>1 DEF vars, payVars, PayIInv, PayOK, Approved
  <2> QED BY <2>1, <2>2, <2>3 DEF PayIInv
<1>2. ASSUME NEW s \in Sessions, ReturnEarly(s) \/ Crash(s) PROVE PayIInv'
  BY <1>2, CloseKeeps DEF ReturnEarly, Crash
<1>3. ASSUME NEW s \in Sessions, Step(s) PROVE PayIInv'
  BY <1>2, <1>3, TakeKeeps, RejectKeeps, VerifyFailsKeeps, MoveOnKeeps,
     CommitDepositKeeps, CommitRefundKeeps, IdleAgainKeeps, ReceiptKeeps
     DEF Step
<1> QED BY <1>1, <1>2, <1>3, OutsideKeeps, ArriveAnyKeeps DEF Next

-----------------------------------------------------------------------------
(* The wallet inside Payments. *)

\* A payment moves money only by steps of the wallet.
LEMMA StepIsWalletStep == PayIInv /\ [Next]_vars => [WalletStep]_walletVars
<1> SUFFICES ASSUME PayIInv, [Next]_vars PROVE [WalletStep]_walletVars
  OBVIOUS
<1>1. CASE UNCHANGED vars
  BY <1>1 DEF vars
<1>2. ASSUME NEW s \in Sessions, Close(s) PROVE WalletStep
  BY <1>2 DEF Close, WalletStep
<1>3. ASSUME NEW s \in Sessions, MoveMoney(s) \/ RefundRefused(s) PROVE WalletStep
  <2>1. job[s].at = "wallet"
    BY <1>3 DEF MoveMoney, RefundRefused
  <2>2. job[s] # Idle /\ JobOK(s)
    BY <2>1 DEF Idle, PayIInv
  <2>3. job[s].pay \in Payments
    BY <2>1, <2>2 DEF JobOK
  <2>4. Owner[job[s].pay] \in Users /\ Amount[job[s].pay] \in Amounts
    BY <2>3, OwnerAssumption, AmountAssumption
  <2>5. Move(s) \in Postable
    BY <2>4 DEF Move, Postable
  <2> QED BY <1>3, <2>4, <2>5 DEF MoveMoney, RefundRefused, WalletStep
<1>4. ASSUME NEW s \in Sessions, CommitDeposit(s) \/ CommitRefund(s) \/ CommitSpend(s)
      PROVE  WalletStep
  BY <1>4 DEF CommitDeposit, CommitRefund, CommitSpend, WalletStep
<1>5. ASSUME NEW s \in Sessions,
             \/ Approve(s) \/ BeginVerify(s) \/ BeginRefund(s) \/ VerifyOk(s)
      PROVE  UNCHANGED walletVars
  BY <1>5 DEF Approve, BeginVerify, BeginRefund, VerifyOk, TakePayment
<1>6. ASSUME NEW s \in Sessions, Step(s) PROVE [WalletStep]_walletVars
  BY <1>2, <1>3, <1>4, <1>5, <1>6 DEF Step, ReturnEarly, Reject, VerifyFails,
     VerifyMismatch, Receipt
<1>7. ASSUME NEW s \in Sessions, NEW u \in Users, Spend(s, u) PROVE WalletStep
  BY <1>7 DEF Spend, WalletStep, Postable
<1>8. ASSUME NEW s \in Sessions, NEW p \in Payments, BotCheck(s, p) PROVE WalletStep
  <2>1. Owner[p] \in Users
    BY OwnerAssumption
  <2> QED BY <1>8, <2>1 DEF BotCheck, Preload, WalletStep
<1>9. ASSUME NEW s \in Sessions, ArriveAny(s) PROVE [WalletStep]_walletVars
  BY <1>7, <1>8, <1>9 DEF ArriveAny, BotApprove, PanelApprove, ApiApprove, BotReject,
     PanelReject, PayReturn, PanelRecheck, PanelReconcile, PanelRefund
<1>10. ASSUME NEW p \in Payments, Outside(p) PROVE UNCHANGED walletVars
  BY <1>10 DEF Outside, SubmitReceipt, StartOrder, LinkOrder, CustomerPays
<1>11. ASSUME NEW s \in Sessions, Crash(s) PROVE WalletStep
  BY <1>2, <1>11 DEF Crash
<1> QED BY <1>1, <1>6, <1>9, <1>10, <1>11 DEF Next

\* Both invariants hold throughout.
THEOREM PaymentsInvariant == Spec => []PaymentsIInv
<1>1. Init => PaymentsIInv
  BY WalletInitIInv, InitPayIInv DEF Init, PaymentsIInv
<1>2. PaymentsIInv /\ [Next]_vars => PaymentsIInv'
  BY StepIsWalletStep, WalletStepKeepsIInv, NextKeepsPayIInv DEF PaymentsIInv
<1> QED BY <1>1, <1>2, PTL DEF Spec

\* Every variable of the payments and of the wallet below them keeps its type; in
\* particular no entry point, refunds included, makes a balance negative.
THEOREM PaymentsTypeCorrect == Spec => []PaymentsTypeOK
<1>1. PaymentsIInv => PaymentsTypeOK
  BY DEF PaymentsIInv, WalletIInv, PayIInv, PaymentsTypeOK
<1> QED BY <1>1, PaymentsInvariant, PTL

\* Money is never taken back that was not given, whatever is open
\* (RefundService.refund against approve and verify_and_apply).
THEOREM RefundsAreAlwaysBacked == Spec => []RefundsAreBacked
<1>1. PaymentsIInv => RefundsAreBacked
  BY DEF PaymentsIInv, PayIInv, PayOK, RefundsAreBacked
<1> QED BY <1>1, PaymentsInvariant, PTL

\* Only requests that overlap the deposit can credit an approved payment again
\* (the guards of approve and verify_and_apply test at worst the copy they read
\* on arrival).
THEOREM RecreditAlwaysNeedsOverlap == Spec => []RecreditNeedsOverlap
<1>1. PaymentsIInv => RecreditNeedsOverlap
  <2> SUFFICES ASSUME PayIInv, NEW s \in Sessions,
                      job[s].at \in {"wallet", "commit"},
                      job[s].kind \in Deposits,
                      status[job[s].pay] = "approved"
               PROVE  job[s].since < credits[job[s].pay]
    BY DEF PaymentsIInv, RecreditNeedsOverlap, Deposits
  <2>1. job[s] # Idle /\ JobOK(s)
    BY DEF Idle, PayIInv
  <2> QED BY <2>1 DEF JobOK, Deposits, Locked
<1> QED BY <1>1, PaymentsInvariant, PTL

\* A gateway order is credited only if the gateway holds its exact amount
\* (verify_and_apply).
THEOREM OnlyPaidOrdersAreEverCredited == Spec => []OnlyPaidOrdersAreCredited
<1>1. PaymentsIInv => OnlyPaidOrdersAreCredited
  BY DEF PaymentsIInv, PayIInv, PayOK, OnlyPaidOrdersAreCredited
<1> QED BY <1>1, PaymentsInvariant, PTL

\* Every receipt is for money that did move (safe_record runs after the commit).
THEOREM ReceiptsAreAlwaysBacked == Spec => []ReceiptsAreBacked
<1>1. PaymentsIInv => ReceiptsAreBacked
  BY DEF PaymentsIInv, PayIInv, PayOK, ReceiptsAreBacked
<1> QED BY <1>1, PaymentsInvariant, PTL

-----------------------------------------------------------------------------
(* Entry points that read nothing before the lock. *)

\* No request carries a copy of the status, and so nobody verifies.
NothingReread ==
  \A s \in Sessions : job[s] # Idle =>
     job[s].seen = NotLoaded /\ job[s].kind \notin {"verify", "reconcile"}

\* It stays so while the entry points that read the payment first are closed.
LEMMA NothingRereadHolds ==
  ASSUME Flows \cap Rereading = {}, PayTypeOK, NothingReread, [Next]_vars
  PROVE  NothingReread'
<1>1. CASE UNCHANGED vars
  BY <1>1 DEF vars, payVars, NothingReread
<1>2. ASSUME NEW s \in Sessions, NEW p \in Payments, NEW kind \in Kinds,
             Arrive(s, p, kind, NotLoaded), kind \notin {"verify", "reconcile"}
      PROVE  NothingReread'
  BY <1>2 DEF Arrive, NothingReread, PayTypeOK
<1>3. ASSUME NEW s \in Sessions, NEW u \in Users, Spend(s, u) PROVE NothingReread'
  BY <1>3 DEF Spend, NothingReread, PayTypeOK
<1>4. ASSUME NEW s \in Sessions, ArriveAny(s) PROVE NothingReread'
  <2>1. ASSUME NEW p \in Payments,
               BotApprove(s, p) \/ BotReject(s, p) \/ PanelRefund(s, p)
        PROVE  NothingReread'
    BY <1>2, <2>1 DEF BotApprove, BotReject, PanelRefund, Kinds
  <2>2. ASSUME NEW p \in Payments,
               \/ PanelApprove(s, p) \/ ApiApprove(s, p) \/ PanelReject(s, p)
               \/ PayReturn(s, p) \/ BotCheck(s, p) \/ PanelRecheck(s, p)
               \/ PanelReconcile(s, p)
        PROVE  FALSE
    BY <2>2 DEF Rereading, PanelApprove, ApiApprove, PanelReject, PayReturn, BotCheck,
       PanelRecheck, PanelReconcile
  <2> QED BY <1>3, <1>4, <2>1, <2>2 DEF ArriveAny
<1>5. ASSUME NEW s \in Sessions, Step(s) \/ Crash(s) PROVE NothingReread'
  <2>1. \/ job' = [job EXCEPT ![s] = Idle]
        \/ job[s] # Idle /\ \E stage \in Stages : job' = [job EXCEPT ![s].at = stage]
    BY <1>5 DEF Step, Crash, ReturnEarly, Approve, Reject, BeginVerify, BeginRefund,
       VerifyFails, VerifyMismatch, VerifyOk, MoveMoney, RefundRefused, CommitDeposit,
       CommitRefund, CommitSpend, Receipt, Close, Advance, TakePayment, AtPayment,
       Idle, Stages
  <2>2. CASE job' = [job EXCEPT ![s] = Idle]
    BY <2>2 DEF NothingReread, PayTypeOK
  <2>3. ASSUME NEW stage \in Stages, job[s] # Idle, job' = [job EXCEPT ![s].at = stage]
        PROVE  NothingReread'
    <3>1. job[s] \in Job
      BY <2>3 DEF PayTypeOK
    <3>2. job'[s] = [job[s] EXCEPT !.at = stage]
      BY <2>3 DEF PayTypeOK
    <3>3. job'[s].seen = job[s].seen /\ job'[s].kind = job[s].kind
      BY <3>1, <3>2 DEF Job
    <3> QED BY <2>3, <3>3 DEF NothingReread, PayTypeOK
  <2> QED BY <2>1, <2>2, <2>3
<1>6. ASSUME NEW p \in Payments, Outside(p) PROVE NothingReread'
  BY <1>6 DEF Outside, SubmitReceipt, StartOrder, LinkOrder, CustomerPays, NothingReread
<1> QED BY <1>1, <1>4, <1>5, <1>6 DEF Next

\* A step of an entry point that reads nothing first keeps the books equal.
LEMMA StepKeepsBooks ==
  ASSUME PayIInv, NothingReread, BooksMatchStatus, [Next]_vars
  PROVE  BooksMatchStatus'
<1> USE DEF BooksMatchStatus, Approved
<1>1. ASSUME UNCHANGED <<credits, refunds>>,
             \A p \in Payments : status'[p] = "approved" <=> status[p] = "approved"
      PROVE  BooksMatchStatus'
  BY <1>1
<1>2. ASSUME NEW s \in Sessions, CommitDeposit(s) PROVE BooksMatchStatus'
  <2> DEFINE p == job[s].pay
  <2>1. job[s] # Idle /\ JobOK(s) /\ job[s].at = "commit" /\ job[s].kind \in Deposits
    BY <1>2 DEF CommitDeposit, Idle, PayIInv, Deposits
  <2>2. p \in Payments /\ status[p] # "approved"
    BY <2>1 DEF NothingReread, JobOK, Deposits, Locked
  <2>3. /\ status' = [status EXCEPT ![p] = "approved"]
        /\ credits' = [credits EXCEPT ![p] = @ + 1]
        /\ refunds' = refunds
    BY <1>2 DEF CommitDeposit
  <2> HIDE DEF p
  <2>4. ASSUME NEW q \in Payments
        PROVE  credits'[q] = refunds'[q] + IF status'[q] = "approved" THEN 1 ELSE 0
    BY <2>2, <2>3 DEF PayIInv, PayTypeOK
  <2> QED BY <2>4
<1>3. ASSUME NEW s \in Sessions, CommitRefund(s) PROVE BooksMatchStatus'
  <2> DEFINE p == job[s].pay
  <2>1. job[s] # Idle /\ JobOK(s) /\ job[s].at = "commit" /\ job[s].kind = "refund"
    BY <1>3 DEF CommitRefund, Idle, PayIInv
  <2>2. p \in Payments /\ status[p] = "approved"
    BY <2>1 DEF JobOK
  <2>3. /\ status' = [status EXCEPT ![p] = "refunded"]
        /\ refunds' = [refunds EXCEPT ![p] = @ + 1]
        /\ credits' = credits
    BY <1>3 DEF CommitRefund
  <2> HIDE DEF p
  <2>4. ASSUME NEW q \in Payments
        PROVE  credits'[q] = refunds'[q] + IF status'[q] = "approved" THEN 1 ELSE 0
    BY <2>2, <2>3 DEF PayIInv, PayTypeOK
  <2> QED BY <2>4
<1>4. ASSUME NEW s \in Sessions, Reject(s) PROVE BooksMatchStatus'
  <2> DEFINE p == job[s].pay
  <2>1. /\ job[s] # Idle /\ job[s].kind = "reject" /\ SeenStatus(s) = "pending"
        /\ status' = [status EXCEPT ![p] = "rejected"]
        /\ UNCHANGED <<credits, refunds>>
    BY <1>4 DEF Reject, AtPayment, NothingToDo, Idle
  <2>2. p \in Payments /\ status[p] = "pending"
    BY <2>1, Serving DEF NothingReread, SeenStatus
  <2> HIDE DEF p
  <2> QED BY <1>1, <2>1, <2>2 DEF PayIInv, PayTypeOK
<1>5. ASSUME NEW s \in Sessions, VerifyFails(s) \/ VerifyMismatch(s)
      PROVE  FALSE
  <2>1. job[s] # Idle /\ JobOK(s) /\ job[s].at = "verify"
    BY <1>5 DEF VerifyFails, VerifyMismatch, Idle, PayIInv
  <2> QED BY <2>1 DEF JobOK, NothingReread
<1>6. ASSUME NEW s \in Sessions,
             \/ ReturnEarly(s) \/ Approve(s) \/ BeginVerify(s) \/ BeginRefund(s)
             \/ VerifyOk(s) \/ MoveMoney(s) \/ RefundRefused(s) \/ CommitSpend(s)
             \/ Receipt(s) \/ Crash(s)
      PROVE  UNCHANGED <<status, credits, refunds>>
  BY <1>6 DEF ReturnEarly, Approve, BeginVerify, BeginRefund, VerifyOk, MoveMoney,
     RefundRefused, CommitSpend, Receipt, Crash, TakePayment
<1>7. ASSUME NEW s \in Sessions, ArriveAny(s)
      PROVE  UNCHANGED <<status, credits, refunds>>
  BY <1>7 DEF ArriveAny, BotApprove, PanelApprove, ApiApprove, BotReject, PanelReject,
     PayReturn, BotCheck, PanelRecheck, PanelReconcile, PanelRefund, Spend, Arrive
<1>8. ASSUME NEW p \in Payments, Outside(p) PROVE BooksMatchStatus'
  BY <1>1, <1>8 DEF Outside, SubmitReceipt, StartOrder, LinkOrder, CustomerPays,
     PayIInv, PayTypeOK
<1>9. CASE UNCHANGED vars
  BY <1>1, <1>9 DEF vars, payVars
<1> QED BY <1>1, <1>2, <1>3, <1>4, <1>5, <1>6, <1>7, <1>8, <1>9 DEF Next, Step

\* While only entry points are open that read nothing before the lock, a payment's
\* deposits minus its refunds is one exactly while it is approved (approve, reject
\* and refund re-check the status they locked).
THEOREM BooksAlwaysMatchStatus ==
  ASSUME Flows \cap Rereading = {} PROVE Spec => []BooksMatchStatus
<1>1. Init => NothingReread /\ BooksMatchStatus
  BY DEF Init, NothingReread, BooksMatchStatus, Approved
<1>2. /\ PaymentsIInv /\ NothingReread /\ BooksMatchStatus
      /\ [Next]_vars
      => NothingReread' /\ BooksMatchStatus'
  BY NothingRereadHolds, StepKeepsBooks DEF PaymentsIInv, PayIInv
<1> QED BY <1>1, <1>2, PaymentsInvariant, PTL DEF Spec

-----------------------------------------------------------------------------
(* Sessions that do not load the user first. *)

\* The wallet's chain invariant holds under the payments that use the wallet.
LEMMA PaymentsKeepChain ==
  ASSUME Preloading = {} PROVE Spec => []ChainIInv
<1>1. Init => ChainIInv
  BY ChainInit DEF Init
<1>2. PaymentsIInv /\ ChainIInv /\ [Next]_vars => ChainIInv'
  BY StepIsWalletStep, StepKeepsChain DEF PaymentsIInv
<1> QED BY <1>1, <1>2, PaymentsInvariant, PTL DEF Spec

\* Whatever the payments do, the ledger of every user adds up row by row when no
\* session loads the user before the lock (WalletService._apply as its callers
\* use it).
THEOREM PaymentsKeepLedgerChain ==
  ASSUME Preloading = {} PROVE Spec => []LedgerChain
BY ChainFollows, PaymentsKeepChain, PTL

\* Under the same condition the payments see atomic accounts: every settlement
\* and every refund is one posting.
THEOREM PaymentsImplementAccounts ==
  ASSUME Preloading = {} PROVE Spec => ImplementsAccounts
<1>1. Init => AtomicAccounts!Init
  BY DEF Init, WalletInit, AtomicAccounts!Init, Postings
<1>2. PaymentsIInv /\ ChainIInv /\ ChainIInv' /\ [Next]_vars
        => [AtomicAccounts!Next]_<<balance, Postings>>
  BY StepIsWalletStep, StepImplementsAccounts DEF PaymentsIInv
<1> QED BY <1>1, <1>2, PaymentsInvariant, PaymentsKeepChain, PTL
        DEF Spec, ImplementsAccounts, AtomicAccounts!Spec
=============================================================================
