----------------------------- MODULE Broadcast -----------------------------
(***************************************************************************)
(* Broadcasts: jobs with a ledger of recipients                            *)
(* (src/app/services/broadcast.py), created from the bot, the panel and    *)
(* the platform's reseller form, and drained page by page by the one       *)
(* worker (process_broadcast_once, src/app/workers/main.py), which may die *)
(* at any point, while the panel re-queues failed recipients.              *)
(***************************************************************************)
EXTENDS Integers, Sequences, FiniteSets

CONSTANTS Chats,      \* users of the bots, by their telegram ids
          MaxJobs,    \* bound: broadcast jobs
          PageSize,   \* PAGE_SIZE: recipients per turn of the worker
          MaxMishaps, \* bound: deaths of the worker and replies that got lost
          MaxRetries  \* bound: retries from the panel

ASSUME BroadcastBounds == {MaxJobs, MaxMishaps, MaxRetries} \subseteq Nat
ASSUME PageSizeAssumption == PageSize \in Nat \ {0}

VARIABLES bcJob,      \* Seq of job statuses, by id
          bcRow,      \* Seq of [Chats -> row status]: broadcast_recipients
          bcBlocked,  \* the users with is_blocked
          bcWorker,   \* the worker's turn
          bcReached,  \* history: Seq of [Chats -> messages that arrived]
          bcMishaps,  \* history: deaths and lost replies
          bcRetries,  \* how many retries the panel made
          bcOvertaken \* history: the jobs whose recipients were re-queued while
                      \* the worker closed them, or whose bot was gone

bcVars == <<bcJob, bcRow, bcBlocked, bcWorker, bcReached, bcMishaps, bcRetries, bcOvertaken>>

Jobs == DOMAIN bcJob
Outcomes == {"sent", "failed", "blocked"}
NoTurn == [at |-> "idle"]

\* claimed: the job is running in the database and in the session.  drained: no
\* pending row was left.  closing: verdict is what the counts say.
Turn ==
  [at : {"claimed", "drained"}, job : 1..MaxJobs]
  \cup [at : {"page"}, job : 1..MaxJobs, todo : Seq(Chats)]
  \cup [at : {"answered"}, job : 1..MaxJobs, todo : Seq(Chats), outcome : Outcomes]
  \cup [at : {"closing"}, job : 1..MaxJobs, verdict : {"done", "failed"}]

BroadcastTypeOK ==
  /\ bcJob \in Seq({"pending", "running", "done", "failed"}) /\ Len(bcJob) <= MaxJobs
  /\ bcRow \in Seq([Chats -> Outcomes \cup {"pending", "none"}])
  /\ bcReached \in Seq([Chats -> Nat])
  /\ Len(bcRow) = Len(bcJob) /\ Len(bcReached) = Len(bcJob)
  /\ bcBlocked \subseteq Chats
  /\ bcWorker \in Turn \cup {NoTurn}
  /\ bcMishaps \in 0..MaxMishaps
  /\ bcRetries \in 0..MaxRetries
  /\ bcOvertaken \subseteq 1..MaxJobs

BroadcastInit ==
  /\ bcJob = <<>> /\ bcRow = <<>> /\ bcReached = <<>>
  /\ bcBlocked = {}
  /\ bcWorker = NoTurn
  /\ bcMishaps = 0 /\ bcRetries = 0
  /\ bcOvertaken = {}

-----------------------------------------------------------------------------
\* Job and snapshot of its recipients commit together.
Enqueue(audience) ==
  /\ Len(bcJob) < MaxJobs
  /\ bcJob' = Append(bcJob, "pending")
  /\ bcRow' = Append(bcRow, [c \in Chats |-> IF c \in audience THEN "pending" ELSE "none"])
  /\ bcReached' = Append(bcReached, [c \in Chats |-> 0])
  /\ UNCHANGED <<bcBlocked, bcWorker, bcMishaps, bcRetries, bcOvertaken>>

\* Whom a plan filter leaves, without the blocked.
AudienceOf(plan) == plan \ bcBlocked

CreateJob(plan) == Enqueue(AudienceOf(plan))

\* A list of users without duplicates, nobody left out for being blocked.
CreateJobForUsers(rows) == Enqueue(rows)

\* The owner confirms a captured message in the bot.
BroadcastConfirm == CreateJob(Chats)

\* The panel's form, with a plan filter; /api/v1/broadcasts has none.
BroadcastSubmit == \E plan \in SUBSET Chats : CreateJob(plan)

\* The platform writes to its resellers, those among its users who own a bot.
ResellerBroadcast == \E owners \in SUBSET Chats \ {{}} : CreateJobForUsers(owners)

-----------------------------------------------------------------------------
(* One turn of the worker. *)

Unfinished_PendingOnly == {j \in Jobs : bcJob[j] = "pending"} \* mutant: running is somebody's
Unfinished == {j \in Jobs : bcJob[j] \in {"pending", "running"}}

\* claim_next_job: the oldest unfinished job, running ones included.
ClaimJob ==
  /\ bcWorker = NoTurn
  /\ \E j \in Unfinished :
        /\ \A k \in Unfinished : j <= k
        /\ bcJob' = [bcJob EXCEPT ![j] = "running"]
        /\ bcWorker' = [at |-> "claimed", job |-> j]
  /\ UNCHANGED <<bcRow, bcBlocked, bcReached, bcMishaps, bcRetries, bcOvertaken>>

\* The tenant's bot is gone: the job fails with its rows still pending.
JobWithoutBot ==
  /\ bcWorker.at = "claimed"
  /\ bcJob' = [bcJob EXCEPT ![bcWorker.job] = "failed"]
  /\ bcOvertaken' = bcOvertaken \cup {bcWorker.job}
  /\ bcWorker' = NoTurn
  /\ UNCHANGED <<bcRow, bcBlocked, bcReached, bcMishaps, bcRetries>>

PendingRows(j) == {c \in Chats : bcRow[j][c] = "pending"}

\* The pages the query may return (rows are ordered by id; any order here).
Pages(j) ==
  LET n == IF Cardinality(PendingRows(j)) < PageSize THEN Cardinality(PendingRows(j)) ELSE PageSize
  IN {p \in [1..n -> PendingRows(j)] : \A i, k \in 1..n : p[i] = p[k] => i = k}

\* next_pending_page.
ReadPage ==
  /\ bcWorker.at = "claimed"
  /\ \/ /\ PendingRows(bcWorker.job) # {}
        /\ \E p \in Pages(bcWorker.job) :
              bcWorker' = [at |-> "page", job |-> bcWorker.job, todo |-> p]
     \/ /\ PendingRows(bcWorker.job) = {}
        /\ bcWorker' = [at |-> "drained", job |-> bcWorker.job]
  /\ UNCHANGED <<bcJob, bcRow, bcBlocked, bcReached, bcMishaps, bcRetries, bcOvertaken>>

\* _send_one, its second try after a flood wait included.  A reply may get lost:
\* the message arrived and counts as failed.
Send(outcome) ==
  LET j == bcWorker.job
      c == Head(bcWorker.todo)
      replyLost == outcome = "failed" /\ bcMishaps < MaxMishaps
  IN /\ bcWorker.at = "page" /\ bcWorker.todo # <<>>
     /\ \/ /\ bcReached' = [bcReached EXCEPT ![j][c] = IF outcome = "sent" THEN @ + 1 ELSE @]
           /\ UNCHANGED bcMishaps
        \/ /\ replyLost
           /\ bcReached' = [bcReached EXCEPT ![j][c] = @ + 1]
           /\ bcMishaps' = bcMishaps + 1
     /\ bcWorker' = [at |-> "answered", job |-> j, todo |-> bcWorker.todo, outcome |-> outcome]
     /\ UNCHANGED <<bcJob, bcRow, bcBlocked, bcRetries, bcOvertaken>>

\* The outcome, and the block it may mean, commit before the next send.
CommitOutcome ==
  LET c == Head(bcWorker.todo) IN
  /\ bcWorker.at = "answered"
  /\ bcRow' = [bcRow EXCEPT ![bcWorker.job][c] = bcWorker.outcome]
  /\ bcBlocked' = IF bcWorker.outcome = "blocked" THEN bcBlocked \cup {c} ELSE bcBlocked
  /\ bcWorker' = [at |-> "page", job |-> bcWorker.job, todo |-> Tail(bcWorker.todo)]
  /\ UNCHANGED <<bcJob, bcReached, bcMishaps, bcRetries, bcOvertaken>>

\* The page is done: the counts are refreshed and the turn ends.
PageDone ==
  /\ bcWorker.at = "page" /\ bcWorker.todo = <<>>
  /\ bcWorker' = NoTurn
  /\ UNCHANGED <<bcJob, bcRow, bcBlocked, bcReached, bcMishaps, bcRetries, bcOvertaken>>

\* refresh_job_counts: done if anything was sent or the job is empty.
Verdict(j) ==
  LET rows == {bcRow[j][c] : c \in Chats}
  IN IF "sent" \in rows \/ rows \subseteq {"none"} THEN "done" ELSE "failed"

CountRows ==
  /\ bcWorker.at = "drained"
  /\ bcWorker' = [at |-> "closing", job |-> bcWorker.job, verdict |-> Verdict(bcWorker.job)]
  /\ UNCHANGED <<bcJob, bcRow, bcBlocked, bcReached, bcMishaps, bcRetries, bcOvertaken>>

\* finalize_job commits the status, whatever the row holds by now.
FinalizeJob ==
  /\ bcWorker.at = "closing"
  /\ bcJob' = [bcJob EXCEPT ![bcWorker.job] = bcWorker.verdict]
  /\ bcWorker' = NoTurn
  /\ UNCHANGED <<bcRow, bcBlocked, bcReached, bcMishaps, bcRetries, bcOvertaken>>

\* The worker dies and is started again.
WorkerDies ==
  /\ bcWorker # NoTurn
  /\ bcMishaps < MaxMishaps
  /\ bcMishaps' = bcMishaps + 1
  /\ bcWorker' = NoTurn
  /\ UNCHANGED <<bcJob, bcRow, bcBlocked, bcReached, bcRetries, bcOvertaken>>

-----------------------------------------------------------------------------
Retryable_Any(s) == s \in {"failed", "sent"} \* mutant: sent rows are retried too
Retryable(s) == s = "failed"

\* Mutant: the rows are re-queued and the job is left as it is.
RetryFailed_RowsOnly(j) ==
  /\ bcRetries < MaxRetries /\ bcRetries' = bcRetries + 1
  /\ bcRow' = [bcRow EXCEPT ![j] = [c \in Chats |-> IF Retryable(@[c]) THEN "pending" ELSE @[c]]]
  /\ UNCHANGED <<bcJob, bcBlocked, bcWorker, bcReached, bcMishaps, bcOvertaken>>

\* retry_failed: failed rows and the job become pending in one commit.
RetryFailed(j) ==
  /\ bcRetries < MaxRetries /\ bcRetries' = bcRetries + 1
  /\ \E c \in Chats : Retryable(bcRow[j][c])
  /\ bcRow' = [bcRow EXCEPT ![j] = [c \in Chats |-> IF Retryable(@[c]) THEN "pending" ELSE @[c]]]
  /\ bcJob' = [bcJob EXCEPT ![j] = "pending"]
  /\ bcOvertaken' = IF bcWorker.at \in {"drained", "closing"} /\ bcWorker.job = j
                    THEN bcOvertaken \cup {j} ELSE bcOvertaken \ {j}
  /\ UNCHANGED <<bcBlocked, bcWorker, bcReached, bcMishaps>>

\* The panel's button.
BroadcastRetry(j) == RetryFailed(j)

-----------------------------------------------------------------------------
TurnStep ==
  \/ ClaimJob \/ JobWithoutBot \/ ReadPage \/ (\E o \in Outcomes : Send(o))
  \/ CommitOutcome \/ PageDone \/ CountRows \/ FinalizeJob

BroadcastNext ==
  \/ BroadcastConfirm \/ BroadcastSubmit \/ ResellerBroadcast
  \/ TurnStep \/ WorkerDies
  \/ \E j \in Jobs : BroadcastRetry(j)

\* The worker's loop takes one turn after the other and survives their exceptions.
BroadcastFairness == WF_bcVars(TurnStep)

BroadcastSpec == BroadcastInit /\ [][BroadcastNext]_bcVars /\ BroadcastFairness

-----------------------------------------------------------------------------
\* A recipient gets the message once, and once more only for each death of the
\* worker or lost reply: whatever pages, retries and restarts there were, who has it
\* is not sent it again.
NoUnexplainedRepeats ==
  \A j \in Jobs : \A c \in Chats : bcReached[j][c] <= 1 + bcMishaps

\* A job that is over has dealt with each of its recipients.  The exceptions: the
\* panel re-queued some while the worker was closing the job, or its bot was gone.
\* Their rows stay pending and no retry takes them up.
NobodyForgotten ==
  \A j \in Jobs : (bcJob[j] \in {"done", "failed"} /\ PendingRows(j) # {}) => j \in bcOvertaken

\* Every job ends, although the worker may die in the middle of a page and later
\* jobs wait for it.
EveryJobEnds ==
  \A j \in 1..MaxJobs :
    (j \in Jobs /\ bcJob[j] \in {"pending", "running"})
      ~> (j \in Jobs /\ bcJob[j] \in {"done", "failed"})
=============================================================================
