--------------------------- MODULE WorkerProofs ----------------------------
(***************************************************************************)
(* Proofs about the worker's queues, one section for each: broadcasts, for *)
(* any finite set of users and page size, scheduled deletions, and albums. *)
(***************************************************************************)
EXTENDS Broadcast, AutoDelete, Albums, FiniteSetTheorems, TLAPS

-----------------------------------------------------------------------------
(* Broadcasts: nobody is sent a message again without a mishap, and a job  *)
(* that is over has dealt with its recipients.                             *)

Ids == 1..Len(bcJob)

\* A turn is about a job; the rows of its page are pending, each listed once: no
\* other process takes a row out of "pending".
TurnOK ==
  /\ bcWorker # NoTurn => bcWorker.job \in Ids
  /\ bcWorker.at = "answered" => bcWorker.todo # <<>>
  /\ bcWorker.at \in {"page", "answered"} =>
       \A i \in 1..Len(bcWorker.todo) :
          /\ bcRow[bcWorker.job][bcWorker.todo[i]] = "pending"
          /\ \A k \in 1..Len(bcWorker.todo) : bcWorker.todo[i] = bcWorker.todo[k] => i = k

\* The send of this row is known, to the row or to the turn, to have succeeded.
Delivered(j, c) ==
  \/ bcRow[j][c] = "sent"
  \/ /\ bcWorker.at = "answered" /\ bcWorker.job = j
     /\ Head(bcWorker.todo) = c /\ bcWorker.outcome = "sent"

\* Who is not known to have the message got it at most once for each mishap.
ReachOK ==
  \A j \in Ids : \A c \in Chats :
     bcReached[j][c] <= (IF Delivered(j, c) THEN 1 ELSE 0) + bcMishaps

\* A job that is over, or that the worker is closing, has no pending rows unless it
\* was overtaken.
SettledOK ==
  \A j \in Ids :
     (\/ bcJob[j] \in {"done", "failed"}
      \/ bcWorker.at \in {"drained", "closing"} /\ bcWorker.job = j)
     => PendingRows(j) = {} \/ j \in bcOvertaken

BroadcastInv == BroadcastTypeOK /\ TurnOK /\ ReachOK /\ SettledOK

-----------------------------------------------------------------------------
\* The types of one job's rows, and of the turn (models/broadcast.py).
LEMMA TypesOf ==
  ASSUME BroadcastTypeOK
  PROVE  /\ Jobs = Ids /\ Ids \subseteq 1..MaxJobs /\ Len(bcJob) \in Nat
         /\ \A j \in Ids : /\ bcJob[j] \in {"pending", "running", "done", "failed"}
                           /\ bcRow[j] \in [Chats -> Outcomes \cup {"pending", "none"}]
                           /\ bcReached[j] \in [Chats -> Nat]
         /\ bcMishaps \in Nat
<1>1. Jobs = Ids /\ Len(bcJob) \in Nat /\ Ids \subseteq 1..MaxJobs
  BY BroadcastBounds DEF BroadcastTypeOK, Jobs, Ids
<1> QED BY <1>1, BroadcastBounds DEF BroadcastTypeOK, Ids

\* A busy worker's turn, by its stage.
LEMMA TurnTypes ==
  ASSUME BroadcastTypeOK, TurnOK, bcWorker # NoTurn
  PROVE  /\ bcWorker \in Turn /\ bcWorker.job \in Ids /\ bcWorker.job \in 1..MaxJobs
         /\ bcWorker.at \in {"claimed", "drained", "page", "answered", "closing"}
         /\ bcWorker.at \in {"page", "answered"} => bcWorker.todo \in Seq(Chats)
         /\ bcWorker.at = "answered" => bcWorker.outcome \in Outcomes /\ bcWorker.todo # <<>>
         /\ bcWorker.at = "closing" => bcWorker.verdict \in {"done", "failed"}
<1>1. bcWorker \in Turn
  BY DEF BroadcastTypeOK
<1>2. bcWorker.job \in Ids
  BY DEF TurnOK
<1> QED BY <1>1, <1>2 DEF Turn, TurnOK

\* A job is created with all its rows (create_job, create_job_for_users).
LEMMA EnqueueKeepsInv ==
  ASSUME BroadcastInv, NEW audience \in SUBSET Chats, Enqueue(audience) PROVE BroadcastInv'
<1> DEFINE n == Len(bcJob) + 1
           row == [c \in Chats |-> IF c \in audience THEN "pending" ELSE "none"]
           zero == [c \in Chats |-> 0]
<1>1. /\ BroadcastTypeOK /\ TurnOK /\ ReachOK /\ SettledOK
      /\ Len(bcJob) \in Nat /\ n <= MaxJobs
      /\ bcJob \in Seq({"pending", "running", "done", "failed"})
      /\ bcRow \in Seq([Chats -> Outcomes \cup {"pending", "none"}])
      /\ bcReached \in Seq([Chats -> Nat])
      /\ Len(bcRow) = Len(bcJob) /\ Len(bcReached) = Len(bcJob)
  BY BroadcastBounds DEF BroadcastInv, BroadcastTypeOK, Enqueue
<1>2. /\ bcJob' = Append(bcJob, "pending") /\ bcRow' = Append(bcRow, row)
      /\ bcReached' = Append(bcReached, zero)
      /\ UNCHANGED <<bcBlocked, bcWorker, bcMishaps, bcRetries, bcOvertaken>>
  BY DEF Enqueue
<1>3. row \in [Chats -> Outcomes \cup {"pending", "none"}] /\ zero \in [Chats -> Nat]
  OBVIOUS
<1> HIDE DEF row, zero
<1>4. /\ Ids' = Ids \cup {n}
      /\ \A j \in Ids : bcJob'[j] = bcJob[j] /\ bcRow'[j] = bcRow[j] /\ bcReached'[j] = bcReached[j]
      /\ bcJob'[n] = "pending" /\ bcRow'[n] = row /\ bcReached'[n] = zero
      /\ n \notin Ids
  BY <1>1, <1>2, <1>3 DEF Ids
<1>5. BroadcastTypeOK'
  BY <1>1, <1>2, <1>3 DEF BroadcastTypeOK
<1>6. TurnOK'
  <2>1. bcWorker # NoTurn => bcWorker'.job \in Ids' /\ bcRow'[bcWorker.job] = bcRow[bcWorker.job]
    BY <1>1, <1>2, <1>4 DEF TurnOK
  <2>2. bcWorker.at \in {"page", "answered"} => bcWorker # NoTurn
    BY DEF NoTurn
  <2> QED BY <1>1, <1>2, <2>1, <2>2 DEF TurnOK
<1>7. ReachOK'
  <2> SUFFICES ASSUME NEW j \in Ids', NEW c \in Chats
               PROVE  bcReached'[j][c] <= (IF Delivered(j, c)' THEN 1 ELSE 0) + bcMishaps'
    BY DEF ReachOK
  <2>1. CASE j \in Ids
    <3>1. Delivered(j, c)' <=> Delivered(j, c)
      BY <1>2, <1>4, <2>1 DEF Delivered
    <3>2. bcReached'[j][c] = bcReached[j][c] /\ bcMishaps' = bcMishaps
      BY <1>2, <1>4, <2>1
    <3>3. bcReached[j][c] <= (IF Delivered(j, c) THEN 1 ELSE 0) + bcMishaps
      BY <1>1, <2>1 DEF ReachOK
    <3> QED BY <3>1, <3>2, <3>3
  <2>2. CASE j = n
    <3>1. bcReached'[j][c] = 0 /\ bcMishaps' \in Nat
      BY <1>2, <1>1, <1>4, <2>2, TypesOf DEF zero
    <3>2. (IF Delivered(j, c)' THEN 1 ELSE 0) \in Nat
      OBVIOUS
    <3>3. ASSUME NEW x \in Nat, NEW m \in Nat PROVE 0 <= x + m
      OBVIOUS
    <3>4. 0 <= (IF Delivered(j, c)' THEN 1 ELSE 0) + bcMishaps'
      BY <3>1, <3>2, <3>3
    <3> QED BY <3>1, <3>4, Zenon
  <2> QED BY <1>4, <2>1, <2>2
<1>8. SettledOK'
  <2>1. \A j \in Ids : PendingRows(j)' = PendingRows(j)
    BY <1>4 DEF PendingRows
  <2>2. bcWorker.at \in {"drained", "closing"} => bcWorker.job # n
    BY <1>1, <1>4 DEF TurnOK, NoTurn
  <2> QED BY <1>1, <1>2, <1>4, <2>1, <2>2 DEF SettledOK
<1> QED BY <1>5, <1>6, <1>7, <1>8 DEF BroadcastInv

-----------------------------------------------------------------------------
(* The steps of the worker. *)

\* A step of the turn that moves the worker only, to a stage without a page: nobody
\* becomes known to have the message, and what it settles is settled.
LEMMA TurnMoves ==
  ASSUME BroadcastInv, BroadcastTypeOK',
         UNCHANGED <<bcRow, bcReached, bcMishaps>>, bcOvertaken \subseteq bcOvertaken', Ids' = Ids,
         bcWorker.at # "answered",
         bcWorker' = NoTurn \/ (bcWorker'.at \in {"claimed", "drained", "closing"} /\ bcWorker'.job \in Ids),
         \A j \in Ids : \/ bcJob'[j] \in {"done", "failed"}
                        \/ bcWorker'.at \in {"drained", "closing"} /\ bcWorker'.job = j
                        => \/ PendingRows(j) = {} \/ j \in bcOvertaken'
  PROVE  BroadcastInv'
<1>1. TurnOK'
  BY DEF TurnOK, NoTurn
<1>2. ReachOK'
  <2>1. \A j \in Ids, c \in Chats : Delivered(j, c)' <=> Delivered(j, c)
    BY DEF Delivered, NoTurn
  <2> QED BY <2>1 DEF ReachOK, BroadcastInv
<1>3. SettledOK'
  BY DEF SettledOK, PendingRows
<1> QED BY <1>1, <1>2, <1>3 DEF BroadcastInv

\* claim_next_job, the job without a bot, the end of a page, the counts and the
\* final status.
LEMMA ClaimingKeepsInv ==
  ASSUME BroadcastInv, ClaimJob \/ JobWithoutBot \/ PageDone \/ CountRows \/ FinalizeJob
  PROVE  BroadcastInv'
<1>1. BroadcastTypeOK /\ TurnOK /\ SettledOK
  BY DEF BroadcastInv
<1>2. /\ bcJob \in Seq({"pending", "running", "done", "failed"})
      /\ Jobs = Ids /\ Ids \subseteq 1..MaxJobs
  BY <1>1, TypesOf DEF BroadcastTypeOK
<1>3. CASE ClaimJob
  <2>1. PICK j \in Ids : /\ bcJob' = [bcJob EXCEPT ![j] = "running"]
                         /\ bcWorker' = [at |-> "claimed", job |-> j]
    BY <1>2, <1>3 DEF ClaimJob, Unfinished
  <2>2. UNCHANGED <<bcRow, bcReached, bcBlocked, bcMishaps, bcRetries, bcOvertaken>>
        /\ bcWorker = NoTurn
    BY <1>3 DEF ClaimJob
  <2>3. /\ bcJob' \in Seq({"pending", "running", "done", "failed"}) /\ Len(bcJob') = Len(bcJob)
        /\ \A i \in Ids : bcJob'[i] = IF i = j THEN "running" ELSE bcJob[i]
    BY <1>2, <2>1 DEF Ids
  <2>4. bcWorker' \in Turn
    BY <1>2, <2>1 DEF Turn
  <2>5. BroadcastTypeOK' /\ Ids' = Ids
    BY <1>1, <2>2, <2>3, <2>4 DEF BroadcastTypeOK, Ids
  <2>6. \A i \in Ids : \/ bcJob'[i] \in {"done", "failed"}
                       \/ bcWorker'.at \in {"drained", "closing"} /\ bcWorker'.job = i
                       => PendingRows(i) = {} \/ i \in bcOvertaken'
    BY <1>1, <2>1, <2>2, <2>3 DEF SettledOK
  <2> QED BY <2>1, <2>2, <2>5, <2>6, TurnMoves DEF NoTurn
<1>4. CASE JobWithoutBot
  <2>1. /\ bcWorker.job \in Ids /\ bcWorker.at = "claimed"
    BY <1>1, <1>4, TurnTypes DEF JobWithoutBot, NoTurn
  <2>2. /\ bcJob' = [bcJob EXCEPT ![bcWorker.job] = "failed"] /\ bcWorker' = NoTurn
        /\ bcOvertaken' = bcOvertaken \cup {bcWorker.job}
        /\ UNCHANGED <<bcRow, bcReached, bcBlocked, bcMishaps, bcRetries>>
    BY <1>4 DEF JobWithoutBot
  <2>3. /\ bcJob' \in Seq({"pending", "running", "done", "failed"}) /\ Len(bcJob') = Len(bcJob)
        /\ \A i \in Ids : bcJob'[i] = IF i = bcWorker.job THEN "failed" ELSE bcJob[i]
    BY <1>2, <2>1, <2>2 DEF Ids
  <2>4. BroadcastTypeOK' /\ Ids' = Ids
    BY <1>1, <1>2, <2>1, <2>2, <2>3 DEF BroadcastTypeOK, Ids
  <2>5. \A i \in Ids : \/ bcJob'[i] \in {"done", "failed"}
                       \/ bcWorker'.at \in {"drained", "closing"} /\ bcWorker'.job = i
                       => PendingRows(i) = {} \/ i \in bcOvertaken'
    BY <1>1, <2>1, <2>2, <2>3 DEF SettledOK, NoTurn
  <2> QED BY <2>1, <2>2, <2>4, <2>5, TurnMoves
<1>5. CASE PageDone
  <2>1. /\ bcWorker.at = "page" /\ bcWorker' = NoTurn
        /\ UNCHANGED <<bcJob, bcRow, bcReached, bcBlocked, bcMishaps, bcRetries, bcOvertaken>>
    BY <1>5 DEF PageDone
  <2>2. BroadcastTypeOK' /\ Ids' = Ids
    BY <1>1, <2>1 DEF BroadcastTypeOK, Ids
  <2>3. \A i \in Ids : \/ bcJob'[i] \in {"done", "failed"}
                       \/ bcWorker'.at \in {"drained", "closing"} /\ bcWorker'.job = i
                       => PendingRows(i) = {} \/ i \in bcOvertaken'
    BY <1>1, <2>1 DEF SettledOK, NoTurn
  <2> QED BY <2>1, <2>2, <2>3, TurnMoves
<1>6. CASE CountRows
  <2>1. /\ bcWorker.job \in Ids /\ bcWorker.at = "drained"
    BY <1>1, <1>6, TurnTypes DEF CountRows, NoTurn
  <2>2. /\ bcWorker' = [at |-> "closing", job |-> bcWorker.job, verdict |-> Verdict(bcWorker.job)]
        /\ UNCHANGED <<bcJob, bcRow, bcReached, bcBlocked, bcMishaps, bcRetries, bcOvertaken>>
    BY <1>6 DEF CountRows
  <2>3. bcWorker' \in Turn
    BY <1>2, <2>1, <2>2 DEF Turn, Verdict
  <2>4. BroadcastTypeOK' /\ Ids' = Ids
    BY <1>1, <2>2, <2>3 DEF BroadcastTypeOK, Ids
  <2>5. \A i \in Ids : \/ bcJob'[i] \in {"done", "failed"}
                       \/ bcWorker'.at \in {"drained", "closing"} /\ bcWorker'.job = i
                       => PendingRows(i) = {} \/ i \in bcOvertaken'
    BY <1>1, <2>1, <2>2 DEF SettledOK
  <2> QED BY <2>1, <2>2, <2>4, <2>5, TurnMoves
<1>7. CASE FinalizeJob
  <2>1. /\ bcWorker.job \in Ids /\ bcWorker.at = "closing" /\ bcWorker.verdict \in {"done", "failed"}
    BY <1>1, <1>7, TurnTypes DEF FinalizeJob, NoTurn
  <2>2. /\ bcJob' = [bcJob EXCEPT ![bcWorker.job] = bcWorker.verdict] /\ bcWorker' = NoTurn
        /\ UNCHANGED <<bcRow, bcReached, bcBlocked, bcMishaps, bcRetries, bcOvertaken>>
    BY <1>7 DEF FinalizeJob
  <2>3. /\ bcJob' \in Seq({"pending", "running", "done", "failed"}) /\ Len(bcJob') = Len(bcJob)
        /\ \A i \in Ids : bcJob'[i] = IF i = bcWorker.job THEN bcWorker.verdict ELSE bcJob[i]
    BY <1>2, <2>1, <2>2 DEF Ids
  <2>4. BroadcastTypeOK' /\ Ids' = Ids
    BY <1>1, <2>2, <2>3 DEF BroadcastTypeOK, Ids
  <2>5. \A i \in Ids : \/ bcJob'[i] \in {"done", "failed"}
                       \/ bcWorker'.at \in {"drained", "closing"} /\ bcWorker'.job = i
                       => PendingRows(i) = {} \/ i \in bcOvertaken'
    BY <1>1, <2>1, <2>2, <2>3 DEF SettledOK, NoTurn
  <2> QED BY <2>1, <2>2, <2>4, <2>5, TurnMoves
<1> QED BY <1>3, <1>4, <1>5, <1>6, <1>7

\* next_pending_page: the page lists pending rows, each once.
LEMMA ReadPageKeepsInv ==
  ASSUME IsFiniteSet(Chats), BroadcastInv, ReadPage PROVE BroadcastInv'
<1> DEFINE j == bcWorker.job
<1>1. BroadcastTypeOK /\ TurnOK /\ SettledOK /\ ReachOK
  BY DEF BroadcastInv
<1>2. /\ j \in Ids /\ j \in 1..MaxJobs /\ bcWorker.at = "claimed"
      /\ UNCHANGED <<bcJob, bcRow, bcReached, bcBlocked, bcMishaps, bcRetries, bcOvertaken>>
  BY <1>1, TurnTypes DEF ReadPage, NoTurn
<1>3. CASE PendingRows(j) = {} /\ bcWorker' = [at |-> "drained", job |-> j]
  <2>1. bcWorker' \in Turn
    BY <1>2, <1>3 DEF Turn
  <2>2. BroadcastTypeOK' /\ Ids' = Ids
    BY <1>1, <1>2, <2>1 DEF BroadcastTypeOK, Ids
  <2>3. \A i \in Ids : \/ bcJob'[i] \in {"done", "failed"}
                       \/ bcWorker'.at \in {"drained", "closing"} /\ bcWorker'.job = i
                       => PendingRows(i) = {} \/ i \in bcOvertaken'
    BY <1>1, <1>2, <1>3 DEF SettledOK
  <2> QED BY <1>2, <1>3, <2>2, <2>3, TurnMoves
<1>4. ASSUME NEW p \in Pages(j), bcWorker' = [at |-> "page", job |-> j, todo |-> p]
      PROVE  BroadcastInv'
  <2>1. IsFiniteSet(PendingRows(j))
    BY FS_Subset DEF PendingRows
  <2>2. Cardinality(PendingRows(j)) \in Nat
    BY <2>1, FS_CardinalityType
  <2>3. PICK n \in Nat : /\ p \in [1..n -> PendingRows(j)]
                         /\ \A i, k \in 1..n : p[i] = p[k] => i = k
    BY <1>4, <2>2, PageSizeAssumption DEF Pages
  <2>4. p \in Seq(Chats) /\ Len(p) = n
    BY <2>3 DEF PendingRows
  <2>5. bcWorker' \in Turn
    BY <1>2, <1>4, <2>4 DEF Turn
  <2>6. BroadcastTypeOK' /\ Ids' = Ids
    BY <1>1, <1>2, <2>5 DEF BroadcastTypeOK, Ids
  <2>7. \A i \in 1..n : bcRow[j][p[i]] = "pending"
    BY <2>3 DEF PendingRows
  <2>8. TurnOK'
    <3>1. bcWorker'.job = j /\ bcWorker'.at = "page" /\ bcWorker'.todo = p
      BY <1>4
    <3> QED BY <1>2, <2>3, <2>4, <2>6, <2>7, <3>1 DEF TurnOK
  <2>9. ReachOK'
    <3>1. \A i \in Ids, c \in Chats : Delivered(i, c)' <=> Delivered(i, c)
      BY <1>2, <1>4 DEF Delivered
    <3> QED BY <1>1, <1>2, <2>6, <3>1 DEF ReachOK
  <2>10. SettledOK'
    BY <1>1, <1>2, <1>4, <2>6 DEF SettledOK, PendingRows
  <2> QED BY <2>6, <2>8, <2>9, <2>10 DEF BroadcastInv
<1> QED BY <1>3, <1>4 DEF ReadPage

\* _send_one: the row of the recipient is still pending, so nobody has told that it
\* has the message; a lost reply is a mishap.
LEMMA SendKeepsInv ==
  ASSUME BroadcastInv, NEW outcome \in Outcomes, Send(outcome) PROVE BroadcastInv'
<1> DEFINE j == bcWorker.job
           c == Head(bcWorker.todo)
<1>1. BroadcastTypeOK /\ TurnOK /\ SettledOK /\ ReachOK /\ bcMishaps \in Nat
  BY TypesOf DEF BroadcastInv
<1>2. /\ j \in Ids /\ j \in 1..MaxJobs /\ bcWorker.at = "page"
      /\ bcWorker.todo \in Seq(Chats) /\ bcWorker.todo # <<>>
  BY <1>1, TurnTypes DEF Send, NoTurn
<1>3. /\ c \in Chats /\ c = bcWorker.todo[1] /\ 1 \in 1..Len(bcWorker.todo)
  BY <1>2
<1>4. bcRow[j][c] = "pending"
  BY <1>1, <1>2, <1>3 DEF TurnOK
<1>5. /\ bcWorker' = [at |-> "answered", job |-> j, todo |-> bcWorker.todo, outcome |-> outcome]
      /\ UNCHANGED <<bcJob, bcRow, bcBlocked, bcRetries, bcOvertaken>>
      /\ bcMishaps' \in 0..MaxMishaps /\ bcMishaps' \in Nat /\ bcMishaps <= bcMishaps'
  BY <1>1, BroadcastBounds DEF Send, BroadcastTypeOK
<1>6. PICK v \in {bcReached[j][c], bcReached[j][c] + 1} :
         /\ bcReached' = [bcReached EXCEPT ![j] = [bcReached[j] EXCEPT ![c] = v]]
         /\ v = bcReached[j][c] \/ outcome = "sent" \/ bcMishaps' = bcMishaps + 1
  <2>1. CASE bcReached' = [bcReached EXCEPT ![j][c] = IF outcome = "sent" THEN @ + 1 ELSE @]
    <3>1. CASE outcome = "sent"
      BY <2>1, <3>1
    <3>2. CASE outcome # "sent"
      <4>1. bcReached' = [bcReached EXCEPT ![j] = [bcReached[j] EXCEPT ![c] = bcReached[j][c]]]
        BY <2>1, <3>2
      <4> QED BY <4>1
    <3> QED BY <3>1, <3>2
  <2>2. CASE bcReached' = [bcReached EXCEPT ![j][c] = @ + 1] /\ bcMishaps' = bcMishaps + 1
    BY <2>2
  <2> QED BY <2>1, <2>2 DEF Send
<1> HIDE DEF c
<1>7. /\ bcReached' \in Seq([Chats -> Nat]) /\ Len(bcReached') = Len(bcReached)
      /\ bcReached'[j][c] = v
      /\ \A i \in Ids, d \in Chats : i # j \/ d # c => bcReached'[i][d] = bcReached[i][d]
  <2>1. bcReached \in Seq([Chats -> Nat]) /\ Len(bcReached) = Len(bcJob)
    BY <1>1 DEF BroadcastTypeOK
  <2>2. j \in 1..Len(bcReached) /\ bcReached[j] \in [Chats -> Nat]
    BY <1>2, <2>1 DEF Ids
  <2> DEFINE f == [bcReached[j] EXCEPT ![c] = v]
  <2>3. f \in [Chats -> Nat] /\ f[c] = v
        /\ \A d \in Chats : d # c => f[d] = bcReached[j][d]
    BY <1>3, <1>6, <2>2
  <2>4. bcReached' = [bcReached EXCEPT ![j] = f]
    BY <1>6
  <2> HIDE DEF f
  <2>5. bcReached' \in Seq([Chats -> Nat]) /\ Len(bcReached') = Len(bcReached)
        /\ bcReached'[j] = f /\ \A i \in Ids : i # j => bcReached'[i] = bcReached[i]
    BY <2>1, <2>2, <2>3, <2>4 DEF Ids
  <2> QED BY <2>3, <2>5
<1>8. bcWorker' \in Turn
  BY <1>2, <1>5 DEF Turn
<1>9. BroadcastTypeOK' /\ Ids' = Ids
  BY <1>1, <1>5, <1>7, <1>8 DEF BroadcastTypeOK, Ids
<1>10. TurnOK'
  BY <1>1, <1>2, <1>5, <1>9 DEF TurnOK
<1>11. ReachOK'
  <2> SUFFICES ASSUME NEW i \in Ids, NEW d \in Chats
               PROVE  bcReached'[i][d] <= (IF Delivered(i, d)' THEN 1 ELSE 0) + bcMishaps'
    BY <1>9 DEF ReachOK
  <2>1. bcReached[i][d] <= (IF Delivered(i, d) THEN 1 ELSE 0) + bcMishaps /\ bcReached[i][d] \in Nat
    BY <1>1, TypesOf DEF ReachOK
  <2>2. CASE i # j \/ d # c
    <3>1. Delivered(i, d) => Delivered(i, d)'
      BY <1>2, <1>5 DEF Delivered
    <3>2. bcReached'[i][d] = bcReached[i][d]
      BY <1>7, <2>2
    <3> QED BY <1>1, <1>5, <2>1, <3>1, <3>2
  <2>3. CASE i = j /\ d = c
    <3>1. ~ Delivered(i, d)
      BY <1>2, <1>4, <2>3 DEF Delivered
    <3>2. outcome = "sent" => Delivered(i, d)'
      BY <1>5, <2>3 DEF Delivered, c
    <3>3. bcReached'[i][d] = v /\ v \in {bcReached[i][d], bcReached[i][d] + 1}
      BY <1>6, <1>7, <2>3
    <3>4. bcReached[i][d] <= bcMishaps
      BY <1>1, <2>1, <3>1
    <3>5. CASE outcome = "sent"
      BY <1>1, <1>5, <2>1, <3>2, <3>3, <3>4, <3>5
    <3>6. CASE outcome # "sent"
      <4>1. v = bcReached[i][d] \/ bcMishaps' = bcMishaps + 1
        BY <1>6, <2>3, <3>6
      <4> QED BY <1>1, <1>5, <2>1, <3>3, <3>4, <4>1
    <3> QED BY <3>5, <3>6
  <2> QED BY <2>2, <2>3
<1>12. SettledOK'
  BY <1>1, <1>5, <1>9 DEF SettledOK, PendingRows
<1> QED BY <1>9, <1>10, <1>11, <1>12 DEF BroadcastInv

\* The outcome of a send is committed to its row before the next send, whose row is
\* another one.
LEMMA CommitKeepsInv == ASSUME BroadcastInv, CommitOutcome PROVE BroadcastInv'
<1> DEFINE j == bcWorker.job
           todo == bcWorker.todo
           c == Head(bcWorker.todo)
<1>1. BroadcastTypeOK /\ TurnOK /\ SettledOK /\ ReachOK /\ bcMishaps \in Nat
  BY TypesOf DEF BroadcastInv
<1>2. /\ j \in Ids /\ j \in 1..MaxJobs /\ bcWorker.at = "answered" /\ bcWorker.outcome \in Outcomes
      /\ todo \in Seq(Chats) /\ todo # <<>>
  BY <1>1, TurnTypes DEF CommitOutcome, NoTurn
<1>3. /\ c \in Chats /\ c = todo[1] /\ 1 \in 1..Len(todo) /\ Tail(todo) \in Seq(Chats)
      /\ Len(Tail(todo)) = Len(todo) - 1
      /\ \A i \in 1..Len(Tail(todo)) : i + 1 \in 1..Len(todo) /\ Tail(todo)[i] = todo[i + 1]
  BY <1>2
<1>4. /\ bcWorker' = [at |-> "page", job |-> j, todo |-> Tail(todo)]
      /\ bcRow' = [bcRow EXCEPT ![j] = [bcRow[j] EXCEPT ![c] = bcWorker.outcome]]
      /\ bcBlocked' \subseteq bcBlocked \cup {c}
      /\ UNCHANGED <<bcJob, bcReached, bcMishaps, bcRetries, bcOvertaken>>
  BY DEF CommitOutcome
<1>5. bcRow[j][c] = "pending" /\ \A i \in 2..Len(todo) : todo[i] # c /\ bcRow[j][todo[i]] = "pending"
  BY <1>1, <1>2, <1>3 DEF TurnOK
<1> HIDE DEF c
<1>6. /\ bcRow' \in Seq([Chats -> Outcomes \cup {"pending", "none"}]) /\ Len(bcRow') = Len(bcRow)
      /\ bcRow'[j][c] = bcWorker.outcome
      /\ \A i \in Ids, d \in Chats : i # j \/ d # c => bcRow'[i][d] = bcRow[i][d]
  <2>1. bcRow \in Seq([Chats -> Outcomes \cup {"pending", "none"}]) /\ Len(bcRow) = Len(bcJob)
    BY <1>1 DEF BroadcastTypeOK
  <2>2. j \in 1..Len(bcRow) /\ bcRow[j] \in [Chats -> Outcomes \cup {"pending", "none"}]
    BY <1>2, <2>1 DEF Ids
  <2> DEFINE f == [bcRow[j] EXCEPT ![c] = bcWorker.outcome]
  <2>3. /\ f \in [Chats -> Outcomes \cup {"pending", "none"}] /\ f[c] = bcWorker.outcome
        /\ \A d \in Chats : d # c => f[d] = bcRow[j][d]
    BY <1>2, <1>3, <2>2
  <2>4. bcRow' = [bcRow EXCEPT ![j] = f]
    BY <1>4
  <2> HIDE DEF f
  <2>5. /\ bcRow' \in Seq([Chats -> Outcomes \cup {"pending", "none"}]) /\ Len(bcRow') = Len(bcRow)
        /\ bcRow'[j] = f /\ \A i \in Ids : i # j => bcRow'[i] = bcRow[i]
    BY <2>1, <2>2, <2>3, <2>4 DEF Ids
  <2> QED BY <2>3, <2>5
<1>7. bcWorker' \in Turn
  BY <1>2, <1>3, <1>4 DEF Turn
<1>8. BroadcastTypeOK' /\ Ids' = Ids
  BY <1>1, <1>3, <1>4, <1>6, <1>7 DEF BroadcastTypeOK, Ids
<1>9. TurnOK'
  <2>1. bcWorker'.at = "page" /\ bcWorker'.job = j /\ bcWorker'.todo = Tail(todo)
    BY <1>4
  <2>2. ASSUME NEW i \in 1..Len(Tail(todo))
        PROVE  /\ bcRow'[j][Tail(todo)[i]] = "pending"
               /\ \A k \in 1..Len(Tail(todo)) : Tail(todo)[i] = Tail(todo)[k] => i = k
    <3>1. i + 1 \in 2..Len(todo) /\ Tail(todo)[i] = todo[i + 1]
      BY <1>2, <1>3
    <3>2. todo[i + 1] # c /\ bcRow[j][todo[i + 1]] = "pending" /\ todo[i + 1] \in Chats
      BY <1>2, <1>5, <3>1
    <3>3. \A k \in 1..Len(todo) : todo[i + 1] = todo[k] => i + 1 = k
      BY <1>1, <1>2, <1>3 DEF TurnOK
    <3>4. \A k \in 1..Len(Tail(todo)) : Tail(todo)[i] = Tail(todo)[k] => i = k
      BY <1>2, <1>3, <3>1, <3>3
    <3> QED BY <1>2, <1>6, <3>1, <3>2, <3>4
  <2> QED BY <1>2, <1>8, <2>1, <2>2 DEF TurnOK
<1>10. ReachOK'
  <2>1. \A i \in Ids, d \in Chats : Delivered(i, d) => Delivered(i, d)'
    <3> SUFFICES ASSUME NEW i \in Ids, NEW d \in Chats, Delivered(i, d) PROVE bcRow'[i][d] = "sent"
      BY DEF Delivered
    <3>1. CASE i = j /\ d = c
      <4>1. bcRow[i][d] # "sent"
        BY <1>5, <3>1
      <4>2. bcWorker.outcome = "sent"
        BY <4>1 DEF Delivered
      <4> QED BY <1>6, <3>1, <4>2
    <3>2. CASE ~ (i = j /\ d = c)
      BY <1>6, <3>2 DEF Delivered, c
    <3> QED BY <3>1, <3>2
  <2> SUFFICES ASSUME NEW i \in Ids, NEW d \in Chats
               PROVE  bcReached[i][d] <= (IF Delivered(i, d)' THEN 1 ELSE 0) + bcMishaps
    BY <1>4, <1>8 DEF ReachOK
  <2>2. bcReached[i][d] <= (IF Delivered(i, d) THEN 1 ELSE 0) + bcMishaps /\ bcReached[i][d] \in Nat
    BY <1>1, TypesOf DEF ReachOK
  <2>3. Delivered(i, d) => Delivered(i, d)'
    BY <2>1
  <2> QED BY <1>1, <2>2, <2>3
<1>11. SettledOK'
  <2>1. \A i \in Ids : PendingRows(i)' \subseteq PendingRows(i)
    <3> SUFFICES ASSUME NEW i \in Ids, NEW d \in Chats, bcRow'[i][d] = "pending"
                 PROVE  bcRow[i][d] = "pending"
      BY DEF PendingRows
    <3> QED BY <1>5, <1>6
  <2>2. \A i \in Ids : bcJob'[i] \in {"done", "failed"} => PendingRows(i)' = {} \/ i \in bcOvertaken'
    BY <1>1, <1>4, <2>1 DEF SettledOK
  <2> QED BY <1>4, <1>8, <2>2 DEF SettledOK
<1> QED BY <1>8, <1>9, <1>10, <1>11 DEF BroadcastInv

\* The worker dies, whatever it was at: what it knew of a send is lost, and that is
\* the mishap that a repeat needs.
LEMMA DeathKeepsInv == ASSUME BroadcastInv, WorkerDies PROVE BroadcastInv'
<1>1. BroadcastTypeOK /\ TurnOK /\ SettledOK /\ ReachOK /\ bcMishaps \in Nat
  BY TypesOf DEF BroadcastInv
<1>2. /\ bcWorker' = NoTurn /\ bcMishaps' = bcMishaps + 1 /\ bcMishaps < MaxMishaps
      /\ UNCHANGED <<bcJob, bcRow, bcBlocked, bcReached, bcRetries, bcOvertaken>>
  BY DEF WorkerDies
<1>3. BroadcastTypeOK' /\ Ids' = Ids
  <2>1. bcMishaps' \in 0..MaxMishaps
    BY <1>1, <1>2, BroadcastBounds
  <2> QED BY <1>1, <1>2, <2>1 DEF BroadcastTypeOK, Ids
<1>4. TurnOK'
  BY <1>2 DEF TurnOK, NoTurn
<1>5. ReachOK'
  <2> SUFFICES ASSUME NEW i \in Ids, NEW d \in Chats
               PROVE  bcReached'[i][d] <= (IF Delivered(i, d)' THEN 1 ELSE 0) + bcMishaps'
    BY <1>3 DEF ReachOK
  <2>1. bcReached[i][d] <= (IF Delivered(i, d) THEN 1 ELSE 0) + bcMishaps /\ bcReached[i][d] \in Nat
    BY <1>1, TypesOf DEF ReachOK
  <2>2. bcReached'[i][d] = bcReached[i][d] /\ bcMishaps' = bcMishaps + 1
    BY <1>2
  <2> QED BY <1>1, <2>1, <2>2
<1>6. SettledOK'
  BY <1>1, <1>2, <1>3 DEF SettledOK, PendingRows, NoTurn
<1> QED BY <1>3, <1>4, <1>5, <1>6 DEF BroadcastInv

\* retry_failed: only rows whose send is known to have failed are pending again, and
\* the job with them.
LEMMA RetryKeepsInv == ASSUME BroadcastInv, NEW j \in Jobs, BroadcastRetry(j) PROVE BroadcastInv'
<1> DEFINE row == [c \in Chats |-> IF Retryable(bcRow[j][c]) THEN "pending" ELSE bcRow[j][c]]
<1>1. /\ BroadcastTypeOK /\ TurnOK /\ SettledOK /\ ReachOK /\ bcMishaps \in Nat
      /\ j \in Ids /\ Ids \subseteq 1..MaxJobs
  BY TypesOf DEF BroadcastInv
<1>2. /\ bcRow' = [bcRow EXCEPT ![j] = row] /\ bcJob' = [bcJob EXCEPT ![j] = "pending"]
      /\ bcOvertaken' = IF bcWorker.at \in {"drained", "closing"} /\ bcWorker.job = j
                        THEN bcOvertaken \cup {j} ELSE bcOvertaken \ {j}
      /\ UNCHANGED <<bcBlocked, bcWorker, bcReached, bcMishaps>>
      /\ bcRetries' \in 0..MaxRetries
  BY <1>1, BroadcastBounds DEF BroadcastRetry, RetryFailed, BroadcastTypeOK
<1>3. /\ row \in [Chats -> Outcomes \cup {"pending", "none"}]
      /\ \A c \in Chats : /\ bcRow[j][c] = "pending" => row[c] = "pending"
                          /\ row[c] = "sent" <=> bcRow[j][c] = "sent"
  BY <1>1, TypesOf DEF Retryable
<1> HIDE DEF row
<1>4. /\ bcRow' \in Seq([Chats -> Outcomes \cup {"pending", "none"}]) /\ Len(bcRow') = Len(bcRow)
      /\ bcRow'[j] = row /\ \A i \in Ids : i # j => bcRow'[i] = bcRow[i]
      /\ bcJob' \in Seq({"pending", "running", "done", "failed"}) /\ Len(bcJob') = Len(bcJob)
      /\ bcJob'[j] = "pending" /\ \A i \in Ids : i # j => bcJob'[i] = bcJob[i]
  BY <1>1, <1>2, <1>3 DEF BroadcastTypeOK, Ids
<1>5. \A i \in Ids, c \in Chats : /\ bcRow[i][c] = "pending" => bcRow'[i][c] = "pending"
                                  /\ bcRow'[i][c] = "sent" <=> bcRow[i][c] = "sent"
  <2> SUFFICES ASSUME NEW i \in Ids, NEW c \in Chats
               PROVE  /\ bcRow[i][c] = "pending" => bcRow'[i][c] = "pending"
                      /\ bcRow'[i][c] = "sent" <=> bcRow[i][c] = "sent"
    OBVIOUS
  <2>1. CASE i = j
    BY <1>3, <1>4, <2>1
  <2>2. CASE i # j
    BY <1>4, <2>2
  <2> QED BY <2>1, <2>2
<1>6. BroadcastTypeOK' /\ Ids' = Ids
  BY <1>1, <1>2, <1>4 DEF BroadcastTypeOK, Ids
<1>7. TurnOK'
  <2>1. \A i \in Ids, c \in Chats : bcRow[i][c] = "pending" => bcRow'[i][c] = "pending"
    BY <1>5
  <2>2. bcWorker.at \in {"page", "answered"} =>
          bcWorker.job \in Ids /\ \A i \in 1..Len(bcWorker.todo) : bcWorker.todo[i] \in Chats
    BY <1>1, TurnTypes DEF NoTurn
  <2> QED BY <1>1, <1>2, <1>6, <2>1, <2>2 DEF TurnOK
<1>8. ReachOK'
  <2>1. \A i \in Ids, c \in Chats : bcRow'[i][c] = "sent" <=> bcRow[i][c] = "sent"
    BY <1>5
  <2>2. \A i \in Ids, c \in Chats : Delivered(i, c)' <=> Delivered(i, c)
    BY <1>2, <2>1 DEF Delivered
  <2> QED BY <1>1, <1>2, <1>6, <2>2 DEF ReachOK
<1>9. SettledOK'
  <2> SUFFICES ASSUME NEW i \in Ids,
                      \/ bcJob'[i] \in {"done", "failed"}
                      \/ bcWorker.at \in {"drained", "closing"} /\ bcWorker.job = i
               PROVE  PendingRows(i)' = {} \/ i \in bcOvertaken'
    BY <1>2, <1>6 DEF SettledOK
  <2>1. CASE i = j
    BY <1>2, <1>4, <2>1
  <2>2. CASE i # j
    <3>1. PendingRows(i)' = PendingRows(i)
      BY <1>4, <2>2 DEF PendingRows
    <3>2. PendingRows(i) = {} \/ i \in bcOvertaken
      BY <1>1, <1>4, <2>2 DEF SettledOK
    <3> QED BY <1>2, <2>2, <3>1, <3>2
  <2> QED BY <2>1, <2>2
<1> QED BY <1>6, <1>7, <1>8, <1>9 DEF BroadcastInv

-----------------------------------------------------------------------------
\* It holds at first and is kept by every step.
LEMMA BroadcastInvariant == ASSUME IsFiniteSet(Chats) PROVE BroadcastSpec => []BroadcastInv
<1>1. BroadcastInit => BroadcastInv
  <2> SUFFICES ASSUME BroadcastInit PROVE BroadcastInv
    OBVIOUS
  <2>1. Ids = {} /\ bcWorker = NoTurn
    BY DEF BroadcastInit, Ids
  <2>2. BroadcastTypeOK
    BY BroadcastBounds DEF BroadcastInit, BroadcastTypeOK
  <2> QED BY <2>1, <2>2 DEF BroadcastInv, TurnOK, ReachOK, SettledOK, NoTurn
<1>2. BroadcastInv /\ [BroadcastNext]_bcVars => BroadcastInv'
  <2> SUFFICES ASSUME BroadcastInv, [BroadcastNext]_bcVars PROVE BroadcastInv'
    OBVIOUS
  <2>1. CASE UNCHANGED bcVars
    BY <2>1 DEF bcVars, BroadcastInv, BroadcastTypeOK, TurnOK, ReachOK, SettledOK, Ids, Delivered,
       PendingRows
  <2>2. CASE BroadcastConfirm \/ BroadcastSubmit \/ ResellerBroadcast
    <3>1. \E audience \in SUBSET Chats : Enqueue(audience)
      BY <2>2 DEF BroadcastConfirm, BroadcastSubmit, ResellerBroadcast, CreateJob,
         CreateJobForUsers, AudienceOf
    <3> QED BY <3>1, EnqueueKeepsInv
  <2>3. CASE TurnStep
    BY <2>3, ClaimingKeepsInv, ReadPageKeepsInv, SendKeepsInv, CommitKeepsInv DEF TurnStep
  <2> QED BY <2>1, <2>2, <2>3, DeathKeepsInv, RetryKeepsInv DEF BroadcastNext
<1> QED BY <1>1, <1>2, PTL DEF BroadcastSpec

\* Types of jobs, rows and the worker's turn.
THEOREM BroadcastTypeCorrect ==
  ASSUME IsFiniteSet(Chats) PROVE BroadcastSpec => []BroadcastTypeOK
<1>1. BroadcastInv => BroadcastTypeOK
  BY DEF BroadcastInv
<1> QED BY <1>1, BroadcastInvariant, PTL

\* A recipient gets a broadcast again only for a death of the worker or a lost reply
\* (process_broadcast_once, retry_failed).
THEOREM RepeatsAreAlwaysExplained ==
  ASSUME IsFiniteSet(Chats) PROVE BroadcastSpec => []NoUnexplainedRepeats
<1>1. BroadcastInv => NoUnexplainedRepeats
  <2> SUFFICES ASSUME BroadcastInv, NEW j \in Jobs, NEW c \in Chats
               PROVE  bcReached[j][c] <= 1 + bcMishaps
    BY DEF NoUnexplainedRepeats
  <2>1. j \in Ids /\ bcMishaps \in Nat /\ bcReached[j][c] \in Nat
    BY TypesOf DEF BroadcastInv
  <2>2. bcReached[j][c] <= (IF Delivered(j, c) THEN 1 ELSE 0) + bcMishaps
    BY <2>1 DEF BroadcastInv, ReachOK
  <2> QED BY <2>1, <2>2
<1> QED BY <1>1, BroadcastInvariant, PTL

\* A job that is over has no recipient left, unless the panel re-queued some while the
\* worker was closing it or its bot was gone (finalize_job, retry_failed).
THEOREM NobodyIsForgotten ==
  ASSUME IsFiniteSet(Chats) PROVE BroadcastSpec => []NobodyForgotten
<1>1. BroadcastInv => NobodyForgotten
  BY TypesOf DEF BroadcastInv, SettledOK, NobodyForgotten
<1> QED BY <1>1, BroadcastInvariant, PTL

-----------------------------------------------------------------------------
(* Auto-delete: no deletion is dropped. *)

\* What the worker is through with was tried or passed over.
DeletionInv ==
  /\ AutoDeleteTypeOK
  /\ \A d \in adTurn.popped \ adTurn.left : adFate[d] # "none"

\* It holds when nothing is scheduled.
LEMMA DeletionsBegin == AutoDeleteInit => DeletionInv
BY DeletionAssumption DEF AutoDeleteInit, DeletionInv, AutoDeleteTypeOK, NotWorking

\* One member is dealt with.
LEMMA OneIsDealtWith ==
  ASSUME DeletionInv, NEW d \in adTurn.left, NEW fate \in {"tried", "excused"}, NEW broken \in BOOLEAN,
         adFate' = [adFate EXCEPT ![d] = fate],
         adTurn' = [adTurn EXCEPT !.left = @ \ {d}, !.broken = broken],
         adBots' \subseteq Tenants, adTrouble' \in 0..MaxDeletionTrouble,
         UNCHANGED <<adQueue, adActive>>
  PROVE  DeletionInv'
<1>1. AutoDeleteTypeOK /\ \A e \in adTurn.popped \ adTurn.left : adFate[e] # "none"
  BY DEF DeletionInv
<1>2. d \in Deletions /\ adFate \in [Deletions -> {"none", "tried", "excused"}]
  BY <1>1 DEF AutoDeleteTypeOK
<1>3. /\ adTurn' \in [popped : SUBSET Deletions, left : SUBSET Deletions, broken : BOOLEAN]
      /\ adTurn'.popped = adTurn.popped /\ adTurn'.left = adTurn.left \ {d}
  BY <1>1 DEF AutoDeleteTypeOK
<1>4. /\ adFate' \in [Deletions -> {"none", "tried", "excused"}]
      /\ \A e \in Deletions : adFate'[e] = IF e = d THEN fate ELSE adFate[e]
  BY <1>2
<1>5. AutoDeleteTypeOK'
  BY <1>1, <1>3, <1>4 DEF AutoDeleteTypeOK
<1>6. \A e \in adTurn'.popped \ adTurn'.left : adFate'[e] # "none"
  BY <1>1, <1>3, <1>4 DEF AutoDeleteTypeOK
<1> QED BY <1>5, <1>6 DEF DeletionInv

\* Each step keeps it.
LEMMA DeletionsGoOn ==
  ASSUME DeletionInv, [AutoDeleteNext]_adVars
  PROVE  DeletionInv'
<1>1. AutoDeleteTypeOK /\ \A d \in adTurn.popped \ adTurn.left : adFate[d] # "none"
  BY DEF DeletionInv
<1> USE DEF DeletionInv
<1>2. CASE PopDue
  BY <1>1, <1>2 DEF PopDue, AutoDeleteTypeOK, Due
<1>3. CASE Acknowledge
  <2>1. adQueue' \in [Deletions -> {"no", "waiting", "due"}]
    BY <1>1, <1>3 DEF Acknowledge, AutoDeleteTypeOK
  <2>2. adTurn' = [popped |-> {}, left |-> {}, broken |-> FALSE]
    BY <1>3 DEF Acknowledge, NotWorking
  <2> QED BY <1>1, <1>3, <2>1, <2>2 DEF Acknowledge, AutoDeleteTypeOK
<1>4. ASSUME NEW d \in Deletions, DeleteOne(d) PROVE DeletionInv'
  <2>1. /\ d \in adTurn.left /\ adFate' = [adFate EXCEPT ![d] = "tried"]
        /\ adTurn' = [adTurn EXCEPT !.left = @ \ {d}] /\ adBots' \subseteq Tenants
        /\ UNCHANGED <<adQueue, adActive, adTrouble>>
    BY <1>1, <1>4, DeletionAssumption DEF DeleteOne, AutoDeleteTypeOK, TenantOf
  <2>2. adTurn' = [adTurn EXCEPT !.left = @ \ {d}, !.broken = adTurn.broken]
    BY <1>1, <2>1 DEF AutoDeleteTypeOK
  <2> QED BY <1>1, <2>1, <2>2, OneIsDealtWith DEF AutoDeleteTypeOK
<1>5. ASSUME NEW d \in Deletions, PassOver(d) PROVE DeletionInv'
  <2>1. PICK fate \in {"tried", "excused"} : adFate' = [adFate EXCEPT ![d] = fate]
    BY <1>5 DEF PassOver
  <2>2. d \in adTurn.left /\ UNCHANGED <<adQueue, adActive, adBots, adTrouble>>
        /\ adTurn' = [adTurn EXCEPT !.left = @ \ {d}]
    BY <1>5 DEF PassOver
  <2>3. adTurn' = [adTurn EXCEPT !.left = @ \ {d}, !.broken = adTurn.broken]
    BY <1>1, <2>2 DEF AutoDeleteTypeOK
  <2> QED BY <1>1, <2>1, <2>2, <2>3, OneIsDealtWith DEF AutoDeleteTypeOK
<1>6. ASSUME NEW d \in Deletions, ConnectionBreaks(d) PROVE DeletionInv'
  <2>1. PICK fate \in {"tried", "excused"} : adFate' = [adFate EXCEPT ![d] = fate]
    BY <1>6 DEF ConnectionBreaks
  <2>2. /\ d \in adTurn.left /\ UNCHANGED <<adQueue, adActive, adBots>>
        /\ adTrouble' \in 0..MaxDeletionTrouble
        /\ adTurn' = [adTurn EXCEPT !.left = @ \ {d}, !.broken = TRUE]
    BY <1>1, <1>6, DeletionAssumption DEF ConnectionBreaks, AutoDeleteTypeOK
  <2> QED BY <1>1, <2>1, <2>2, OneIsDealtWith DEF AutoDeleteTypeOK
<1>7. CASE DeleterDies
  BY <1>1, <1>7, DeletionAssumption DEF DeleterDies, AutoDeleteTypeOK, NotWorking
<1>8. ASSUME NEW t \in Tenants, Schedule(t) \/ SwitchTenant(t) PROVE DeletionInv'
  BY <1>1, <1>8 DEF Schedule, SwitchTenant, AutoDeleteTypeOK
<1>9. ASSUME NEW d \in Deletions, FallsDue(d) PROVE DeletionInv'
  BY <1>1, <1>9 DEF FallsDue, AutoDeleteTypeOK
<1>10. CASE UNCHANGED adVars
  BY <1>1, <1>10 DEF adVars, AutoDeleteTypeOK
<1> QED BY <1>2, <1>3, <1>4, <1>5, <1>6, <1>7, <1>8, <1>9, <1>10 DEF AutoDeleteNext, DeleterStep

\* Types of the queue, the fates of its messages and the worker's turn.
THEOREM AutoDeleteTypeCorrect == AutoDeleteSpec => []AutoDeleteTypeOK
<1>1. DeletionInv => AutoDeleteTypeOK
  BY DEF DeletionInv
<1> QED BY <1>1, DeletionsBegin, DeletionsGoOn, PTL DEF AutoDeleteSpec

\* Only an acknowledged turn takes deletions out of the queue.
LEMMA TurnsDropNone ==
  ASSUME DeletionInv, [AutoDeleteNext]_adVars, NEW d \in Deletions, adQueue[d] # "no", adQueue'[d] = "no"
  PROVE  adFate[d] # "none"
<1>1. CASE Acknowledge
  BY <1>1 DEF Acknowledge, DeletionInv
<1>2. CASE ~Acknowledge /\ AutoDeleteNext
  BY <1>2 DEF AutoDeleteNext, DeleterStep, PopDue, DeleteOne, PassOver, DeleterDies, Schedule,
     SwitchTenant, FallsDue, ConnectionBreaks, DeletionInv, AutoDeleteTypeOK
<1>3. CASE UNCHANGED adVars
  BY <1>3 DEF adVars
<1> QED BY <1>1, <1>2, <1>3

\* Whatever dies or breaks, a scheduled deletion is in the queue until it was tried or
\* passed over (schedule, pop_due, ack, process_once).
THEOREM NoDeletionIsDropped == AutoDeleteSpec => NoneIsDropped
<1> DEFINE Kept == \A d \in Deletions : adQueue[d] # "no" /\ adQueue'[d] = "no" => adFate[d] # "none"
<1>1. DeletionInv /\ [AutoDeleteNext]_adVars => [Kept]_adVars
  BY TurnsDropNone
<1> HIDE DEF Kept
<1>2. AutoDeleteSpec => [][Kept]_adVars
  BY <1>1, DeletionsBegin, DeletionsGoOn, PTL DEF AutoDeleteSpec
<1> QED BY <1>2 DEF NoneIsDropped, Kept

-----------------------------------------------------------------------------
(* Albums: no part is lost, none is used twice. *)

\* Where a part may be: in a list that holds it, in an album that was popped, in a media.
PopsOf(p) == {i \in DOMAIN alTurn.albums : p \in ToSet(alTurn.albums[i])}

\* The turn has claimed a group while it is at it, and has read of it what is in its list.
TurnInOrder ==
  /\ alTurn.at \in {"claimed", "read"} => alTurn.claimed \in [1..1 -> Groups]
  /\ alTurn.at \notin {"claimed", "read"} => alTurn.claimed = <<>>
  /\ alTurn.at = "read" => ToSet(alTurn.raw) \subseteq ToSet(alData[alTurn.claimed[1]])
  /\ alTurn.at # "read" => alTurn.raw = <<>>
  /\ alTurn.at = "finalizing" => alTurn.albums # <<>>

\* A part is in one of the three places at most, and one that was taken in and is in none
\* is excused.
InOnePlace(p) ==
  /\ \A g \in Groups : p \in ToSet(alData[g]) => g = GroupOf(p) /\ PopsOf(p) = {} /\ UsedIn(p) = {}
  /\ PopsOf(p) # {} => UsedIn(p) = {}
  /\ \A i, k \in PopsOf(p) : i = k
  /\ \A i, k \in UsedIn(p) : i = k
  /\ alHandler[p] = "new" => p \notin ToSet(alData[GroupOf(p)]) /\ PopsOf(p) = {} /\ UsedIn(p) = {}
  /\ alHandler[p] # "new" =>
       p \in alExcused \cup ToSet(alData[GroupOf(p)]) \/ PopsOf(p) # {} \/ UsedIn(p) # {}

AlbumInv == AlbumsTypeOK /\ TurnInOrder /\ \A p \in Parts : InOnePlace(p)

\* It holds when no part has come.
LEMMA AlbumsBegin == AlbumsInit => AlbumInv
<1> SUFFICES ASSUME AlbumsInit PROVE AlbumInv
  OBVIOUS
<1>1. \A g \in Groups : alData[g] = <<>>
  BY DEF AlbumsInit
<1>2. /\ alTurn = [at |-> "idle", todo |-> {}, claimed |-> <<>>, raw |-> <<>>, albums |-> <<>>]
      /\ alMedia = <<>> /\ \A p \in Parts : alHandler[p] = "new"
  BY DEF AlbumsInit, NoAlbumTurn
<1>3. AlbumsTypeOK
  BY PartsOfGroups, <1>2 DEF AlbumsInit, AlbumsTypeOK
<1>4. TurnInOrder
  BY <1>2 DEF TurnInOrder
<1>5. ASSUME NEW p \in Parts PROVE InOnePlace(p)
  <2>1. PopsOf(p) = {} /\ UsedIn(p) = {} /\ ToSet(<<>>) = {} /\ GroupOf(p) \in Groups
    BY <1>2, PartsOfGroups DEF PopsOf, UsedIn, ToSet, GroupOf
  <2> QED BY <1>1, <1>2, <2>1 DEF InOnePlace
<1> QED BY <1>3, <1>4, <1>5 DEF AlbumInv

\* What a list with one more element, or with one less, holds.
LEMMA OneMoreInList ==
  ASSUME NEW S, NEW list \in Seq(S), NEW x \in S
  PROVE  /\ Append(list, x) \in Seq(S) /\ ToSet(Append(list, x)) = ToSet(list) \cup {x}
         /\ DOMAIN Append(list, x) = (DOMAIN list) \cup {Len(list) + 1} /\ Append(list, x)[Len(list) + 1] = x
         /\ Len(list) + 1 \notin DOMAIN list
         /\ \A i \in DOMAIN list : Append(list, x)[i] = list[i]
<1>1. /\ Append(list, x) \in Seq(S) /\ Len(Append(list, x)) = Len(list) + 1 /\ Len(list) \in Nat
      /\ Append(list, x)[Len(list) + 1] = x /\ \A i \in 1..Len(list) : Append(list, x)[i] = list[i]
  OBVIOUS
<1>2. DOMAIN Append(list, x) = 1..(Len(list) + 1) /\ DOMAIN list = 1..Len(list)
  BY <1>1
<1>3. DOMAIN Append(list, x) = (DOMAIN list) \cup {Len(list) + 1} /\ Len(list) + 1 \notin DOMAIN list
  BY <1>1, <1>2
<1> QED BY <1>1, <1>2, <1>3 DEF ToSet

\* One element less, the first.
LEMMA OneLessInList ==
  ASSUME NEW S, NEW list \in Seq(S), list # <<>>
  PROVE  /\ Tail(list) \in Seq(S) /\ Head(list) \in S /\ Head(list) = list[1] /\ 1 \in DOMAIN list
         /\ \A i \in DOMAIN Tail(list) : i + 1 \in DOMAIN list /\ i + 1 # 1 /\ Tail(list)[i] = list[i + 1]
         /\ \A i \in DOMAIN list : i # 1 => i - 1 \in DOMAIN Tail(list) /\ Tail(list)[i - 1] = list[i]
         /\ Tail(list) = <<>> <=> Len(list) = 1
<1>1. Len(list) \in Nat \ {0} /\ DOMAIN list = 1..Len(list)
  OBVIOUS
<1>2. Tail(list) \in Seq(S) /\ Head(list) = list[1] /\ Head(list) \in S
  BY <1>1
<1>3. DOMAIN Tail(list) = 1..(Len(list) - 1) /\ \A i \in 1..(Len(list) - 1) : Tail(list)[i] = list[i + 1]
  BY <1>1
<1>4. Tail(list) = <<>> <=> Len(list) = 1
  <2>1. Len(Tail(list)) = Len(list) - 1 /\ Len(list) - 1 = 0 <=> Len(list) = 1
    BY <1>1
  <2> QED BY <1>1, <1>2, <2>1
<1> QED BY <1>1, <1>2, <1>3, <1>4

\* A turn, as AlbumsTypeOK has it.
AlbumTurn == [at : {"idle", "reading", "claimed", "read", "finalizing"}, todo : SUBSET Groups,
              claimed : Seq(Groups), raw : Seq(Parts), albums : Seq(Seq(Parts))]

\* A step that moves no part.
LEMMA PlacesStay ==
  ASSUME AlbumInv, AlbumsTypeOK', TurnInOrder', alData' = alData, alMedia' = alMedia,
         alTurn'.albums = alTurn.albums, alExcused \subseteq alExcused',
         \A p \in Parts : alHandler'[p] = "new" <=> alHandler[p] = "new"
  PROVE  AlbumInv'
<1>1. ASSUME NEW p \in Parts PROVE InOnePlace(p)'
  <2>1. PopsOf(p)' = PopsOf(p) /\ UsedIn(p)' = UsedIn(p)
    BY DEF PopsOf, UsedIn
  <2>2. InOnePlace(p)
    BY <1>1 DEF AlbumInv
  <2> QED BY <1>1, <2>1, <2>2 DEF InOnePlace
<1> QED BY <1>1 DEF AlbumInv

\* A handler goes on, a group's time passes, the worker moves on without a part.
LEMMA AlbumMovesOn ==
  ASSUME AlbumInv,
         \/ \E p \in Parts : WriteMeta(p) \/ ArmGroup(p) \/ HandlerDies(p)
         \/ \E g \in Groups : DebounceElapses(g) \/ ClaimGroup(g)
         \/ ReadDueGroups \/ ReadGroup \/ AllPopped \/ UNCHANGED alVars
  PROVE  AlbumInv'
<1>1. AlbumsTypeOK /\ TurnInOrder
  BY DEF AlbumInv
<1> DEFINE Stays == /\ AlbumsTypeOK' /\ TurnInOrder' /\ alData' = alData /\ alMedia' = alMedia
                    /\ alTurn'.albums = alTurn.albums /\ alExcused \subseteq alExcused'
                    /\ \A p \in Parts : alHandler'[p] = "new" <=> alHandler[p] = "new"
<1>2. ASSUME NEW p \in Parts, WriteMeta(p) \/ ArmGroup(p) \/ HandlerDies(p) PROVE Stays
  <2>1. /\ alHandler' \in [Parts -> {"new", "pushed", "meta", "handled", "dead"}]
        /\ \A q \in Parts : alHandler'[q] = "new" <=> alHandler[q] = "new"
    BY <1>1, <1>2 DEF WriteMeta, ArmGroup, HandlerDies, AlbumsTypeOK
  <2>2. /\ alMeta' \subseteq Groups /\ alDue' \in [Groups -> {"no", "armed", "due"}]
        /\ alExcused \subseteq alExcused' /\ alExcused' \subseteq Parts /\ alTrouble' \in 0..MaxAlbumTrouble
        /\ UNCHANGED <<alData, alTurn, alMedia>>
    <3>1. GroupOf(p) \in Groups
      BY PartsOfGroups DEF GroupOf
    <3>2. CASE WriteMeta(p)
      BY <1>1, <3>1, <3>2 DEF WriteMeta, AlbumsTypeOK
    <3>3. CASE ArmGroup(p)
      BY <1>1, <3>3 DEF ArmGroup, AlbumsTypeOK
    <3>4. CASE HandlerDies(p)
      BY <1>1, <3>4, PartsOfGroups DEF HandlerDies, AlbumsTypeOK
    <3> QED BY <1>2, <3>2, <3>3, <3>4
  <2> QED BY <1>1, <2>1, <2>2 DEF AlbumsTypeOK, TurnInOrder
<1>3. ASSUME NEW g \in Groups, DebounceElapses(g) PROVE Stays
  BY <1>1, <1>3 DEF DebounceElapses, AlbumsTypeOK, TurnInOrder
<1>4. ASSUME NEW g \in Groups, ClaimGroup(g) PROVE Stays
  <2>1. /\ alTurn' = [alTurn EXCEPT !.todo = @ \ {g}]
           \/ alTurn' = [alTurn EXCEPT !.at = "claimed", !.todo = @ \ {g}, !.claimed = <<g>>]
        /\ alTurn.at = "reading" /\ alDue' \in [Groups -> {"no", "armed", "due"}]
        /\ UNCHANGED <<alHandler, alData, alMeta, alMedia, alExcused, alTrouble>>
    BY <1>1, <1>4 DEF ClaimGroup, AlbumsTypeOK
  <2>2. <<g>> \in Seq(Groups) /\ <<g>> \in [1..1 -> Groups]
    OBVIOUS
  <2>3. AlbumsTypeOK'
    <3>1. alTurn \in AlbumTurn
      BY <1>1 DEF AlbumsTypeOK, AlbumTurn
    <3>2. alTurn' \in AlbumTurn
      <4>1. CASE alTurn' = [alTurn EXCEPT !.todo = @ \ {g}]
        BY <3>1, <4>1 DEF AlbumTurn
      <4>2. CASE alTurn' = [alTurn EXCEPT !.at = "claimed", !.todo = @ \ {g}, !.claimed = <<g>>]
        BY <2>2, <3>1, <4>2 DEF AlbumTurn
      <4> QED BY <2>1, <4>1, <4>2
    <3> QED BY <1>1, <2>1, <3>2 DEF AlbumsTypeOK, AlbumTurn
  <2>4. TurnInOrder' /\ alTurn'.albums = alTurn.albums
    BY <1>1, <2>1, <2>2 DEF AlbumsTypeOK, TurnInOrder
  <2> QED BY <2>1, <2>3, <2>4
<1>5. ASSUME ReadDueGroups PROVE Stays
  BY <1>1, <1>5 DEF ReadDueGroups, NoAlbumTurn, AlbumsTypeOK, TurnInOrder
<1>6. ASSUME ReadGroup PROVE Stays
  <2>1. alTurn.claimed \in [1..1 -> Groups] /\ Head(alTurn.claimed) = alTurn.claimed[1] /\ alTurn.claimed[1] \in Groups
    BY <1>1, <1>6 DEF ReadGroup, TurnInOrder
  <2>2. alTurn' = [alTurn EXCEPT !.at = "read", !.raw = alData[alTurn.claimed[1]]] /\ alTurn.at = "claimed"
        /\ UNCHANGED <<alHandler, alData, alMeta, alDue, alMedia, alTrouble>>
        /\ alExcused' \in {alExcused, alExcused \cup ToSet(alData[alTurn.claimed[1]])}
    BY <1>6, <2>1 DEF ReadGroup
  <2>3. alData[alTurn.claimed[1]] \in Seq(Parts)
    BY <1>1, <2>1 DEF AlbumsTypeOK
  <2>4. alExcused \subseteq alExcused' /\ alExcused' \subseteq Parts
    BY <1>1, <2>2, <2>3 DEF AlbumsTypeOK, ToSet
  <2>5. AlbumsTypeOK'
    <3>1. alTurn' \in AlbumTurn
      BY <1>1, <2>2, <2>3 DEF AlbumsTypeOK, AlbumTurn
    <3> QED BY <1>1, <2>2, <2>4, <3>1 DEF AlbumsTypeOK, AlbumTurn
  <2>6. TurnInOrder' /\ alTurn'.albums = alTurn.albums
    BY <1>1, <2>1, <2>2 DEF AlbumsTypeOK, TurnInOrder
  <2> QED BY <2>2, <2>4, <2>5, <2>6
<1>7. ASSUME AllPopped PROVE Stays
  BY <1>1, <1>7 DEF AllPopped, NoAlbumTurn, AlbumsTypeOK, TurnInOrder
<1>8. ASSUME UNCHANGED alVars PROVE Stays
  BY <1>1, <1>8 DEF alVars, AlbumsTypeOK, TurnInOrder
<1>9. Stays
  BY <1>2, <1>3, <1>4, <1>5, <1>6, <1>7, <1>8
<1> QED BY <1>9, PlacesStay

\* A part joins the list of its group.
LEMMA PushKeepsParts ==
  ASSUME AlbumInv, NEW p \in Parts, PushPart(p)
  PROVE  AlbumInv'
<1>1. AlbumsTypeOK /\ TurnInOrder /\ \A q \in Parts : InOnePlace(q)
  BY DEF AlbumInv
<1> DEFINE g == GroupOf(p)
<1>2. g \in Groups /\ alData[g] \in Seq(Parts)
  BY <1>1, PartsOfGroups DEF AlbumsTypeOK, GroupOf
<1>3. alHandler[p] = "new" /\ alHandler' = [alHandler EXCEPT ![p] = "pushed"]
      /\ alData' = [alData EXCEPT ![g] = Append(alData[g], p)]
      /\ UNCHANGED <<alMeta, alDue, alTurn, alMedia, alExcused, alTrouble>>
  BY DEF PushPart
<1> HIDE DEF g
<1>4. Append(alData[g], p) \in Seq(Parts) /\ ToSet(Append(alData[g], p)) = ToSet(alData[g]) \cup {p}
  BY <1>2, OneMoreInList
<1>5. /\ alData' \in [Groups -> Seq(Parts)] /\ ToSet(alData'[g]) = ToSet(alData[g]) \cup {p}
      /\ \A k \in Groups \ {g} : alData'[k] = alData[k]
      /\ alHandler' \in [Parts -> {"new", "pushed", "meta", "handled", "dead"}] /\ alHandler'[p] = "pushed"
      /\ \A q \in Parts \ {p} : alHandler'[q] = alHandler[q]
  BY <1>1, <1>2, <1>3, <1>4 DEF AlbumsTypeOK
<1>6. AlbumsTypeOK'
  BY <1>1, <1>3, <1>5 DEF AlbumsTypeOK
<1>7. TurnInOrder'
  BY <1>1, <1>2, <1>3, <1>5 DEF TurnInOrder
<1>8. ASSUME NEW q \in Parts PROVE InOnePlace(q)'
  <2>1. PopsOf(q)' = PopsOf(q) /\ UsedIn(q)' = UsedIn(q)
    BY <1>3 DEF PopsOf, UsedIn
  <2>2. GroupOf(q) \in Groups /\ InOnePlace(q)
    BY <1>1, PartsOfGroups DEF GroupOf
  <2>3. CASE q = p
    BY <1>2, <1>3, <1>5, <2>1, <2>2, <2>3 DEF InOnePlace, g
  <2>4. CASE q # p
    <3>1. \A k \in Groups : q \in ToSet(alData'[k]) <=> q \in ToSet(alData[k])
      BY <1>5, <2>4
    <3> QED BY <1>3, <1>5, <2>1, <2>2, <2>4, <3>1 DEF InOnePlace
  <2> QED BY <2>3, <2>4
<1> QED BY <1>6, <1>7, <1>8 DEF AlbumInv

\* The buffer's time to live passes: what it held is excused.
LEMMA ExpiryKeepsParts ==
  ASSUME AlbumInv, NEW g \in Groups, BufferExpires(g)
  PROVE  AlbumInv'
<1>1. AlbumsTypeOK /\ TurnInOrder /\ \A q \in Parts : InOnePlace(q)
  BY DEF AlbumInv
<1>2. /\ alData' = [alData EXCEPT ![g] = <<>>] /\ alExcused' = alExcused \cup ToSet(alData[g])
      /\ alTurn = NoAlbumTurn /\ alMeta' = alMeta \ {g} /\ alTrouble' \in 0..MaxAlbumTrouble
      /\ UNCHANGED <<alHandler, alDue, alTurn, alMedia>>
  BY <1>1, PartsOfGroups DEF BufferExpires, AlbumsTypeOK
<1>3. ToSet(alData[g]) \subseteq Parts /\ ToSet(<<>>) = {}
  BY <1>1 DEF AlbumsTypeOK, ToSet
<1>4. /\ alData' \in [Groups -> Seq(Parts)] /\ ToSet(alData'[g]) = {}
      /\ \A k \in Groups \ {g} : alData'[k] = alData[k]
  BY <1>1, <1>2, <1>3 DEF AlbumsTypeOK
<1>5. AlbumsTypeOK'
  BY <1>1, <1>2, <1>3, <1>4 DEF AlbumsTypeOK
<1>6. TurnInOrder'
  BY <1>1, <1>2 DEF TurnInOrder, NoAlbumTurn
<1>7. ASSUME NEW q \in Parts PROVE InOnePlace(q)'
  <2>1. PopsOf(q)' = PopsOf(q) /\ UsedIn(q)' = UsedIn(q)
    BY <1>2 DEF PopsOf, UsedIn
  <2>2. GroupOf(q) \in Groups /\ InOnePlace(q)
    BY <1>1, PartsOfGroups DEF GroupOf
  <2> QED BY <1>2, <1>4, <2>1, <2>2 DEF InOnePlace
<1> QED BY <1>5, <1>6, <1>7 DEF AlbumInv

\* What was read of a group is popped, its list goes; a part pushed in between is excused.
LEMMA DropKeepsParts ==
  ASSUME AlbumInv, DropGroup
  PROVE  AlbumInv'
<1>1. AlbumsTypeOK /\ TurnInOrder /\ \A q \in Parts : InOnePlace(q)
  BY DEF AlbumInv
<1>2. PICK g \in Groups : g = alTurn.claimed[1] /\ g = Head(alTurn.claimed)
  BY <1>1 DEF DropGroup, TurnInOrder
<1>3. PICK raw : raw = alTurn.raw
  OBVIOUS
<1>4. PICK albums : albums = IF raw = <<>> THEN alTurn.albums ELSE Append(alTurn.albums, raw)
  OBVIOUS
<1>5. /\ alTurn.at = "read" /\ alData' = [alData EXCEPT ![g] = <<>>] /\ alMeta' = alMeta \ {g}
      /\ alExcused' = alExcused \cup (ToSet(alData[g]) \ ToSet(raw))
      /\ alTurn' = [alTurn EXCEPT !.at = "reading", !.claimed = <<>>, !.raw = <<>>, !.albums = albums]
      /\ UNCHANGED <<alHandler, alDue, alMedia, alTrouble>>
  BY <1>2, <1>3, <1>4 DEF DropGroup
<1>6. /\ raw \in Seq(Parts) /\ ToSet(raw) \subseteq ToSet(alData[g]) /\ alTurn.albums \in Seq(Seq(Parts))
      /\ ToSet(alData[g]) \subseteq Parts /\ ToSet(<<>>) = {}
  <2>1. raw \in Seq(Parts) /\ alTurn.albums \in Seq(Seq(Parts)) /\ alData[g] \in Seq(Parts)
    BY <1>1, <1>3 DEF AlbumsTypeOK
  <2>2. ToSet(raw) \subseteq ToSet(alData[g])
    BY <1>1, <1>2, <1>3, <1>5 DEF TurnInOrder
  <2>3. ToSet(alData[g]) \subseteq Parts /\ ToSet(<<>>) = {}
    BY <2>1 DEF ToSet
  <2> QED BY <2>1, <2>2, <2>3
<1>7. /\ albums \in Seq(Seq(Parts))
      /\ \A i \in DOMAIN alTurn.albums : i \in DOMAIN albums /\ albums[i] = alTurn.albums[i]
      /\ \A i \in (DOMAIN albums) \ DOMAIN alTurn.albums : albums[i] = raw /\ i = Len(alTurn.albums) + 1
      /\ raw # <<>> => Len(alTurn.albums) + 1 \in (DOMAIN albums) \ DOMAIN alTurn.albums
  BY <1>4, <1>6, OneMoreInList
<1>8. alTurn' \in AlbumTurn /\ alTurn'.albums = albums /\ alTurn'.at = "reading" /\ alTurn'.claimed = <<>> /\ alTurn'.raw = <<>>
  <2>1. alTurn \in AlbumTurn
    BY <1>1 DEF AlbumsTypeOK, AlbumTurn
  <2>2. alTurn' = [at |-> "reading", todo |-> alTurn.todo, claimed |-> <<>>, raw |-> <<>>, albums |-> albums]
    BY <1>5, <2>1 DEF AlbumTurn
  <2>3. alTurn.todo \in SUBSET Groups
    BY <2>1 DEF AlbumTurn
  <2> QED BY <1>7, <2>2, <2>3 DEF AlbumTurn
<1>9. /\ alData' \in [Groups -> Seq(Parts)] /\ ToSet(alData'[g]) = {}
      /\ \A k \in Groups \ {g} : alData'[k] = alData[k]
  BY <1>1, <1>5, <1>6 DEF AlbumsTypeOK
<1>10. AlbumsTypeOK'
  BY <1>1, <1>5, <1>6, <1>8, <1>9 DEF AlbumsTypeOK, AlbumTurn
<1>11. TurnInOrder'
  BY <1>8 DEF TurnInOrder
<1>12. ASSUME NEW q \in Parts PROVE InOnePlace(q)'
  <2>1. UsedIn(q)' = UsedIn(q) /\ GroupOf(q) \in Groups /\ InOnePlace(q)
    BY <1>1, <1>5, PartsOfGroups DEF UsedIn, GroupOf
  <2>2. PopsOf(q)' = {i \in DOMAIN albums : q \in ToSet(albums[i])}
    BY <1>8 DEF PopsOf
  <2>3. CASE q \in ToSet(raw)
    <3>1. q \in ToSet(alData[g]) /\ g = GroupOf(q) /\ PopsOf(q) = {} /\ UsedIn(q) = {}
      BY <1>6, <2>1, <2>3 DEF InOnePlace
    <3>2. alHandler[q] # "new"
      BY <2>1, <3>1 DEF InOnePlace
    <3>3. raw # <<>>
      BY <1>6, <2>3
    <3>4. PopsOf(q)' = {Len(alTurn.albums) + 1}
      BY <1>7, <2>2, <2>3, <3>1, <3>3 DEF PopsOf
    <3>5. \A k \in Groups : q \notin ToSet(alData'[k])
      BY <1>9, <2>1, <3>1 DEF InOnePlace
    <3> QED BY <1>5, <2>1, <3>1, <3>2, <3>4, <3>5 DEF InOnePlace
  <2>4. CASE q \notin ToSet(raw)
    <3>1. PopsOf(q)' = PopsOf(q)
      BY <1>7, <2>2, <2>4 DEF PopsOf
    <3> QED BY <1>5, <1>9, <2>1, <2>4, <3>1 DEF InOnePlace
  <2> QED BY <2>3, <2>4
<1> QED BY <1>10, <1>11, <1>12 DEF AlbumInv

\* The first album becomes a media, or is refused.
LEMMA AlbumLeaves ==
  ASSUME AlbumInv, alTurn.at = "finalizing", alTurn' = RestOfAlbums
  PROVE  /\ alTurn.albums \in Seq(Seq(Parts)) /\ alTurn.albums # <<>>
         /\ Head(alTurn.albums) = alTurn.albums[1] /\ 1 \in DOMAIN alTurn.albums
         /\ Head(alTurn.albums) \in Seq(Parts) /\ ToSet(Head(alTurn.albums)) \subseteq Parts
         /\ alTurn' \in AlbumTurn /\ TurnInOrder'
         /\ \A p \in Parts : /\ 1 \in PopsOf(p) => PopsOf(p)' = {} /\ p \in ToSet(Head(alTurn.albums))
                             /\ 1 \notin PopsOf(p) => p \notin ToSet(Head(alTurn.albums))
                             /\ PopsOf(p) = {} => PopsOf(p)' = {}
                             /\ 1 \notin PopsOf(p) /\ PopsOf(p) # {} => PopsOf(p)' # {}
                             /\ \A i, k \in PopsOf(p)' : i = k
<1>1. AlbumsTypeOK /\ TurnInOrder /\ \A q \in Parts : InOnePlace(q)
  BY DEF AlbumInv
<1>2. PICK albums : albums = alTurn.albums
  OBVIOUS
<1>3. albums \in Seq(Seq(Parts)) /\ albums # <<>> /\ alTurn \in AlbumTurn /\ alTurn.claimed = <<>> /\ alTurn.raw = <<>>
  BY <1>1, <1>2 DEF AlbumsTypeOK, AlbumTurn, TurnInOrder
<1>4. /\ Tail(albums) \in Seq(Seq(Parts)) /\ Head(albums) \in Seq(Parts) /\ Head(albums) = albums[1] /\ 1 \in DOMAIN albums
      /\ \A i \in DOMAIN Tail(albums) : i + 1 \in DOMAIN albums /\ i + 1 # 1 /\ Tail(albums)[i] = albums[i + 1]
      /\ \A i \in DOMAIN albums : i # 1 => i - 1 \in DOMAIN Tail(albums) /\ Tail(albums)[i - 1] = albums[i]
      /\ Tail(albums) = <<>> <=> Len(albums) = 1
  BY <1>3, OneLessInList
<1>5. ToSet(Head(albums)) \subseteq Parts
  BY <1>4 DEF ToSet
<1>6. PICK rest : rest = Tail(albums)
  OBVIOUS
<1>7. alTurn' \in AlbumTurn /\ alTurn'.albums = rest /\ TurnInOrder'
  <2>1. CASE Len(albums) = 1
    <3>1. alTurn' = [at |-> "idle", todo |-> {}, claimed |-> <<>>, raw |-> <<>>, albums |-> <<>>]
      BY <1>2, <2>1 DEF RestOfAlbums, NoAlbumTurn
    <3>2. rest = <<>>
      BY <1>4, <1>6, <2>1
    <3> QED BY <3>1, <3>2 DEF AlbumTurn, TurnInOrder
  <2>2. CASE Len(albums) # 1
    <3>1. alTurn' = [alTurn EXCEPT !.albums = rest]
      BY <1>2, <1>6, <2>2 DEF RestOfAlbums
    <3>2. rest \in Seq(Seq(Parts)) /\ rest # <<>>
      BY <1>4, <1>6, <2>2
    <3>3. alTurn' \in AlbumTurn /\ alTurn'.albums = rest
      BY <1>3, <3>1, <3>2 DEF AlbumTurn
    <3>4. alTurn'.at = "finalizing" /\ alTurn'.claimed = <<>> /\ alTurn'.raw = <<>>
      BY <1>3, <3>1 DEF AlbumTurn
    <3> QED BY <3>2, <3>3, <3>4 DEF TurnInOrder
  <2> QED BY <2>1, <2>2
<1>8. ASSUME NEW p \in Parts
      PROVE  /\ 1 \in PopsOf(p) => PopsOf(p)' = {} /\ p \in ToSet(Head(albums))
             /\ 1 \notin PopsOf(p) => p \notin ToSet(Head(albums))
             /\ PopsOf(p) = {} => PopsOf(p)' = {}
             /\ 1 \notin PopsOf(p) /\ PopsOf(p) # {} => PopsOf(p)' # {}
             /\ \A i, k \in PopsOf(p)' : i = k
  <2>1. /\ \A i : i \in PopsOf(p) <=> i \in DOMAIN albums /\ p \in ToSet(albums[i])
        /\ \A i : i \in PopsOf(p)' <=> i \in DOMAIN rest /\ p \in ToSet(rest[i])
    BY <1>2, <1>7 DEF PopsOf
  <2>2. \A i, k \in PopsOf(p) : i = k
    BY <1>1 DEF InOnePlace
  <2>3. \A i \in PopsOf(p)' : i \in Nat /\ i + 1 \in PopsOf(p) /\ i + 1 # 1
    <3>1. \A i \in DOMAIN rest : i \in Nat
      BY <1>4, <1>6
    <3> QED BY <1>4, <1>6, <2>1, <3>1
  <2>4. \A i \in PopsOf(p) : i # 1 => i - 1 \in PopsOf(p)'
    BY <1>4, <1>6, <2>1
  <2>5. \A i, k \in PopsOf(p)' : i = k
    <3> SUFFICES ASSUME NEW i \in PopsOf(p)', NEW k \in PopsOf(p)' PROVE i = k
      OBVIOUS
    <3>1. i \in Nat /\ k \in Nat /\ i + 1 = k + 1
      BY <2>2, <2>3
    <3> QED BY <3>1
  <2> QED BY <1>4, <2>1, <2>2, <2>3, <2>4, <2>5
<1> QED BY <1>2, <1>3, <1>4, <1>5, <1>7, <1>8

\* The album's parts become a media.
LEMMA FinalizeKeepsParts ==
  ASSUME AlbumInv, FinalizeAlbum
  PROVE  AlbumInv'
<1>1. AlbumsTypeOK /\ TurnInOrder /\ \A q \in Parts : InOnePlace(q)
  BY DEF AlbumInv
<1>2. alTurn.at = "finalizing" /\ alTurn' = RestOfAlbums
      /\ UNCHANGED <<alHandler, alData, alMeta, alDue, alExcused, alTrouble>>
  BY DEF FinalizeAlbum
<1>3. PICK album : album = Head(alTurn.albums)
  OBVIOUS
<1>4. /\ alMedia' = Append(alMedia, album) /\ album \in Seq(Parts) /\ alMedia \in Seq(Seq(Parts))
      /\ alTurn' \in AlbumTurn /\ TurnInOrder'
  BY <1>1, <1>2, <1>3, AlbumLeaves DEF FinalizeAlbum, AlbumsTypeOK
<1>5. PICK n : n = Len(alMedia) + 1
  OBVIOUS
<1>6. /\ alMedia' \in Seq(Seq(Parts)) /\ DOMAIN alMedia' = (DOMAIN alMedia) \cup {n} /\ alMedia'[n] = album
      /\ n \notin DOMAIN alMedia /\ \A i \in DOMAIN alMedia : alMedia'[i] = alMedia[i]
  BY <1>4, <1>5, OneMoreInList
<1>7. AlbumsTypeOK'
  BY <1>1, <1>2, <1>4, <1>6 DEF AlbumsTypeOK, AlbumTurn
<1>8. ASSUME NEW q \in Parts PROVE InOnePlace(q)'
  <2>1. GroupOf(q) \in Groups /\ InOnePlace(q)
    BY <1>1, PartsOfGroups DEF GroupOf
  <2>2. /\ 1 \in PopsOf(q) => PopsOf(q)' = {} /\ q \in ToSet(album)
        /\ 1 \notin PopsOf(q) => q \notin ToSet(album)
        /\ PopsOf(q) = {} => PopsOf(q)' = {}
        /\ 1 \notin PopsOf(q) /\ PopsOf(q) # {} => PopsOf(q)' # {}
        /\ \A i, k \in PopsOf(q)' : i = k
    BY <1>2, <1>3, AlbumLeaves
  <2>3. UsedIn(q)' = UsedIn(q) \cup (IF q \in ToSet(album) THEN {n} ELSE {})
    BY <1>6 DEF UsedIn
  <2>4. CASE 1 \in PopsOf(q)
    <3>1. UsedIn(q) = {} /\ UsedIn(q)' = {n} /\ PopsOf(q)' = {} /\ PopsOf(q) # {}
      BY <2>1, <2>2, <2>3, <2>4 DEF InOnePlace
    <3> QED BY <1>2, <2>1, <3>1 DEF InOnePlace
  <2>5. CASE 1 \notin PopsOf(q)
    <3>1. UsedIn(q)' = UsedIn(q)
      BY <2>2, <2>3, <2>5
    <3> QED BY <1>2, <2>1, <2>2, <2>5, <3>1 DEF InOnePlace
  <2> QED BY <2>4, <2>5
<1> QED BY <1>4, <1>7, <1>8 DEF AlbumInv

\* The album's parts are excused.
LEMMA RefusalKeepsParts ==
  ASSUME AlbumInv, AlbumRefused
  PROVE  AlbumInv'
<1>1. AlbumsTypeOK /\ TurnInOrder /\ \A q \in Parts : InOnePlace(q)
  BY DEF AlbumInv
<1>2. PICK album : album = Head(alTurn.albums)
  OBVIOUS
<1>3. alTurn.at = "finalizing" /\ alTurn' = RestOfAlbums /\ alTrouble' \in 0..MaxAlbumTrouble
      /\ alExcused' = alExcused \cup ToSet(album) /\ UNCHANGED <<alHandler, alData, alMeta, alDue, alMedia>>
  BY <1>1, <1>2, PartsOfGroups DEF AlbumRefused, AlbumsTypeOK
<1>4. ToSet(album) \subseteq Parts /\ alTurn' \in AlbumTurn /\ TurnInOrder'
  BY <1>2, <1>3, AlbumLeaves
<1>5. AlbumsTypeOK'
  BY <1>1, <1>3, <1>4 DEF AlbumsTypeOK, AlbumTurn
<1>6. ASSUME NEW q \in Parts PROVE InOnePlace(q)'
  <2>1. GroupOf(q) \in Groups /\ InOnePlace(q) /\ UsedIn(q)' = UsedIn(q)
    BY <1>1, <1>3, PartsOfGroups DEF GroupOf, UsedIn
  <2>2. /\ 1 \in PopsOf(q) => PopsOf(q)' = {} /\ q \in ToSet(album)
        /\ PopsOf(q) = {} => PopsOf(q)' = {}
        /\ 1 \notin PopsOf(q) /\ PopsOf(q) # {} => PopsOf(q)' # {}
        /\ \A i, k \in PopsOf(q)' : i = k
    BY <1>2, <1>3, AlbumLeaves
  <2> QED BY <1>3, <2>1, <2>2 DEF InOnePlace
<1> QED BY <1>4, <1>5, <1>6 DEF AlbumInv

\* All the worker had in hand is excused; a list it has not deleted stays.
LEMMA DeathKeepsParts ==
  ASSUME AlbumInv, FinalizerDies
  PROVE  AlbumInv'
<1>1. AlbumsTypeOK /\ TurnInOrder /\ \A q \in Parts : InOnePlace(q)
  BY DEF AlbumInv
<1>2. /\ alTurn' = [at |-> "idle", todo |-> {}, claimed |-> <<>>, raw |-> <<>>, albums |-> <<>>]
      /\ alTrouble' \in 0..MaxAlbumTrouble /\ UNCHANGED <<alHandler, alData, alMeta, alDue, alMedia>>
      /\ alExcused \cup InHands \subseteq alExcused'
  BY <1>1, PartsOfGroups DEF FinalizerDies, NoAlbumTurn, AlbumsTypeOK
<1>3. alExcused' \subseteq Parts
  <2>1. InHands \subseteq Parts
    <3>1. alTurn.raw \in Seq(Parts) /\ alTurn.albums \in Seq(Seq(Parts))
      BY <1>1 DEF AlbumsTypeOK
    <3>2. ToSet(alTurn.raw) \subseteq Parts
      BY <3>1 DEF ToSet
    <3>3. \A a \in ToSet(alTurn.albums) : ToSet(a) \subseteq Parts
      BY <3>1 DEF ToSet
    <3> QED BY <3>2, <3>3 DEF InHands
  <2>2. UNION {ToSet(alData[g]) : g \in ToSet(alTurn.claimed)} \subseteq Parts
    <3>1. alTurn.claimed \in Seq(Groups)
      BY <1>1 DEF AlbumsTypeOK
    <3>2. ToSet(alTurn.claimed) \subseteq Groups
      BY <3>1 DEF ToSet
    <3>3. \A g \in Groups : ToSet(alData[g]) \subseteq Parts
      BY <1>1 DEF AlbumsTypeOK, ToSet
    <3> QED BY <3>2, <3>3
  <2> QED BY <1>1, <2>1, <2>2 DEF FinalizerDies, AlbumsTypeOK
<1>4. AlbumsTypeOK' /\ TurnInOrder'
  BY <1>1, <1>2, <1>3 DEF AlbumsTypeOK, TurnInOrder
<1>5. ASSUME NEW q \in Parts PROVE InOnePlace(q)'
  <2>1. UsedIn(q)' = UsedIn(q) /\ GroupOf(q) \in Groups /\ InOnePlace(q) /\ PopsOf(q)' = {}
    BY <1>1, <1>2, PartsOfGroups DEF UsedIn, PopsOf, GroupOf
  <2>2. PopsOf(q) # {} => q \in alExcused'
    BY <1>2 DEF PopsOf, InHands, ToSet
  <2> QED BY <1>2, <2>1, <2>2 DEF InOnePlace
<1> QED BY <1>4, <1>5 DEF AlbumInv

\* Each step keeps it.
LEMMA AlbumsGoOn ==
  ASSUME AlbumInv, [AlbumsNext]_alVars
  PROVE  AlbumInv'
<1>1. CASE \E p \in Parts : PushPart(p)
  BY <1>1, PushKeepsParts
<1>2. CASE \E g \in Groups : BufferExpires(g)
  BY <1>2, ExpiryKeepsParts
<1>3. CASE DropGroup \/ FinalizeAlbum \/ AlbumRefused \/ FinalizerDies
  BY <1>3, DropKeepsParts, FinalizeKeepsParts, RefusalKeepsParts, DeathKeepsParts
<1>4. CASE \/ \E p \in Parts : WriteMeta(p) \/ ArmGroup(p) \/ HandlerDies(p)
           \/ \E g \in Groups : DebounceElapses(g) \/ ClaimGroup(g)
           \/ ReadDueGroups \/ ReadGroup \/ AllPopped \/ UNCHANGED alVars
  BY <1>4, AlbumMovesOn
<1> QED BY <1>1, <1>2, <1>3, <1>4 DEF AlbumsNext, HandlerStep, AlbumTurnStep

\* Types of the handlers, the buffers in Redis, the worker's turn and the media.
THEOREM AlbumsTypeCorrect == AlbumsSpec => []AlbumsTypeOK
<1>1. AlbumInv => AlbumsTypeOK
  BY DEF AlbumInv
<1> QED BY <1>1, AlbumsBegin, AlbumsGoOn, PTL DEF AlbumsSpec

\* However the parts' Redis calls and the worker's interleave, and wherever they die, no
\* part is in two media and none that was taken in vanishes (add, pop_due,
\* process_albums_once).
THEOREM PartsAreAlwaysKept == AlbumsSpec => []PartsAreKept
<1>1. AlbumInv => PartsAreKept
  <2> SUFFICES ASSUME AlbumInv, NEW p \in Parts
               PROVE  /\ \A i, j \in UsedIn(p) : i = j
                      /\ alHandler[p] # "new" =>
                           p \in alExcused \cup ToSet(alData[GroupOf(p)]) \cup InHands \/ UsedIn(p) # {}
    BY DEF PartsAreKept
  <2>1. InOnePlace(p)
    BY DEF AlbumInv
  <2>2. PopsOf(p) # {} => p \in InHands
    BY DEF PopsOf, InHands, ToSet
  <2> QED BY <2>1, <2>2 DEF InOnePlace
<1> QED BY <1>1, AlbumsBegin, AlbumsGoOn, PTL DEF AlbumsSpec
=============================================================================
