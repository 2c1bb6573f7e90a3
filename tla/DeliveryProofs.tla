--------------------------- MODULE DeliveryProofs ---------------------------
(***************************************************************************)
(* Proofs about Delivery, for any users, sessions, files, limits, prices,  *)
(* quota and bounds.                                                       *)
(***************************************************************************)
EXTENDS Delivery, WalletProofs, FiniteSetTheorems

Stages == {"arrived", "checked", "claiming", "sending", "logging", "counting", "releasing",
           "buying", "unowned", "locked", "debited", "paid"}

\* An update is served by a session that loads its user; a session past the
\* status check has the file in its identity map, at one of the prices; a sale
\* under way is of a file that costs something.
JobOK(s) ==
  /\ job[s] # NoJob => s \in Preloading
  /\ job[s].at \notin {"idle", "arrived"} => job[s].row \in FileRow
  /\ job[s] # NoJob /\ job[s].row # Unread => job[s].row.price \in Prices
  /\ job[s].at \in {"unowned", "locked", "debited"} => job[s].row.price > 0

JobsOK == job \in [Sessions -> Job \cup {NoJob}] /\ \A s \in Sessions : JobOK(s)

\* What a file costs is one of the prices.
FilesOK == file \in [Files -> FileRow] /\ \A m \in Files : file[m].price \in Prices

HistoryOK ==
  /\ entitled \subseteq Users \X Files
  /\ tapKey \subseteq Users \X Files
  /\ charges \in [Users \X Files -> Nat]
  /\ used \in [Users -> Nat]
  /\ blind \in [Users -> 0..MaxBlind]
  /\ edits \in 0..MaxEdits
  /\ slots \in [Files -> Slots]

DeliveryTInv == WalletIInv /\ JobsOK /\ FilesOK /\ HistoryOK

-----------------------------------------------------------------------------
\* It contains the types (models/media.py, models/media_purchase.py).
LEMMA TInvTypes == DeliveryTInv => DeliveryTypeOK
BY DEF DeliveryTInv, WalletIInv, JobsOK, FilesOK, HistoryOK, DeliveryTypeOK, ShopTypeOK

\* The job of a busy session, typed (deliver_by_code).
LEMMA BusyJob ==
  ASSUME JobsOK, NEW s \in Sessions, job[s].at # "idle"
  PROVE  /\ job[s] \in Job /\ job[s] # NoJob /\ s \in Preloading
         /\ job[s].at \in Stages /\ job[s].user \in Users /\ job[s].file \in Files
         /\ job[s].row \in FileRow \cup {Unread}
         /\ job[s].fresh \in BOOLEAN /\ job[s].verified \in BOOLEAN
         /\ job[s].at # "arrived" => job[s].row \in FileRow /\ job[s].row.price \in Prices
<1>1. Unread \notin FileRow
  BY DEF Unread, FileRow
<1> QED BY <1>1 DEF JobsOK, JobOK, Job, NoJob, Stages

\* Prices are numbers, and what a sale debits is an amount.
LEMMA PricesArePostable == Prices \subseteq Nat /\ \A p \in Prices : p > 0 => -p \in Postable
BY PricesAssumption, AmountsAssumption DEF Postable

\* What a step does to the jobs, first: an update ends (answered or dead).
LEMMA EndJobKeeps ==
  ASSUME JobsOK, NEW s \in Sessions, job' = [job EXCEPT ![s] = NoJob]
  PROVE  JobsOK'
BY DEF JobsOK, JobOK, NoJob

\* Or it goes on with the row it has (deliver_by_code, purchase).
LEMMA JobAtKeeps ==
  ASSUME JobsOK, NEW s \in Sessions, NEW stage \in Stages, JobAt(s, stage),
         job[s].at \notin {"idle", "arrived"},
         stage \in {"unowned", "locked", "debited"} => job[s].row.price > 0
  PROVE  JobsOK'
<1>1. job \in [Sessions -> Job \cup {NoJob}] /\ \A t \in Sessions : JobOK(t)
  BY DEF JobsOK
<1>2. job' = [job EXCEPT ![s].at = stage]
  BY DEF JobAt
<1>3. job[s] \in Job /\ job[s] # NoJob
  BY BusyJob
<1>4. job'[s] \in Job /\ job'[s].row = job[s].row /\ job'[s].at = stage
  BY <1>1, <1>2, <1>3 DEF Job, Stages
<1>5. \A t \in Sessions \ {s} : job'[t] = job[t]
  BY <1>1, <1>2
<1>6. job' \in [Sessions -> Job \cup {NoJob}]
  BY <1>1, <1>2, <1>4, <1>5
<1>7. JobOK(s)'
  BY <1>1, <1>3, <1>4 DEF JobOK, Job, NoJob, Stages
<1>8. \A t \in Sessions \ {s} : JobOK(t)'
  BY <1>1, <1>5 DEF JobOK
<1> QED BY <1>6, <1>7, <1>8 DEF JobsOK

\* Or it has a new one (an arrival, the status check).
LEMMA NewJobKeeps ==
  ASSUME JobsOK, NEW s \in Sessions, NEW j \in Job, job' = [job EXCEPT ![s] = j],
         s \in Preloading,
         j.at # "arrived" => j.row \in FileRow,
         j.row # Unread => j.row.price \in Prices,
         j.at \notin {"unowned", "locked", "debited"}
  PROVE  JobsOK'
<1>1. job \in [Sessions -> Job \cup {NoJob}] /\ \A t \in Sessions : JobOK(t)
  BY DEF JobsOK
<1>2. job'[s] = j /\ \A t \in Sessions \ {s} : job'[t] = job[t]
  BY <1>1
<1>3. j.at # "idle"
  BY DEF Job
<1>4. JobOK(s)'
  BY <1>2, <1>3 DEF JobOK
<1>5. \A t \in Sessions \ {s} : JobOK(t)'
  BY <1>1, <1>2 DEF JobOK
<1> QED BY <1>1, <1>4, <1>5 DEF JobsOK

-----------------------------------------------------------------------------
\* An update that arrives for a user and a file (deliver_by_code, cb_buy_media).
LEMMA ArrivalKeepsJobs ==
  ASSUME JobsOK, FilesOK, NEW s \in Sessions, NEW u \in Users, NEW m \in Files,
         NEW ok \in BOOLEAN, Arrive(s, u, m, ok) \/ BuyMedia(s, u, m)
  PROVE  JobsOK'
<1> DEFINE a == [at |-> "arrived", user |-> u, file |-> m, row |-> Unread,
                 verified |-> ok, fresh |-> TRUE]
           b == [at |-> "buying", user |-> u, file |-> m, row |-> file[m],
                 verified |-> FALSE, fresh |-> TRUE]
<1>1. a \in Job /\ b \in Job
  BY DEF Job, FilesOK
<1>2. b.row \in FileRow /\ b.row.price \in Prices
  BY DEF FilesOK
<1>3. s \in Preloading /\ (job' = [job EXCEPT ![s] = a] \/ job' = [job EXCEPT ![s] = b])
  BY DEF Arrive, BuyMedia
<1>4. a.at = "arrived" /\ a.row = Unread /\ b.at = "buying"
  OBVIOUS
<1> HIDE DEF a, b
<1> QED BY <1>1, <1>2, <1>3, <1>4, NewJobKeeps

\* The steps that end an update.
Ends(s) ==
  \/ StatusRefused(s) \/ Gated(s) \/ ClaimRefused(s) \/ LogDownloadFails(s)
  \/ Release(s) \/ CountDelivery(s) \/ CrashJob(s)
  \/ (BuyNotForSale(s) \/ BuyFileRefused(s) \/ BuyFileFails(s)) /\ RestUnchanged

\* The steps that take it from one stage to another.
Moves(s) ==
  \/ PassGates(s) \/ SendSome(s) \/ SendNone(s) \/ LogDownload(s)
  \/ /\ \/ BuyCheck(s) \/ BuyFolded(s) \/ BuyKey(s) \/ BuyFileDebit(s) \/ BuyFileCommit(s)
        \/ BuyFileReceipt(s)
     /\ RestUnchanged

\* Every step of an update keeps the jobs typed (deliver_by_code, purchase).
LEMMA UpdateKeepsJobs ==
  ASSUME JobsOK, FilesOK, NEW s \in Sessions,
         Ends(s) \/ Moves(s) \/ CheckStatus(s) \/ Claim(s)
  PROVE  JobsOK'
<1>1. CASE Ends(s)
  BY <1>1, EndJobKeeps DEF Ends, StatusRefused, Gated, ClaimRefused, LogDownloadFails,
     DropJob, Release, CountDelivery, CrashJob, BuyNotForSale, BuyFileRefused, BuyFileFails,
           EndJob
<1>2. CASE Moves(s)
  <2>1. job[s].at \in {"checked", "sending", "logging", "buying", "unowned", "locked",
                       "debited", "paid"}
    BY <1>2 DEF Moves, PassGates, SendSome, SendNone, LogDownload, BuyCheck, BuyFolded,
       BuyKey, BuyFileDebit, BuyFileCommit, BuyFileReceipt
  <2>2. \E stage \in Stages :
           /\ JobAt(s, stage)
           /\ stage \in {"unowned", "locked", "debited"} => job[s].row.price > 0
    BY <1>2 DEF JobsOK, JobOK, Moves, PassGates, SendSome, SendNone, LogDownload, BuyCheck,
          BuyFolded,
       BuyKey, BuyFileDebit, BuyFileCommit, BuyFileReceipt, Stages
  <2> QED BY <2>1, <2>2, JobAtKeeps
<1>3. CASE CheckStatus(s)
  <2> DEFINE j == [job[s] EXCEPT !.at = "checked", !.row = Seen(s)]
  <2>1. job[s].at = "arrived" /\ job' = [job EXCEPT ![s].at = "checked", ![s].row = Seen(s)]
    BY <1>3 DEF CheckStatus
  <2>2. job[s] \in Job /\ s \in Preloading /\ job[s].file \in Files /\ JobOK(s)
        /\ job[s].row \in FileRow \cup {Unread} /\ job[s] # NoJob
    BY <2>1, BusyJob DEF JobsOK
  <2>3. Seen(s) \in FileRow /\ Seen(s).price \in Prices
    BY <2>2 DEF Seen, FilesOK, JobOK
  <2>4. j \in Job /\ j.row = Seen(s) /\ j.at = "checked"
    BY <2>2, <2>3 DEF Job
  <2>5. job' = [job EXCEPT ![s] = j]
    BY <2>1, <2>2 DEF JobsOK
  <2> HIDE DEF j
  <2> QED BY <2>2, <2>3, <2>4, <2>5, NewJobKeeps
<1>4. CASE Claim(s)
  <2> DEFINE j == [job[s] EXCEPT !.at = "sending", !.fresh = TRUE]
  <2>1. job[s].at = "claiming" /\ job' = [job EXCEPT ![s].at = "sending", ![s].fresh = TRUE]
    BY <1>4 DEF Claim
  <2>2. job[s] \in Job /\ s \in Preloading /\ job[s].row \in FileRow
        /\ job[s].row.price \in Prices
    BY <2>1, BusyJob
  <2>3. j \in Job /\ j.row = job[s].row /\ j.at = "sending"
    BY <2>2 DEF Job
  <2>4. job' = [job EXCEPT ![s] = j]
    BY <2>1, <2>2 DEF JobsOK
  <2> HIDE DEF j
  <2> QED BY <2>2, <2>3, <2>4, NewJobKeeps
<1> QED BY <1>1, <1>2, <1>3, <1>4

-----------------------------------------------------------------------------
\* The edits of a file by its owner and the panel, the reset aside.
Edits(m) ==
  \/ InputLimit(m) \/ CbMediaToggleActive(m) \/ InputMediaPassword(m) \/ CbMediaDelete(m)
  \/ MediaEdit(m) \/ MediaToggle(m) \/ MediaPassword(m) \/ MediaDelete(m)

\* One of them writes one row of media, which stays a row, and touches neither
\* wallet nor updates (the handlers of media, media_edit).
LEMMA EditWrites ==
  ASSUME FilesOK, HistoryOK, NEW m \in Files, Edits(m)
  PROVE  /\ FilesOK' /\ HistoryOK'
         /\ file[m].status # "gone"
         /\ \A n \in Files \ {m} : file'[n] = file[n] /\ slots'[n] = slots[n]
         /\ file'[m].count = file[m].count
         /\ slots'[m] = [slots[m] EXCEPT !.cap = slots'[m].cap]
         /\ \/ file'[m].limit = file[m].limit /\ slots' = slots
            \/ \E l \in Limits : file'[m].limit = l /\ slots'[m].cap = RaisedCap(m, l)
         /\ \/ entitled' = entitled
            \/ file'[m].status = "gone" /\ entitled' = {x \in entitled : x[2] # m}
         /\ UNCHANGED <<walletVars, job, tapKey, charges, used, blind>>
<1>1. file[m] \in FileRow /\ file[m].price \in Prices /\ slots[m] \in Slots
  BY DEF FilesOK, HistoryOK
<1>2. \A row : Edited(m, row) <=>
        /\ edits < MaxEdits /\ file[m].status # "gone" /\ edits' = edits + 1
        /\ file' = [file EXCEPT ![m] = row]
        /\ UNCHANGED <<walletVars, tapKey, charges, job, used, blind>>
  BY DEF Edited
<1>3. \A row \in FileRow : row.price \in Prices /\ Edited(m, row) =>
        /\ FilesOK' /\ file'[m] = row /\ edits' \in 0..MaxEdits
        /\ file[m].status # "gone"
        /\ \A n \in Files \ {m} : file'[n] = file[n]
        /\ UNCHANGED <<walletVars, tapKey, charges, job, used, blind>>
  BY <1>2, MaxEditsAssumption DEF FilesOK, HistoryOK
<1>4. \A l \in Limits : l \in Nat \cup {NoLimit}
  BY LimitsAssumption
<1>5. ASSUME NEW l \in Limits, NewLimit(m, l), Edited(m, [file[m] EXCEPT !.limit = l])
      PROVE  /\ FilesOK' /\ edits' \in 0..MaxEdits
             /\ file[m].status # "gone"
             /\ \A n \in Files \ {m} : file'[n] = file[n] /\ slots'[n] = slots[n]
             /\ file'[m].count = file[m].count /\ file'[m].limit = l
             /\ slots' \in [Files -> Slots]
             /\ slots'[m] = [slots[m] EXCEPT !.cap = slots'[m].cap]
             /\ slots'[m].cap = RaisedCap(m, l)
             /\ entitled' = entitled
             /\ UNCHANGED <<walletVars, job, tapKey, charges, used, blind>>
  <2> DEFINE row == [file[m] EXCEPT !.limit = l]
  <2>1. row \in FileRow /\ row.price \in Prices /\ row.count = file[m].count /\ row.limit = l
    BY <1>1, <1>4 DEF FileRow
  <2>2. RaisedCap(m, l) \in Nat \cup {NoLimit}
    BY <1>1, <1>4 DEF RaisedCap, Slots
  <2>3. slots' = [slots EXCEPT ![m].cap = RaisedCap(m, l)] /\ entitled' = entitled
    BY <1>5 DEF NewLimit
  <2>4. Edited(m, row)
    BY <1>5
  <2> HIDE DEF row
  <2>5. slots'[m] = [slots[m] EXCEPT !.cap = RaisedCap(m, l)] /\ slots'[m].cap = RaisedCap(m, l)
    BY <1>1, <2>3 DEF HistoryOK, Slots
  <2>6. [slots[m] EXCEPT !.cap = RaisedCap(m, l)] \in Slots
    BY <1>1, <2>2 DEF Slots
  <2>7. slots' \in [Files -> Slots] /\ \A n \in Files \ {m} : slots'[n] = slots[n]
    BY <2>3, <2>5, <2>6 DEF HistoryOK
  <2> QED BY <1>3, <2>1, <2>3, <2>4, <2>5, <2>7
<1>6. ASSUME NEW row \in FileRow, row.price \in Prices, Edited(m, row),
             row.count = file[m].count, row.limit = file[m].limit, slots' = slots,
             \/ entitled' = entitled
             \/ row.status = "gone" /\ entitled' = {x \in entitled : x[2] # m}
      PROVE  /\ FilesOK' /\ HistoryOK'
             /\ file[m].status # "gone"
             /\ \A n \in Files \ {m} : file'[n] = file[n] /\ slots'[n] = slots[n]
             /\ file'[m].count = file[m].count
             /\ slots'[m] = [slots[m] EXCEPT !.cap = slots'[m].cap]
             /\ file'[m].limit = file[m].limit /\ slots' = slots
             /\ \/ entitled' = entitled
                \/ file'[m].status = "gone" /\ entitled' = {x \in entitled : x[2] # m}
             /\ UNCHANGED <<walletVars, job, tapKey, charges, used, blind>>
  <2>1. entitled' \subseteq entitled
    BY <1>6
  <2>2. slots[m] = [slots[m] EXCEPT !.cap = slots[m].cap]
    BY <1>1 DEF Slots
  <2> QED BY <1>3, <1>6, <2>1, <2>2 DEF HistoryOK
<1>7. CASE InputLimit(m) \/ \E l \in Limits : NewLimit(m, l) /\ Edited(m,
      [file[m] EXCEPT !.limit = l])
  <2>1. PICK l \in Limits : NewLimit(m, l) /\ Edited(m, [file[m] EXCEPT !.limit = l])
    BY <1>7 DEF InputLimit, OwnedUpdate
  <2> QED BY <1>5, <2>1 DEF HistoryOK
<1>8. CASE CbMediaToggleActive(m) \/ MediaToggle(m)
  <2> DEFINE row == [file[m] EXCEPT !.active = ~ @]
  <2>1. row \in FileRow /\ row.price \in Prices /\ row.count = file[m].count
        /\ row.limit = file[m].limit
    BY <1>1 DEF FileRow
  <2>2. Edited(m, row) /\ slots' = slots /\ entitled' = entitled
    BY <1>8 DEF CbMediaToggleActive, MediaToggle, OwnedUpdate
  <2> HIDE DEF row
  <2> QED BY <1>6, <2>1, <2>2
<1>9. CASE InputMediaPassword(m) \/ MediaPassword(m)
  <2> DEFINE row == [file[m] EXCEPT !.password = ~ @]
  <2>1. row \in FileRow /\ row.price \in Prices /\ row.count = file[m].count
        /\ row.limit = file[m].limit
    BY <1>1 DEF FileRow
  <2>2. Edited(m, row) /\ slots' = slots /\ entitled' = entitled
    BY <1>9 DEF InputMediaPassword, MediaPassword, OwnedUpdate
  <2> HIDE DEF row
  <2> QED BY <1>6, <2>1, <2>2
<1>10. CASE CbMediaDelete(m) \/ MediaDelete(m)
  <2> DEFINE row == [file[m] EXCEPT !.status = "gone"]
  <2>1. row \in FileRow /\ row.price \in Prices /\ row.count = file[m].count
        /\ row.limit = file[m].limit
        /\ row.status = "gone"
    BY <1>1 DEF FileRow
  <2>2. Edited(m, row) /\ slots' = slots /\ entitled' = {x \in entitled : x[2] # m}
    BY <1>10 DEF CbMediaDelete, MediaDelete, OwnedUpdate, RowDeleted
  <2> HIDE DEF row
  <2> QED BY <1>6, <2>1, <2>2
<1>11. CASE MediaEdit(m)
  <2>1. ASSUME NEW p \in Prices, Edited(m, [file[m] EXCEPT !.price = p]), slots' = slots,
               entitled' = entitled
        PROVE  \E row \in FileRow : row.price \in Prices /\ Edited(m, row)
                  /\ row.count = file[m].count /\ row.limit = file[m].limit
    <3> DEFINE row == [file[m] EXCEPT !.price = p]
    <3>1. row \in FileRow /\ row.price \in Prices /\ row.count = file[m].count
          /\ row.limit = file[m].limit
      BY <1>1, PricesArePostable DEF FileRow
    <3> QED BY <2>1, <3>1
  <2>2. ASSUME NEW st \in {"approved", "rejected"}, Edited(m, [file[m] EXCEPT !.status = st])
        PROVE  \E row \in FileRow : row.price \in Prices /\ Edited(m, row)
                  /\ row.count = file[m].count /\ row.limit = file[m].limit
    <3> DEFINE row == [file[m] EXCEPT !.status = st]
    <3>1. row \in FileRow /\ row.price \in Prices /\ row.count = file[m].count
          /\ row.limit = file[m].limit
      BY <1>1 DEF FileRow
    <3> QED BY <2>2, <3>1
  <2>3. ASSUME Edited(m, [file[m] EXCEPT !.plus = ~ @])
        PROVE  \E row \in FileRow : row.price \in Prices /\ Edited(m, row)
                  /\ row.count = file[m].count /\ row.limit = file[m].limit
    <3> DEFINE row == [file[m] EXCEPT !.plus = ~ @]
    <3>1. row \in FileRow /\ row.price \in Prices /\ row.count = file[m].count
          /\ row.limit = file[m].limit
      BY <1>1 DEF FileRow
    <3> QED BY <2>3, <3>1
  <2>4. \/ \E l \in Limits : NewLimit(m, l) /\ Edited(m, [file[m] EXCEPT !.limit = l])
        \/ /\ \/ \E p \in Prices : Edited(m, [file[m] EXCEPT !.price = p])
              \/ \E st \in {"approved", "rejected"} : Edited(m, [file[m] EXCEPT !.status = st])
              \/ Edited(m, [file[m] EXCEPT !.plus = ~ @])
           /\ slots' = slots /\ entitled' = entitled
    BY <1>11 DEF MediaEdit
  <2> QED BY <1>6, <1>7, <2>1, <2>2, <2>3, <2>4
<1> QED BY <1>7, <1>8, <1>9, <1>10, <1>11 DEF Edits

\* The counter is set to zero: the claims under way are older (media_reset_count).
LEMMA ResetKeeps ==
  ASSUME JobsOK, FilesOK, HistoryOK, NEW m \in Files, MediaResetCount(m)
  PROVE  JobsOK' /\ FilesOK' /\ HistoryOK'
<1>1. /\ file[m] \in FileRow /\ slots[m] \in Slots /\ file[m].price \in Prices
      /\ job \in [Sessions -> Job \cup {NoJob}] /\ \A t \in Sessions : JobOK(t)
  BY DEF JobsOK, FilesOK, HistoryOK
<1>2. FilesOK'
  <2> DEFINE row == [file[m] EXCEPT !.count = 0]
  <2>1. row \in FileRow /\ row.price \in Prices
    BY <1>1 DEF FileRow
  <2>2. file' = [file EXCEPT ![m] = row]
    BY <1>1 DEF MediaResetCount, FilesOK
  <2> HIDE DEF row
  <2> QED BY <2>1, <2>2 DEF FilesOK
<1>3. HistoryOK'
  <2> DEFINE slot == [given |-> 0, leaked |-> 0, stolen |-> 0, cap |-> file[m].limit]
  <2>1. slot \in Slots
    BY <1>1 DEF Slots, FileRow
  <2>2. slots' = [slots EXCEPT ![m] = slot]
    BY DEF MediaResetCount
  <2> HIDE DEF slot
  <2> QED BY <2>1, <2>2, MaxEditsAssumption DEF MediaResetCount, HistoryOK
<1>4. ASSUME NEW t \in Sessions
      PROVE  /\ job'[t] \in Job \cup {NoJob} /\ job'[t].at = job[t].at
             /\ job'[t] = NoJob <=> job[t] = NoJob
             /\ job[t] # NoJob => job'[t].row = job[t].row
  <2>1. CASE job[t] # NoJob /\ job[t].file = m
    <3>1. job'[t] = [job[t] EXCEPT !.fresh = FALSE] /\ job[t] \in Job
      BY <1>1, <2>1 DEF MediaResetCount
    <3>2. job'[t] \in Job /\ job'[t].at = job[t].at /\ job'[t].row = job[t].row
      BY <3>1 DEF Job
    <3> QED BY <2>1, <3>2 DEF Job, NoJob
  <2>2. CASE ~ (job[t] # NoJob /\ job[t].file = m)
    BY <1>1, <2>2 DEF MediaResetCount
  <2> QED BY <2>1, <2>2
<1>5. JobsOK'
  BY <1>1, <1>4 DEF MediaResetCount, JobsOK, JobOK
<1> QED BY <1>2, <1>3, <1>5

\* What the gate leaves of the quota (check_access): it was not used up, or it
\* was and Redis did not answer.
LEMMA PassGatesBlind ==
  ASSUME HistoryOK, NEW s \in Sessions, PassGates(s), job[s].user \in Users
  PROVE  /\ blind' \in [Users -> 0..MaxBlind]
         /\ \A u \in Users \ {job[s].user} : blind'[u] = blind[u]
         /\ \/ /\ blind' = blind
               /\ job[s].user \in Admins \/ WithinQuota(job[s].user)
            \/ blind'[job[s].user] = blind[job[s].user] + 1
<1> DEFINE u == job[s].user
<1>1. \/ /\ blind' = blind
         /\ u \in Admins \/ WithinQuota(u)
      \/ blind[u] < MaxBlind /\ blind' = [blind EXCEPT ![u] = blind[u] + 1]
  BY DEF PassGates, MayAccess, QuotaGate, HistoryOK
<1>2. blind[u] \in 0..MaxBlind
  BY DEF HistoryOK
<1> HIDE DEF u
<1>3. CASE blind' = blind /\ (u \in Admins \/ WithinQuota(u))
  BY <1>3 DEF HistoryOK, u
<1>4. CASE blind[u] < MaxBlind /\ blind' = [blind EXCEPT ![u] = blind[u] + 1]
  <2>1. blind[u] + 1 \in 0..MaxBlind
    BY <1>2, <1>4, MaxBlindAssumption
  <2> QED BY <1>4, <2>1 DEF HistoryOK, u
<1> QED BY <1>1, <1>3, <1>4

\* What the steps of updates do to the other rows (deliver_by_code, purchase).
LEMMA UpdateKeepsRows ==
  ASSUME JobsOK, FilesOK, HistoryOK, NEW s \in Sessions,
         Ends(s) \/ Moves(s) \/ CheckStatus(s) \/ Claim(s)
  PROVE  FilesOK' /\ HistoryOK'
<1>1. /\ job[s].at # "idle"
  BY DEF Ends, StatusRefused, Gated, ClaimRefused, LogDownloadFails, Release, CountDelivery,
     CrashJob, BuyNotForSale, BuyFileRefused, BuyFileFails, Moves, PassGates, SendSome, SendNone,
     LogDownload, BuyCheck, BuyFolded, BuyKey, BuyFileDebit, BuyFileCommit, BuyFileReceipt,
     CheckStatus, Claim, JobsOK, Job, NoJob
<1>2. /\ job[s].file \in Files /\ job[s].user \in Users /\ Want(s) \in Users \X Files
      /\ file[job[s].file] \in FileRow /\ file[job[s].file].price \in Prices
      /\ slots[job[s].file] \in Slots
  BY <1>1, BusyJob DEF Want, FilesOK, HistoryOK
<1> DEFINE m == job[s].file
<1>3. ASSUME NEW n \in Nat, file' = [file EXCEPT ![m].count = n] PROVE FilesOK'
  <2> DEFINE row == [file[m] EXCEPT !.count = n]
  <2>1. row \in FileRow /\ row.price \in Prices
    BY <1>2 DEF FileRow
  <2>2. file' = [file EXCEPT ![m] = row]
    BY <1>3
  <2> HIDE DEF row, m
  <2> QED BY <1>2, <2>1, <2>2 DEF FilesOK
<1>4. ASSUME NEW g \in Nat, NEW l \in Nat, NEW o \in Int,
             slots' = [slots EXCEPT ![m] = [@ EXCEPT !.given = g, !.leaked = l, !.stolen = o]]
      PROVE  slots' \in [Files -> Slots]
  <2> DEFINE slot == [slots[m] EXCEPT !.given = g, !.leaked = l, !.stolen = o]
  <2>1. slot \in Slots
    BY <1>2 DEF Slots
  <2>2. slots' = [slots EXCEPT ![m] = slot]
    BY <1>4
  <2> HIDE DEF slot, m
  <2> QED BY <1>2, <2>1, <2>2 DEF HistoryOK
<1>5. CASE UNCHANGED <<file, entitled, charges, used, blind, edits, slots>>
      /\ tapKey' \subseteq tapKey \cup {Want(s)}
  BY <1>2, <1>5 DEF FilesOK, HistoryOK
<1>6. CASE Release(s)
  <2> DEFINE freed == IF file[m].status # "gone" /\ file[m].count > 0 THEN 1 ELSE 0
             owed == IF job[s].fresh THEN 1 ELSE 0
  <2>1. file[m].count - freed \in Nat /\ slots[m].stolen + freed - owed \in Int
    BY <1>2 DEF FileRow, Slots
  <2>2. file' = [file EXCEPT ![m].count = file[m].count - freed]
    BY <1>2, <1>6 DEF Release, FilesOK
  <2>3. slots' = [slots EXCEPT ![m].stolen = slots[m].stolen + freed - owed]
    BY <1>2, <1>6 DEF Release, HistoryOK
  <2>4. UNCHANGED <<entitled, tapKey, charges, used, blind, edits>>
    BY <1>6 DEF Release
  <2> DEFINE n == file[m].count - freed
             o == slots[m].stolen + freed - owed
  <2>5. n \in Nat /\ o \in Int /\ slots[m].given \in Nat /\ slots[m].leaked \in Nat
    BY <1>2, <2>1 DEF Slots
  <2>6. slots' = [slots EXCEPT ![m] = [@ EXCEPT !.given = slots[m].given,
        !.leaked = slots[m].leaked, !.stolen = o]]
    <3>1. [slots[m] EXCEPT !.stolen = o] = [slots[m] EXCEPT !.given = slots[m].given,
          !.leaked = slots[m].leaked, !.stolen = o]
      BY <1>2 DEF Slots
    <3> QED BY <2>3, <3>1
  <2>7. file' = [file EXCEPT ![m].count = n]
    BY <2>2
  <2> HIDE DEF n, o, freed, owed, m
  <2> QED BY <1>3, <1>4, <2>4, <2>5, <2>6, <2>7 DEF HistoryOK
<1>7. CASE Claim(s)
  <2>1. file[m].count + 1 \in Nat /\ file' = [file EXCEPT ![m].count = file[m].count + 1]
    BY <1>2, <1>7 DEF Claim, FilesOK, FileRow
  <2>2. UNCHANGED <<entitled, tapKey, charges, used, blind, edits, slots>>
    BY <1>7 DEF Claim
  <2> HIDE DEF m
  <2> QED BY <1>3, <2>1, <2>2 DEF HistoryOK
<1>8. CASE SendSome(s)
  <2> DEFINE g == IF job[s].fresh THEN slots[m].given + 1 ELSE slots[m].given
  <2>1. g \in Nat /\ slots[m].leaked \in Nat /\ slots[m].stolen \in Int
    BY <1>2 DEF Slots
  <2>2. slots' = [slots EXCEPT ![m].given = g]
    BY <1>2, <1>8 DEF SendSome, HistoryOK
  <2>3. slots' = [slots EXCEPT ![m] = [@ EXCEPT !.given = g, !.leaked = slots[m].leaked,
        !.stolen = slots[m].stolen]]
    <3>1. [slots[m] EXCEPT !.given = g] = [slots[m] EXCEPT !.given = g,
          !.leaked = slots[m].leaked, !.stolen = slots[m].stolen]
      BY <1>2 DEF Slots
    <3> QED BY <2>2, <3>1
  <2>4. UNCHANGED <<file, entitled, tapKey, charges, used, blind, edits>>
    BY <1>8 DEF SendSome
  <2> HIDE DEF g, m
  <2> QED BY <1>4, <2>1, <2>3, <2>4 DEF HistoryOK, FilesOK
<1>9. CASE CrashJob(s)
  <2>1. slots' = slots \/ slots' = [slots EXCEPT ![m].leaked = slots[m].leaked + 1]
    BY <1>2, <1>9 DEF CrashJob, HistoryOK
  <2>2. UNCHANGED <<file, entitled, tapKey, charges, used, blind, edits>>
    BY <1>9 DEF CrashJob
  <2> DEFINE l == slots[m].leaked + 1
  <2>3. l \in Nat /\ slots[m].given \in Nat /\ slots[m].stolen \in Int
    BY <1>2 DEF Slots
  <2>4. [slots[m] EXCEPT !.leaked = l] = [slots[m] EXCEPT !.given = slots[m].given,
        !.leaked = l, !.stolen = slots[m].stolen]
    BY <1>2 DEF Slots
  <2>5. \/ slots' = slots
        \/ slots' = [slots EXCEPT ![m] = [@ EXCEPT !.given = slots[m].given, !.leaked = l,
              !.stolen = slots[m].stolen]]
    BY <2>1, <2>4
  <2> HIDE DEF l, m
  <2> QED BY <1>4, <2>2, <2>3, <2>5 DEF HistoryOK, FilesOK
<1>10. CASE CountDelivery(s)
  BY <1>2, <1>10 DEF CountDelivery, FilesOK, HistoryOK
<1>11. CASE BuyFileCommit(s) /\ RestUnchanged
  <2>1. charges' = [charges EXCEPT ![Want(s)] = charges[Want(s)] + 1]
        /\ entitled' = entitled \cup {Want(s)}
        /\ UNCHANGED <<file, tapKey, used, blind, edits, slots>>
    BY <1>11 DEF BuyFileCommit, RestUnchanged
  <2>2. charges[Want(s)] + 1 \in Nat
    BY <1>2 DEF HistoryOK
  <2> QED BY <1>2, <2>1, <2>2 DEF FilesOK, HistoryOK
<1>12. CASE \/ StatusRefused(s) \/ Gated(s) \/ ClaimRefused(s) \/ LogDownloadFails(s)
            \/ CheckStatus(s) \/ SendNone(s) \/ LogDownload(s)
  BY <1>5, <1>12 DEF StatusRefused, Gated, ClaimRefused, LogDownloadFails, DropJob,
     CheckStatus, SendNone, LogDownload
<1>14. CASE PassGates(s)
  <2>1. blind' \in [Users -> 0..MaxBlind]
    BY <1>2, <1>14, PassGatesBlind
  <2> QED BY <1>2, <1>14, <2>1 DEF PassGates, FilesOK, HistoryOK
<1>13. CASE /\ \/ BuyNotForSale(s) \/ BuyFileRefused(s) \/ BuyFileFails(s) \/ BuyCheck(s)
               \/ BuyFolded(s) \/ BuyKey(s) \/ BuyFileDebit(s) \/ BuyFileReceipt(s)
            /\ RestUnchanged
  BY <1>5, <1>13 DEF BuyNotForSale, BuyFileRefused, BuyFileFails, BuyCheck, BuyFolded, BuyKey,
     BuyFileDebit, BuyFileReceipt, RestUnchanged
<1> QED BY <1>6, <1>7, <1>8, <1>9, <1>10, <1>11, <1>12, <1>13, <1>14 DEF Ends, Moves

-----------------------------------------------------------------------------
\* What a step may be.
LEMMA StepCases ==
  ASSUME DeliveryNext
  PROVE  \/ \E s \in Sessions, u \in Users, m \in Files, ok \in BOOLEAN :
               Arrive(s, u, m, ok) \/ (BuyMedia(s, u, m) /\ RestUnchanged)
         \/ \E s \in Sessions : Ends(s) \/ Moves(s) \/ CheckStatus(s) \/ Claim(s)
         \/ \E s \in Sessions : (ShopTopUpCommit(s) \/ \E u \in Users : ShopTopUp(s, u))
                                   /\ RestUnchanged
         \/ \E u \in Users, m \in Files : TapKeyExpires(u, m) /\ RestUnchanged
         \/ \E m \in Files : Edits(m) \/ MediaResetCount(m)
         \/ NewDay
<1>1. ASSUME NEW s \in Sessions, UpdateStep(s)
      PROVE  \/ Ends(s) \/ Moves(s) \/ CheckStatus(s) \/ Claim(s)
             \/ ShopTopUpCommit(s) /\ RestUnchanged
  BY <1>1 DEF UpdateStep, DeliverStep, BuyStep, Ends, Moves
<1>2. ASSUME NEW s \in Sessions, CrashJob(s) PROVE Ends(s)
  BY <1>2 DEF Ends
<1>3. ASSUME NEW s \in Sessions, NEW u \in Customers, NEW m \in Files,
             StartWithCode(s, u, m) \/ JoinRecheck(s, u, m) \/ InputDeliveryPassword(s, u, m)
      PROVE  \E ok \in BOOLEAN : Arrive(s, u, m, ok)
  BY <1>3 DEF StartWithCode, JoinRecheck, InputDeliveryPassword
<1>4. ASSUME NEW s \in Sessions, NEW u \in Customers, ShopTopUp(s, u), RestUnchanged
      PROVE  \E v \in Users : ShopTopUp(s, v)
  BY <1>4, CustomersAssumption
<1>5. ASSUME NEW m \in Files,
             \/ InputLimit(m) \/ CbMediaToggleActive(m) \/ InputMediaPassword(m)
             \/ CbMediaDelete(m) \/ MediaEdit(m) \/ MediaToggle(m) \/ MediaPassword(m)
             \/ MediaDelete(m) \/ MediaResetCount(m)
      PROVE  Edits(m) \/ MediaResetCount(m)
  BY <1>5 DEF Edits
<1>6. CASE \E s \in Sessions, u \in Customers, m \in Files :
             \/ StartWithCode(s, u, m) \/ JoinRecheck(s, u, m)
             \/ InputDeliveryPassword(s, u, m) \/ (BuyMedia(s, u, m) /\ RestUnchanged)
  BY <1>3, <1>6, CustomersAssumption
<1> QED BY <1>1, <1>2, <1>4, <1>5, <1>6, Zenon DEF DeliveryNext

\* A delivery and a sale move money only by steps of the wallet.
LEMMA StepIsWalletStep ==
  ASSUME JobsOK, HistoryOK, FilesOK, DeliveryNext PROVE [WalletStep]_walletVars
<1>1. ASSUME NEW s \in Sessions, NEW u \in Users, NEW m \in Files, NEW ok \in BOOLEAN,
             Arrive(s, u, m, ok) \/ BuyMedia(s, u, m)
      PROVE  [WalletStep]_walletVars
  BY <1>1 DEF Arrive, BuyMedia, Preload, WalletStep
<1>2. ASSUME NEW s \in Sessions, BuyFileDebit(s) \/ BuyFileRefused(s) PROVE WalletStep
  <2>1. job[s].at = "locked"
    BY <1>2 DEF BuyFileDebit, BuyFileRefused
  <2>2. job[s].user \in Users /\ job[s].row.price \in Prices /\ job[s].row.price > 0
    BY <2>1, BusyJob DEF JobsOK, JobOK
  <2>3. -job[s].row.price \in Postable
    BY <2>2, PricesArePostable
  <2> QED BY <1>2, <2>2, <2>3 DEF BuyFileDebit, BuyFileRefused, WalletStep
<1>3. ASSUME NEW s \in Sessions, Ends(s) PROVE WalletStep
  BY <1>2, <1>3 DEF Ends, StatusRefused, Gated, ClaimRefused, LogDownloadFails,
     DropJob, Release, CountDelivery, CrashJob, BuyNotForSale, BuyFileFails, EndJob, WalletStep
<1>4. ASSUME NEW s \in Sessions, Moves(s) \/ CheckStatus(s) \/ Claim(s)
      PROVE  [WalletStep]_walletVars
  <2>1. CASE BuyFileCommit(s)
    BY <2>1 DEF BuyFileCommit, WalletStep
  <2>2. CASE BuyFileDebit(s)
    BY <2>2, <1>2
  <2>3. CASE ~ BuyFileCommit(s) /\ ~ BuyFileDebit(s)
    BY <1>4, <2>3 DEF Moves, CheckStatus, Claim, PassGates, SendSome, SendNone, LogDownload,
       BuyCheck, BuyFolded, BuyKey, BuyFileReceipt
  <2> QED BY <2>1, <2>2, <2>3
<1>5. ASSUME NEW s \in Sessions, ShopTopUpCommit(s) \/ \E u \in Users : ShopTopUp(s, u)
      PROVE  WalletStep
  BY <1>5 DEF ShopTopUpCommit, ShopTopUp, Credit, WalletStep, Postable
<1>6. ASSUME NEW u \in Users, NEW m \in Files, TapKeyExpires(u, m) PROVE UNCHANGED walletVars
  BY <1>6 DEF TapKeyExpires
<1>7. ASSUME NEW m \in Files, Edits(m) \/ MediaResetCount(m) PROVE UNCHANGED walletVars
  BY <1>7, EditWrites DEF MediaResetCount
<1>8. ASSUME NewDay PROVE UNCHANGED walletVars
  BY <1>8 DEF NewDay
<1> QED BY <1>1, <1>3, <1>4, <1>5, <1>6, <1>7, <1>8, StepCases

\* Every step keeps the types and what the jobs rely on.
LEMMA StepKeepsTInv == DeliveryTInv /\ [DeliveryNext]_vars => DeliveryTInv'
<1> SUFFICES ASSUME DeliveryTInv, [DeliveryNext]_vars PROVE DeliveryTInv'
  OBVIOUS
<1>1. WalletIInv /\ JobsOK /\ FilesOK /\ HistoryOK
  BY DEF DeliveryTInv
<1>2. CASE UNCHANGED vars
  <2>1. UNCHANGED walletVars
    BY <1>2 DEF vars
  <2>2. WalletIInv'
    BY <1>1, <2>1, WalletStepKeepsIInv
  <2> QED BY <1>1, <1>2, <2>2 DEF vars, shopVars, JobsOK, JobOK, FilesOK, HistoryOK, DeliveryTInv
<1>3. CASE DeliveryNext
  <2>1. WalletIInv'
    BY <1>1, <1>3, StepIsWalletStep, WalletStepKeepsIInv
  <2>2. ASSUME NEW s \in Sessions, NEW u \in Users, NEW m \in Files, NEW ok \in BOOLEAN,
               Arrive(s, u, m, ok) \/ (BuyMedia(s, u, m) /\ RestUnchanged)
        PROVE  JobsOK' /\ FilesOK' /\ HistoryOK'
    <3>1. JobsOK'
      BY <1>1, <2>2, ArrivalKeepsJobs
    <3>2. UNCHANGED <<file, entitled, tapKey, charges, used, blind, edits, slots>>
      BY <2>2 DEF Arrive, BuyMedia, RestUnchanged
    <3> QED BY <1>1, <3>1, <3>2 DEF FilesOK, HistoryOK
  <2>3. ASSUME NEW s \in Sessions, Ends(s) \/ Moves(s) \/ CheckStatus(s) \/ Claim(s)
        PROVE  JobsOK' /\ FilesOK' /\ HistoryOK'
    BY <1>1, <2>3, UpdateKeepsJobs, UpdateKeepsRows
  <2>4. ASSUME NEW s \in Sessions,
               ShopTopUpCommit(s) \/ \E u \in Users : ShopTopUp(s, u), RestUnchanged
        PROVE  JobsOK' /\ FilesOK' /\ HistoryOK'
    BY <1>1, <2>4 DEF ShopTopUpCommit, ShopTopUp, RestUnchanged, shopVars, JobsOK, JobOK,
       FilesOK, HistoryOK
  <2>5. ASSUME NEW u \in Users, NEW m \in Files, TapKeyExpires(u, m), RestUnchanged
        PROVE  JobsOK' /\ FilesOK' /\ HistoryOK'
    BY <1>1, <2>5 DEF TapKeyExpires, RestUnchanged, JobsOK, JobOK, FilesOK, HistoryOK
  <2>6. ASSUME NEW m \in Files, Edits(m) PROVE JobsOK' /\ FilesOK' /\ HistoryOK'
    <3>1. FilesOK' /\ HistoryOK' /\ job' = job
      BY <1>1, <2>6, EditWrites
    <3> QED BY <1>1, <3>1 DEF JobsOK, JobOK
  <2>7. ASSUME NEW m \in Files, MediaResetCount(m) PROVE JobsOK' /\ FilesOK' /\ HistoryOK'
    BY <1>1, <2>7, ResetKeeps
  <2>8. ASSUME NewDay PROVE JobsOK' /\ FilesOK' /\ HistoryOK'
    BY <1>1, <2>8, MaxBlindAssumption DEF NewDay, shopVars, JobsOK, JobOK, FilesOK, HistoryOK
  <2> QED BY <1>3, <2>1, <2>2, <2>3, <2>4, <2>5, <2>6, <2>7, <2>8, StepCases DEF DeliveryTInv
<1> QED BY <1>2, <1>3

\* The shop opens with them.
LEMMA InitTInv == DeliveryInit => DeliveryTInv
<1> SUFFICES ASSUME DeliveryInit PROVE DeliveryTInv
  OBVIOUS
<1>1. WalletIInv
  BY WalletInitIInv DEF DeliveryInit, ShopInit
<1>2. FilesOK
  BY PricesArePostable, LimitsAssumption DEF DeliveryInit, ShopInit, FilesOK, FileRow
<1>3. JobsOK
  BY DEF DeliveryInit, ShopInit, JobsOK, JobOK, NoJob
<1>4. HistoryOK
  BY <1>2, MaxEditsAssumption, MaxBlindAssumption DEF DeliveryInit, ShopInit, HistoryOK, Slots, FilesOK, FileRow
<1> QED BY <1>1, <1>2, <1>3, <1>4 DEF DeliveryTInv

\* The types, and what the jobs rely on, hold in every reachable state.
LEMMA TInvariant == DeliverySpec => []DeliveryTInv
BY InitTInv, StepKeepsTInv, PTL DEF DeliverySpec

\* Types of the media rows, the unlock rows, the updates and the counters.
THEOREM DeliveryTypeCorrect == DeliverySpec => []DeliveryTypeOK
BY TInvariant, TInvTypes, PTL

\* Sales and deliveries leave the wallet in order: the newest ledger row is the
\* balance, and a session that did not load its user extends the chain.
THEOREM ShopKeepsWallet == DeliverySpec => [](NewestRowIsBalance /\ FreshRowsChain)
<1>1. DeliveryTInv => NewestRowIsBalance /\ FreshRowsChain
  BY DEF DeliveryTInv, WalletIInv
<1> QED BY <1>1, TInvariant, PTL

-----------------------------------------------------------------------------
(* A file is charged for once. *)

\* The unlock row stays as long as the file does, so that a pair without one
\* has not been charged, unless its file is gone for good.
ChargeInv ==
  \A x \in Users \X Files :
     /\ charges[x] <= 1
     /\ x \in entitled => charges[x] = 1
     /\ x \notin entitled /\ file[x[2]].status # "gone" => charges[x] = 0

\* A step that charges nobody, deletes no unlock row and restores no file.
LEMMA ChargesStand ==
  ASSUME ChargeInv, UNCHANGED <<entitled, charges>>,
         \A m \in Files : file'[m].status # "gone" => file[m].status # "gone"
  PROVE  ChargeInv'
BY DEF ChargeInv

\* The steps of an update write a file's counter and no other column of it
\* (try_claim_download, release_download).
LEMMA UpdateKeepsStatus ==
  ASSUME JobsOK, FilesOK, NEW s \in Sessions, Ends(s) \/ Moves(s) \/ CheckStatus(s) \/ Claim(s)
  PROVE  \A m \in Files : file'[m].status = file[m].status /\ file'[m].limit = file[m].limit
<1>1. CASE Release(s)
  <2>1. job[s].file \in Files
    BY <1>1, BusyJob DEF Release
  <2> DEFINE freed == IF file[job[s].file].status # "gone"
        /\ file[job[s].file].count > 0 THEN 1 ELSE 0
  <2>2. file' = [file EXCEPT ![job[s].file].count = file[job[s].file].count - freed]
    BY <1>1, <2>1 DEF Release, FilesOK
  <2> HIDE DEF freed
  <2> QED BY <2>1, <2>2 DEF FilesOK, FileRow
<1>2. CASE Claim(s)
  <2>1. job[s].file \in Files
    BY <1>2, BusyJob DEF Claim
  <2>2. file' = [file EXCEPT ![job[s].file].count = file[job[s].file].count + 1]
    BY <1>2, <2>1 DEF Claim, FilesOK
  <2> QED BY <2>1, <2>2 DEF FilesOK, FileRow
<1>3. CASE ~ Release(s) /\ ~ Claim(s)
  <2>1. file' = file
    BY <1>3 DEF Ends, Moves, CheckStatus, StatusRefused, Gated, ClaimRefused, LogDownloadFails,
       DropJob, CountDelivery, CrashJob, BuyNotForSale, BuyFileRefused, BuyFileFails, PassGates,
       SendSome, SendNone, LogDownload, BuyCheck, BuyFolded, BuyKey, BuyFileDebit, BuyFileCommit,
       BuyFileReceipt
  <2> QED BY <2>1
<1> QED BY <1>1, <1>2, <1>3

\* Only the commit of a purchase charges, and it finds no unlock row
\* (PaywallService.purchase).
LEMMA PurchaseChargesOnce ==
  ASSUME JobsOK, FilesOK, HistoryOK, ChargeInv, NEW s \in Sessions, BuyFileCommit(s)
  PROVE  ChargeInv'
<1>1. Want(s) \in Users \X Files /\ Want(s)[2] = job[s].file
  BY BusyJob DEF BuyFileCommit, Want
<1>2. Want(s) \notin entitled /\ file[Want(s)[2]].status # "gone"
  BY <1>1 DEF BuyFileCommit, MayUnlock
<1>3. charges[Want(s)] = 0
  BY <1>1, <1>2 DEF ChargeInv
<1>4. charges' = [charges EXCEPT ![Want(s)] = 1] /\ entitled' = entitled \cup {Want(s)}
      /\ file' = file
  BY <1>1, <1>3 DEF BuyFileCommit, HistoryOK
<1> HIDE DEF Want
<1> QED BY <1>1, <1>4 DEF ChargeInv, HistoryOK

\* Every step keeps it.
LEMMA StepKeepsCharges ==
  ASSUME DeliveryTInv, ChargeInv, [DeliveryNext]_vars PROVE ChargeInv'
<1>1. JobsOK /\ FilesOK /\ HistoryOK
  BY DEF DeliveryTInv
<1>2. CASE UNCHANGED vars
  BY <1>2, ChargesStand DEF vars, shopVars
<1>3. ASSUME NEW s \in Sessions, NEW u \in Users, NEW m \in Files, NEW ok \in BOOLEAN,
             Arrive(s, u, m, ok) \/ BuyMedia(s, u, m)
      PROVE  ChargeInv'
  BY <1>3, ChargesStand DEF Arrive, BuyMedia
<1>4. ASSUME NEW s \in Sessions, Ends(s) \/ Moves(s) \/ CheckStatus(s) \/ Claim(s)
      PROVE  ChargeInv'
  <2>1. CASE BuyFileCommit(s)
    BY <1>1, <2>1, PurchaseChargesOnce
  <2>2. CASE ~ BuyFileCommit(s)
    <3>1. UNCHANGED <<entitled, charges>>
      BY <1>4, <2>2 DEF Ends, Moves, CheckStatus, Claim, StatusRefused, Gated, ClaimRefused,
         LogDownloadFails, DropJob, Release, CountDelivery, CrashJob, BuyNotForSale,
         BuyFileRefused, BuyFileFails, PassGates, SendSome, SendNone, LogDownload, BuyCheck,
         BuyFolded, BuyKey, BuyFileDebit, BuyFileReceipt
    <3> QED BY <1>1, <1>4, <3>1, UpdateKeepsStatus, ChargesStand
  <2> QED BY <2>1, <2>2
<1>5. ASSUME NEW m \in Files, Edits(m) PROVE ChargeInv'
  <2>1. /\ charges' = charges /\ file[m].status # "gone"
        /\ \A n \in Files \ {m} : file'[n] = file[n]
        /\ \/ entitled' = entitled
           \/ file'[m].status = "gone" /\ entitled' = {x \in entitled : x[2] # m}
    BY <1>1, <1>5, EditWrites
  <2> QED BY <1>1, <2>1 DEF ChargeInv
<1>6. ASSUME NEW m \in Files, MediaResetCount(m) PROVE ChargeInv'
  <2>1. UNCHANGED <<entitled, charges>> /\ \A n \in Files : file'[n].status = file[n].status
    BY <1>1, <1>6 DEF MediaResetCount, FilesOK, FileRow
  <2> QED BY <2>1, ChargesStand
<1>7. ASSUME NEW s \in Sessions, ShopTopUpCommit(s) \/ \E u \in Users : ShopTopUp(s, u)
      PROVE  ChargeInv'
  BY <1>7, ChargesStand DEF ShopTopUpCommit, ShopTopUp, shopVars
<1>8. ASSUME NEW u \in Users, NEW m \in Files, TapKeyExpires(u, m) PROVE ChargeInv'
  BY <1>8, ChargesStand DEF TapKeyExpires
<1>9. ASSUME NewDay PROVE ChargeInv'
  BY <1>9, ChargesStand DEF NewDay, shopVars
<1> QED BY <1>2, <1>3, <1>4, <1>5, <1>6, <1>7, <1>8, <1>9, StepCases

\* A user is charged for a file at most once, and exactly once if it is
\* unlocked, with any number of taps, dead sessions, expired keys and a Redis
\* that is down (PaywallService.purchase).
THEOREM ChargedOnceEver == DeliverySpec => []ChargedOnce
<1>1. DeliveryInit => ChargeInv
  BY DEF DeliveryInit, ShopInit, ChargeInv
<1>2. DeliveryTInv /\ ChargeInv /\ [DeliveryNext]_vars => ChargeInv'
  BY StepKeepsCharges
<1>3. ChargeInv => ChargedOnce
  BY DEF ChargeInv, ChargedOnce
<1> QED BY <1>1, <1>2, <1>3, TInvariant, PTL DEF DeliverySpec

-----------------------------------------------------------------------------
(* Slots. *)

Holds(s, m) == /\ job[s] # NoJob /\ job[s].file = m /\ job[s].fresh
               /\ job[s].at \in {"sending", "releasing"}

\* What one session's step does to the number of claims under way.
LEMMA HolderCount ==
  ASSUME IsFiniteSet(Sessions), NEW s \in Sessions, NEW m \in Files,
         \A t \in Sessions \ {s} : Holds(t, m)' = Holds(t, m)
  PROVE  /\ Cardinality(Holders(m)) \in Nat /\ Cardinality(Holders(m))' \in Nat
         /\ Holds(s, m)' = Holds(s, m) => Cardinality(Holders(m))' = Cardinality(Holders(m))
         /\ Holds(s, m)' /\ ~ Holds(s, m) =>
              Cardinality(Holders(m))' = Cardinality(Holders(m)) + 1
         /\ ~ Holds(s, m)' /\ Holds(s, m) =>
              Cardinality(Holders(m))' = Cardinality(Holders(m)) - 1
<1>1. Holders(m) = {t \in Sessions : Holds(t, m)} /\ Holders(m)' = {t \in Sessions : Holds(t, m)'}
  BY DEF Holders, Holds
<1>2. IsFiniteSet(Holders(m)) /\ IsFiniteSet(Holders(m)')
  BY <1>1, FS_Subset
<1>3. Cardinality(Holders(m)) \in Nat /\ Cardinality(Holders(m)') \in Nat
  BY <1>2, FS_CardinalityType
<1>4. ASSUME Holds(s, m)' = Holds(s, m) PROVE Holders(m)' = Holders(m)
  BY <1>1, <1>4
<1>5. ASSUME Holds(s, m)', ~ Holds(s, m)
      PROVE  Cardinality(Holders(m)') = Cardinality(Holders(m)) + 1
  <2>1. Holders(m)' = Holders(m) \cup {s} /\ s \notin Holders(m)
    BY <1>1, <1>5
  <2> QED BY <1>2, <2>1, FS_AddElement
<1>6. ASSUME ~ Holds(s, m)', Holds(s, m)
      PROVE  Cardinality(Holders(m)') = Cardinality(Holders(m)) - 1
  <2>1. Holders(m)' = Holders(m) \ {s} /\ s \in Holders(m)
    BY <1>1, <1>6
  <2> QED BY <1>2, <2>1, FS_RemoveElement
<1> QED BY <1>3, <1>4, <1>5, <1>6

\* What is claimed of a file: its slots add up, its highest limit covers the
\* limit it has, and no more was given out than that.
SlotOK(m) ==
  /\ file[m].status # "gone" =>
       /\ file[m].count + slots[m].stolen
            = slots[m].given + slots[m].leaked + Cardinality(Holders(m))
       /\ \/ slots[m].cap = NoLimit
          \/ file[m].limit # NoLimit /\ file[m].limit <= slots[m].cap
  /\ slots[m].cap # NoLimit =>
       slots[m].given + Cardinality(Holders(m)) <= slots[m].cap + slots[m].stolen

SlotInv == \A m \in Files : SlotOK(m)

\* A step that leaves the slots of a file, and who holds them, as they are.
LEMMA SlotStands ==
  ASSUME NEW m \in Files, SlotOK(m), file'[m] = file[m], slots'[m] = slots[m],
         \A t \in Sessions : Holds(t, m)' = Holds(t, m)
  PROVE  SlotOK(m)'
<1>1. Holders(m)' = Holders(m)
  BY DEF Holders, Holds
<1> QED BY <1>1 DEF SlotOK

\* The steps of one session on a file that it has not claimed and does not claim.
LEMMA UnclaimedStands ==
  ASSUME SlotInv, JobsOK, NEW s \in Sessions, \A t \in Sessions \ {s} : job'[t] = job[t],
         job[s].at \notin {"sending", "releasing"}, job'[s].at \notin {"sending", "releasing"},
         UNCHANGED <<file, slots>>
  PROVE  SlotInv'
<1> SUFFICES ASSUME NEW m \in Files PROVE SlotOK(m)'
  BY DEF SlotInv
<1>1. \A t \in Sessions : Holds(t, m)' = Holds(t, m)
  BY DEF Holds
<1> QED BY <1>1, SlotStands DEF SlotInv

\* try_claim_download: the committed row has a slot, and one session more holds it.
LEMMA ClaimKeepsSlots ==
  ASSUME IsFiniteSet(Sessions), SlotInv, JobsOK, FilesOK, HistoryOK, NEW s \in Sessions, Claim(s),
         NEW m \in Files, m = job[s].file
  PROVE  SlotInv'
<1>1. /\ m \in Files /\ job[s] \in Job /\ job[s].at = "claiming" /\ job[s] # NoJob
      /\ file[m] \in FileRow /\ slots[m] \in Slots
  BY BusyJob DEF Claim, FilesOK, HistoryOK
<1>2. /\ job'[s].at = "sending" /\ job'[s].fresh /\ job'[s].file = m /\ job'[s] # NoJob
      /\ \A t \in Sessions \ {s} : job'[t] = job[t]
      /\ slots' = slots
  BY <1>1 DEF Claim, JobsOK, Job, NoJob
<1>3. /\ file'[m].count = file[m].count + 1 /\ file'[m].limit = file[m].limit
      /\ file'[m].status = file[m].status
      /\ \A n \in Files \ {m} : file'[n] = file[n]
  BY <1>1 DEF Claim, FilesOK, FileRow
<1>4. file[m].status = "approved" /\ (file[m].limit = NoLimit \/ ~ file[m].count >= file[m].limit)
  BY DEF Claim, Claimable, IsLive, IsFull
<1> SUFFICES ASSUME NEW n \in Files PROVE SlotOK(n)'
  BY DEF SlotInv
<1>5. CASE n # m
  <2>1. \A t \in Sessions : Holds(t, n)' = Holds(t, n)
    BY <1>1, <1>2, <1>5 DEF Holds
  <2> QED BY <1>2, <1>3, <1>5, <2>1, SlotStands DEF SlotInv
<1>6. CASE n = m
  <2>1. Holds(s, m)' /\ ~ Holds(s, m) /\ \A t \in Sessions \ {s} : Holds(t, m)' = Holds(t, m)
    BY <1>1, <1>2 DEF Holds
  <2>2. Cardinality(Holders(m))' = Cardinality(Holders(m)) + 1 /\ Cardinality(Holders(m)) \in Nat
    BY <1>1, <2>1, HolderCount
  <2>3. SlotOK(m)
    BY <1>1 DEF SlotInv
  <2>4. file[m].count \in Nat /\ slots[m].given \in Nat /\ slots[m].leaked \in Nat
        /\ slots[m].stolen \in Int /\ slots[m].cap \in Nat \cup {NoLimit}
        /\ file[m].limit \in Nat \cup {NoLimit}
    BY <1>1 DEF FileRow, Slots
  <2>5. file'[m].count + slots'[m].stolen
          = slots'[m].given + slots'[m].leaked + Cardinality(Holders(m))'
    BY <1>2, <1>3, <1>4, <2>2, <2>3, <2>4 DEF SlotOK
  <2>6. slots'[m].cap = NoLimit \/ (file'[m].limit # NoLimit /\ file'[m].limit <= slots'[m].cap)
    BY <1>2, <1>3, <1>4, <2>3 DEF SlotOK
  <2>7. ASSUME slots[m].cap # NoLimit
        PROVE  slots[m].given + Cardinality(Holders(m))' <= slots[m].cap + slots[m].stolen
    <3>1. /\ file[m].limit # NoLimit /\ file[m].limit <= slots[m].cap
          /\ file[m].count + slots[m].stolen
               = slots[m].given + slots[m].leaked + Cardinality(Holders(m))
      BY <1>4, <2>3, <2>7 DEF SlotOK
    <3>2. file[m].limit \in Nat /\ slots[m].cap \in Nat
      BY <2>4, <2>7, <3>1
    <3>3. file[m].count < file[m].limit
      BY <1>4, <2>4, <3>1, <3>2
    <3> QED BY <2>2, <2>4, <3>1, <3>2, <3>3
  <2> QED BY <1>2, <1>6, <2>5, <2>6, <2>7 DEF SlotOK
<1> QED BY <1>5, <1>6

\* The step of a session that is sending or releasing: it keeps its slot, gives it
\* out, releases it or leaks it (SendSome, SendNone, Release, CrashJob).
LEMMA HolderKeepsSlots ==
  ASSUME IsFiniteSet(Sessions), SlotInv, JobsOK, FilesOK, HistoryOK, NEW s \in Sessions,
         SendSome(s) \/ SendNone(s) \/ Release(s) \/ CrashJob(s),
         job[s].at \in {"sending", "releasing"}, NEW m \in Files, m = job[s].file
  PROVE  SlotInv'
<1> DEFINE freed == IF file[m].status # "gone" /\ file[m].count > 0 THEN 1 ELSE 0
           owed == IF job[s].fresh THEN 1 ELSE 0
<1>1. /\ m \in Files /\ job[s] \in Job /\ job[s] # NoJob /\ job[s].fresh \in BOOLEAN
      /\ file[m] \in FileRow /\ slots[m] \in Slots
  BY BusyJob DEF FilesOK, HistoryOK
<1>2. \A t \in Sessions \ {s} : job'[t] = job[t]
  BY DEF SendSome, SendNone, Release, CrashJob, JobAt, EndJob, JobsOK
<1>3. /\ \A n \in Files \ {m} : file'[n] = file[n] /\ slots'[n] = slots[n]
      /\ file'[m].limit = file[m].limit /\ file'[m].status = file[m].status
      /\ slots'[m].cap = slots[m].cap
  <2>1. CASE SendSome(s)
    BY <1>1, <2>1 DEF SendSome, HistoryOK, Slots
  <2>2. CASE SendNone(s)
    BY <1>1, <2>2 DEF SendNone
  <2>3. CASE Release(s)
    BY <1>1, <2>3 DEF Release, FilesOK, HistoryOK, FileRow, Slots
  <2>4. CASE CrashJob(s)
    <3>1. file' = file /\ (slots' = slots \/ slots' = [slots EXCEPT ![m].leaked = @ + 1])
      BY <2>4 DEF CrashJob
    <3> QED BY <1>1, <3>1 DEF HistoryOK, Slots
  <2> QED BY <2>1, <2>2, <2>3, <2>4
<1>4. Holds(s, m) <=> job[s].fresh
  BY <1>1 DEF Holds
<1>5. /\ file[m].count \in Nat /\ slots[m].given \in Nat /\ slots[m].leaked \in Nat
      /\ slots[m].stolen \in Int /\ slots[m].cap \in Nat \cup {NoLimit}
      /\ freed \in {0, 1} /\ owed \in {0, 1}
  BY <1>1 DEF FileRow, Slots
<1>6. \/ /\ ~ Holds(s, m)'
         /\ file'[m].count = file[m].count /\ slots'[m].leaked = slots[m].leaked
         /\ slots'[m].stolen = slots[m].stolen /\ slots'[m].given = slots[m].given + owed
      \/ /\ Holds(s, m)' = Holds(s, m) /\ file'[m] = file[m] /\ slots'[m] = slots[m]
      \/ /\ ~ Holds(s, m)'
         /\ file'[m].count = file[m].count - freed /\ slots'[m].leaked = slots[m].leaked
         /\ slots'[m].stolen = slots[m].stolen + freed - owed
         /\ slots'[m].given = slots[m].given
      \/ /\ ~ Holds(s, m)'
         /\ file'[m].count = file[m].count /\ slots'[m].leaked = slots[m].leaked + owed
         /\ slots'[m].stolen = slots[m].stolen /\ slots'[m].given = slots[m].given
  <2>1. CASE SendSome(s)
    <3>1. job'[s].at = "logging" /\ file' = file
      BY <1>1, <2>1 DEF SendSome, JobAt, JobsOK, Job
    <3>2. slots'[m].given = slots[m].given + owed /\ slots'[m].leaked = slots[m].leaked
          /\ slots'[m].stolen = slots[m].stolen
      BY <1>1, <2>1 DEF SendSome, HistoryOK, Slots
    <3> QED BY <3>1, <3>2 DEF Holds
  <2>2. CASE SendNone(s)
    <3>1. job'[s] = [job[s] EXCEPT !.at = "releasing"] /\ UNCHANGED <<file, slots>>
      BY <1>1, <2>2 DEF SendNone, JobAt, JobsOK
    <3>2. job'[s].at = "releasing" /\ job'[s].file = m /\ job'[s].fresh = job[s].fresh
      BY <1>1, <3>1 DEF Job
    <3> QED BY <1>1, <3>1, <3>2 DEF Holds, Job, NoJob
  <2>3. CASE Release(s)
    <3>1. job'[s] = NoJob
      BY <2>3 DEF Release, EndJob, JobsOK
    <3>2. file'[m].count = file[m].count - freed
      BY <1>1, <2>3 DEF Release, FilesOK, FileRow
    <3>3. slots'[m].stolen = slots[m].stolen + freed - owed /\ slots'[m].given = slots[m].given
          /\ slots'[m].leaked = slots[m].leaked
      BY <1>1, <2>3 DEF Release, HistoryOK, Slots
    <3> QED BY <3>1, <3>2, <3>3 DEF Holds
  <2>4. CASE CrashJob(s)
    <3>1. job'[s] = NoJob /\ file' = file
      BY <2>4 DEF CrashJob, EndJob, JobsOK
    <3>2. slots'[m].leaked = slots[m].leaked + owed /\ slots'[m].given = slots[m].given
          /\ slots'[m].stolen = slots[m].stolen
      BY <1>1, <1>5, <2>4 DEF CrashJob, HistoryOK, Slots
    <3> QED BY <3>1, <3>2 DEF Holds
  <2> QED BY <2>1, <2>2, <2>3, <2>4
<1>7. \A n \in Files \ {m} : \A t \in Sessions : Holds(t, n)' = Holds(t, n)
  <2>1. job'[s] = NoJob \/ job'[s].file = m
    BY <1>1 DEF SendSome, SendNone, Release, CrashJob, JobAt, EndJob, JobsOK, Job
  <2> QED BY <1>2, <2>1 DEF Holds
<1>8. owed = 1 <=> job[s].fresh
  BY <1>1
<1>9. freed = 1 => file[m].status # "gone"
  OBVIOUS
<1> HIDE DEF freed, owed
<1> SUFFICES ASSUME NEW n \in Files PROVE SlotOK(n)'
  BY DEF SlotInv
<1>10. CASE n # m
  BY <1>3, <1>7, <1>10, SlotStands DEF SlotInv
<1>11. CASE n = m
  <2>1. \A t \in Sessions \ {s} : Holds(t, m)' = Holds(t, m)
    BY <1>2 DEF Holds
  <2>2. /\ Cardinality(Holders(m)) \in Nat
        /\ Holds(s, m)' = Holds(s, m) => Cardinality(Holders(m))' = Cardinality(Holders(m))
        /\ ~ Holds(s, m)' => Cardinality(Holders(m))' = Cardinality(Holders(m)) - owed
    <3>1. CASE job[s].fresh
      BY <1>1, <1>4, <1>8, <2>1, <3>1, HolderCount
    <3>2. CASE ~ job[s].fresh
      <4>1. owed = 0 /\ ~ Holds(s, m)
        BY <1>4, <1>5, <1>8, <3>2
      <4>2. Cardinality(Holders(m)) \in Nat
        BY <2>1, HolderCount
      <4>3. ~ Holds(s, m)' => Cardinality(Holders(m))' = Cardinality(Holders(m))
        <5>1. ~ Holds(s, m)' => \A t \in Sessions : Holds(t, m)' <=> Holds(t, m)
          BY <2>1, <4>1
        <5>2. ~ Holds(s, m)' => Holders(m)' = Holders(m)
          BY <5>1 DEF Holders, Holds
        <5> QED BY <5>2
      <4>4. Holds(s, m)' = Holds(s, m) => Cardinality(Holders(m))' = Cardinality(Holders(m))
        BY <2>1, HolderCount
      <4> QED BY <4>1, <4>2, <4>3, <4>4
    <3> QED BY <3>1, <3>2
  <2>3. SlotOK(m)
    BY <1>1 DEF SlotInv
  <2> QED BY <1>3, <1>5, <1>6, <1>9, <1>11, <2>2, <2>3 DEF SlotOK
<1> QED BY <1>10, <1>11

\* An edit moves the highest limit along with the limit (input_limit, media_edit).
LEMMA EditKeepsSlots ==
  ASSUME IsFiniteSet(Sessions), SlotInv, FilesOK, HistoryOK, NEW m \in Files, Edits(m)
  PROVE  SlotInv'
<1> SUFFICES ASSUME NEW n \in Files PROVE SlotOK(n)'
  BY DEF SlotInv
<1>1. /\ file[m].status # "gone" /\ job' = job
      /\ \A k \in Files \ {m} : file'[k] = file[k] /\ slots'[k] = slots[k]
      /\ file'[m].count = file[m].count
      /\ slots'[m] = [slots[m] EXCEPT !.cap = slots'[m].cap]
      /\ \/ file'[m].limit = file[m].limit /\ slots' = slots
         \/ \E l \in Limits : file'[m].limit = l /\ slots'[m].cap = RaisedCap(m, l)
  BY EditWrites
<1>2. Holders(n)' = Holders(n) /\ \A t \in Sessions : Holds(t, n)' = Holds(t, n)
  BY <1>1 DEF Holders, Holds
<1>3. CASE n # m
  BY <1>1, <1>2, <1>3, SlotStands DEF SlotInv
<1>4. CASE n = m
  <2>1. file[m] \in FileRow /\ slots[m] \in Slots /\ SlotOK(m)
        /\ Limits \subseteq Nat \cup {NoLimit}
    BY LimitsAssumption DEF FilesOK, HistoryOK, SlotInv
  <2>2. slots'[m].given = slots[m].given /\ slots'[m].leaked = slots[m].leaked
        /\ slots'[m].stolen = slots[m].stolen
    BY <1>1, <2>1 DEF Slots
  <2>3. slots[m].cap \in Nat \cup {NoLimit} /\ slots[m].given \in Nat /\ slots[m].stolen \in Int
    BY <2>1 DEF Slots
  <2>4. CASE file'[m].limit = file[m].limit /\ slots' = slots
    BY <1>1, <1>2, <1>4, <2>1, <2>4 DEF SlotOK
  <2>5. ASSUME NEW l \in Limits, file'[m].limit = l, slots'[m].cap = RaisedCap(m, l)
        PROVE  SlotOK(m)'
    <3>1. /\ slots'[m].cap = NoLimit \/ (l # NoLimit /\ l <= slots'[m].cap)
          /\ slots'[m].cap # NoLimit => slots[m].cap # NoLimit /\ slots[m].cap <= slots'[m].cap
          /\ slots'[m].cap \in Nat \cup {NoLimit}
      BY <2>1, <2>3, <2>5, NoLimitAssumption DEF RaisedCap
    <3>2. IF slots[m].cap = NoLimit THEN slots'[m].cap = NoLimit ELSE TRUE
      BY <2>5 DEF RaisedCap
    <3> HIDE DEF RaisedCap
    <3>3. Cardinality(Holders(m))' = Cardinality(Holders(m))
      BY <1>2, <1>4
    <3>4. file'[m].count + slots'[m].stolen
            = slots'[m].given + slots'[m].leaked + Cardinality(Holders(m))'
      BY <1>1, <2>1, <2>2, <3>3 DEF SlotOK
    <3>5. slots'[m].cap = NoLimit \/ (file'[m].limit # NoLimit /\ file'[m].limit <= slots'[m].cap)
      BY <2>5, <3>1
    <3>6. /\ slots[m].cap # NoLimit =>
               slots[m].given + Cardinality(Holders(m)) <= slots[m].cap + slots[m].stolen
          /\ Cardinality(Holders(m)) = Cardinality(Holders(m))'
      BY <2>1, <3>3 DEF SlotOK
    <3>7. slots'[m].cap # NoLimit =>
            slots'[m].given + Cardinality(Holders(m))' <= slots'[m].cap + slots'[m].stolen
      <4>1. Cardinality(Holders(m)) \in Nat
        BY FS_Subset, FS_CardinalityType DEF Holders
      <4> QED BY <2>2, <2>3, <3>1, <3>6, <4>1, NoLimitAssumption
    <3> QED BY <3>4, <3>5, <3>7 DEF SlotOK
  <2> QED BY <1>1, <1>4, <2>4, <2>5
<1> QED BY <1>3, <1>4

\* The reset: nobody holds a slot that is newer (media_reset_count).
LEMMA ResetKeepsSlots ==
  ASSUME SlotInv, JobsOK, FilesOK, HistoryOK, NEW m \in Files, MediaResetCount(m)
  PROVE  SlotInv'
<1>1. /\ file[m] \in FileRow /\ file'[m].count = 0 /\ file'[m].limit = file[m].limit
      /\ \A n \in Files \ {m} : file'[n] = file[n] /\ slots'[n] = slots[n]
      /\ slots'[m] = [given |-> 0, leaked |-> 0, stolen |-> 0, cap |-> file[m].limit]
  BY DEF MediaResetCount, FilesOK, HistoryOK, FileRow
<1>2. \A t \in Sessions : job[t] # NoJob => job[t] \in Job
  BY DEF JobsOK
<1>3. \A t \in Sessions : ~ Holds(t, m)' /\ \A n \in Files \ {m} : Holds(t, n)' = Holds(t, n)
  <2> SUFFICES ASSUME NEW t \in Sessions
               PROVE  ~ Holds(t, m)' /\ \A n \in Files \ {m} : Holds(t, n)' = Holds(t, n)
    OBVIOUS
  <2>1. CASE job[t] # NoJob /\ job[t].file = m
    <3>1. job'[t] = [job[t] EXCEPT !.fresh = FALSE] /\ job[t] \in Job
      BY <1>2, <2>1 DEF MediaResetCount
    <3>2. ~ job'[t].fresh /\ job'[t].file = m
      BY <2>1, <3>1 DEF Job
    <3> QED BY <2>1, <3>2 DEF Holds
  <2>2. CASE ~ (job[t] # NoJob /\ job[t].file = m)
    <3>1. job'[t] = job[t]
      BY <2>2 DEF MediaResetCount
    <3> QED BY <2>2, <3>1 DEF Holds
  <2> QED BY <2>1, <2>2
<1> SUFFICES ASSUME NEW n \in Files PROVE SlotOK(n)'
  BY DEF SlotInv
<1>4. CASE n # m
  BY <1>1, <1>3, <1>4, SlotStands DEF SlotInv
<1>5. CASE n = m
  <2>1. Holders(m)' = {}
    BY <1>3 DEF Holders, Holds
  <2>2. Cardinality(Holders(m))' = 0
    BY <2>1, FS_EmptySet
  <2>3. file[m].limit \in Nat \cup {NoLimit}
    BY <1>1 DEF FileRow
  <2> QED BY <1>1, <1>5, <2>2, <2>3 DEF SlotOK
<1> QED BY <1>4, <1>5

\* Every step keeps the slots.
LEMMA StepKeepsSlots ==
  ASSUME IsFiniteSet(Sessions), DeliveryTInv, SlotInv, [DeliveryNext]_vars PROVE SlotInv'
<1>1. JobsOK /\ FilesOK /\ HistoryOK
  BY DEF DeliveryTInv
<1>2. ASSUME UNCHANGED <<job, file, slots>> PROVE SlotInv'
  <2> SUFFICES ASSUME NEW m \in Files PROVE SlotOK(m)'
    BY DEF SlotInv
  <2>1. \A t \in Sessions : Holds(t, m)' = Holds(t, m)
    BY <1>2 DEF Holds
  <2> QED BY <1>2, <2>1, SlotStands DEF SlotInv
<1>3. CASE UNCHANGED vars
  BY <1>2, <1>3 DEF vars, shopVars
<1>4. ASSUME NEW s \in Sessions, NEW u \in Users, NEW m \in Files, NEW ok \in BOOLEAN,
             Arrive(s, u, m, ok) \/ (BuyMedia(s, u, m) /\ RestUnchanged)
      PROVE  SlotInv'
  <2>1. job[s] = NoJob /\ job'[s].at \in {"arrived", "buying"}
        /\ \A t \in Sessions \ {s} : job'[t] = job[t]
    BY <1>1, <1>4 DEF Arrive, BuyMedia, JobsOK
  <2>2. UNCHANGED <<file, slots>>
    BY <1>4 DEF Arrive, BuyMedia, RestUnchanged
  <2> QED BY <1>1, <2>1, <2>2, UnclaimedStands DEF NoJob
<1>5. ASSUME NEW s \in Sessions, Ends(s) \/ Moves(s) \/ CheckStatus(s) \/ Claim(s)
      PROVE  SlotInv'
  <2>1. CASE Claim(s)
    <3>1. job[s].file \in Files
      BY <1>1, <2>1, BusyJob DEF Claim
    <3> QED BY <1>1, <2>1, <3>1, ClaimKeepsSlots
  <2>2. CASE SendSome(s) \/ SendNone(s) \/ Release(s)
               \/ (CrashJob(s) /\ job[s].at \in {"sending", "releasing"})
    <3>1. job[s].at \in {"sending", "releasing"} /\ (SendSome(s) \/ SendNone(s) \/ Release(s)
          \/ CrashJob(s))
      BY <2>2 DEF SendSome, SendNone, Release
    <3>2. job[s].file \in Files
      BY <1>1, <3>1, BusyJob
    <3> QED BY <1>1, <3>1, <3>2, HolderKeepsSlots
  <2>3. CASE ~ Claim(s) /\ ~ SendSome(s) /\ ~ SendNone(s) /\ ~ Release(s)
               /\ ~ (CrashJob(s) /\ job[s].at \in {"sending", "releasing"})
    <3>1. /\ job[s].at \notin {"sending", "releasing"} /\ UNCHANGED <<file, slots>>
      BY <1>5, <2>3 DEF Ends, Moves, CheckStatus, StatusRefused, Gated, ClaimRefused,
         LogDownloadFails, DropJob, CountDelivery, CrashJob, BuyNotForSale, BuyFileRefused,
         BuyFileFails, PassGates, LogDownload, BuyCheck, BuyFolded, BuyKey, BuyFileDebit,
         BuyFileCommit, BuyFileReceipt, RestUnchanged
    <3>2. \/ job' = [job EXCEPT ![s] = NoJob]
          \/ \E stage \in Stages \ {"sending", "releasing"} : JobAt(s, stage)
          \/ job' = [job EXCEPT ![s].at = "checked", ![s].row = Seen(s)]
      BY <1>5, <2>3 DEF Ends, Moves, CheckStatus, StatusRefused, Gated, ClaimRefused,
         LogDownloadFails, DropJob, CountDelivery, CrashJob, BuyNotForSale, BuyFileRefused,
         BuyFileFails, PassGates, LogDownload, BuyCheck, BuyFolded, BuyKey, BuyFileDebit,
         BuyFileCommit, BuyFileReceipt, EndJob, Stages
    <3>3. job[s].at # "idle" \/ job' = [job EXCEPT ![s] = NoJob]
      BY <1>5, <2>3 DEF Ends, Moves, CheckStatus, StatusRefused, Gated, ClaimRefused,
         LogDownloadFails, DropJob, CountDelivery, CrashJob, BuyNotForSale, BuyFileRefused,
         BuyFileFails, PassGates, LogDownload, BuyCheck, BuyFolded, BuyKey, BuyFileDebit,
         BuyFileCommit, BuyFileReceipt, EndJob
    <3>4. /\ job'[s].at \notin {"sending", "releasing"}
          /\ \A t \in Sessions \ {s} : job'[t] = job[t]
      <4>1. CASE job' = [job EXCEPT ![s] = NoJob]
        BY <1>1, <4>1 DEF JobsOK, NoJob
      <4>2. CASE job[s].at # "idle"
        BY <1>1, <3>2, <4>1, <4>2, BusyJob DEF JobsOK, JobAt, Job
      <4> QED BY <3>3, <4>1, <4>2
    <3> QED BY <1>1, <3>1, <3>4, UnclaimedStands
  <2> QED BY <2>1, <2>2, <2>3
<1>6. ASSUME NEW m \in Files, Edits(m) \/ MediaResetCount(m) PROVE SlotInv'
  BY <1>1, <1>6, EditKeepsSlots, ResetKeepsSlots
<1>7. ASSUME NEW s \in Sessions, ShopTopUpCommit(s) \/ \E u \in Users : ShopTopUp(s, u),
      RestUnchanged
      PROVE  SlotInv'
  BY <1>2, <1>7 DEF ShopTopUpCommit, ShopTopUp, shopVars, RestUnchanged
<1>8. ASSUME NEW u \in Users, NEW m \in Files, TapKeyExpires(u, m), RestUnchanged PROVE SlotInv'
  BY <1>2, <1>8 DEF TapKeyExpires, RestUnchanged
<1>9. ASSUME NewDay PROVE SlotInv'
  BY <1>2, <1>9 DEF NewDay, shopVars
<1> QED BY <1>3, <1>4, <1>5, <1>6, <1>7, <1>8, <1>9, StepCases

\* What is claimed of the slots holds in every reachable state.
LEMMA SlotInvariant == ASSUME IsFiniteSet(Sessions) PROVE DeliverySpec => []SlotInv
<1>1. DeliveryInit => SlotInv
  <2> SUFFICES ASSUME DeliveryInit, NEW m \in Files PROVE SlotOK(m)
    BY DEF SlotInv
  <2>1. Holders(m) = {}
    BY DEF DeliveryInit, ShopInit, Holders
  <2>2. Cardinality(Holders(m)) = 0
    BY <2>1, FS_EmptySet
  <2>3. /\ slots[m] = [given |-> 0, leaked |-> 0, stolen |-> 0, cap |-> file[m].limit]
        /\ file[m].count = 0 /\ file[m].limit \in Nat \cup {NoLimit}
    BY LimitsAssumption DEF DeliveryInit, ShopInit
  <2> QED BY <2>2, <2>3 DEF SlotOK
<1>2. DeliveryTInv /\ SlotInv /\ [DeliveryNext]_vars => SlotInv'
  BY StepKeepsSlots
<1> QED BY <1>1, <1>2, TInvariant, PTL DEF DeliverySpec

\* The download counter of a file says what became of its slots, whatever
\* claims, releases, resets, edits and crashes interleave (try_claim_download).
THEOREM SlotsAlwaysConserved ==
  ASSUME IsFiniteSet(Sessions) PROVE DeliverySpec => []SlotsConserved
<1>1. SlotInv => SlotsConserved
  BY DEF SlotInv, SlotOK, SlotsConserved
<1> QED BY <1>1, SlotInvariant, PTL

\* No more slots are given out than the highest limit since the last reset, and
\* those released by deliveries from before it (try_claim_download).
THEOREM NeverOverDelivered ==
  ASSUME IsFiniteSet(Sessions) PROVE DeliverySpec => []NoOverDelivery
<1>1. SlotInv => NoOverDelivery
  BY DEF SlotInv, SlotOK, NoOverDelivery
<1> QED BY <1>1, SlotInvariant, PTL

-----------------------------------------------------------------------------
(* The daily quota. *)

PastGates == {"claiming", "sending", "logging", "releasing", "counting"}

\* The updates of a user past the gate that reads the quota, and not yet counted.
Past(u) == {s \in Sessions : job[s].at \in PastGates /\ job[s].user = u}

\* The gate reads the quota; what passed it since and what is counted stay below
\* the quota, the sessions and the unanswered gates together.
QuotaInv ==
  Quota > 0 => \A u \in FreeUsers \ Admins :
                  used[u] + Cardinality(Past(u)) < Quota + Cardinality(Preloading) + blind[u]

\* Updates past the gate are finitely many, each in a session of its own.
LEMMA PastIsFinite ==
  ASSUME IsFiniteSet(Sessions), JobsOK, NEW u \in Users
  PROVE  /\ IsFiniteSet(Past(u)) /\ Cardinality(Past(u)) \in Nat
         /\ Past(u) \subseteq Preloading
         /\ Cardinality(Preloading) \in Nat /\ Cardinality(Past(u)) <= Cardinality(Preloading)
<1>1. Past(u) \subseteq Preloading
  BY BusyJob DEF Past, PastGates
<1>2. IsFiniteSet(Preloading)
  BY PreloadingAssumption, FS_Subset
<1> QED BY <1>1, <1>2, FS_Subset, FS_CardinalityType

\* The count of unanswered gates is a number.
LEMMA BlindIsNat == ASSUME HistoryOK, NEW u \in Users PROVE blind[u] \in Nat
BY MaxBlindAssumption DEF HistoryOK

\* A step that counts nothing and takes nobody past the gate.
LEMMA QuotaStands ==
  ASSUME IsFiniteSet(Sessions), JobsOK, JobsOK', HistoryOK, QuotaInv, used' = used,
         blind' = blind, \A u \in Users : Past(u)' \subseteq Past(u)
  PROVE  QuotaInv'
<1> SUFFICES ASSUME Quota > 0, NEW u \in FreeUsers \ Admins
             PROVE  used'[u] + Cardinality(Past(u))' < Quota + Cardinality(Preloading) + blind'[u]
  BY DEF QuotaInv
<1>1. /\ u \in Users /\ used[u] \in Nat /\ used'[u] = used[u]
      /\ blind[u] \in Nat /\ blind'[u] = blind[u]
  BY FreeUsersAssumption, BlindIsNat DEF HistoryOK
<1>2. /\ Cardinality(Past(u)) \in Nat /\ Cardinality(Past(u))' \in Nat
      /\ Cardinality(Past(u)') <= Cardinality(Past(u))
  BY <1>1, PastIsFinite, FS_Subset, FS_CardinalityType
<1>3. used[u] + Cardinality(Past(u)) < Quota + Cardinality(Preloading) + blind[u]
  BY DEF QuotaInv
<1>4. Cardinality(Preloading) \in Nat
  BY <1>1, PastIsFinite
<1> QED BY <1>1, <1>2, <1>3, <1>4, QuotaAssumption

\* One session's update goes on, or ends, without passing the gate.
LEMMA ShrinkingPast ==
  ASSUME JobsOK, NEW s \in Sessions, \A t \in Sessions \ {s} : job'[t] = job[t],
         \/ job'[s].at \notin PastGates
         \/ job[s].at \in PastGates /\ job'[s].user = job[s].user
  PROVE  \A u \in Users : Past(u)' \subseteq Past(u)
<1> SUFFICES ASSUME NEW u \in Users, NEW t \in Past(u)' PROVE t \in Past(u)
  OBVIOUS
<1>1. t \in Sessions /\ job'[t].at \in PastGates /\ job'[t].user = u
  BY DEF Past
<1> QED BY <1>1 DEF Past

\* check_access: the quota was not used up when the update passed.
LEMMA GateKeepsQuota ==
  ASSUME IsFiniteSet(Sessions), JobsOK, HistoryOK, QuotaInv, NEW s \in Sessions, PassGates(s)
  PROVE  QuotaInv'
<1>1. /\ job[s].at = "checked" /\ job[s].user \in Users /\ job[s] \in Job
      /\ s \in Preloading
  BY BusyJob DEF PassGates
<1>2. /\ job'[s] = [job[s] EXCEPT !.at = "claiming"] /\ used' = used
      /\ \A t \in Sessions \ {s} : job'[t] = job[t]
  BY DEF PassGates, JobAt, JobsOK
<1>3. job'[s].at = "claiming" /\ job'[s].user = job[s].user
  BY <1>1, <1>2 DEF Job
<1> SUFFICES ASSUME Quota > 0, NEW u \in FreeUsers \ Admins
             PROVE  used'[u] + Cardinality(Past(u))' < Quota + Cardinality(Preloading) + blind'[u]
  BY DEF QuotaInv
<1>4. u \in Users /\ used[u] \in Nat /\ used'[u] = used[u] /\ blind[u] \in Nat
  BY <1>2, FreeUsersAssumption, BlindIsNat DEF HistoryOK
<1>5. /\ IsFiniteSet(Past(u)) /\ Cardinality(Past(u)) \in Nat /\ Cardinality(Preloading) \in Nat
      /\ Past(u) \subseteq Preloading
  BY <1>4, PastIsFinite
<1>6. CASE job[s].user # u
  <2>1. Past(u)' = Past(u)
    BY <1>1, <1>2, <1>3, <1>6 DEF Past, PastGates
  <2>2. blind'[u] = blind[u]
    BY <1>1, <1>4, <1>6, PassGatesBlind
  <2> QED BY <1>4, <2>1, <2>2 DEF QuotaInv
<1>7. CASE job[s].user = u
  <2>1. Past(u)' = Past(u) \cup {s} /\ s \notin Past(u)
    BY <1>1, <1>2, <1>3, <1>7 DEF Past, PastGates
  <2>2. Cardinality(Past(u)') = Cardinality(Past(u)) + 1
    BY <1>5, <2>1, FS_AddElement
  <2>3. Cardinality(Past(u)') <= Cardinality(Preloading)
    BY <1>1, <1>5, <2>1, PreloadingAssumption, FS_Subset
  <2>4. CASE blind' = blind /\ (u \in Admins \/ WithinQuota(u))
    <3>1. used[u] < Quota
      BY <1>4, <2>4 DEF WithinQuota
    <3> QED BY <1>4, <1>5, <2>2, <2>3, <2>4, <3>1, QuotaAssumption
  <2>5. CASE blind'[u] = blind[u] + 1
    <3>1. used[u] + Cardinality(Past(u)) < Quota + Cardinality(Preloading) + blind[u]
      BY DEF QuotaInv
    <3> QED BY <1>4, <1>5, <2>2, <2>5, <3>1, QuotaAssumption
  <2> QED BY <1>1, <1>7, <2>4, <2>5, PassGatesBlind
<1> QED BY <1>6, <1>7

\* count_delivery: the update that is counted is no longer past the gate.
LEMMA CountKeepsQuota ==
  ASSUME IsFiniteSet(Sessions), JobsOK, HistoryOK, QuotaInv, NEW s \in Sessions, CountDelivery(s)
  PROVE  QuotaInv'
<1>1. job[s].at = "counting" /\ job[s].user \in Users /\ job[s] \in Job
  BY BusyJob DEF CountDelivery
<1>2. job'[s] = NoJob /\ \A t \in Sessions \ {s} : job'[t] = job[t]
  BY DEF CountDelivery, EndJob, JobsOK
<1> SUFFICES ASSUME Quota > 0, NEW u \in FreeUsers \ Admins
             PROVE  used'[u] + Cardinality(Past(u))' < Quota + Cardinality(Preloading) + blind'[u]
  BY DEF QuotaInv
<1>3. u \in Users /\ used[u] \in Nat /\ blind[u] \in Nat /\ blind'[u] = blind[u]
  BY FreeUsersAssumption, BlindIsNat DEF HistoryOK, CountDelivery
<1>4. IsFiniteSet(Past(u)) /\ Cardinality(Past(u)) \in Nat /\ Cardinality(Preloading) \in Nat
  BY <1>3, PastIsFinite
<1>5. used[u] + Cardinality(Past(u)) < Quota + Cardinality(Preloading) + blind[u]
  BY DEF QuotaInv
<1>6. CASE job[s].user # u
  <2>1. Past(u)' = Past(u)
    BY <1>1, <1>2, <1>6 DEF Past, PastGates, NoJob
  <2>2. used'[u] = used[u]
    BY <1>3, <1>6 DEF CountDelivery, HistoryOK
  <2> QED BY <1>3, <1>5, <2>1, <2>2
<1>7. CASE job[s].user = u
  <2>1. Past(u)' = Past(u) \ {s} /\ s \in Past(u)
    BY <1>1, <1>2, <1>7 DEF Past, PastGates, NoJob
  <2>2. Cardinality(Past(u)') = Cardinality(Past(u)) - 1
    BY <1>4, <2>1, FS_RemoveElement
  <2>3. used'[u] \in {used[u], used[u] + 1}
    BY <1>3, <1>7 DEF CountDelivery, HistoryOK
  <2> QED BY <1>3, <1>4, <1>5, <2>2, <2>3, QuotaAssumption
<1> QED BY <1>6, <1>7

\* Midnight: only what is past the gate remains (rate_limit.py).
LEMMA NewDayKeepsQuota ==
  ASSUME IsFiniteSet(Sessions), JobsOK, NewDay PROVE QuotaInv'
<1> SUFFICES ASSUME Quota > 0, NEW u \in FreeUsers \ Admins
             PROVE  used'[u] + Cardinality(Past(u))' < Quota + Cardinality(Preloading) + blind'[u]
  BY DEF QuotaInv
<1>1. u \in Users /\ used'[u] = 0 /\ blind'[u] = 0
  BY FreeUsersAssumption DEF NewDay
<1>2. Past(u)' = Past(u)
  BY DEF NewDay, shopVars, Past
<1>3. Cardinality(Past(u)) \in Nat /\ Cardinality(Preloading) \in Nat
      /\ Cardinality(Past(u)) <= Cardinality(Preloading)
  BY <1>1, PastIsFinite
<1> QED BY <1>1, <1>2, <1>3, QuotaAssumption

\* Every step keeps the bound.
LEMMA StepKeepsQuota ==
  ASSUME IsFiniteSet(Sessions), DeliveryTInv, DeliveryTInv', QuotaInv, [DeliveryNext]_vars
  PROVE  QuotaInv'
<1>1. JobsOK /\ JobsOK' /\ HistoryOK
  BY DEF DeliveryTInv
<1>2. ASSUME UNCHANGED <<job, used, blind>> PROVE QuotaInv'
  <2>1. \A u \in Users : Past(u)' \subseteq Past(u)
    BY <1>2 DEF Past
  <2> QED BY <1>1, <1>2, <2>1, QuotaStands
<1>3. ASSUME NEW s \in Sessions, used' = used, blind' = blind, \A t \in Sessions \ {s} : job'[t] = job[t],
             \/ job'[s].at \notin PastGates
             \/ job[s].at \in PastGates /\ job'[s].user = job[s].user
      PROVE  QuotaInv'
  <2>1. \A u \in Users : Past(u)' \subseteq Past(u)
    BY <1>1, <1>3, ShrinkingPast
  <2> QED BY <1>1, <1>3, <2>1, QuotaStands
<1>4. CASE UNCHANGED vars
  BY <1>2, <1>4 DEF vars, shopVars
<1>5. ASSUME NEW s \in Sessions, NEW u \in Users, NEW m \in Files, NEW ok \in BOOLEAN,
             Arrive(s, u, m, ok) \/ (BuyMedia(s, u, m) /\ RestUnchanged)
      PROVE  QuotaInv'
  <2>1. job'[s].at \in {"arrived", "buying"} /\ used' = used /\ blind' = blind
        /\ \A t \in Sessions \ {s} : job'[t] = job[t]
    BY <1>1, <1>5 DEF Arrive, BuyMedia, JobsOK, RestUnchanged
  <2> QED BY <1>3, <2>1 DEF PastGates
<1>6. ASSUME NEW s \in Sessions, Ends(s), ~ CountDelivery(s) PROVE QuotaInv'
  <2>1. job' = [job EXCEPT ![s] = NoJob] /\ used' = used /\ blind' = blind
    BY <1>6 DEF Ends, StatusRefused, Gated, ClaimRefused, LogDownloadFails, DropJob, Release,
       CrashJob, BuyNotForSale, BuyFileRefused, BuyFileFails, EndJob, RestUnchanged
  <2>2. job'[s].at \notin PastGates /\ \A t \in Sessions \ {s} : job'[t] = job[t]
    BY <1>1, <2>1 DEF JobsOK, NoJob, PastGates
  <2> QED BY <1>3, <2>1, <2>2
<1>7. ASSUME NEW s \in Sessions, ~ PassGates(s), Moves(s) \/ CheckStatus(s) \/ Claim(s)
      PROVE  QuotaInv'
  <2>1. used' = used /\ blind' = blind /\ job[s].at # "idle"
    BY <1>7 DEF Moves, CheckStatus, Claim, SendSome, SendNone, LogDownload, BuyCheck, BuyFolded,
       BuyKey, BuyFileDebit, BuyFileCommit, BuyFileReceipt, RestUnchanged
  <2>2. job[s] \in Job /\ job[s].at \in Stages
    BY <1>1, <2>1, BusyJob
  <2>3. CASE CheckStatus(s)
    BY <1>1, <1>3, <2>1, <2>2, <2>3 DEF CheckStatus, JobsOK, Job, PastGates
  <2>4. CASE Claim(s)
    BY <1>1, <1>3, <2>1, <2>2, <2>4 DEF Claim, JobsOK, Job, PastGates
  <2>5. ASSUME NEW stage, JobAt(s, stage),
               job[s].at \in PastGates \/ stage \notin PastGates
        PROVE  QuotaInv'
    BY <1>1, <1>3, <2>1, <2>2, <2>5 DEF JobAt, JobsOK, Job
  <2>6. CASE SendSome(s) \/ SendNone(s) \/ LogDownload(s)
    <3>1. job[s].at \in PastGates
      BY <2>6 DEF SendSome, SendNone, LogDownload, PastGates
    <3>2. JobAt(s, "logging") \/ JobAt(s, "releasing") \/ JobAt(s, "counting")
      BY <2>6 DEF SendSome, SendNone, LogDownload
    <3> HIDE DEF PastGates
    <3> QED BY <2>5, <3>1, <3>2
  <2>7. CASE BuyCheck(s) \/ BuyFolded(s) \/ BuyKey(s) \/ BuyFileDebit(s) \/ BuyFileCommit(s)
             \/ BuyFileReceipt(s)
    <3>1. PICK stage \in {"arrived", "unowned", "locked", "debited", "paid"} : JobAt(s, stage)
      BY <2>7 DEF BuyCheck, BuyFolded, BuyKey, BuyFileDebit, BuyFileCommit, BuyFileReceipt
    <3>2. stage \notin PastGates
      BY DEF PastGates
    <3> QED BY <2>5, <3>1, <3>2
  <2> QED BY <1>7, <2>3, <2>4, <2>6, <2>7 DEF Moves
<1>8. ASSUME NEW m \in Files, Edits(m) PROVE QuotaInv'
  BY <1>2, <1>8 DEF Edits, InputLimit, CbMediaToggleActive, InputMediaPassword, CbMediaDelete,
     MediaEdit, MediaToggle, MediaPassword, MediaDelete, OwnedUpdate, Edited
<1>9. ASSUME NEW m \in Files, MediaResetCount(m) PROVE QuotaInv'
  <2>1. \A t \in Sessions : job'[t].at = job[t].at
                           /\ (job[t] # NoJob => job'[t].user = job[t].user)
    BY <1>1, <1>9 DEF MediaResetCount, JobsOK, Job
  <2>2. \A u \in Users : Past(u)' \subseteq Past(u)
    BY <2>1 DEF Past, PastGates, NoJob
  <2> QED BY <1>1, <1>9, <2>2, QuotaStands DEF MediaResetCount
<1>10. ASSUME NEW s \in Sessions, ShopTopUpCommit(s) \/ \E u \in Users : ShopTopUp(s, u),
      RestUnchanged
       PROVE  QuotaInv'
  BY <1>2, <1>10 DEF ShopTopUpCommit, ShopTopUp, shopVars, RestUnchanged
<1>11. ASSUME NEW u \in Users, NEW m \in Files, TapKeyExpires(u, m), RestUnchanged PROVE QuotaInv'
  BY <1>2, <1>11 DEF TapKeyExpires, RestUnchanged
<1>12. ASSUME NEW s \in Sessions, Ends(s) \/ Moves(s) \/ CheckStatus(s) \/ Claim(s)
       PROVE  QuotaInv'
  BY <1>1, <1>6, <1>7, <1>12, CountKeepsQuota, GateKeepsQuota
<1> QED BY <1>1, <1>4, <1>5, <1>8, <1>9, <1>10, <1>11, <1>12, NewDayKeepsQuota, StepCases

\* The quota gate and the counter after the delivery (check_access,
\* count_delivery): what is under way together, and what passed while Redis did
\* not answer the gate, is all that overruns the quota.
THEOREM QuotaOvershootAlwaysBounded ==
  ASSUME IsFiniteSet(Sessions) PROVE DeliverySpec => []QuotaOvershootBounded
<1>1. DeliveryInit => QuotaInv
  <2> SUFFICES ASSUME DeliveryInit, Quota > 0, NEW u \in FreeUsers \ Admins
               PROVE  used[u] + Cardinality(Past(u)) < Quota + Cardinality(Preloading) + blind[u]
    BY DEF QuotaInv
  <2>1. Past(u) = {}
    BY DEF DeliveryInit, ShopInit, Past, PastGates, NoJob
  <2>2. Cardinality(Past(u)) = 0
    BY <2>1, FS_EmptySet
  <2>3. Cardinality(Preloading) \in Nat
    BY PreloadingAssumption, FS_Subset, FS_CardinalityType
  <2>4. used[u] = 0 /\ blind[u] = 0
    BY FreeUsersAssumption DEF DeliveryInit
  <2> QED BY <2>2, <2>3, <2>4, QuotaAssumption
<1>2. DeliveryTInv /\ DeliveryTInv' /\ QuotaInv /\ [DeliveryNext]_vars => QuotaInv'
  BY StepKeepsQuota
<1>3. DeliveryTInv /\ QuotaInv => QuotaOvershootBounded
  <2> SUFFICES ASSUME DeliveryTInv, QuotaInv, Quota > 0, NEW u \in FreeUsers \ Admins
               PROVE  used[u] < Quota + Cardinality(Preloading) + blind[u]
    BY DEF QuotaOvershootBounded
  <2>1. u \in Users /\ used[u] \in Nat /\ blind[u] \in Nat /\ JobsOK
    BY FreeUsersAssumption, BlindIsNat DEF DeliveryTInv, HistoryOK
  <2>2. Cardinality(Past(u)) \in Nat /\ Cardinality(Preloading) \in Nat
    BY <2>1, PastIsFinite
  <2> QED BY <2>1, <2>2, QuotaAssumption DEF QuotaInv
<1> QED BY <1>1, <1>2, <1>3, TInvariant, PTL DEF DeliverySpec
=============================================================================
