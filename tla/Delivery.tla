----------------------------- MODULE Delivery ------------------------------
(***************************************************************************)
(* Delivering a file by its code (deliver_by_code, src/app/bot/delivery.py)*)
(* to users who open a link, join a channel, type a password or have just  *)
(* bought it, while owners and the panel edit the same row.                *)
(*                                                                         *)
(* The row in the session's identity map is the one it read first: the     *)
(* gates test that copy.  Only the conditional UPDATE of the claim, and    *)
(* the release, see the committed row.                                     *)
(***************************************************************************)
EXTENDS Paywall, FiniteSets

CONSTANTS FreeUsers,  \* the users whose effective plan is free
          Admins,     \* the admins and env owners of the bot
          Quota,      \* free_daily_quota, 0 for none
          MaxEdits,   \* bound: edits of media rows
          MaxBlind    \* bound: quota gates per user and day that Redis did not answer

ASSUME FreeUsersAssumption == FreeUsers \subseteq Users
ASSUME AdminsAssumption == Admins \subseteq Users
ASSUME QuotaAssumption == Quota \in Nat
ASSUME MaxEditsAssumption == MaxEdits \in Nat
ASSUME MaxBlindAssumption == MaxBlind \in Nat

VARIABLES used,     \* [Users -> Nat]: the daily quota counter in Redis
          blind,    \* history: [Users -> Nat], today's updates that passed a
                    \* used-up quota because Redis did not answer
          edits,    \* how many edits there were
          slots     \* history: [Files -> what became of the claims since the
                    \* counter was last reset, see Slots]

vars == <<walletVars, shopVars, used, blind, edits, slots>>

\* given: deliveries; leaked: claims whose session died; stolen: slots that were
\* released although their claim is older than the reset (negative: kept although
\* released); cap: the highest limit since the reset.
Slots == [given : Nat, leaked : Nat, stolen : Int, cap : Nat \cup {NoLimit}]

DeliveryTypeOK ==
  /\ ShopTypeOK
  /\ used \in [Users -> Nat]
  /\ blind \in [Users -> 0..MaxBlind]
  /\ edits \in 0..MaxEdits
  /\ slots \in [Files -> Slots]

DeliveryInit ==
  /\ ShopInit
  /\ used = [u \in Users |-> 0]
  /\ blind = [u \in Users |-> 0]
  /\ edits = 0
  /\ slots = [m \in Files |-> [given |-> 0, leaked |-> 0, stolen |-> 0, cap |-> file[m].limit]]

-----------------------------------------------------------------------------
(* The updates that deliver. *)

Arrive(s, u, m, ok) ==
  /\ job[s] = NoJob /\ op[s] = NoWrite
  /\ s \in Preloading
  /\ job' = [job EXCEPT ![s] = [at |-> "arrived", user |-> u, file |-> m, row |-> Unread,
                                verified |-> ok, fresh |-> TRUE]]
  /\ UNCHANGED <<walletVars, file, entitled, tapKey, charges, used, blind, edits, slots>>

\* /start with a code.
StartWithCode(s, u, m) == Arrive(s, u, m, FALSE)

\* The recheck button under the force-join gate starts all over.
JoinRecheck(s, u, m) == Arrive(s, u, m, FALSE)

\* The right password was typed for a file that has one; a file that lost its
\* password meanwhile is delivered like any other.
InputDeliveryPassword(s, u, m) == file[m].password /\ Arrive(s, u, m, TRUE)

\* The copy the session tests.
Seen(s) == IF job[s].row = Unread THEN file[job[s].file] ELSE job[s].row

IsFull(row) == row.limit # NoLimit /\ row.count >= row.limit

IsLive(row) == row.status = "approved" /\ row.active

DropJob(s) ==
  /\ EndJob(s)
  /\ UNCHANGED <<file, entitled, tapKey, charges, used, blind, edits, slots>>

\* check_status, without a claim: NOT_FOUND, INACTIVE or LIMIT_REACHED end it.
CheckStatus(s) ==
  /\ job[s].at = "arrived"
  /\ file[job[s].file].status # "gone"
  /\ IsLive(Seen(s)) /\ ~ IsFull(Seen(s))
  /\ job' = [job EXCEPT ![s].at = "checked", ![s].row = Seen(s)]
  /\ UNCHANGED <<walletVars, file, entitled, tapKey, charges, used, blind, edits, slots>>

StatusRefused(s) ==
  /\ job[s].at = "arrived"
  /\ file[job[s].file].status = "gone" \/ ~ IsLive(Seen(s)) \/ IsFull(Seen(s))
  /\ DropJob(s)

\* has_entitlement, asked only when a price is set and the user is not the owner.
MayRead(s) ==
  \/ job[s].row.price = 0
  \/ FileOwner[job[s].file] = job[s].user
  \/ Want(s) \in entitled

WithinQuota_OffByOne(u) == Quota = 0 \/ u \notin FreeUsers \/ used[u] <= Quota \* mutant
WithinQuota(u) == Quota = 0 \/ u \notin FreeUsers \/ used[u] < Quota

\* The counter counts as 0 when Redis does not answer: the quota is soft.
QuotaGate(u) ==
  \/ WithinQuota(u) /\ UNCHANGED blind
  \/ /\ RedisDown /\ ~ WithinQuota(u)
     /\ blind[u] < MaxBlind
     /\ blind' = [blind EXCEPT ![u] = @ + 1]

\* check_access: admins pass; others need the plan, the unlock, the quota.
MayAccess(s) ==
  \/ job[s].user \in Admins /\ UNCHANGED blind
  \/ /\ job[s].row.plus => job[s].user \notin FreeUsers
     /\ MayRead(s)
     /\ QuotaGate(job[s].user)

PasswordGiven(s) == job[s].row.password => job[s].verified

\* The gates, without a claim: block list, channels, password, paywall.
PassGates(s) ==
  /\ job[s].at = "checked"
  /\ PasswordGiven(s) /\ MayAccess(s)
  /\ JobAt(s, "claiming")
  /\ UNCHANGED <<walletVars, file, entitled, tapKey, charges, used, edits, slots>>

\* A gate refuses.  Any session may meet the block list or a channel its user
\* has not joined (channels and memberships are not modelled here).
Gated(s) == job[s].at = "checked" /\ DropJob(s)

\* Mutant: the claim tests the copy that was read before.
Claimable_Copy(s) == IsLive(job[s].row) /\ ~ IsFull(job[s].row)

\* The WHERE of the claim, on the committed row.
Claimable(s) == IsLive(file[job[s].file]) /\ ~ IsFull(file[job[s].file])

\* try_claim_download: one conditional UPDATE takes the slot.
Claim(s) ==
  /\ job[s].at = "claiming"
  /\ Claimable(s)
  /\ file' = [file EXCEPT ![job[s].file].count = @ + 1]
  /\ job' = [job EXCEPT ![s].at = "sending", ![s].fresh = TRUE]
  /\ UNCHANGED <<walletVars, entitled, tapKey, charges, used, blind, edits, slots>>

\* No row came back: answered as LIMIT_REACHED whatever the reason.
ClaimRefused(s) == job[s].at = "claiming" /\ ~ Claimable(s) /\ DropJob(s)

\* At least one file of the item reached the chat.
SendSome(s) ==
  /\ job[s].at = "sending"
  /\ JobAt(s, "logging")
  /\ slots' = [slots EXCEPT ![job[s].file].given = IF job[s].fresh THEN @ + 1 ELSE @]
  /\ UNCHANGED <<walletVars, file, entitled, tapKey, charges, used, blind, edits>>

\* Every send failed.
SendNone(s) ==
  /\ job[s].at = "sending"
  /\ JobAt(s, "releasing")
  /\ UNCHANGED <<walletVars, file, entitled, tapKey, charges, used, blind, edits, slots>>

\* Mutant: a failed delivery keeps its slot.
Release_Forgotten(s) == job[s].at = "releasing" /\ DropJob(s)

\* release_download: the counter goes down if it is positive, whoever filled it.
Release(s) ==
  LET m == job[s].file
      freed == IF file[m].status # "gone" /\ file[m].count > 0 THEN 1 ELSE 0
      owed == IF job[s].fresh THEN 1 ELSE 0
  IN /\ job[s].at = "releasing"
     /\ file' = [file EXCEPT ![m].count = @ - freed]
     /\ slots' = [slots EXCEPT ![m].stolen = @ + freed - owed]
     /\ EndJob(s)
     /\ UNCHANGED <<entitled, tapKey, charges, used, blind, edits>>

\* log_download inserts a row that refers to the file.
LogDownload(s) ==
  /\ job[s].at = "logging"
  /\ file[job[s].file].status # "gone"
  /\ JobAt(s, "counting")
  /\ UNCHANGED <<walletVars, file, entitled, tapKey, charges, used, blind, edits, slots>>

\* The file was deleted meanwhile: the insert fails and the update with it,
\* before the quota is counted and the deletion scheduled.
LogDownloadFails(s) ==
  /\ job[s].at = "logging"
  /\ file[job[s].file].status = "gone"
  /\ DropJob(s)

\* count_delivery; then the deletion is scheduled (see AutoDelete).
CountDelivery(s) ==
  LET counted == job[s].user \in FreeUsers /\ Quota > 0
  IN /\ job[s].at = "counting"
     /\ \/ used' = [used EXCEPT ![job[s].user] = IF counted THEN @ + 1 ELSE @]
        \/ RedisDown /\ UNCHANGED used
     /\ EndJob(s)
     /\ UNCHANGED <<file, entitled, tapKey, charges, blind, edits, slots>>

\* The process dies, or the handler raises: a claim is not given back.
CrashJob(s) ==
  /\ job[s] # NoJob
  /\ slots' = IF job[s].at \in {"sending", "releasing"} /\ job[s].fresh
              THEN [slots EXCEPT ![job[s].file].leaked = @ + 1] ELSE slots
  /\ EndJob(s)
  /\ UNCHANGED <<file, entitled, tapKey, charges, used, blind, edits>>

-----------------------------------------------------------------------------
(* Edits: by the owner of the file in the bot, by its menu and its forms, and *)
(* by the panel on any file.  Each writes its own columns of the row.         *)

Edited(m, row) ==
  /\ edits < MaxEdits
  /\ file[m].status # "gone"
  /\ edits' = edits + 1
  /\ file' = [file EXCEPT ![m] = row]
  /\ UNCHANGED <<walletVars, tapKey, charges, job, used, blind>>

\* _owned_update: the WHERE names the owner.
OwnedUpdate(m, row) == FileOwner[m] # Nobody /\ Edited(m, row)

RaisedCap(m, l) ==
  LET old == slots[m].cap IN
  IF old = NoLimit \/ (l # NoLimit /\ l <= old) THEN old ELSE l

NewLimit(m, l) ==
  /\ l # file[m].limit
  /\ slots' = [slots EXCEPT ![m].cap = RaisedCap(m, l)]
  /\ UNCHANGED entitled

\* input_limit: 0 clears the limit.
InputLimit(m) ==
  \E l \in Limits : NewLimit(m, l) /\ OwnedUpdate(m, [file[m] EXCEPT !.limit = l])

\* cb_media, toggle_active.
CbMediaToggleActive(m) ==
  OwnedUpdate(m, [file[m] EXCEPT !.active = ~ @]) /\ UNCHANGED <<entitled, slots>>

\* input_media_password: set, or cleared by a dash.
InputMediaPassword(m) ==
  OwnedUpdate(m, [file[m] EXCEPT !.password = ~ @]) /\ UNCHANGED <<entitled, slots>>

\* The unlock rows go with the file.
RowDeleted(m) ==
  /\ entitled' = {x \in entitled : x[2] # m}
  /\ UNCHANGED slots

\* cb_media, delok.
CbMediaDelete(m) == OwnedUpdate(m, [file[m] EXCEPT !.status = "gone"]) /\ RowDeleted(m)

\* The panel's edit form writes the columns that changed; a form that changes
\* several is as good as several forms.
MediaEdit(m) ==
  \/ \E l \in Limits : NewLimit(m, l) /\ Edited(m, [file[m] EXCEPT !.limit = l])
  \/ /\ \/ \E p \in Prices \ {file[m].price} : Edited(m, [file[m] EXCEPT !.price = p])
        \/ \E st \in {"approved", "rejected"} \ {file[m].status} :
              Edited(m, [file[m] EXCEPT !.status = st])
        \/ Edited(m, [file[m] EXCEPT !.plus = ~ @])
     /\ UNCHANGED <<entitled, slots>>

MediaToggle(m) ==
  Edited(m, [file[m] EXCEPT !.active = ~ @]) /\ UNCHANGED <<entitled, slots>>

MediaPassword(m) ==
  Edited(m, [file[m] EXCEPT !.password = ~ @]) /\ UNCHANGED <<entitled, slots>>

MediaDelete(m) == Edited(m, [file[m] EXCEPT !.status = "gone"]) /\ RowDeleted(m)

\* media_reset_count: from here the slots are counted afresh.
MediaResetCount(m) ==
  /\ edits < MaxEdits
  /\ file[m].status # "gone"
  /\ edits' = edits + 1
  /\ file' = [file EXCEPT ![m].count = 0]
  /\ slots' = [slots EXCEPT ![m] = [given |-> 0, leaked |-> 0, stolen |-> 0,
                                    cap |-> file[m].limit]]
  /\ job' = [s \in Sessions |-> IF job[s] # NoJob /\ job[s].file = m
                                THEN [job[s] EXCEPT !.fresh = FALSE] ELSE job[s]]
  /\ UNCHANGED <<walletVars, entitled, tapKey, charges, used, blind>>

\* Midnight: the quota counter's key carries the date.
NewDay ==
  /\ \E u \in Users : used[u] > 0
  /\ used' = [u \in Users |-> 0]
  /\ blind' = [u \in Users |-> 0]
  /\ UNCHANGED <<walletVars, shopVars, edits, slots>>

-----------------------------------------------------------------------------
DeliverStep(s) ==
  \/ CheckStatus(s) \/ StatusRefused(s) \/ PassGates(s) \/ Gated(s)
  \/ Claim(s) \/ ClaimRefused(s) \/ SendSome(s) \/ SendNone(s) \/ Release(s)
  \/ LogDownload(s) \/ LogDownloadFails(s) \/ CountDelivery(s)

RestUnchanged == UNCHANGED <<used, blind, edits, slots>>

\* The step of an update, or the commit of a deposit.
UpdateStep(s) ==
  \/ DeliverStep(s)
  \/ (BuyStep(s) \/ ShopTopUpCommit(s)) /\ RestUnchanged

DeliveryNext ==
  \/ \E s \in Sessions :
        \/ \E u \in Customers, m \in Files :
              \/ StartWithCode(s, u, m)
              \/ JoinRecheck(s, u, m)
              \/ InputDeliveryPassword(s, u, m)
              \/ BuyMedia(s, u, m) /\ RestUnchanged
        \/ UpdateStep(s)
        \/ CrashJob(s)
        \/ \E u \in Customers : ShopTopUp(s, u) /\ RestUnchanged
  \/ \E u \in Users, m \in Files : TapKeyExpires(u, m) /\ RestUnchanged
  \/ \E m \in Files :
        \/ InputLimit(m) \/ CbMediaToggleActive(m) \/ InputMediaPassword(m) \/ CbMediaDelete(m)
        \/ MediaEdit(m) \/ MediaToggle(m) \/ MediaPassword(m) \/ MediaDelete(m)
        \/ MediaResetCount(m)
  \/ NewDay

DeliverySpec == DeliveryInit /\ [][DeliveryNext]_vars

-----------------------------------------------------------------------------
\* The claims of m under way that are newer than the last reset.
Holders(m) ==
  {s \in Sessions : job[s] # NoJob /\ job[s].file = m /\ job[s].fresh
                    /\ job[s].at \in {"sending", "releasing"}}

\* The counter of a file says what became of its slots: each is delivered, held
\* by a delivery under way, or leaked by a crash, whatever claims, releases,
\* resets and edits interleave.  The one thing that shifts it is a release by a
\* delivery that claimed before the last reset (stolen).
SlotsConserved ==
  \A m \in Files :
     file[m].status # "gone" =>
       file[m].count + slots[m].stolen
         = slots[m].given + slots[m].leaked + Cardinality(Holders(m))

\* Concurrent claims never exceed the download limit: since the last reset no
\* more slots were given out than the highest limit set meanwhile, plus those
\* that deliveries from before the reset released.
NoOverDelivery ==
  \A m \in Files :
     slots[m].cap # NoLimit =>
       slots[m].given + Cardinality(Holders(m)) <= slots[m].cap + slots[m].stolen

\* The quota is read at the gate and counted after the delivery.  It is overrun
\* by the deliveries that were under way together, by those that passed while
\* Redis did not answer the gate, and by no more.
QuotaOvershootBounded ==
  Quota > 0 => \A u \in FreeUsers \ Admins :
                  used[u] < Quota + Cardinality(Preloading) + blind[u]

=============================================================================
