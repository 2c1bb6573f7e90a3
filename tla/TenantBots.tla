----------------------------- MODULE TenantBots -----------------------------
(***************************************************************************)
(* Customers' bots: bought from the wallet                                 *)
(* (src/app/services/bot_creation_service.py), served by the API's         *)
(* in-memory registry (src/app/bot/registry.py,                            *)
(* src/app/api/routes/tenant_webhook.py), suspended, re-activated and      *)
(* extended by the platform's panel (src/app/panel/routes/superadmin.py),  *)
(* and suspended when the rental expires by the worker, another process    *)
(* (process_tenant_expiry, src/app/workers/main.py).                       *)
(***************************************************************************)
EXTENDS Naturals, FiniteSets

CONSTANTS Bots,      \* the bots of the customers, by bot_id
          Buyers,    \* updates that submit a bot's token
          Owners,    \* the customers
          MaxRequests, \* bound: requests that apply a tenant's status at a time
          MaxTenantTrouble \* bound: deaths, restarts and refusals of Telegram

ASSUME TenantBotsAssumption == MaxRequests \in Nat /\ MaxTenantTrouble \in Nat

NoSecret == 0

VARIABLES tnRow,     \* tenants: [bot -> [status, paid, secret]], paid = when expires_at is
          tnBuyer,   \* create_from_wallet: [Buyers -> [at, bot, owner]]
          tnLock,    \* the Redis keys botcreate:lock:<owner>:<bot>
          tnCharges, \* the committed debits bot_purchase: [bot -> number]
          tnSetUp,   \* what creation leaves behind: set of <<"admin" or "login", bot>>
          tnRequest, \* [Requests -> a request of the platform's panel or of a creation]
          tnReg,     \* BotRegistry._bots: [bot -> secret of the entry, or NoSecret]
          tnHook,    \* Telegram: [bot -> secret of its webhook, or NoSecret]
          tnSweep,   \* the worker's sweep: [at, bots]
          tnRaced,   \* history: bots that two requests, or a request and the sweep, worked
                     \* on at once, or whose suspension was cut short by a death
          tnShort,   \* history: bots whose creation died or failed after the charge
          tnTrouble  \* history: how much trouble there was

tnVars == <<tnRow, tnBuyer, tnLock, tnCharges, tnSetUp, tnRequest, tnReg, tnHook, tnSweep,
            tnRaced, tnShort, tnTrouble>>

Requests == 1..MaxRequests
Absent == [status |-> "none", paid |-> "never", secret |-> NoSecret]
NotBuying == [at |-> "idle"]
NoRequest == [at |-> "idle"]
NoSweep == [at |-> "idle", bots |-> {}]

TenantBotsTypeOK ==
  /\ tnRow \in [Bots -> [status : {"none", "active", "suspended"},
                         paid : {"never", "future", "past"}, secret : Nat]]
  /\ tnBuyer \in [Buyers -> {NotBuying} \cup
       [at : {"checked", "locked", "debited", "charged", "seeded", "done"}, bot : Bots, owner : Owners]]
  /\ tnLock \subseteq Owners \X Bots
  /\ tnCharges \in [Bots -> Nat]
  /\ tnSetUp \subseteq {"admin", "login"} \X Bots
  /\ tnReg \in [Bots -> Nat] /\ tnHook \in [Bots -> Nat]
  /\ tnSweep \in [at : {"idle", "read", "stopping"}, bots : SUBSET Bots]
  /\ tnRaced \subseteq Bots /\ tnShort \subseteq Bots
  /\ tnTrouble \in 0..MaxTenantTrouble

TenantBotsInit ==
  /\ tnRow = [b \in Bots |-> Absent]
  /\ tnBuyer = [u \in Buyers |-> NotBuying]
  /\ tnLock = {} /\ tnCharges = [b \in Bots |-> 0] /\ tnSetUp = {}
  /\ tnRequest = [r \in Requests |-> NoRequest]
  /\ tnReg = [b \in Bots |-> NoSecret] /\ tnHook = [b \in Bots |-> NoSecret]
  /\ tnSweep = NoSweep
  /\ tnRaced = {} /\ tnShort = {} /\ tnTrouble = 0

Trouble == tnTrouble < MaxTenantTrouble /\ tnTrouble' = tnTrouble + 1

BotsInRequest == {tnRequest[r].bot : r \in {q \in Requests : tnRequest[q] # NoRequest}}

\* A request begins to work on a bot.
Begin(r, b, request) ==
  /\ tnRequest[r] = NoRequest
  /\ tnRequest' = [tnRequest EXCEPT ![r] = request]
  /\ tnRaced' = IF b \in BotsInRequest \cup tnSweep.bots THEN tnRaced \cup {b} ELSE tnRaced

-----------------------------------------------------------------------------
(* create_from_wallet. *)

\* The token was validated and the bot is not registered yet.
SubmitToken(u) ==
  /\ tnBuyer[u] = NotBuying
  /\ \E b \in Bots, o \in Owners :
       /\ tnRow[b].status = "none"
       /\ tnBuyer' = [tnBuyer EXCEPT ![u] = [at |-> "checked", bot |-> b, owner |-> o]]
  /\ UNCHANGED <<tnRow, tnLock, tnCharges, tnSetUp, tnRequest, tnReg, tnHook, tnSweep, tnRaced, tnShort, tnTrouble>>

KeyOf(u) == <<tnBuyer[u].owner, tnBuyer[u].bot>>
GoTo(u, at) == tnBuyer' = [tnBuyer EXCEPT ![u].at = at]

\* SET NX.  With Redis down the purchase goes on without the key.
CreateLock(u) ==
  /\ tnBuyer[u].at = "checked"
  /\ \/ KeyOf(u) \in tnLock /\ GoTo(u, "done") /\ UNCHANGED <<tnLock, tnTrouble>>
     \/ KeyOf(u) \notin tnLock /\ GoTo(u, "locked") /\ tnLock' = tnLock \cup {KeyOf(u)} /\ UNCHANGED tnTrouble
     \/ Trouble /\ GoTo(u, "locked") /\ UNCHANGED tnLock
  /\ UNCHANGED <<tnRow, tnCharges, tnSetUp, tnRequest, tnReg, tnHook, tnSweep, tnRaced, tnShort>>

\* The debit, not yet committed.
CreateDebit(u) ==
  /\ tnBuyer[u].at = "locked"
  /\ GoTo(u, "debited")
  /\ UNCHANGED <<tnRow, tnLock, tnCharges, tnSetUp, tnRequest, tnReg, tnHook, tnSweep, tnRaced, tnShort, tnTrouble>>

\* Too little money, or any other failure: rolled back, the key goes at once.
CreateRefused(u) ==
  /\ tnBuyer[u].at \in {"locked", "debited"}
  /\ GoTo(u, "done")
  /\ tnLock' = tnLock \ {KeyOf(u)}
  /\ UNCHANGED <<tnRow, tnCharges, tnSetUp, tnRequest, tnReg, tnHook, tnSweep, tnRaced, tnShort, tnTrouble>>

IsNewBot_NoUnique(b) == TRUE \* mutant: bot_id is not unique
IsNewBot(b) == tnRow[b].status = "none"

\* Debit and tenant commit together, unless the bot's unique index refuses the row.
\* After success the key stays for its time to live.
CreateCommit(u) ==
  LET b == tnBuyer[u].bot IN
  /\ tnBuyer[u].at = "debited"
  /\ IF IsNewBot(b)
     THEN /\ \E paid \in {"never", "future"} :
               tnRow' = [tnRow EXCEPT ![b] = [status |-> "active", paid |-> paid, secret |-> NoSecret]]
          /\ tnCharges' = [tnCharges EXCEPT ![b] = @ + 1]
          /\ GoTo(u, "charged")
          /\ UNCHANGED tnLock
     ELSE /\ GoTo(u, "done")
          /\ tnLock' = tnLock \ {KeyOf(u)}
          /\ UNCHANGED <<tnRow, tnCharges>>
  /\ UNCHANGED <<tnSetUp, tnRequest, tnReg, tnHook, tnSweep, tnRaced, tnShort, tnTrouble>>

\* The owner as the bot's first admin and a free plan; a failure is only logged.
SeedDefaults(u) ==
  LET b == tnBuyer[u].bot IN
  /\ tnBuyer[u].at = "charged" /\ GoTo(u, "seeded")
  /\ \/ tnSetUp' = tnSetUp \cup {<<"admin", b>>} /\ UNCHANGED <<tnShort, tnTrouble>>
     \/ Trouble /\ tnShort' = tnShort \cup {b} /\ UNCHANGED tnSetUp
  /\ UNCHANGED <<tnRow, tnLock, tnCharges, tnRequest, tnReg, tnHook, tnSweep, tnRaced>>

\* The panel login bot<id>, whose password the buyer sees once; then the request that
\* registers the bot begins.
ProvisionLogin(u) ==
  LET b == tnBuyer[u].bot IN
  /\ tnBuyer[u].at = "seeded" /\ GoTo(u, "done")
  /\ \/ tnSetUp' = tnSetUp \cup {<<"login", b>>} /\ UNCHANGED <<tnShort, tnTrouble>>
     \/ Trouble /\ tnShort' = tnShort \cup {b} /\ UNCHANGED tnSetUp
  /\ \E r \in Requests : Begin(r, b, [at |-> "reload", bot |-> b])
  /\ UNCHANGED <<tnRow, tnLock, tnCharges, tnReg, tnHook, tnSweep>>

CreateKeyExpires ==
  /\ \E k \in tnLock : tnLock' = tnLock \ {k}
  /\ UNCHANGED <<tnRow, tnBuyer, tnCharges, tnSetUp, tnRequest, tnReg, tnHook, tnSweep, tnRaced, tnShort, tnTrouble>>

-----------------------------------------------------------------------------
(* The platform's panel. *)


\* platform_suspend and platform_reactivate: the status commits, the registry follows.
PlatformSetStatus(r, b, status) ==
  /\ tnRow[b].status # "none"
  /\ Begin(r, b, [at |-> "reload", bot |-> b])
  /\ tnRow' = [tnRow EXCEPT ![b].status = status]
  /\ UNCHANGED <<tnBuyer, tnLock, tnCharges, tnSetUp, tnReg, tnHook, tnSweep, tnShort, tnTrouble>>

PlatformSuspend(r, b) == PlatformSetStatus(r, b, "suspended")
PlatformReactivate(r, b) == PlatformSetStatus(r, b, "active")

\* platform_extend: the new expiry commits; the tenant stays in the session as read.
PlatformExtend(r, b) ==
  /\ tnRow[b].status # "none"
  /\ Begin(r, b, [at |-> "extended", bot |-> b, seen |-> tnRow[b].status])
  /\ tnRow' = [tnRow EXCEPT ![b].paid = "future"]
  /\ UNCHANGED <<tnBuyer, tnLock, tnCharges, tnSetUp, tnReg, tnHook, tnSweep, tnShort, tnTrouble>>

\* ... and a tenant it read as suspended is re-activated.
ExtendRevives(r) ==
  LET b == tnRequest[r].bot IN
  /\ tnRequest[r].at = "extended"
  /\ IF tnRequest[r].seen = "suspended"
     THEN /\ tnRow' = [tnRow EXCEPT ![b].status = "active"]
          /\ tnRequest' = [tnRequest EXCEPT ![r] = [at |-> "reload", bot |-> b]]
     ELSE /\ tnRequest' = [tnRequest EXCEPT ![r] = NoRequest]
          /\ UNCHANGED tnRow
  /\ UNCHANGED <<tnBuyer, tnLock, tnCharges, tnSetUp, tnReg, tnHook, tnSweep, tnRaced, tnShort, tnTrouble>>

-----------------------------------------------------------------------------
(* BotRegistry.reload. *)

\* A registry entry is dropped at once; its webhook is deleted thereafter.  A
\* registered bot is left as it is.
ReloadRead(r) ==
  LET b == tnRequest[r].bot IN
  /\ tnRequest[r].at = "reload"
  /\ \/ /\ tnRow[b].status # "active" /\ tnReg[b] # NoSecret
        /\ tnReg' = [tnReg EXCEPT ![b] = NoSecret]
        /\ tnRequest' = [tnRequest EXCEPT ![r] = [at |-> "unhook", bot |-> b]]
     \/ /\ (tnRow[b].status = "active") = (tnReg[b] # NoSecret)
        /\ tnRequest' = [tnRequest EXCEPT ![r] = NoRequest]
        /\ UNCHANGED tnReg
     \/ /\ tnRow[b].status = "active" /\ tnReg[b] = NoSecret
        /\ tnRequest' = [tnRequest EXCEPT ![r] = [at |-> "register", bot |-> b, secret |-> tnRow[b].secret]]
        /\ UNCHANGED tnReg
  /\ UNCHANGED <<tnRow, tnBuyer, tnLock, tnCharges, tnSetUp, tnHook, tnSweep, tnRaced, tnShort, tnTrouble>>

\* unregister: the webhook is deleted, or Telegram refuses.
Unhook(r) ==
  /\ tnRequest[r].at = "unhook"
  /\ tnRequest' = [tnRequest EXCEPT ![r] = NoRequest]
  /\ \/ tnHook' = [tnHook EXCEPT ![tnRequest[r].bot] = NoSecret] /\ UNCHANGED tnTrouble
     \/ Trouble /\ UNCHANGED tnHook
  /\ UNCHANGED <<tnRow, tnBuyer, tnLock, tnCharges, tnSetUp, tnReg, tnSweep, tnRaced, tnShort>>

\* _ensure_secret: a row read without a secret gets a new one.
EnsureSecret(r) ==
  LET b == tnRequest[r].bot IN
  /\ tnRequest[r].at = "register"
  /\ IF tnRequest[r].secret = NoSecret
     THEN /\ tnRow' = [tnRow EXCEPT ![b].secret = r]
          /\ tnRequest' = [tnRequest EXCEPT ![r] = [at |-> "hook", bot |-> b, secret |-> r]]
     ELSE /\ tnRequest' = [tnRequest EXCEPT ![r].at = "hook"]
          /\ UNCHANGED tnRow
  /\ UNCHANGED <<tnBuyer, tnLock, tnCharges, tnSetUp, tnReg, tnHook, tnSweep, tnRaced, tnShort, tnTrouble>>

\* set_webhook; a refusal suspends the tenant.
SetWebhook(r) ==
  LET b == tnRequest[r].bot IN
  /\ tnRequest[r].at = "hook"
  /\ \/ /\ tnHook' = [tnHook EXCEPT ![b] = tnRequest[r].secret]
        /\ tnRequest' = [tnRequest EXCEPT ![r].at = "add"]
        /\ UNCHANGED <<tnRow, tnTrouble>>
     \/ /\ Trouble
        /\ tnRow' = [tnRow EXCEPT ![b].status = "suspended"]
        /\ tnRequest' = [tnRequest EXCEPT ![r] = NoRequest]
        /\ UNCHANGED tnHook
  /\ UNCHANGED <<tnBuyer, tnLock, tnCharges, tnSetUp, tnReg, tnSweep, tnRaced, tnShort>>

\* The entry is added, whatever has become of the tenant meanwhile.
AddEntry(r) ==
  /\ tnRequest[r].at = "add"
  /\ tnReg' = [tnReg EXCEPT ![tnRequest[r].bot] = tnRequest[r].secret]
  /\ tnRequest' = [tnRequest EXCEPT ![r] = NoRequest]
  /\ UNCHANGED <<tnRow, tnBuyer, tnLock, tnCharges, tnSetUp, tnHook, tnSweep, tnRaced, tnShort, tnTrouble>>

\* The API dies, with its registry, requests and purchases, and starts: load_active
\* registers whom it finds active, or suspends him when Telegram refuses.
ApiRestarts ==
  LET active == {b \in Bots : tnRow[b].status = "active"} IN
  /\ Trouble
  /\ \E refused \in SUBSET active :
       LET secret == [b \in Bots |-> IF tnRow[b].secret = NoSecret THEN 1 ELSE tnRow[b].secret] IN
       /\ tnRow' = [b \in Bots |->
            IF b \in refused THEN [tnRow[b] EXCEPT !.status = "suspended", !.secret = secret[b]]
            ELSE IF b \in active THEN [tnRow[b] EXCEPT !.secret = secret[b]] ELSE tnRow[b]]
       /\ tnHook' = [b \in Bots |-> IF b \in active \ refused THEN secret[b] ELSE tnHook[b]]
       /\ tnReg' = [b \in Bots |-> IF b \in active \ refused THEN secret[b] ELSE NoSecret]
  /\ tnRequest' = [r \in Requests |-> NoRequest]
  /\ tnBuyer' = [u \in Buyers |-> IF tnBuyer[u] = NotBuying THEN NotBuying ELSE [tnBuyer[u] EXCEPT !.at = "done"]]
  /\ tnShort' = tnShort \cup {tnBuyer[u].bot : u \in {v \in Buyers : tnBuyer[v].at \in {"charged", "seeded"}}}
  /\ tnRaced' = tnRaced \cup (tnSweep.bots \cap active)
  /\ UNCHANGED <<tnLock, tnCharges, tnSetUp, tnSweep>>

-----------------------------------------------------------------------------
(* The worker, which has no registry. *)

RentalExpires(b) ==
  /\ tnRow[b].paid = "future"
  /\ tnRow' = [tnRow EXCEPT ![b].paid = "past"]
  /\ UNCHANGED <<tnBuyer, tnLock, tnCharges, tnSetUp, tnRequest, tnReg, tnHook, tnSweep, tnRaced, tnShort, tnTrouble>>

Overdue == {b \in Bots : tnRow[b].status = "active" /\ tnRow[b].paid = "past"}

ExpiryRead ==
  /\ tnSweep = NoSweep /\ Overdue # {}
  /\ tnSweep' = [at |-> "read", bots |-> Overdue]
  /\ tnRaced' = tnRaced \cup (Overdue \cap BotsInRequest)
  /\ UNCHANGED <<tnRow, tnBuyer, tnLock, tnCharges, tnSetUp, tnRequest, tnReg, tnHook, tnShort, tnTrouble>>

\* Whom it read is suspended, extended meanwhile or not.
ExpiryCommit ==
  /\ tnSweep.at = "read"
  /\ tnRow' = [b \in Bots |-> IF b \in tnSweep.bots THEN [tnRow[b] EXCEPT !.status = "suspended"] ELSE tnRow[b]]
  /\ tnSweep' = [tnSweep EXCEPT !.at = "stopping"]
  /\ UNCHANGED <<tnBuyer, tnLock, tnCharges, tnSetUp, tnRequest, tnReg, tnHook, tnRaced, tnShort, tnTrouble>>

\* stop_tenant_bot: the webhooks are deleted one by one; the API's registry keeps its
\* entries.  When Telegram refuses or the worker dies, nobody tries again.
StopTenantBot ==
  /\ tnSweep.at = "stopping"
  /\ \/ /\ \E b \in tnSweep.bots :
            /\ tnHook' = [tnHook EXCEPT ![b] = NoSecret]
            /\ tnSweep' = IF tnSweep.bots = {b} THEN NoSweep ELSE [tnSweep EXCEPT !.bots = @ \ {b}]
        /\ UNCHANGED <<tnRaced, tnTrouble>>
     \/ /\ Trouble
        /\ tnRaced' = tnRaced \cup tnSweep.bots
        /\ tnSweep' = NoSweep
        /\ UNCHANGED tnHook
  /\ UNCHANGED <<tnRow, tnBuyer, tnLock, tnCharges, tnSetUp, tnRequest, tnReg, tnShort>>

-----------------------------------------------------------------------------
BuyerStep(u) ==
  \/ SubmitToken(u) \/ CreateLock(u) \/ CreateDebit(u) \/ CreateRefused(u) \/ CreateCommit(u)
  \/ SeedDefaults(u) \/ ProvisionLogin(u)

RequestStep(r) ==
  \/ \E b \in Bots : PlatformSuspend(r, b) \/ PlatformReactivate(r, b) \/ PlatformExtend(r, b)
  \/ ExtendRevives(r) \/ ReloadRead(r) \/ Unhook(r) \/ EnsureSecret(r) \/ SetWebhook(r) \/ AddEntry(r)

TenantBotsNext ==
  \/ \E u \in Buyers : BuyerStep(u)
  \/ \E r \in Requests : RequestStep(r)
  \/ CreateKeyExpires \/ ApiRestarts
  \/ \E b \in Bots : RentalExpires(b)
  \/ ExpiryRead \/ ExpiryCommit \/ StopTenantBot

TenantBotsSpec == TenantBotsInit /\ [][TenantBotsNext]_tnVars

-----------------------------------------------------------------------------
\* tenant_webhook: an update gets through if Telegram sends it and the registry knows
\* the bot with that secret.
Served(b) == tnHook[b] # NoSecret /\ tnReg[b] = tnHook[b]

Quiet(b) ==
  /\ b \notin BotsInRequest \cup tnSweep.bots
  /\ \A u \in Buyers : tnBuyer[u].at \in {"charged", "seeded"} => tnBuyer[u].bot # b

\* A bot is charged for exactly when its tenant exists, once, whoever submits its
\* token at the same time, with Redis or without; and a charged bot gets its first
\* admin and its panel login unless the process died or failed in between.
OneChargePerBot ==
  \A b \in Bots :
    /\ tnCharges[b] = IF tnRow[b].status = "none" THEN 0 ELSE 1
    /\ (tnCharges[b] > 0 /\ Quiet(b)) => {"admin", "login"} \X {b} \subseteq tnSetUp \/ b \in tnShort

\* A suspended bot is not served, whichever process suspended it, unless two parties
\* worked on it at once or the suspension was cut short.
SuspendedIsNotServed ==
  \A b \in Bots : (Quiet(b) /\ Served(b)) => tnRow[b].status = "active" \/ b \in tnRaced

\* superadmin.py says of the reload that follows a re-activation that it re-sets the
\* webhook.  It does not when the worker deleted the webhook: the registry of the API
\* still has its entry for the bot, so reload leaves it as it is.
ReactivatedHasWebhook ==
  \A b \in Bots : (Quiet(b) /\ tnRow[b].status = "active") => tnHook[b] # NoSecret \/ b \in tnRaced
=============================================================================
