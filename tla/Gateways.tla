------------------------------ MODULE Gateways ------------------------------
(***************************************************************************)
(* The online gateways behind the top-ups: which provider an order is      *)
(* opened at and verified with while the owner edits the providers in the  *)
(* panel.  The wallet side of a settled order is in Payments.              *)
(***************************************************************************)
EXTENDS Naturals, TLC

CONSTANTS Orders,    \* gateway payments
          Merchants, \* credentials the owner can enter
          EnvKey,    \* the credentials of the environment, for centralpay
          MaxSaves   \* bound: saves of a provider

ASSUME GatewaysAssumption == MaxSaves \in Nat

ProviderKeys == {"centralpay", "zarinpal", "zibal"}
NoMerchant == "none"

VARIABLES gwConfig,  \* [ProviderKeys -> the row of payment_providers]
          gwOrder,   \* [Orders -> the payment, and where its handler is]
          gwGateway, \* [Orders -> what the gateway knows of it]
          gwVerify,  \* [Orders -> the verify that holds the lock of the payment]
          gwRefused, \* history: paid orders that their own gateway refused to settle
          gwUnnamed, \* history: orders rejected for a repeated answer without an amount
          gwSaves    \* spent bound

gwVars == <<gwConfig, gwOrder, gwGateway, gwVerify, gwRefused, gwUnnamed, gwSaves>>

Credentials == Merchants \cup {NoMerchant}
NoVerify == [by |-> "nobody"]
NoAccount == <<>>

GatewaysTypeOK ==
  /\ gwConfig \in [ProviderKeys -> [enabled : BOOLEAN, opens : Credentials,
                                    verifies : Credentials, sandbox : BOOLEAN]]
  /\ \A o \in Orders :
       /\ gwOrder[o].status \in {"none", "pending", "expired", "rejected", "approved"}
       /\ gwOrder[o].at \in {"none", "create", "keep", "done"}
  /\ gwGateway \in [Orders -> {"unknown", "open", "paid", "short", "verified"}]
  /\ gwRefused \subseteq Orders /\ gwUnnamed \subseteq Orders /\ gwSaves \in 0..MaxSaves

\* The seeded rows: centralpay is on, on the keys of the environment.
GatewaysInit ==
  /\ gwConfig = [k \in ProviderKeys |->
                   [enabled |-> k = "centralpay", opens |-> NoMerchant,
                    verifies |-> NoMerchant, sandbox |-> FALSE]]
  /\ gwOrder = [o \in Orders |-> [status |-> "none", at |-> "none", key |-> "",
                                  account |-> NoAccount, authority |-> FALSE]]
  /\ gwGateway = [o \in Orders |-> "unknown"]
  /\ gwVerify = [o \in Orders |-> NoVerify]
  /\ gwRefused = {} /\ gwUnnamed = {} /\ gwSaves = 0

-----------------------------------------------------------------------------
\* The shop's account at the gateway that a provider acts in with a credential: for
\* zarinpal the base address is part of it; zibal has one merchant for its sandbox.
Account(key, merchant) ==
  LET sandbox == gwConfig[key].sandbox
  IN CASE key = "centralpay" -> <<IF merchant = NoMerchant THEN EnvKey ELSE merchant>>
       [] key = "zarinpal" -> IF merchant = NoMerchant THEN NoAccount ELSE <<merchant, sandbox>>
       [] key = "zibal" -> IF sandbox THEN <<"sandbox">>
                           ELSE IF merchant = NoMerchant THEN NoAccount ELSE <<merchant>>

OpensIn(key) == Account(key, gwConfig[key].opens)
VerifiesIn(key) == Account(key, gwConfig[key].verifies)

\* Mutant: a provider that was switched off verifies nothing.
GetProvider_EnabledOnly(key, forVerify) == VerifiesIn(key) # NoAccount /\ gwConfig[key].enabled

\* Is a provider built?  For a verify the switch is ignored.
GetProvider(key, forVerify) ==
  VerifiesIn(key) # NoAccount /\ (forVerify \/ gwConfig[key].enabled)

\* providers_save: the switches as posted, the credentials unless left blank.  Only
\* centralpay has two keys, for its links and its verifies.
ProvidersSave ==
  /\ \E k \in ProviderKeys, enabled, sandbox \in BOOLEAN, opens, verifies \in Credentials :
       /\ k # "centralpay" => opens = verifies
       /\ gwConfig' = [gwConfig EXCEPT ![k] =
            [enabled |-> enabled, sandbox |-> sandbox,
             opens |-> IF opens = NoMerchant THEN @.opens ELSE opens,
             verifies |-> IF verifies = NoMerchant THEN @.verifies ELSE verifies]]
  /\ gwSaves < MaxSaves /\ gwSaves' = gwSaves + 1
  /\ UNCHANGED <<gwOrder, gwGateway, gwVerify, gwRefused, gwUnnamed>>

-----------------------------------------------------------------------------
(* Opening an order. *)

\* The pending row is committed before the gateway is asked.
Start(o) ==
  /\ gwOrder[o].status = "none"
  /\ \E k \in ProviderKeys :
       /\ GetProvider(k, FALSE)
       /\ gwOrder' = [gwOrder EXCEPT ![o] = [status |-> "pending", at |-> "create", key |-> k,
                                             account |-> OpensIn(k), authority |-> FALSE]]
  /\ UNCHANGED <<gwSaves, gwConfig, gwGateway, gwVerify, gwRefused, gwUnnamed>>

Opens(o, key) ==
  /\ gwOrder[o].at = "create" /\ gwOrder[o].key = key
  /\ gwGateway' = [gwGateway EXCEPT ![o] = "open"]
  /\ gwOrder' = [gwOrder EXCEPT ![o].at = "keep"]
  /\ UNCHANGED <<gwSaves, gwConfig, gwVerify, gwRefused, gwUnnamed>>
CentralpayCreate(o) == Opens(o, "centralpay")
ZarinpalCreate(o) == Opens(o, "zarinpal")
ZibalCreate(o) == Opens(o, "zibal")

\* The gateway declines or is not reached, or the process stops: no link.
NoLink(o) ==
  /\ gwOrder[o].at \in {"create", "keep"}
  /\ gwOrder' = [gwOrder EXCEPT ![o].at = "none"]
  /\ UNCHANGED <<gwSaves, gwConfig, gwGateway, gwVerify, gwRefused, gwUnnamed>>

\* The authority is committed, then the user gets the link.
LinkOffered(o) ==
  /\ gwOrder[o].at = "keep"
  /\ gwOrder' = [gwOrder EXCEPT ![o].at = "done", ![o].authority = gwOrder[o].key # "centralpay"]
  /\ UNCHANGED <<gwSaves, gwConfig, gwGateway, gwVerify, gwRefused, gwUnnamed>>

\* In full, or another amount or on another user's account.
UserPays(o) ==
  /\ gwOrder[o].at = "done" /\ gwGateway[o] = "open"
  /\ \E payment \in {"paid", "short"} : gwGateway' = [gwGateway EXCEPT ![o] = payment]
  /\ UNCHANGED <<gwSaves, gwConfig, gwOrder, gwVerify, gwRefused, gwUnnamed>>

-----------------------------------------------------------------------------
(* Settling it. *)

\* "failed": the payment is left as it is; a reconciliation may find it a day old and
\* still pending, and marks it expired.
LeftAsItIs(o, by) ==
  \/ UNCHANGED gwOrder
  \/ /\ by = "reconcile" /\ gwOrder[o].status = "pending"
     /\ gwOrder' = [gwOrder EXCEPT ![o].status = "expired"]

\* verify_order and verify_and_apply up to the request; the account is that of now.
\* The status that is tested was loaded before the payment was locked, so that an
\* order is verified again that was settled in between.
VerifyBegins(o, by) ==
  /\ gwOrder[o].status # "none" /\ gwVerify[o] = NoVerify
  /\ IF GetProvider(gwOrder[o].key, TRUE)
     THEN /\ gwVerify' = [gwVerify EXCEPT ![o] =
                            [by |-> by, account |-> VerifiesIn(gwOrder[o].key)]]
          /\ UNCHANGED <<gwOrder, gwRefused>>
     ELSE /\ gwRefused' = gwRefused \cup
               (IF gwGateway[o] = "paid" /\ VerifiesIn(gwOrder[o].key) = gwOrder[o].account
                THEN {o} ELSE {})
          /\ LeftAsItIs(o, by) /\ UNCHANGED gwVerify
  /\ UNCHANGED <<gwSaves, gwConfig, gwGateway, gwUnnamed>>

GatewayReturn(o) == VerifyBegins(o, "return")
PaymentCheck(o) == VerifyBegins(o, "check")
PaymentRecheck(o) == VerifyBegins(o, "panel")
ReconcilePending(o) == VerifyBegins(o, "reconcile")

\* The order is known in the account that was asked.
KnownThere(o) ==
  /\ gwVerify[o].account = gwOrder[o].account
  /\ gwOrder[o].authority \/ gwOrder[o].key = "centralpay"

\* It was paid there; one that was verified before is paid as well (101, 201).
PaidThere(o) == KnownThere(o) /\ gwGateway[o] \in {"paid", "verified"}

\* It was paid, but not this amount or not by this user; zarinpal is asked about the
\* amount of the order and says no.
ShortThere(o) == KnownThere(o) /\ gwGateway[o] = "short" /\ gwOrder[o].key # "zarinpal"

\* The amounts and the user agree: the deposit is committed, or a stop comes before it.
Verifies(o, key) ==
  /\ gwVerify[o] # NoVerify /\ gwOrder[o].key = key
  /\ PaidThere(o)
  /\ gwGateway' = [gwGateway EXCEPT ![o] = "verified"]
  /\ \/ gwOrder' = [gwOrder EXCEPT ![o].status = "approved"]
     \/ UNCHANGED gwOrder
  /\ gwVerify' = [gwVerify EXCEPT ![o] = NoVerify]
  /\ UNCHANGED <<gwSaves, gwConfig, gwRefused, gwUnnamed>>
CentralpayVerify(o) == Verifies(o, "centralpay")
ZarinpalVerify(o) == Verifies(o, "zarinpal")
ZibalVerify(o) == Verifies(o, "zibal")

\* Another amount or user, or zibal's repeated answer without an amount: rejected.
Mismatch(o) ==
  /\ gwVerify[o] # NoVerify
  /\ \/ ShortThere(o) /\ UNCHANGED gwUnnamed
     \/ /\ gwOrder[o].key = "zibal" /\ PaidThere(o) /\ gwGateway[o] = "verified"
        /\ gwUnnamed' = gwUnnamed \cup {o}
  /\ gwOrder' = [gwOrder EXCEPT ![o].status = "rejected"]
  /\ gwVerify' = [gwVerify EXCEPT ![o] = NoVerify]
  /\ UNCHANGED <<gwSaves, gwConfig, gwGateway, gwRefused>>

\* Not paid there.
NotPaid(o) ==
  /\ gwVerify[o] # NoVerify /\ ~PaidThere(o) /\ ~ShortThere(o)
  /\ LeftAsItIs(o, gwVerify[o].by)
  /\ gwRefused' = IF gwVerify[o].account = gwOrder[o].account /\ gwGateway[o] \in {"paid", "verified"}
                  THEN gwRefused \cup {o} ELSE gwRefused
  /\ gwVerify' = [gwVerify EXCEPT ![o] = NoVerify]
  /\ UNCHANGED <<gwSaves, gwConfig, gwGateway, gwUnnamed>>

\* post_json got no answer.
GatewayDown(o) ==
  /\ gwVerify[o] # NoVerify
  /\ LeftAsItIs(o, gwVerify[o].by)
  /\ gwVerify' = [gwVerify EXCEPT ![o] = NoVerify]
  /\ UNCHANGED <<gwSaves, gwConfig, gwGateway, gwRefused, gwUnnamed>>

GatewaysNext ==
  \/ ProvidersSave
  \/ \E o \in Orders :
       \/ Start(o) \/ CentralpayCreate(o) \/ ZarinpalCreate(o) \/ ZibalCreate(o) \/ NoLink(o)
       \/ LinkOffered(o) \/ UserPays(o) \/ GatewayReturn(o) \/ PaymentCheck(o) \/ PaymentRecheck(o)
       \/ ReconcilePending(o) \/ CentralpayVerify(o) \/ ZarinpalVerify(o) \/ ZibalVerify(o)
       \/ Mismatch(o) \/ NotPaid(o) \/ GatewayDown(o)

GatewaysSpec == GatewaysInit /\ [][GatewaysNext]_gwVars

-----------------------------------------------------------------------------
\* A paid order is never lost, whatever the owner switched or entered in between,
\* whoever stopped on the way, and when the order had expired meanwhile: the account
\* it was opened in does not find it unpaid, no account's answer rejects it for good
\* but a repeated one that names no amount, and none but a full payment is approved.
PaidOrdersSettle ==
  /\ gwRefused = {}
  /\ \A o \in Orders :
       /\ gwOrder[o].status = "rejected" => gwGateway[o] = "short" \/ o \in gwUnnamed
       /\ gwOrder[o].status = "approved" => gwGateway[o] = "verified"
=============================================================================
