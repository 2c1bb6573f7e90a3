--------------------------- MODULE TenantProofs ---------------------------
(***************************************************************************)
(* Proofs about the parts that serve a tenant: its orders at the gateways, *)
(* its bots, invoices, uploads, texts, advertisements and log group, one   *)
(* section for each.                                                       *)
(***************************************************************************)
EXTENDS Gateways, TenantBots, Invoices, Uploads, BotMenu, Ads, TenantLog,
        FiniteSetTheorems, TLAPS

-----------------------------------------------------------------------------
(* Gateways: a paid order settles in the account it was opened in. *)

\* What Account returns: credentials, with zarinpal's base address, or zibal's sandbox.
Accounts ==
  {NoAccount} \cup {<<c>> : c \in Credentials \cup {EnvKey, "sandbox"}}
    \cup {<<c, sandbox>> : c \in Credentials, sandbox \in BOOLEAN}

GwOrder == [status : {"none", "pending", "expired", "rejected", "approved"},
            at : {"none", "create", "keep", "done"}, key : ProviderKeys \cup {""},
            account : Accounts, authority : BOOLEAN]

\* An order was opened in some account; one that was offered can be asked for, and only
\* an offered one is paid; a verdict is what the gateway knows of it.
OrderOK(o) ==
  /\ gwOrder[o].status = "none" => gwOrder[o].at = "none"
  /\ gwOrder[o].status # "none" => gwOrder[o].key \in ProviderKeys
                                   /\ gwOrder[o].account # NoAccount
  /\ gwOrder[o].at = "done" => gwOrder[o].authority \/ gwOrder[o].key = "centralpay"
  /\ gwGateway[o] \in {"paid", "short", "verified"} \/ o \in gwUnnamed => gwOrder[o].at = "done"
  /\ gwOrder[o].status = "rejected" => gwGateway[o] = "short" \/ o \in gwUnnamed
  /\ gwOrder[o].status = "approved" => gwGateway[o] = "verified"

GwInv ==
  /\ GatewaysTypeOK /\ gwOrder \in [Orders -> GwOrder] /\ gwRefused = {}
  /\ \A o \in Orders : OrderOK(o)
  /\ \A k \in ProviderKeys \ {"centralpay"} : gwConfig[k].opens = gwConfig[k].verifies

\* Credentials make an account, none make none (get_provider).
LEMMA AccountIsOne ==
  ASSUME GatewaysTypeOK, NEW k \in ProviderKeys, NEW c \in Credentials
  PROVE  Account(k, c) \in Accounts
<1>1. gwConfig[k].sandbox \in BOOLEAN
  BY DEF GatewaysTypeOK
<1>2. CASE k = "centralpay"
  BY <1>1, <1>2 DEF Account, Accounts, Credentials
<1>3. CASE k = "zarinpal"
  BY <1>1, <1>3 DEF Account, Accounts
<1>4. CASE k = "zibal"
  BY <1>1, <1>4 DEF Account, Accounts
<1> QED BY <1>2, <1>3, <1>4 DEF ProviderKeys

\* A provider that is built for a link has an account to open in: the key of the links
\* is the key of the verifies but for centralpay, which has the environment's.
LEMMA OpensSomewhere ==
  ASSUME GwInv, NEW k \in ProviderKeys, GetProvider(k, FALSE)
  PROVE  OpensIn(k) \in Accounts /\ OpensIn(k) # NoAccount
<1>1. gwConfig[k].opens \in Credentials /\ GatewaysTypeOK
  BY DEF GwInv, GatewaysTypeOK
<1>2. OpensIn(k) \in Accounts
  BY <1>1, AccountIsOne DEF OpensIn
<1>3. CASE k = "centralpay"
  <2>1. PICK c : OpensIn(k) = <<c>>
    BY <1>3 DEF OpensIn, Account
  <2>2. Len(<<c>>) = 1 /\ Len(NoAccount) = 0
    BY DEF NoAccount
  <2> QED BY <1>2, <2>1, <2>2
<1>4. CASE k # "centralpay"
  <2>1. gwConfig[k].opens = gwConfig[k].verifies
    BY <1>4 DEF GwInv
  <2> QED BY <1>2, <2>1 DEF GetProvider, OpensIn, VerifiesIn
<1> QED BY <1>2, <1>3, <1>4

\* A step on one order that leaves it OrderOK, with the table of providers as it is.
LEMMA OneOrderMoves ==
  ASSUME GwInv, NEW o \in Orders, NEW order \in GwOrder,
         NEW gateway \in {"unknown", "open", "paid", "short", "verified"},
         gwUnnamed' \in {gwUnnamed, gwUnnamed \cup {o}},
         gwOrder' = [gwOrder EXCEPT ![o] = order],
         gwGateway' = [gwGateway EXCEPT ![o] = gateway],
         UNCHANGED <<gwConfig, gwSaves, gwRefused>>, OrderOK(o)'
  PROVE  GwInv'
<1>1. /\ gwOrder' \in [Orders -> GwOrder] /\ gwOrder'[o] = order
      /\ \A p \in Orders \ {o} : gwOrder'[p] = gwOrder[p]
  BY DEF GwInv
<1>2. /\ gwGateway' \in [Orders -> {"unknown", "open", "paid", "short", "verified"}]
      /\ \A p \in Orders \ {o} : gwGateway'[p] = gwGateway[p]
  BY DEF GwInv, GatewaysTypeOK
<1>3. \A p \in Orders \ {o} : p \in gwUnnamed' <=> p \in gwUnnamed
  OBVIOUS
<1>4. \A p \in Orders : OrderOK(p)'
  BY <1>1, <1>2, <1>3 DEF GwInv, OrderOK
<1>5. gwUnnamed' \subseteq Orders
  BY DEF GwInv, GatewaysTypeOK
<1>6. GatewaysTypeOK'
  BY <1>1, <1>2, <1>5 DEF GwInv, GatewaysTypeOK, GwOrder
<1> QED BY <1>1, <1>4, <1>6 DEF GwInv

\* GatewayService.start and the provider's create, up to the link.
LEMMA OpeningKeepsInv ==
  ASSUME GwInv, NEW o \in Orders,
         \/ Start(o) \/ CentralpayCreate(o) \/ ZarinpalCreate(o) \/ ZibalCreate(o)
         \/ NoLink(o) \/ LinkOffered(o) \/ UserPays(o)
  PROVE  GwInv'
<1>1. /\ gwOrder[o] \in GwOrder /\ OrderOK(o) /\ GatewaysTypeOK
      /\ gwGateway[o] \in {"unknown", "open", "paid", "short", "verified"}
      /\ gwGateway = [gwGateway EXCEPT ![o] = gwGateway[o]]
      /\ gwOrder = [gwOrder EXCEPT ![o] = gwOrder[o]]
      /\ o \in DOMAIN gwOrder /\ o \in DOMAIN gwGateway
  BY DEF GwInv, GatewaysTypeOK
<1>2. CASE Start(o)
  <2>1. PICK k \in ProviderKeys :
          /\ GetProvider(k, FALSE)
          /\ gwOrder' = [gwOrder EXCEPT ![o] = [status |-> "pending", at |-> "create", key |-> k,
                                                account |-> OpensIn(k), authority |-> FALSE]]
    BY <1>2 DEF Start
  <2> DEFINE order == [status |-> "pending", at |-> "create", key |-> k,
                       account |-> OpensIn(k), authority |-> FALSE]
  <2>2. OpensIn(k) \in Accounts /\ OpensIn(k) # NoAccount
    BY <1>1, <2>1, OpensSomewhere
  <2>3. order \in GwOrder /\ order.status = "pending" /\ order.at = "create"
        /\ order.key \in ProviderKeys /\ order.account # NoAccount
    BY <2>2 DEF GwOrder
  <2>4. gwOrder' = [gwOrder EXCEPT ![o] = order] /\ gwGateway' = gwGateway
        /\ UNCHANGED <<gwConfig, gwSaves, gwRefused, gwUnnamed>>
        /\ gwOrder[o].status = "none"
    BY <1>2, <2>1 DEF Start
  <2> HIDE DEF order
  <2>5. OrderOK(o)'
    BY <1>1, <2>3, <2>4 DEF OrderOK
  <2> QED BY <1>1, <2>3, <2>4, <2>5, OneOrderMoves
<1>3. ASSUME NEW key, Opens(o, key) PROVE GwInv'
  <2> DEFINE order == [gwOrder[o] EXCEPT !.at = "keep"]
  <2>1. /\ gwOrder' = [gwOrder EXCEPT ![o] = order] /\ gwOrder[o].at = "create"
        /\ gwGateway' = [gwGateway EXCEPT ![o] = "open"]
        /\ UNCHANGED <<gwConfig, gwSaves, gwRefused, gwUnnamed>>
    BY <1>1, <1>3 DEF Opens
  <2>2. order \in GwOrder /\ order.at = "keep" /\ order.status = gwOrder[o].status
        /\ order.key = gwOrder[o].key /\ order.account = gwOrder[o].account
    BY <1>1 DEF GwOrder
  <2> HIDE DEF order
  <2>3. OrderOK(o)'
    BY <1>1, <2>1, <2>2 DEF OrderOK
  <2> QED BY <2>1, <2>2, <2>3, OneOrderMoves
<1>4. CASE NoLink(o)
  <2> DEFINE order == [gwOrder[o] EXCEPT !.at = "none"]
  <2>1. /\ gwOrder' = [gwOrder EXCEPT ![o] = order] /\ gwOrder[o].at # "done"
        /\ UNCHANGED <<gwGateway, gwConfig, gwSaves, gwRefused, gwUnnamed>>
    BY <1>1, <1>4 DEF NoLink
  <2>2. order \in GwOrder /\ order.at = "none" /\ order.status = gwOrder[o].status
        /\ order.key = gwOrder[o].key /\ order.account = gwOrder[o].account
    BY <1>1 DEF GwOrder
  <2> HIDE DEF order
  <2>3. OrderOK(o)'
    BY <1>1, <2>1, <2>2 DEF OrderOK
  <2> QED BY <1>1, <2>1, <2>2, <2>3, OneOrderMoves
<1>5. CASE LinkOffered(o)
  <2> DEFINE order == [gwOrder[o] EXCEPT !.at = "done",
                                         !.authority = gwOrder[o].key # "centralpay"]
  <2>1. /\ gwOrder' = [gwOrder EXCEPT ![o] = order] /\ gwOrder[o].at = "keep"
        /\ UNCHANGED <<gwGateway, gwConfig, gwSaves, gwRefused, gwUnnamed>>
    BY <1>1, <1>5 DEF LinkOffered
  <2>2. order \in GwOrder /\ order.at = "done" /\ order.status = gwOrder[o].status
        /\ order.key = gwOrder[o].key /\ order.account = gwOrder[o].account
        /\ (order.authority \/ order.key = "centralpay")
    BY <1>1 DEF GwOrder
  <2> HIDE DEF order
  <2>3. OrderOK(o)'
    BY <1>1, <2>1, <2>2 DEF OrderOK
  <2> QED BY <1>1, <2>1, <2>2, <2>3, OneOrderMoves
<1>6. CASE UserPays(o)
  <2>0. PICK payment \in {"paid", "short"} : gwGateway' = [gwGateway EXCEPT ![o] = payment]
    BY <1>6 DEF UserPays
  <2>1. /\ gwOrder[o].at = "done" /\ gwGateway[o] = "open"
        /\ UNCHANGED <<gwOrder, gwConfig, gwSaves, gwRefused, gwUnnamed>>
    BY <1>6 DEF UserPays
  <2>2. OrderOK(o)'
    BY <1>1, <2>0, <2>1 DEF OrderOK
  <2> QED BY <1>1, <2>0, <2>1, <2>2, OneOrderMoves
<1> QED BY <1>2, <1>3, <1>4, <1>5, <1>6 DEF CentralpayCreate, ZarinpalCreate, ZibalCreate

\* verify_order and the providers' verify: nothing paid in the asked account is refused
\* but for a repeated answer without an amount.
LEMMA SettlingKeepsInv ==
  ASSUME GwInv, NEW o \in Orders,
         \/ \E by : VerifyBegins(o, by)
         \/ \E key : Verifies(o, key)
         \/ Mismatch(o) \/ NotPaid(o) \/ GatewayDown(o)
  PROVE  GwInv'
<1>1. /\ gwOrder[o] \in GwOrder /\ OrderOK(o) /\ gwRefused = {}
      /\ gwGateway[o] \in {"unknown", "open", "paid", "short", "verified"}
      /\ gwGateway = [gwGateway EXCEPT ![o] = gwGateway[o]]
      /\ gwOrder = [gwOrder EXCEPT ![o] = gwOrder[o]]
      /\ o \in DOMAIN gwOrder /\ o \in DOMAIN gwGateway
  BY DEF GwInv, GatewaysTypeOK
<1> DEFINE approved == [gwOrder[o] EXCEPT !.status = "approved"]
           expired == [gwOrder[o] EXCEPT !.status = "expired"]
           rejected == [gwOrder[o] EXCEPT !.status = "rejected"]
<1>2. \A order \in {approved, expired, rejected} :
        /\ order \in GwOrder /\ order.status # "none" /\ order.at = gwOrder[o].at
        /\ order.key = gwOrder[o].key /\ order.account = gwOrder[o].account
        /\ order.authority = gwOrder[o].authority
  BY <1>1 DEF GwOrder
<1>3. approved.status = "approved" /\ expired.status = "expired" /\ rejected.status = "rejected"
  BY <1>1 DEF GwOrder
<1>4. ASSUME NEW by, LeftAsItIs(o, by), UNCHANGED <<gwSaves, gwConfig, gwGateway, gwUnnamed>>,
             gwRefused' = gwRefused
      PROVE  GwInv'
  <2>1. \/ gwOrder' = gwOrder
        \/ gwOrder[o].status = "pending" /\ gwOrder' = [gwOrder EXCEPT ![o] = expired]
    BY <1>4 DEF LeftAsItIs, expired
  <2> HIDE DEF approved, expired, rejected
  <2>2. OrderOK(o)'
    BY <1>1, <1>2, <1>3, <1>4, <2>1 DEF OrderOK
  <2> QED BY <1>1, <1>2, <1>4, <2>1, <2>2, OneOrderMoves
<1>5. ASSUME NEW by, VerifyBegins(o, by) PROVE GwInv'
  <2>1. /\ UNCHANGED <<gwSaves, gwConfig, gwGateway, gwUnnamed>> /\ gwOrder[o].status # "none"
        /\ LeftAsItIs(o, by)
    BY <1>5 DEF VerifyBegins, LeftAsItIs
  <2>2. gwRefused' = gwRefused
    <3>1. CASE GetProvider(gwOrder[o].key, TRUE)
      BY <1>5, <3>1 DEF VerifyBegins
    <3>2. CASE ~ GetProvider(gwOrder[o].key, TRUE)
      <4>1. VerifiesIn(gwOrder[o].key) # gwOrder[o].account
        BY <1>1, <2>1, <3>2 DEF GetProvider, OrderOK
      <4> QED BY <1>5, <3>2, <4>1 DEF VerifyBegins
    <3> QED BY <3>1, <3>2
  <2> QED BY <2>1, <2>2, <1>4
<1>6. ASSUME NEW key, Verifies(o, key) PROVE GwInv'
  <2>1. /\ gwGateway' = [gwGateway EXCEPT ![o] = "verified"]
        /\ UNCHANGED <<gwSaves, gwConfig, gwRefused, gwUnnamed>>
        /\ gwGateway[o] \in {"paid", "verified"}
    BY <1>6 DEF Verifies, PaidThere
  <2>2. gwOrder[o].at = "done" /\ gwOrder[o].status # "none"
    BY <1>1, <2>1 DEF OrderOK
  <2>3. gwOrder' = [gwOrder EXCEPT ![o] = approved] \/ gwOrder' = gwOrder
    BY <1>6 DEF Verifies, approved
  <2> HIDE DEF approved, expired, rejected
  <2>4. OrderOK(o)'
    BY <1>1, <1>2, <1>3, <2>1, <2>2, <2>3 DEF OrderOK
  <2> QED BY <1>1, <1>2, <2>1, <2>3, <2>4, OneOrderMoves
<1>7. CASE Mismatch(o)
  <2>1. /\ gwOrder' = [gwOrder EXCEPT ![o] = rejected]
        /\ UNCHANGED <<gwSaves, gwConfig, gwGateway, gwRefused>>
        /\ \/ gwGateway[o] = "short" /\ gwUnnamed' = gwUnnamed
           \/ gwGateway[o] = "verified" /\ gwUnnamed' = gwUnnamed \cup {o}
    BY <1>7 DEF Mismatch, ShortThere, rejected
  <2> HIDE DEF approved, expired, rejected
  <2>2. gwOrder[o].at = "done" /\ gwOrder[o].status # "none"
    BY <1>1, <2>1 DEF OrderOK
  <2>3. OrderOK(o)'
    BY <1>1, <1>2, <1>3, <2>1, <2>2 DEF OrderOK
  <2> QED BY <1>1, <1>2, <2>1, <2>3, OneOrderMoves
<1>8. CASE NotPaid(o)
  <2>1. gwRefused' = gwRefused
    <3>1. ~ (gwVerify[o].account = gwOrder[o].account /\ gwGateway[o] \in {"paid", "verified"})
      BY <1>1, <1>8 DEF NotPaid, PaidThere, KnownThere, OrderOK
    <3> QED BY <1>8, <3>1 DEF NotPaid
  <2> QED BY <1>4, <1>8, <2>1 DEF NotPaid
<1>9. CASE GatewayDown(o)
  BY <1>4, <1>9 DEF GatewayDown
<1> QED BY <1>5, <1>6, <1>7, <1>8, <1>9

\* providers_save touches no order.
LEMMA SaveKeepsInv == ASSUME GwInv, ProvidersSave PROVE GwInv'
<1>1. PICK k \in ProviderKeys, enabled \in BOOLEAN, sandbox \in BOOLEAN,
           opens \in Credentials, verifies \in Credentials :
        /\ k # "centralpay" => opens = verifies
        /\ gwConfig' = [gwConfig EXCEPT ![k] =
             [enabled |-> enabled, sandbox |-> sandbox,
              opens |-> IF opens = NoMerchant THEN @.opens ELSE opens,
              verifies |-> IF verifies = NoMerchant THEN @.verifies ELSE verifies]]
  BY DEF ProvidersSave
<1>2. /\ gwConfig' \in [ProviderKeys -> [enabled : BOOLEAN, opens : Credentials,
                                         verifies : Credentials, sandbox : BOOLEAN]]
      /\ \A p \in ProviderKeys \ {"centralpay"} : gwConfig'[p].opens = gwConfig'[p].verifies
  BY <1>1 DEF GwInv, GatewaysTypeOK
<1>3. gwSaves' \in 0..MaxSaves /\ UNCHANGED <<gwOrder, gwGateway, gwVerify, gwRefused, gwUnnamed>>
  BY GatewaysAssumption DEF ProvidersSave, GwInv, GatewaysTypeOK
<1> QED BY <1>2, <1>3 DEF GwInv, GatewaysTypeOK, OrderOK

\* Offered orders can be asked for, and none was refused, in every run.
LEMMA OrdersAreOK == GatewaysSpec => []GwInv
<1>1. GatewaysInit => GwInv
  <2> SUFFICES ASSUME GatewaysInit PROVE GwInv
    OBVIOUS
  <2> DEFINE first == [status |-> "none", at |-> "none", key |-> "", account |-> NoAccount,
                       authority |-> FALSE]
  <2>1. first \in GwOrder /\ first.status = "none" /\ first.at = "none"
    BY DEF GwOrder, Accounts
  <2>2. gwOrder = [o \in Orders |-> first] /\ gwGateway = [o \in Orders |-> "unknown"]
        /\ gwRefused = {} /\ gwUnnamed = {} /\ gwSaves = 0
    BY DEF GatewaysInit
  <2> HIDE DEF first
  <2>3. gwOrder \in [Orders -> GwOrder] /\ \A o \in Orders : OrderOK(o)
    BY <2>1, <2>2 DEF OrderOK
  <2>4. /\ gwConfig \in [ProviderKeys -> [enabled : BOOLEAN, opens : Credentials,
                                          verifies : Credentials, sandbox : BOOLEAN]]
        /\ \A k \in ProviderKeys : gwConfig[k].opens = gwConfig[k].verifies
    BY DEF GatewaysInit, Credentials
  <2>5. \A o \in Orders : gwOrder[o].status = "none" /\ gwOrder[o].at = "none"
    BY <2>1, <2>2
  <2>6. GatewaysTypeOK
    BY <2>2, <2>4, <2>5, GatewaysAssumption DEF GatewaysTypeOK
  <2> QED BY <2>2, <2>3, <2>4, <2>6 DEF GwInv
<1>2. GwInv /\ [GatewaysNext]_gwVars => GwInv'
  <2> SUFFICES ASSUME GwInv, [GatewaysNext]_gwVars PROVE GwInv'
    OBVIOUS
  <2>1. CASE UNCHANGED gwVars
    BY <2>1 DEF gwVars, GwInv, GatewaysTypeOK, OrderOK
  <2>2. CASE ProvidersSave
    BY <2>2, SaveKeepsInv
  <2>3. ASSUME NEW o \in Orders,
               \/ GatewayReturn(o) \/ PaymentCheck(o) \/ PaymentRecheck(o)
               \/ ReconcilePending(o) \/ CentralpayVerify(o) \/ ZarinpalVerify(o)
               \/ ZibalVerify(o) \/ Mismatch(o) \/ NotPaid(o) \/ GatewayDown(o)
        PROVE  GwInv'
    BY <2>3, SettlingKeepsInv DEF GatewayReturn, PaymentCheck, PaymentRecheck,
                                  ReconcilePending, CentralpayVerify, ZarinpalVerify, ZibalVerify
  <2> QED BY <2>1, <2>2, <2>3, OpeningKeepsInv DEF GatewaysNext
<1> QED BY <1>1, <1>2, PTL DEF GatewaysSpec

\* Types of the providers' rows, the orders and the gateways.
THEOREM GatewaysTypeCorrect == GatewaysSpec => []GatewaysTypeOK
<1>1. GwInv => GatewaysTypeOK
  BY DEF GwInv
<1> QED BY <1>1, OrdersAreOK, PTL

\* However the owner edits the providers (providers_save) while orders are under way,
\* the account an order was opened in does not refuse it once it is paid, no answer but
\* zibal's without an amount rejects it, and nothing else is approved (verify_and_apply).
THEOREM PaidOrdersAlwaysSettle == GatewaysSpec => []PaidOrdersSettle
<1>1. GwInv => PaidOrdersSettle
  BY DEF GwInv, PaidOrdersSettle, OrderOK
<1> QED BY <1>1, OrdersAreOK, PTL

-----------------------------------------------------------------------------
(* Tenants: one charge for each bot. *)

\* A request under way works on a bot.
TenantTask ==
  [at : {"reload", "unhook"}, bot : Bots]
    \cup [at : {"extended"}, bot : Bots, seen : {"none", "active", "suspended"}]
    \cup [at : {"register", "hook", "add"}, bot : Bots, secret : Nat]

TenantTypes ==
  /\ TenantBotsTypeOK
  /\ tnRequest \in [Requests -> TenantTask \cup {NoRequest}]

Purchase == [at : {"checked", "locked", "debited", "charged", "seeded", "done"},
             bot : Bots, owner : Owners]
InCreation(b) == \E u \in Buyers : tnBuyer[u].at \in {"charged", "seeded"} /\ tnBuyer[u].bot = b

\* Requests and the sweep work on tenants that exist, which never go away; a charged bot
\* whose creation is over is set up, or on record as cut short.
TenantInv ==
  /\ TenantTypes
  /\ \A r \in Requests : tnRequest[r] # NoRequest => tnRow[tnRequest[r].bot].status # "none"
  /\ \A b \in tnSweep.bots : tnRow[b].status # "none"
  /\ \A b \in Bots : tnCharges[b] = IF tnRow[b].status = "none" THEN 0 ELSE 1
  /\ \A u \in Buyers : tnBuyer[u].at \in {"charged", "seeded"} =>
       tnRow[tnBuyer[u].bot].status # "none"
  /\ \A u \in Buyers : tnBuyer[u].at = "seeded" =>
       <<"admin", tnBuyer[u].bot>> \in tnSetUp \/ tnBuyer[u].bot \in tnShort
  /\ \A b \in Bots : tnCharges[b] > 0 =>
       {"admin", "login"} \X {b} \subseteq tnSetUp \/ b \in tnShort \/ InCreation(b)

\* A request that is not idle is one of the tasks.
LEMMA BusyRequest ==
  ASSUME TenantInv, NEW r \in Requests, tnRequest[r].at # "idle"
  PROVE  /\ tnRequest[r] \in TenantTask /\ tnRequest[r].bot \in Bots
         /\ tnRow[tnRequest[r].bot].status # "none"
         /\ tnRequest[r].at \in {"register", "hook", "add"} => tnRequest[r].secret \in Nat
<1>1. tnRequest[r] \in TenantTask /\ tnRequest[r] # NoRequest
  BY DEF TenantInv, TenantTypes, NoRequest
<1> QED BY <1>1 DEF TenantInv, TenantTask

\* Steps that create no tenant and charge nobody.
LEMMA NoCreationKeepsInv ==
  ASSUME TenantInv, TenantTypes', UNCHANGED <<tnCharges, tnSetUp, tnShort, tnBuyer>>,
         \A b \in Bots : tnRow'[b].status = "none" <=> tnRow[b].status = "none",
         \A r \in Requests : \/ tnRequest'[r] \in {tnRequest[r], NoRequest}
                             \/ tnRequest'[r].bot \in Bots
                                /\ tnRow[tnRequest'[r].bot].status # "none",
         \A b \in tnSweep'.bots : tnRow[b].status # "none"
  PROVE  TenantInv'
<1>1. \A r \in Requests : tnRequest'[r] # NoRequest =>
        tnRequest'[r].bot \in Bots /\ tnRow[tnRequest'[r].bot].status # "none"
  <2>1. ASSUME NEW r \in Requests, tnRequest'[r] = tnRequest[r], tnRequest[r] # NoRequest
        PROVE  tnRequest[r].bot \in Bots /\ tnRow[tnRequest[r].bot].status # "none"
    BY <2>1 DEF TenantInv, TenantTypes, TenantTask
  <2> QED BY <2>1
<1>2. tnSweep'.bots \subseteq Bots
  BY DEF TenantTypes, TenantBotsTypeOK
<1>3. \A u \in Buyers : tnBuyer[u].at \in {"charged", "seeded"} => tnBuyer[u].bot \in Bots
  BY DEF TenantInv, TenantTypes, TenantBotsTypeOK, NotBuying
<1> QED BY <1>1, <1>2, <1>3 DEF TenantInv, InCreation

\* The requests of the platform's panel.
LEMMA PlatformKeepsInv ==
  ASSUME TenantInv, NEW r \in Requests, NEW b \in Bots,
         PlatformSuspend(r, b) \/ PlatformReactivate(r, b) \/ PlatformExtend(r, b)
  PROVE  TenantInv'
<1>1. TenantTypes /\ tnRow[b].status # "none"
      /\ UNCHANGED <<tnBuyer, tnLock, tnCharges, tnSetUp, tnReg, tnHook, tnSweep, tnShort, tnTrouble>>
  BY DEF TenantInv, PlatformSuspend, PlatformReactivate, PlatformSetStatus, PlatformExtend
<1>2. PICK task \in TenantTask :
        tnRequest' = [tnRequest EXCEPT ![r] = task] /\ task.bot = b
  <2> DEFINE reload == [at |-> "reload", bot |-> b]
             extended == [at |-> "extended", bot |-> b, seen |-> tnRow[b].status]
  <2>1. tnRow[b].status \in {"none", "active", "suspended"}
    BY <1>1 DEF TenantTypes, TenantBotsTypeOK
  <2>2. reload \in TenantTask /\ reload.bot = b /\ extended \in TenantTask /\ extended.bot = b
    BY <2>1 DEF TenantTask
  <2>3. tnRequest' = [tnRequest EXCEPT ![r] = reload]
        \/ tnRequest' = [tnRequest EXCEPT ![r] = extended]
    BY DEF PlatformSuspend, PlatformReactivate, PlatformSetStatus, PlatformExtend, Begin
  <2> HIDE DEF reload, extended
  <2> QED BY <2>2, <2>3
<1>3. /\ tnRow' \in [Bots -> [status : {"none", "active", "suspended"},
                              paid : {"never", "future", "past"}, secret : Nat]]
      /\ \A a \in Bots : tnRow'[a].status = "none" <=> tnRow[a].status = "none"
  <2>1. tnRow \in [Bots -> [status : {"none", "active", "suspended"},
                            paid : {"never", "future", "past"}, secret : Nat]]
    BY <1>1 DEF TenantTypes, TenantBotsTypeOK
  <2>2. \/ tnRow' = [tnRow EXCEPT ![b].status = "suspended"]
        \/ tnRow' = [tnRow EXCEPT ![b].status = "active"]
        \/ tnRow' = [tnRow EXCEPT ![b].paid = "future"]
    BY DEF PlatformSuspend, PlatformReactivate, PlatformSetStatus, PlatformExtend
  <2>3. CASE tnRow' = [tnRow EXCEPT ![b].status = "suspended"]
             \/ tnRow' = [tnRow EXCEPT ![b].status = "active"]
    BY <1>1, <2>1, <2>3
  <2>4. CASE tnRow' = [tnRow EXCEPT ![b].paid = "future"]
    BY <1>1, <2>1, <2>4
  <2> QED BY <2>2, <2>3, <2>4
<1>4. tnRaced' \subseteq Bots
  BY <1>1 DEF TenantTypes, TenantBotsTypeOK, PlatformSuspend, PlatformReactivate,
              PlatformSetStatus, PlatformExtend, Begin
<1>5. tnRequest' \in [Requests -> TenantTask \cup {NoRequest}]
      /\ tnRequest'[r] = task /\ \A q \in Requests \ {r} : tnRequest'[q] = tnRequest[q]
  BY <1>1, <1>2 DEF TenantTypes
<1>6. TenantTypes'
  BY <1>1, <1>3, <1>4, <1>5 DEF TenantTypes, TenantBotsTypeOK
<1>7. \A a \in tnSweep'.bots : tnRow[a].status # "none"
  BY <1>1 DEF TenantInv
<1> QED BY <1>1, <1>2, <1>3, <1>5, <1>6, <1>7, NoCreationKeepsInv

\* The reload of the registry, up to the entry (BotRegistry.reload, _register), and the
\* end of an extension.
LEMMA ReloadKeepsInv ==
  ASSUME TenantInv, NEW r \in Requests,
         ExtendRevives(r) \/ ReloadRead(r) \/ Unhook(r) \/ EnsureSecret(r) \/ SetWebhook(r)
           \/ AddEntry(r)
  PROVE  TenantInv'
<1> DEFINE b == tnRequest[r].bot
           Rows == [Bots -> [status : {"none", "active", "suspended"},
                             paid : {"never", "future", "past"}, secret : Nat]]
<1>1. /\ TenantTypes /\ b \in Bots /\ tnRow[b].status # "none" /\ tnRow \in Rows
      /\ tnRequest[r].at \in {"register", "hook", "add"} => tnRequest[r].secret \in Nat
      /\ tnRequest[r].at \in {"register", "hook", "add"} =>
           tnRequest[r] \in [at : {"register", "hook", "add"}, bot : Bots, secret : Nat]
  <2>1. tnRequest[r].at # "idle"
    BY DEF ExtendRevives, ReloadRead, Unhook, EnsureSecret, SetWebhook, AddEntry
  <2>2. tnRequest[r] \in TenantTask
    BY <2>1, BusyRequest
  <2>3. tnRequest[r].at \in {"register", "hook", "add"} =>
           tnRequest[r] \in [at : {"register", "hook", "add"}, bot : Bots, secret : Nat]
    BY <2>2 DEF TenantTask
  <2> QED BY <2>1, <2>3, BusyRequest DEF TenantInv, TenantTypes, TenantBotsTypeOK
<1>2. UNCHANGED <<tnBuyer, tnLock, tnCharges, tnSetUp, tnSweep, tnShort, tnRaced>>
  BY DEF ExtendRevives, ReloadRead, Unhook, EnsureSecret, SetWebhook, AddEntry
<1>3. r \in Nat
  BY TenantBotsAssumption DEF Requests
<1>4. tnRow' \in Rows /\ \A a \in Bots : tnRow'[a].status = "none" <=> tnRow[a].status = "none"
  <2>1. CASE ExtendRevives(r)
    BY <1>1, <2>1 DEF ExtendRevives
  <2>2. CASE EnsureSecret(r)
    BY <1>1, <1>3, <2>2 DEF EnsureSecret
  <2>3. CASE SetWebhook(r)
    BY <1>1, <2>3 DEF SetWebhook
  <2>4. CASE ReloadRead(r) \/ Unhook(r) \/ AddEntry(r)
    BY <1>1, <2>4 DEF ReloadRead, Unhook, AddEntry
  <2> QED BY <2>1, <2>2, <2>3, <2>4
<1>5. PICK task \in TenantTask \cup {NoRequest} :
        tnRequest' = [tnRequest EXCEPT ![r] = task] /\ (task = NoRequest \/ task.bot = b)
  <2>1. CASE ExtendRevives(r)
    BY <1>1, <2>1 DEF ExtendRevives, TenantTask
  <2>2. CASE ReloadRead(r)
    <3>1. tnRow[b].secret \in Nat
      BY <1>1
    <3> QED BY <1>1, <2>2, <3>1 DEF ReloadRead, TenantTask
  <2>3. CASE Unhook(r) \/ AddEntry(r)
    BY <2>3 DEF Unhook, AddEntry
  <2>4. CASE EnsureSecret(r)
    <3>1. CASE tnRequest[r].secret = NoSecret
      BY <1>1, <1>3, <2>4, <3>1 DEF EnsureSecret, TenantTask
    <3>2. CASE tnRequest[r].secret # NoSecret
      <4> DEFINE task == [tnRequest[r] EXCEPT !.at = "hook"]
      <4>1. task \in TenantTask /\ task.bot = b
        BY <1>1, <2>4 DEF EnsureSecret, TenantTask
      <4> QED BY <2>4, <3>2, <4>1 DEF EnsureSecret
    <3> QED BY <3>1, <3>2
  <2>5. CASE SetWebhook(r)
    <3> DEFINE task == [tnRequest[r] EXCEPT !.at = "add"]
    <3>1. task \in TenantTask /\ task.bot = b
      BY <1>1, <2>5 DEF SetWebhook, TenantTask
    <3>2. \/ tnRequest' = [tnRequest EXCEPT ![r] = task]
          \/ tnRequest' = [tnRequest EXCEPT ![r] = NoRequest]
      BY <2>5 DEF SetWebhook
    <3> HIDE DEF task
    <3> QED BY <3>1, <3>2
  <2> QED BY <2>1, <2>2, <2>3, <2>4, <2>5
<1>6. tnReg' \in [Bots -> Nat] /\ tnHook' \in [Bots -> Nat] /\ tnTrouble' \in 0..MaxTenantTrouble
  <2>1. tnReg \in [Bots -> Nat] /\ tnHook \in [Bots -> Nat] /\ tnTrouble \in 0..MaxTenantTrouble
    BY <1>1 DEF TenantTypes, TenantBotsTypeOK
  <2>2. tnTrouble' = tnTrouble \/ Trouble
    BY DEF ExtendRevives, ReloadRead, Unhook, EnsureSecret, SetWebhook, AddEntry
  <2>3. tnTrouble' \in 0..MaxTenantTrouble
    BY <2>1, <2>2, TenantBotsAssumption DEF Trouble
  <2>4. tnReg' = tnReg \/ (\E s \in Nat : tnReg' = [tnReg EXCEPT ![b] = s])
    BY <1>1 DEF ExtendRevives, ReloadRead, Unhook, EnsureSecret, SetWebhook, AddEntry, NoSecret
  <2>5. tnHook' = tnHook \/ (\E s \in Nat : tnHook' = [tnHook EXCEPT ![b] = s])
    BY <1>1 DEF ExtendRevives, ReloadRead, Unhook, EnsureSecret, SetWebhook, AddEntry, NoSecret
  <2> QED BY <2>1, <2>3, <2>4, <2>5
<1> HIDE DEF b
<1>7. tnRequest' \in [Requests -> TenantTask \cup {NoRequest}]
      /\ tnRequest'[r] = task /\ \A q \in Requests \ {r} : tnRequest'[q] = tnRequest[q]
  BY <1>1, <1>5 DEF TenantTypes
<1>8. TenantTypes'
  BY <1>1, <1>2, <1>4, <1>6, <1>7 DEF TenantTypes, TenantBotsTypeOK
<1>9. \A a \in tnSweep'.bots : tnRow[a].status # "none"
  BY <1>2 DEF TenantInv
<1>10. \A q \in Requests : \/ tnRequest'[q] \in {tnRequest[q], NoRequest}
                           \/ tnRequest'[q].bot \in Bots
                              /\ tnRow[tnRequest'[q].bot].status # "none"
  BY <1>1, <1>5, <1>7
<1> QED BY <1>2, <1>4, <1>8, <1>9, <1>10, NoCreationKeepsInv

\* The worker's sweep and the end of a rental.
LEMMA WorkerKeepsInv ==
  ASSUME TenantInv,
         (\E b \in Bots : RentalExpires(b)) \/ ExpiryRead \/ ExpiryCommit \/ StopTenantBot
           \/ CreateKeyExpires
  PROVE  TenantInv'
<1> DEFINE Rows == [Bots -> [status : {"none", "active", "suspended"},
                             paid : {"never", "future", "past"}, secret : Nat]]
<1>1. /\ TenantTypes /\ tnRow \in Rows /\ tnSweep.bots \subseteq Bots
      /\ tnSweep \in [at : {"idle", "read", "stopping"}, bots : SUBSET Bots]
      /\ tnHook \in [Bots -> Nat] /\ tnTrouble \in 0..MaxTenantTrouble /\ tnRaced \subseteq Bots
      /\ \A b \in tnSweep.bots : tnRow[b].status # "none"
  BY DEF TenantInv, TenantTypes, TenantBotsTypeOK
<1>2. UNCHANGED <<tnBuyer, tnCharges, tnSetUp, tnRequest, tnReg, tnShort>>
  BY DEF RentalExpires, ExpiryRead, ExpiryCommit, StopTenantBot, CreateKeyExpires
<1>3. tnRow' \in Rows /\ \A a \in Bots : tnRow'[a].status = "none" <=> tnRow[a].status = "none"
  <2>1. CASE \E b \in Bots : RentalExpires(b)
    BY <1>1, <2>1 DEF RentalExpires
  <2>2. CASE ExpiryCommit
    BY <1>1, <2>2 DEF ExpiryCommit
  <2>3. CASE ExpiryRead \/ StopTenantBot \/ CreateKeyExpires
    BY <1>1, <2>3 DEF ExpiryRead, StopTenantBot, CreateKeyExpires
  <2> QED BY <2>1, <2>2, <2>3
<1>4. tnSweep' \in [at : {"idle", "read", "stopping"}, bots : SUBSET Bots]
      /\ \A a \in tnSweep'.bots : tnRow[a].status # "none"
  <2>1. CASE ExpiryRead
    BY <1>1, <2>1 DEF ExpiryRead, Overdue
  <2>2. CASE ExpiryCommit
    BY <1>1, <2>2 DEF ExpiryCommit
  <2>3. CASE StopTenantBot
    BY <1>1, <2>3 DEF StopTenantBot, NoSweep
  <2>4. CASE (\E b \in Bots : RentalExpires(b)) \/ CreateKeyExpires
    BY <1>1, <2>4 DEF RentalExpires, CreateKeyExpires
  <2> QED BY <2>1, <2>2, <2>3, <2>4
<1>5. tnTrouble' \in 0..MaxTenantTrouble
  <2>1. tnTrouble' = tnTrouble \/ Trouble
    BY DEF RentalExpires, ExpiryRead, ExpiryCommit, StopTenantBot, CreateKeyExpires
  <2> QED BY <1>1, <2>1, TenantBotsAssumption DEF Trouble
<1>6. tnRaced' \subseteq Bots
  BY <1>1 DEF RentalExpires, ExpiryRead, ExpiryCommit, StopTenantBot, CreateKeyExpires, Overdue
<1>7. tnHook' \in [Bots -> Nat]
  BY <1>1 DEF RentalExpires, ExpiryRead, ExpiryCommit, StopTenantBot, CreateKeyExpires, NoSecret
<1>8. tnLock' \subseteq Owners \X Bots
  BY <1>1 DEF RentalExpires, ExpiryRead, ExpiryCommit, StopTenantBot, CreateKeyExpires,
              TenantTypes, TenantBotsTypeOK
<1>9. TenantTypes'
  BY <1>1, <1>2, <1>3, <1>4, <1>5, <1>6, <1>7, <1>8 DEF TenantTypes, TenantBotsTypeOK
<1> QED BY <1>2, <1>3, <1>4, <1>9, NoCreationKeepsInv

\* The API dies and starts again: whom it was creating is cut short.
LEMMA RestartKeepsInv == ASSUME TenantInv, ApiRestarts PROVE TenantInv'
<1> DEFINE Rows == [Bots -> [status : {"none", "active", "suspended"},
                             paid : {"never", "future", "past"}, secret : Nat]]
           Short == {tnBuyer[u].bot : u \in {v \in Buyers : tnBuyer[v].at \in {"charged", "seeded"}}}
<1>1. /\ TenantTypes /\ tnRow \in Rows /\ tnHook \in [Bots -> Nat]
      /\ tnTrouble \in 0..MaxTenantTrouble /\ tnRaced \subseteq Bots /\ tnShort \subseteq Bots
      /\ tnBuyer \in [Buyers -> {NotBuying} \cup Purchase]
  BY DEF TenantInv, TenantTypes, TenantBotsTypeOK, Purchase
<1>2. /\ UNCHANGED <<tnLock, tnCharges, tnSetUp, tnSweep>> /\ Trouble
      /\ tnRequest' = [r \in Requests |-> NoRequest] /\ tnShort' = tnShort \cup Short
      /\ tnBuyer' = [u \in Buyers |-> IF tnBuyer[u] = NotBuying THEN NotBuying
                                      ELSE [tnBuyer[u] EXCEPT !.at = "done"]]
      /\ tnRaced' \subseteq Bots
  BY <1>1 DEF ApiRestarts
<1>3. PICK refused \in SUBSET {b \in Bots : tnRow[b].status = "active"} :
        LET active == {b \in Bots : tnRow[b].status = "active"}
            secret == [b \in Bots |-> IF tnRow[b].secret = NoSecret THEN 1 ELSE tnRow[b].secret] IN
       /\ tnRow' = [b \in Bots |->
            IF b \in refused THEN [tnRow[b] EXCEPT !.status = "suspended", !.secret = secret[b]]
            ELSE IF b \in active THEN [tnRow[b] EXCEPT !.secret = secret[b]] ELSE tnRow[b]]
       /\ tnHook' = [b \in Bots |-> IF b \in active \ refused THEN secret[b] ELSE tnHook[b]]
       /\ tnReg' = [b \in Bots |-> IF b \in active \ refused THEN secret[b] ELSE NoSecret]
  BY DEF ApiRestarts
<1>4. \A b \in Bots : (IF tnRow[b].secret = NoSecret THEN 1 ELSE tnRow[b].secret) \in Nat
  BY <1>1
<1>5. tnRow' \in Rows /\ \A a \in Bots : tnRow'[a].status = "none" <=> tnRow[a].status = "none"
  BY <1>1, <1>3, <1>4
<1>6. tnHook' \in [Bots -> Nat] /\ tnReg' \in [Bots -> Nat]
  BY <1>1, <1>3, <1>4 DEF NoSecret
<1>7. /\ tnBuyer' \in [Buyers -> {NotBuying} \cup Purchase]
      /\ \A u \in Buyers : tnBuyer'[u].at \notin {"charged", "seeded"}
  BY <1>1, <1>2 DEF NotBuying, Purchase
<1>8. tnShort' \subseteq Bots
  BY <1>1, <1>2 DEF NotBuying, Purchase
<1>9. tnTrouble' \in 0..MaxTenantTrouble
  BY <1>1, <1>2, TenantBotsAssumption DEF Trouble
<1>10. TenantTypes'
  BY <1>1, <1>2, <1>5, <1>6, <1>7, <1>8, <1>9 DEF TenantTypes, TenantBotsTypeOK, Purchase
<1>11. \A b \in Bots : InCreation(b) => b \in tnShort'
  BY <1>2 DEF InCreation
<1>12. tnSweep'.bots \subseteq Bots
  BY <1>10 DEF TenantTypes, TenantBotsTypeOK, Purchase
<1> QED BY <1>2, <1>5, <1>7, <1>10, <1>11, <1>12 DEF TenantInv

\* A step of create_from_wallet that charges nobody.
LEMMA BuyerGoesOn ==
  ASSUME TenantInv, NEW u \in Buyers, NEW next \in Purchase,
         tnBuyer' = [tnBuyer EXCEPT ![u] = next],
         next.at \in {"charged", "seeded"} => tnRow[next.bot].status # "none",
         UNCHANGED <<tnRow, tnCharges, tnReg, tnHook, tnSweep>>,
         tnSetUp \subseteq tnSetUp', tnShort \subseteq tnShort',
         tnSetUp' \subseteq {"admin", "login"} \X Bots, tnShort' \subseteq Bots,
         tnRaced' \subseteq Bots, tnTrouble' \in 0..MaxTenantTrouble,
         tnLock' \subseteq Owners \X Bots,
         tnRequest' \in [Requests -> TenantTask \cup {NoRequest}],
         \A r \in Requests : tnRequest'[r] = tnRequest[r]
           \/ tnRow[tnRequest'[r].bot].status # "none",
         next.at = "seeded" => <<"admin", next.bot>> \in tnSetUp' \/ next.bot \in tnShort',
         tnBuyer[u].at \in {"charged", "seeded"} =>
           \/ next.at \in {"charged", "seeded"} /\ next.bot = tnBuyer[u].bot
           \/ {"admin", "login"} \X {tnBuyer[u].bot} \subseteq tnSetUp'
           \/ tnBuyer[u].bot \in tnShort'
  PROVE  TenantInv'
<1>2. tnBuyer \in [Buyers -> {NotBuying} \cup Purchase]
  BY DEF TenantInv, TenantTypes, TenantBotsTypeOK, Purchase
<1>3. /\ tnBuyer' \in [Buyers -> {NotBuying} \cup Purchase] /\ tnBuyer'[u] = next
      /\ \A v \in Buyers \ {u} : tnBuyer'[v] = tnBuyer[v]
  BY <1>2
<1>4. TenantTypes'
  BY <1>3 DEF TenantInv, TenantTypes, TenantBotsTypeOK, Purchase
<1>5. \A r \in Requests : tnRequest'[r] # NoRequest => tnRow[tnRequest'[r].bot].status # "none"
  BY DEF TenantInv
<1>6. \A v \in Buyers : tnBuyer'[v].at = "seeded" =>
        <<"admin", tnBuyer'[v].bot>> \in tnSetUp' \/ tnBuyer'[v].bot \in tnShort'
  BY <1>3 DEF TenantInv
<1>8. \A v \in Buyers : tnBuyer'[v].at \in {"charged", "seeded"} =>
        tnRow[tnBuyer'[v].bot].status # "none"
  BY <1>3 DEF TenantInv
<1>7. ASSUME NEW a \in Bots, tnCharges[a] > 0
      PROVE  {"admin", "login"} \X {a} \subseteq tnSetUp' \/ a \in tnShort' \/ InCreation(a)'
  <2>1. {"admin", "login"} \X {a} \subseteq tnSetUp \/ a \in tnShort \/ InCreation(a)
    BY <1>7 DEF TenantInv
  <2>2. CASE InCreation(a)
    <3>1. PICK v \in Buyers : tnBuyer[v].at \in {"charged", "seeded"} /\ tnBuyer[v].bot = a
      BY <2>2 DEF InCreation
    <3>2. CASE v # u
      BY <1>3, <3>1, <3>2 DEF InCreation
    <3>3. CASE v = u
      BY <1>3, <3>1, <3>3 DEF InCreation
    <3> QED BY <3>2, <3>3
  <2> QED BY <2>1, <2>2
<1> QED BY <1>4, <1>5, <1>6, <1>7, <1>8 DEF TenantInv

\* Who is charged has a new tenant, and is in creation.
LEMMA CommitKeepsTenants == ASSUME TenantInv, NEW u \in Buyers, CreateCommit(u) PROVE TenantInv'
<1> DEFINE b == tnBuyer[u].bot
           Rows == [Bots -> [status : {"none", "active", "suspended"},
                             paid : {"never", "future", "past"}, secret : Nat]]
<1>1. /\ tnBuyer[u] \in Purchase /\ b \in Bots /\ tnRow \in Rows
      /\ tnBuyer \in [Buyers -> {NotBuying} \cup Purchase] /\ tnCharges \in [Bots -> Nat]
      /\ tnLock \subseteq Owners \X Bots
  BY DEF TenantInv, TenantTypes, TenantBotsTypeOK, CreateCommit, NotBuying, Purchase
<1>2. UNCHANGED <<tnSetUp, tnRequest, tnReg, tnHook, tnSweep, tnRaced, tnShort, tnTrouble>>
      /\ tnBuyer[u].at = "debited"
  BY DEF CreateCommit
<1>3. PICK at \in {"charged", "done"} : tnBuyer' = [tnBuyer EXCEPT ![u].at = at]
        /\ at = (IF tnRow[b].status = "none" THEN "charged" ELSE "done")
  BY DEF CreateCommit, GoTo, IsNewBot
<1>4. /\ tnBuyer' \in [Buyers -> {NotBuying} \cup Purchase]
      /\ tnBuyer'[u].at = at /\ tnBuyer'[u].bot = b
      /\ \A v \in Buyers \ {u} : tnBuyer'[v] = tnBuyer[v]
  BY <1>1, <1>3 DEF Purchase
<1>5. tnLock' \subseteq Owners \X Bots
  BY <1>1 DEF CreateCommit
<1>6. CASE tnRow[b].status # "none"
  <2>1. UNCHANGED <<tnRow, tnCharges>>
    BY <1>6 DEF CreateCommit, IsNewBot
  <2>2. TenantTypes'
    BY <1>2, <1>4, <1>5, <2>1 DEF TenantInv, TenantTypes, TenantBotsTypeOK, Purchase
  <2>3. \A a \in Bots : InCreation(a) => InCreation(a)'
    BY <1>2, <1>4 DEF InCreation
  <2>4. \A v \in Buyers : tnBuyer'[v].at \in {"charged", "seeded"} =>
          tnBuyer'[v] = tnBuyer[v]
    BY <1>3, <1>4, <1>6
  <2> QED BY <1>2, <2>1, <2>2, <2>3, <2>4 DEF TenantInv
<1>7. CASE tnRow[b].status = "none"
  <2>1. PICK paid \in {"never", "future"} :
          tnRow' = [tnRow EXCEPT ![b] = [status |-> "active", paid |-> paid, secret |-> NoSecret]]
    BY <1>7 DEF CreateCommit, IsNewBot
  <2>2. tnCharges' = [tnCharges EXCEPT ![b] = @ + 1] /\ tnCharges[b] = 0
    BY <1>1, <1>7 DEF CreateCommit, IsNewBot, TenantInv
  <2>3. /\ tnRow' \in Rows /\ tnRow'[b].status = "active"
        /\ \A a \in Bots \ {b} : tnRow'[a] = tnRow[a]
    BY <1>1, <2>1 DEF NoSecret
  <2>4. /\ tnCharges' \in [Bots -> Nat] /\ tnCharges'[b] = 1
        /\ \A a \in Bots \ {b} : tnCharges'[a] = tnCharges[a]
    BY <1>1, <2>2
  <2>5. TenantTypes'
    BY <1>2, <1>4, <1>5, <2>3, <2>4 DEF TenantInv, TenantTypes, TenantBotsTypeOK, Purchase
  <2>6. \A a \in Bots : a = b \/ InCreation(a) => InCreation(a)'
    BY <1>2, <1>3, <1>4, <1>7 DEF InCreation
  <2>7. /\ \A v \in Buyers : tnBuyer'[v].at = "seeded" => tnBuyer'[v] = tnBuyer[v]
        /\ \A v \in Buyers : tnBuyer'[v].at \in {"charged", "seeded"} =>
             tnBuyer'[v].bot = b \/ (tnBuyer'[v] = tnBuyer[v] /\ tnBuyer[v].bot \in Bots)
    BY <1>1, <1>3, <1>4 DEF NotBuying, Purchase
  <2>8. \A r \in Requests : tnRequest[r] # NoRequest => tnRequest[r].bot \in Bots
    BY DEF TenantInv, TenantTypes, TenantTask
  <2>9. tnSweep.bots \subseteq Bots
    BY DEF TenantInv, TenantTypes, TenantBotsTypeOK, Purchase
  <2> HIDE DEF b
  <2>10. \A a \in Bots : tnRow[a].status # "none" => tnRow'[a].status # "none"
    BY <1>1, <2>3
  <2>11. /\ \A r \in Requests :
              tnRequest'[r] # NoRequest => tnRow'[tnRequest'[r].bot].status # "none"
         /\ \A a \in tnSweep'.bots : tnRow'[a].status # "none"
    BY <1>2, <2>8, <2>9, <2>10 DEF TenantInv
  <2>12. \A a \in Bots : tnCharges'[a] = IF tnRow'[a].status = "none" THEN 0 ELSE 1
    BY <2>3, <2>4 DEF TenantInv
  <2>13. \A v \in Buyers : tnBuyer'[v].at \in {"charged", "seeded"} =>
           tnRow'[tnBuyer'[v].bot].status # "none"
    BY <2>3, <2>7, <2>10 DEF TenantInv
  <2>14. \A v \in Buyers : tnBuyer'[v].at = "seeded" =>
           <<"admin", tnBuyer'[v].bot>> \in tnSetUp' \/ tnBuyer'[v].bot \in tnShort'
    BY <1>2, <2>7 DEF TenantInv
  <2>15. ASSUME NEW a \in Bots, tnCharges'[a] > 0
         PROVE  {"admin", "login"} \X {a} \subseteq tnSetUp' \/ a \in tnShort' \/ InCreation(a)'
    <3>1. CASE a = b
      BY <2>6, <3>1
    <3>2. CASE a # b
      <4>1. tnCharges[a] > 0
        BY <2>4, <2>15, <3>2
      <4>2. {"admin", "login"} \X {a} \subseteq tnSetUp \/ a \in tnShort \/ InCreation(a)
        BY <4>1 DEF TenantInv
      <4> QED BY <1>2, <2>6, <4>2
    <3> QED BY <3>1, <3>2
  <2> QED BY <2>5, <2>11, <2>12, <2>13, <2>14, <2>15 DEF TenantInv
<1> QED BY <1>6, <1>7

\* The other steps of create_from_wallet.
LEMMA BuyerKeepsInv ==
  ASSUME TenantInv, NEW u \in Buyers,
         SubmitToken(u) \/ CreateLock(u) \/ CreateDebit(u) \/ CreateRefused(u)
           \/ SeedDefaults(u) \/ ProvisionLogin(u)
  PROVE  TenantInv'
<1>1. /\ TenantTypes /\ tnBuyer \in [Buyers -> {NotBuying} \cup Purchase]
      /\ tnLock \subseteq Owners \X Bots /\ tnSetUp \subseteq {"admin", "login"} \X Bots
      /\ tnShort \subseteq Bots /\ tnRaced \subseteq Bots /\ tnTrouble \in 0..MaxTenantTrouble
      /\ tnRequest \in [Requests -> TenantTask \cup {NoRequest}]
  BY DEF TenantInv, TenantTypes, TenantBotsTypeOK, Purchase
<1>2. CASE SubmitToken(u)
  <2>1. PICK next \in Purchase : tnBuyer' = [tnBuyer EXCEPT ![u] = next] /\ next.at = "checked"
    <3>1. PICK b \in Bots, o \in Owners :
            tnBuyer' = [tnBuyer EXCEPT ![u] = [at |-> "checked", bot |-> b, owner |-> o]]
      BY <1>2 DEF SubmitToken
    <3>2. [at |-> "checked", bot |-> b, owner |-> o] \in Purchase
      BY DEF Purchase
    <3> QED BY <3>1, <3>2
  <2>2. UNCHANGED <<tnRow, tnLock, tnCharges, tnSetUp, tnRequest, tnReg, tnHook, tnSweep, tnRaced,
                    tnShort, tnTrouble>> /\ tnBuyer[u].at = "idle"
    BY <1>2 DEF SubmitToken, NotBuying
  <2> QED BY <1>1, <2>1, <2>2, BuyerGoesOn
<1> DEFINE b == tnBuyer[u].bot
           o == tnBuyer[u].owner
<1>3. CASE ~SubmitToken(u)
  <2>1. tnBuyer[u] \in Purchase
    BY <1>1, <1>3 DEF NotBuying, CreateLock, CreateDebit, CreateRefused, SeedDefaults, ProvisionLogin
  <2>2. b \in Bots /\ o \in Owners /\ KeyOf(u) \in Owners \X Bots
    BY <2>1 DEF KeyOf, Purchase
  <2>3. ASSUME NEW at \in {"locked", "debited", "seeded", "done"}, GoTo(u, at)
        PROVE  \E next \in Purchase : /\ tnBuyer' = [tnBuyer EXCEPT ![u] = next]
                                     /\ next.at = at /\ next.bot = b
    <3> DEFINE next == [tnBuyer[u] EXCEPT !.at = at]
    <3>1. next \in Purchase /\ next.at = at /\ next.bot = b
      BY <2>1 DEF Purchase
    <3>2. tnBuyer' = [tnBuyer EXCEPT ![u] = next]
      BY <2>3 DEF GoTo
    <3> QED BY <3>1, <3>2
  <2>4. UNCHANGED <<tnRow, tnCharges, tnReg, tnHook, tnSweep>>
    BY <1>3 DEF CreateLock, CreateDebit, CreateRefused, SeedDefaults, ProvisionLogin
  <2>5. tnTrouble' = tnTrouble \/ Trouble
    BY <1>3 DEF CreateLock, CreateDebit, CreateRefused, SeedDefaults, ProvisionLogin
  <2>6. tnTrouble' \in 0..MaxTenantTrouble
    BY <1>1, <2>5, TenantBotsAssumption DEF Trouble
  <2>7. CASE CreateLock(u) \/ CreateDebit(u) \/ CreateRefused(u)
    <3>1. PICK at \in {"locked", "debited", "done"} : GoTo(u, at)
      BY <2>7 DEF CreateLock, CreateDebit, CreateRefused
    <3>2. tnLock' \subseteq Owners \X Bots
      BY <1>1, <2>2, <2>7 DEF CreateLock, CreateDebit, CreateRefused
    <3>3. UNCHANGED <<tnSetUp, tnRequest, tnRaced, tnShort>>
          /\ tnBuyer[u].at \in {"checked", "locked", "debited"}
      BY <2>7 DEF CreateLock, CreateDebit, CreateRefused
    <3>4. PICK next \in Purchase : tnBuyer' = [tnBuyer EXCEPT ![u] = next] /\ next.at = at
      BY <2>3, <3>1
    <3> HIDE DEF b, o
    <3> QED BY <1>1, <2>2, <2>4, <2>6, <3>1, <3>2, <3>3, <3>4, BuyerGoesOn
  <2>8. CASE SeedDefaults(u)
    <3>1. UNCHANGED <<tnLock, tnRequest, tnRaced>> /\ tnBuyer[u].at = "charged"
      BY <2>8 DEF SeedDefaults
    <3>3. PICK next \in Purchase :
            tnBuyer' = [tnBuyer EXCEPT ![u] = next] /\ next.at = "seeded" /\ next.bot = b
      BY <2>3, <2>8 DEF SeedDefaults
    <3>4. tnRow[b].status # "none"
      BY <3>1 DEF TenantInv
    <3>2. /\ tnSetUp \subseteq tnSetUp' /\ tnShort \subseteq tnShort'
          /\ tnSetUp' \subseteq {"admin", "login"} \X Bots /\ tnShort' \subseteq Bots
          /\ <<"admin", b>> \in tnSetUp' \/ b \in tnShort'
      BY <1>1, <2>2, <2>8 DEF SeedDefaults
    <3> HIDE DEF b, o
    <3> QED BY <1>1, <2>2, <2>4, <2>6, <3>1, <3>2, <3>3, <3>4, BuyerGoesOn DEF b
  <2>9. CASE ProvisionLogin(u)
    <3>1. UNCHANGED tnLock /\ tnBuyer[u].at = "seeded"
      BY <2>9 DEF ProvisionLogin
    <3>10. PICK next \in Purchase : tnBuyer' = [tnBuyer EXCEPT ![u] = next] /\ next.at = "done"
      BY <2>3, <2>9 DEF ProvisionLogin
    <3>2. /\ tnSetUp \subseteq tnSetUp' /\ tnShort \subseteq tnShort'
          /\ tnSetUp' \subseteq {"admin", "login"} \X Bots /\ tnShort' \subseteq Bots
          /\ <<"login", b>> \in tnSetUp' \/ b \in tnShort'
      BY <1>1, <2>2, <2>9 DEF ProvisionLogin
    <3>3. <<"admin", b>> \in tnSetUp \/ b \in tnShort
      BY <3>1 DEF TenantInv
    <3>4. {"admin", "login"} \X {b} \subseteq tnSetUp' \/ b \in tnShort'
      BY <3>2, <3>3
    <3>5. PICK r \in Requests : Begin(r, b, [at |-> "reload", bot |-> b])
      BY <2>9 DEF ProvisionLogin
    <3> DEFINE task == [at |-> "reload", bot |-> b]
    <3>6. task \in TenantTask /\ task.bot = b
      BY <2>2 DEF TenantTask
    <3>7. tnRequest' = [tnRequest EXCEPT ![r] = task] /\ tnRaced' \subseteq Bots
      BY <1>1, <2>2, <3>5 DEF Begin
    <3>8. tnRow[b].status # "none"
      BY <2>2, <3>1 DEF TenantInv
    <3> HIDE DEF b, o, task
    <3>9. /\ tnRequest' \in [Requests -> TenantTask \cup {NoRequest}]
          /\ \A q \in Requests : tnRequest'[q] = tnRequest[q]
               \/ tnRow[tnRequest'[q].bot].status # "none"
      BY <1>1, <3>6, <3>7, <3>8
    <3> QED BY <1>1, <2>2, <2>4, <2>6, <3>1, <3>2, <3>4, <3>7, <3>9, <3>10, BuyerGoesOn DEF b
  <2> QED BY <1>3, <2>7, <2>8, <2>9
<1> QED BY <1>2, <1>3

\* What every tenant is like, in every run.
LEMMA TenantsAreOK == TenantBotsSpec => []TenantInv
<1>1. TenantBotsInit => TenantInv
  <2> SUFFICES ASSUME TenantBotsInit PROVE TenantInv
    OBVIOUS
  <2>1. \A b \in Bots : tnRow[b].status = "none" /\ tnCharges[b] = 0
    BY DEF TenantBotsInit, Absent
  <2>2. \A u \in Buyers : tnBuyer[u].at = "idle"
    BY DEF TenantBotsInit, NotBuying
  <2>3. TenantTypes
    BY TenantBotsAssumption DEF TenantBotsInit, TenantTypes, TenantBotsTypeOK, Absent, NoSecret, NoSweep
  <2>4. (\A r \in Requests : tnRequest[r] = NoRequest) /\ tnSweep.bots = {}
    BY DEF TenantBotsInit, NoSweep
  <2> QED BY <2>1, <2>2, <2>3, <2>4 DEF TenantInv
<1>2. TenantInv /\ [TenantBotsNext]_tnVars => TenantInv'
  <2> SUFFICES ASSUME TenantInv, [TenantBotsNext]_tnVars PROVE TenantInv'
    OBVIOUS
  <2>1. CASE UNCHANGED tnVars
    BY <2>1 DEF tnVars, TenantInv, TenantTypes, TenantBotsTypeOK, InCreation
  <2>2. CASE TenantBotsNext
    BY <2>2, PlatformKeepsInv, ReloadKeepsInv, WorkerKeepsInv, RestartKeepsInv, CommitKeepsTenants,
       BuyerKeepsInv DEF TenantBotsNext, BuyerStep, RequestStep
  <2> QED BY <2>1, <2>2
<1> QED BY <1>1, <1>2, PTL DEF TenantBotsSpec

\* Types of tenants, registry, webhooks, purchases and requests.
THEOREM TenantBotsTypeCorrect == TenantBotsSpec => []TenantBotsTypeOK
<1>1. TenantInv => TenantBotsTypeOK
  BY DEF TenantInv, TenantTypes
<1> QED BY <1>1, TenantsAreOK, PTL

\* A bot is charged once, exactly when it exists, and set up unless its creation was cut
\* short (create_from_wallet), for any buyers of one token, with Redis or without.
THEOREM OneChargePerBotEver == TenantBotsSpec => []OneChargePerBot
<1>1. TenantInv => OneChargePerBot
  BY DEF TenantInv, OneChargePerBot, Quiet, InCreation
<1> QED BY <1>1, TenantsAreOK, PTL

-----------------------------------------------------------------------------
(* Invoices: one receipt per settled event, numbered without a gap. *)

Number(n) == \E i \in invoices : i.no = n

\* The maximum that coalesce(max(invoice_no), 0) asks for exists.
MaximumExists ==
  invoices = {} \/ \E m \in invoices : \A i \in invoices : i.no <= m.no

\* A number in flight continues the committed numbers: it was one more than their
\* maximum when it was drawn, and no row is ever deleted.
DrawnContinues ==
  \A r \in Recorders : rec[r].at = "insert" =>
     rec[r].no # 0 /\ \A n \in 1..(rec[r].no - 1) : Number(n)

InvoicesIInv ==
  /\ InvoicesTypeOK
  /\ OnePerSource
  /\ NumbersAreDense
  /\ MaximumExists
  /\ DrawnContinues

\* What LastNo returns.
LEMMA LastNoIsMaximum ==
  ASSUME InvoicesTypeOK, MaximumExists
  PROVE  /\ LastNo \in Nat
         /\ \A i \in invoices : i.no <= LastNo
         /\ LastNo = 0 \/ Number(LastNo)
<1>1. CASE invoices = {}
  BY <1>1 DEF LastNo
<1>2. CASE invoices # {}
  <2> DEFINE Nos == {i.no : i \in invoices}
             IsLast(n) == \A i \in invoices : i.no <= n
  <2>1. \E n \in Nos : IsLast(n)
    BY <1>2 DEF MaximumExists
  <2>2. LastNo = CHOOSE n \in Nos : IsLast(n)
    BY <1>2 DEF LastNo
  <2>3. LastNo \in Nos /\ IsLast(LastNo)
    BY <2>1, <2>2
  <2> QED BY <2>3 DEF InvoicesTypeOK, Invoice, Number
<1> QED BY <1>1, <1>2

\* A call that moves on without inserting keeps the invariant.
LEMMA CallKeepsIInv ==
  ASSUME InvoicesIInv, NEW r \in Recorders, NEW c \in RecordCall \cup {NotRecording},
         rec' = [rec EXCEPT ![r] = c], invoices' = invoices,
         answered' \subseteq Sources,
         c.at = "insert" => c.no # 0 /\ \A n \in 1..(c.no - 1) : Number(n)
  PROVE  InvoicesIInv'
<1>1. InvoicesTypeOK'
  BY DEF InvoicesIInv, InvoicesTypeOK
<1>2. OnePerSource' /\ NumbersAreDense' /\ MaximumExists'
  BY DEF InvoicesIInv, OnePerSource, NumbersAreDense, MaximumExists
<1>3. ASSUME NEW q \in Recorders, rec'[q].at = "insert"
      PROVE  rec'[q].no # 0 /\ \A n \in 1..(rec'[q].no - 1) : Number(n)'
  <2>1. CASE q = r
    BY <1>3, <2>1 DEF InvoicesIInv, InvoicesTypeOK, Number
  <2>2. CASE q # r
    BY <1>3, <2>2 DEF InvoicesIInv, InvoicesTypeOK, DrawnContinues, Number
  <2> QED BY <2>1, <2>2
<1> QED BY <1>1, <1>2, <1>3 DEF InvoicesIInv, DrawnContinues

\* An insert that breaks neither constraint adds the next number.
LEMMA InsertKeepsIInv ==
  ASSUME InvoicesIInv, NEW r \in Recorders, InsertRow(r)
  PROVE  InvoicesIInv'
<1> DEFINE new == [src |-> rec[r].src, no |-> rec[r].no]
<1>1. rec[r] \in RecordCall /\ rec[r].at = "insert"
  BY DEF InsertRow, InvoicesIInv, InvoicesTypeOK, NotRecording
<1>2. /\ new \in Invoice /\ new.no = rec[r].no /\ new.src = rec[r].src
      /\ \A n \in 1..(new.no - 1) : Number(n)
  BY <1>1 DEF InvoicesIInv, DrawnContinues, RecordCall, Invoice
<1>3. \A i \in invoices : i.src # new.src /\ i.no # new.no
  BY DEF InsertRow, Conflicts
<1>4. /\ invoices' = invoices \cup {new}
      /\ rec' = [rec EXCEPT ![r] = NotRecording]
      /\ answered' = answered \cup {rec[r].src}
  BY DEF InsertRow, RecordEnds
<1>5. \A i \in invoices : i \in Invoice /\ i.no \in Nat
  BY DEF InvoicesIInv, InvoicesTypeOK, Invoice
<1>6. new.no \in Nat
  BY <1>2 DEF Invoice
<1>7. InvoicesTypeOK'
  BY <1>1, <1>2, <1>4 DEF InvoicesIInv, InvoicesTypeOK, RecordCall
<1> HIDE DEF new
<1>8. OnePerSource'
  BY <1>3, <1>4 DEF InvoicesIInv, OnePerSource
<1>9. \A n : Number(n) => Number(n)'
  BY <1>4 DEF Number
<1>10. NumbersAreDense'
  <2>1. \A i, j \in invoices' : i.no = j.no => i = j
    BY <1>3, <1>4 DEF InvoicesIInv, NumbersAreDense
  <2>2. ASSUME NEW i \in invoices', NEW n \in 1..i.no PROVE Number(n)'
    <3>1. CASE i \in invoices
      BY <1>9, <3>1 DEF InvoicesIInv, NumbersAreDense, Number
    <3>2. CASE i = new
      <4>1. CASE n = new.no
        BY <1>4, <4>1 DEF Number
      <4>2. CASE n # new.no
        BY <1>2, <1>6, <1>9, <3>2, <4>2
      <4> QED BY <4>1, <4>2
    <3> QED BY <1>4, <3>1, <3>2
  <2> QED BY <2>1, <2>2 DEF NumbersAreDense, Number
<1>11. MaximumExists'
  <2>1. CASE invoices = {}
    BY <1>4, <1>6, <2>1 DEF MaximumExists
  <2>2. CASE invoices # {}
    <3>1. PICK m \in invoices : \A i \in invoices : i.no <= m.no
      BY <2>2 DEF InvoicesIInv, MaximumExists
    <3>2. m.no \in Nat
      BY <1>5
    <3>3. CASE new.no <= m.no
      BY <1>4, <3>1, <3>3 DEF MaximumExists
    <3>4. CASE m.no < new.no
      <4>1. \A i \in invoices' : i.no <= new.no
        BY <1>4, <1>5, <1>6, <3>1, <3>2, <3>4
      <4> QED BY <1>4, <4>1 DEF MaximumExists
    <3> QED BY <1>6, <3>2, <3>3, <3>4
  <2> QED BY <2>1, <2>2
<1>12. DrawnContinues'
  <2> SUFFICES ASSUME NEW q \in Recorders, rec'[q].at = "insert"
               PROVE  rec'[q].no # 0 /\ \A n \in 1..(rec'[q].no - 1) : Number(n)'
    BY DEF DrawnContinues
  <2>1. rec'[q] = rec[q]
    BY <1>4 DEF InvoicesIInv, InvoicesTypeOK, NotRecording
  <2> QED BY <1>9, <2>1 DEF InvoicesIInv, DrawnContinues
<1> QED BY <1>7, <1>8, <1>10, <1>11, <1>12 DEF InvoicesIInv

\* Every step of InvoiceService.record keeps the invariant.
LEMMA NextKeepsInvoicesIInv == InvoicesIInv /\ [InvoicesNext]_inVars => InvoicesIInv'
<1> SUFFICES ASSUME InvoicesIInv, [InvoicesNext]_inVars PROVE InvoicesIInv'
  OBVIOUS
<1>1. CASE UNCHANGED inVars
  BY <1>1 DEF inVars, InvoicesIInv, InvoicesTypeOK, OnePerSource, NumbersAreDense,
     MaximumExists, DrawnContinues, Number
<1>2. ASSUME NEW r \in Recorders, NEW src \in Sources, SafeRecord(r, src)
      PROVE  InvoicesIInv'
  <2> DEFINE c == [at |-> "check", src |-> src, no |-> 0]
  <2>1. c \in RecordCall /\ c.at = "check"
    BY DEF RecordCall
  <2>2. rec' = [rec EXCEPT ![r] = c] /\ UNCHANGED <<invoices, answered>>
    BY <1>2 DEF SafeRecord
  <2> HIDE DEF c
  <2> QED BY <2>1, <2>2, CallKeepsIInv DEF InvoicesIInv, InvoicesTypeOK
<1>3. ASSUME NEW r \in Recorders,
             AlreadyRecorded(r) \/ InsertFails(r) \/ RecordFails(r)
      PROVE  InvoicesIInv'
  <2>1. /\ rec' = [rec EXCEPT ![r] = NotRecording]
        /\ invoices' = invoices
        /\ \/ answered' = answered
           \/ rec[r] # NotRecording /\ answered' = answered \cup {rec[r].src}
    <3>1. CASE AlreadyRecorded(r)
      BY <3>1 DEF AlreadyRecorded, RecordEnds, NotRecording
    <3>2. CASE InsertFails(r)
      BY <3>2 DEF InsertFails, RecordEnds, NotRecording
    <3>3. CASE RecordFails(r)
      BY <3>3 DEF RecordFails, RecordEnds
    <3> QED BY <1>3, <3>1, <3>2, <3>3
  <2>2. rec[r] # NotRecording => rec[r].src \in Sources
    BY DEF InvoicesIInv, InvoicesTypeOK, RecordCall
  <2>3. answered' \subseteq Sources
    BY <2>1, <2>2 DEF InvoicesIInv, InvoicesTypeOK
  <2> QED BY <2>1, <2>3, CallKeepsIInv DEF NotRecording
<1>4. ASSUME NEW r \in Recorders, NotRecorded(r) PROVE InvoicesIInv'
  <2> DEFINE c == [rec[r] EXCEPT !.at = "number"]
  <2>1. rec[r] \in RecordCall
    BY <1>4 DEF NotRecorded, InvoicesIInv, InvoicesTypeOK, NotRecording
  <2>2. c \in RecordCall /\ c.at = "number"
    BY <2>1 DEF RecordCall
  <2>3. rec' = [rec EXCEPT ![r] = c] /\ UNCHANGED <<invoices, answered>>
    BY <1>4 DEF NotRecorded
  <2> HIDE DEF c
  <2> QED BY <2>2, <2>3, CallKeepsIInv DEF InvoicesIInv, InvoicesTypeOK
<1>5. ASSUME NEW r \in Recorders, TakeNumber(r) PROVE InvoicesIInv'
  <2> DEFINE next == LastNo + 1
             c == [rec[r] EXCEPT !.at = "insert", !.no = next]
  <2>1. rec[r] \in RecordCall
    BY <1>5 DEF TakeNumber, InvoicesIInv, InvoicesTypeOK, NotRecording
  <2>2. LastNo \in Nat /\ (LastNo = 0 \/ Number(LastNo))
    BY LastNoIsMaximum DEF InvoicesIInv
  <2>3. rec' = [rec EXCEPT ![r] = c] /\ UNCHANGED <<invoices, answered>>
    BY <1>5 DEF TakeNumber
  <2>4. next \in Nat \ {0} /\ \A n \in 1..(next - 1) : Number(n)
    BY <2>2 DEF InvoicesIInv, NumbersAreDense, Number
  <2> HIDE DEF next
  <2>5. c \in RecordCall /\ c.no = next
    BY <2>1, <2>4 DEF RecordCall
  <2> HIDE DEF c
  <2> QED BY <2>3, <2>4, <2>5, CallKeepsIInv DEF InvoicesIInv, InvoicesTypeOK
<1> QED BY <1>1, <1>2, <1>3, <1>4, <1>5, InsertKeepsIInv DEF InvoicesNext, RecordStep

\* The invariant holds throughout.
THEOREM InvoicesInvariant == InvoicesSpec => []InvoicesIInv
<1>1. InvoicesInit => InvoicesIInv
  BY DEF InvoicesInit, InvoicesIInv, InvoicesTypeOK, OnePerSource, NumbersAreDense, MaximumExists,
     DrawnContinues, NotRecording
<1> QED BY <1>1, NextKeepsInvoicesIInv, PTL DEF InvoicesSpec

\* The variables keep their types.
THEOREM InvoicesTypeCorrect == InvoicesSpec => []InvoicesTypeOK
<1>1. InvoicesIInv => InvoicesTypeOK
  BY DEF InvoicesIInv
<1> QED BY <1>1, InvoicesInvariant, PTL

\* One receipt per settled event, however often it is recorded
\* (InvoiceService.record).
THEOREM OneReceiptPerSource == InvoicesSpec => []OnePerSource
<1>1. InvoicesIInv => OnePerSource
  BY DEF InvoicesIInv
<1> QED BY <1>1, InvoicesInvariant, PTL

\* The numbers of a tenant's receipts are 1, 2, 3, ... without a gap or a repeat,
\* though they are drawn from a maximum that is stale when it is used.
THEOREM ReceiptNumbersAreDense == InvoicesSpec => []NumbersAreDense
<1>1. InvoicesIInv => NumbersAreDense
  BY DEF InvoicesIInv
<1> QED BY <1>1, InvoicesInvariant, PTL

-----------------------------------------------------------------------------
(* Uploads: the quota of a plan. *)

\* A handler about to insert its file looked at the quota or did not; one that reviews
\* has a file that was pending.
UpTaskOK(t) ==
  /\ upTask[t].kind = "create" =>
       upTask[t].status \in {"approved", "pending"} /\ upTask[t].looked \in BOOLEAN
  /\ upTask[t].kind = "review" =>
       /\ upTask[t].file \in Files /\ upTask[t].verdict \in {"approved", "rejected"}
       /\ upStatus[upTask[t].file] # "none"

\* Who has looked at the quota and not inserted yet, and the slots that somebody looked for.
Looked == {t \in Uploaders : upTask[t].kind = "create" /\ upTask[t].looked}
Slots == Occupying \ upOver

\* A slot is promised to everyone who has looked.
SlotsArePromised ==
  Cardinality(Slots) + Cardinality(Looked) <= MaxFiles + Cardinality(Uploaders) - 1

UploadInv ==
  /\ upStatus \in [Files -> UpStatuses \cup {"none", "deleted"}]
  /\ upTask = [t \in Uploaders |-> upTask[t]]
  /\ \A t \in Uploaders : UpTaskOK(t)
  /\ IsFiniteSet(Occupying) /\ SlotsArePromised

\* The handlers of one moment.
LEMMA UploadersAreFew ==
  /\ IsFiniteSet(Uploaders) /\ Cardinality(Uploaders) \in Nat \ {0}
  /\ UpTasks \subseteq Uploaders /\ AlbumTask \in Uploaders
<1>1. IsFiniteSet(Uploaders) /\ Cardinality(Uploaders) = Cardinality(UpTasks) + 1
  BY UploadsAssumption, FS_AddElement DEF Uploaders
<1>2. Cardinality(UpTasks) \in Nat
  BY UploadsAssumption, FS_CardinalityType
<1> QED BY <1>1, <1>2 DEF Uploaders

\* A promise is kept, given while there is room, or redeemed.
LEMMA PromisesStand ==
  ASSUME IsFiniteSet(Occupying), SlotsArePromised,
         \/ Slots' \subseteq Slots /\ Looked' \subseteq Looked
         \/ Slots' \subseteq Slots /\ WithinFileLimit
         \/ \E f, t : /\ Slots' \subseteq Slots \cup {f}
                      /\ t \in Looked /\ Looked' \subseteq Looked \ {t}
  PROVE  SlotsArePromised'
<1>1. /\ IsFiniteSet(Slots) /\ Cardinality(Slots) \in Nat
      /\ Cardinality(Slots) <= Cardinality(Occupying) /\ Cardinality(Occupying) \in Nat
  BY FS_Subset, FS_CardinalityType DEF Slots
<1>2. /\ IsFiniteSet(Looked) /\ Cardinality(Looked) \in Nat
      /\ IsFiniteSet(Looked') /\ Cardinality(Looked') \in Nat
      /\ Cardinality(Looked') <= Cardinality(Uploaders) /\ Cardinality(Uploaders) \in Nat \ {0}
  <2>1. Looked \subseteq Uploaders /\ Looked' \subseteq Uploaders
    BY DEF Looked
  <2> QED BY <2>1, UploadersAreFew, FS_Subset, FS_CardinalityType
<1>3. CASE Slots' \subseteq Slots
  <2>1. Cardinality(Slots') \in Nat /\ Cardinality(Slots') <= Cardinality(Slots)
    BY <1>1, <1>3, FS_Subset, FS_CardinalityType
  <2>2. CASE Looked' \subseteq Looked
    <3>1. Cardinality(Looked') <= Cardinality(Looked)
      BY <1>2, <2>2, FS_Subset
    <3> QED BY <1>1, <1>2, <2>1, <3>1, UploadsAssumption DEF SlotsArePromised
  <2>3. CASE WithinFileLimit
    BY <1>1, <1>2, <2>1, <2>3, UploadsAssumption DEF SlotsArePromised, WithinFileLimit
  <2>4. CASE \E t : t \in Looked /\ Looked' \subseteq Looked \ {t}
    BY <2>2, <2>4
  <2> QED BY <2>2, <2>3, <2>4
<1>4. ASSUME NEW f, NEW t, Slots' \subseteq Slots \cup {f}, t \in Looked, Looked' \subseteq Looked \ {t}
      PROVE  SlotsArePromised'
  <2>1. IsFiniteSet(Slots \cup {f}) /\ Cardinality(Slots \cup {f}) <= Cardinality(Slots) + 1
    <3>1. /\ IsFiniteSet(Slots \cup {f})
          /\ Cardinality(Slots \cup {f}) \in {Cardinality(Slots), Cardinality(Slots) + 1}
      BY <1>1, FS_AddElement
    <3> QED BY <1>1, <3>1
  <2>2. Cardinality(Slots') \in Nat /\ Cardinality(Slots') <= Cardinality(Slots) + 1
    <3>1. Cardinality(Slots') <= Cardinality(Slots \cup {f}) /\ IsFiniteSet(Slots')
      BY <1>4, <2>1, FS_Subset
    <3>2. Cardinality(Slots') \in Nat /\ Cardinality(Slots \cup {f}) \in Nat
      BY <2>1, <3>1, FS_CardinalityType
    <3> QED BY <1>1, <2>1, <3>1, <3>2
  <2>3. Cardinality(Looked') <= Cardinality(Looked) - 1
    <3>1. IsFiniteSet(Looked \ {t}) /\ Cardinality(Looked \ {t}) = Cardinality(Looked) - 1
      BY <1>2, <1>4, FS_RemoveElement
    <3> QED BY <1>4, <3>1, FS_Subset
  <2> QED BY <1>1, <1>2, <2>2, <2>3, UploadsAssumption DEF SlotsArePromised
<1> QED BY <1>3, <1>4

\* Handlers that stay as they are or hold neither a file to insert nor one to review.
NoClaim(task) == task.kind \notin {"create", "review"}
LEMMA RestClaimsNothing ==
  /\ NoClaim(NoUpload)
  /\ \A f, h : NoClaim(Previewing(f, h)) /\ NoClaim([kind |-> "post", file |-> f])
             /\ NoClaim([kind |-> "posted", file |-> f])
BY DEF NoClaim, NoUpload, Previewing

\* What a handler's step does to the handlers.
LEMMA OneHandlerMoves ==
  ASSUME UploadInv, NEW t \in Uploaders, NEW task, UpGoto(t, task)
  PROVE  /\ upTask' = [r \in Uploaders |-> upTask'[r]] /\ upTask'[t] = task
         /\ \A r \in Uploaders \ {t} : upTask'[r] = upTask[r]
BY DEF UploadInv, UpGoto

\* Nobody new looked, and no slot was taken.
LEMMA NoSlotKeepsInv ==
  ASSUME UploadInv, upStatus' \in [Files -> UpStatuses \cup {"none", "deleted"}],
         \A f \in Files : upStatus[f] # "none" => upStatus'[f] # "none",
         IsFiniteSet(Occupying'), Slots' \subseteq Slots,
         upTask' = [t \in Uploaders |-> upTask'[t]],
         \A t \in Uploaders : upTask'[t] = upTask[t] \/ NoClaim(upTask'[t])
  PROVE  UploadInv'
<1>1. \A t \in Uploaders : UpTaskOK(t)'
  BY DEF UploadInv, UpTaskOK, NoClaim
<1>2. Looked' \subseteq Looked
  BY DEF Looked, NoClaim
<1>3. SlotsArePromised'
  BY <1>2, PromisesStand DEF UploadInv
<1> QED BY <1>1, <1>3 DEF UploadInv

\* A handler begins, let in by the quota or with nothing to do with it.
LEMMA BegunKeepsInv ==
  ASSUME UploadInv, NEW t \in Uploaders, NEW task, UpGoto(t, task), UpKept,
         \/ /\ task.kind = "create" /\ task.status \in {"approved", "pending"}
            /\ task.looked \in BOOLEAN /\ (task.looked => WithinFileLimit)
         \/ /\ task.kind = "review" /\ task.verdict \in {"approved", "rejected"}
            /\ task.file \in Files /\ upStatus[task.file] # "none"
  PROVE  UploadInv'
<1>1. /\ upTask' = [r \in Uploaders |-> upTask'[r]] /\ upTask'[t] = task
      /\ \A r \in Uploaders \ {t} : upTask'[r] = upTask[r]
  BY OneHandlerMoves
<1>2. UNCHANGED <<upStatus, upOver>> /\ Occupying' = Occupying /\ Slots' = Slots
  BY DEF UpKept, Occupying, Slots
<1>3. \A r \in Uploaders : UpTaskOK(r)'
  <2>1. UpTaskOK(t)'
    BY <1>1, <1>2 DEF UpTaskOK
  <2>2. \A r \in Uploaders \ {t} : UpTaskOK(r)'
    BY <1>1, <1>2 DEF UploadInv, UpTaskOK
  <2> QED BY <2>1, <2>2
<1>4. WithinFileLimit \/ Looked' \subseteq Looked
  BY <1>1 DEF Looked
<1>5. SlotsArePromised'
  BY <1>2, <1>4, PromisesStand DEF UploadInv
<1> QED BY <1>1, <1>2, <1>3, <1>5 DEF UploadInv

\* The handlers that begin: uploads that were let in, albums, and reviews.
LEMMA BeginKeepsUploads ==
  ASSUME UploadInv,
         AdminUpload \/ NonAdminUpload \/ BatchFinish \/ FinalizeAlbum \/ ReviewApprove
           \/ ReviewRejectReason \/ PanelReviewApprove \/ PanelReviewReject
  PROVE  UploadInv'
<1>1. UpKept
  BY DEF AdminUpload, NonAdminUpload, BatchFinish, FinalizeAlbum, ReviewApprove,
         ReviewRejectReason, PanelReviewApprove, PanelReviewReject, ReviewBegins
<1>2. PICK task :
        /\ \E t \in Uploaders : UpGoto(t, task)
        /\ \/ /\ task.kind = "create" /\ task.status \in {"approved", "pending"}
              /\ task.looked \in BOOLEAN /\ (task.looked => WithinFileLimit)
           \/ /\ task.kind = "review" /\ task.verdict \in {"approved", "rejected"}
              /\ task.file \in Files /\ upStatus[task.file] # "none"
  <2>1. CASE AdminUpload \/ NonAdminUpload \/ BatchFinish \/ FinalizeAlbum
    <3>1. PICK s \in {"approved", "pending"}, b \in BOOLEAN, l \in BOOLEAN :
             /\ \E t \in Uploaders : UpGoto(t, Creating(s, b, l))
             /\ l => WithinFileLimit
      BY <2>1 DEF AdminUpload, NonAdminUpload, BatchFinish, FinalizeAlbum, Admitted, UpBegin,
                  UpStart, Uploaders
    <3> DEFINE task == Creating(s, b, l)
    <3>2. task.kind = "create" /\ task.status = s /\ task.looked = l
      BY DEF Creating
    <3> HIDE DEF task
    <3> QED BY <3>1, <3>2 DEF task
  <2>2. CASE ReviewApprove \/ ReviewRejectReason \/ PanelReviewApprove \/ PanelReviewReject
    <3>1. PICK verdict \in {"approved", "rejected"} : ReviewBegins(verdict)
      BY <2>2 DEF ReviewApprove, ReviewRejectReason, PanelReviewApprove, PanelReviewReject
    <3>2. PICK f \in Pending : UpBegin([kind |-> "review", file |-> f, verdict |-> verdict,
                                        hidden |-> f \in upHidden])
      BY <3>1 DEF ReviewBegins
    <3> DEFINE task == [kind |-> "review", file |-> f, verdict |-> verdict,
                        hidden |-> f \in upHidden]
    <3>3. task.kind = "review" /\ task.verdict = verdict /\ task.file = f
      OBVIOUS
    <3>4. f \in Files /\ upStatus[f] # "none"
      BY DEF Pending
    <3> HIDE DEF task
    <3>5. \E t \in Uploaders : UpGoto(t, task)
      BY <3>2 DEF UpBegin, UpStart, Uploaders, task
    <3> QED BY <3>3, <3>4, <3>5
  <2> QED BY <2>1, <2>2
<1> QED BY <1>1, <1>2, BegunKeepsInv

\* The file is inserted (create_media): a promise redeemed, or a slot nobody looked for.
LEMMA CreateKeepsUploads == ASSUME UploadInv, NEW t \in Uploaders, CreateMedia(t) PROVE UploadInv'
<1>1. PICK f \in Files :
        /\ upStatus[f] = "none" /\ upStatus' = [upStatus EXCEPT ![f] = upTask[t].status]
        /\ upOver' = IF upTask[t].looked THEN upOver ELSE upOver \cup {f}
        /\ IF upTask[t].status = "approved" THEN UpGoto(t, Previewing(f, FALSE)) ELSE UpDone(t)
  BY DEF CreateMedia
<1>2. /\ upTask[t].kind = "create" /\ upTask[t].status \in {"approved", "pending"}
      /\ upStatus \in [Files -> UpStatuses \cup {"none", "deleted"}]
      /\ IsFiniteSet(Occupying) /\ SlotsArePromised
  BY DEF CreateMedia, UpAt, UploadInv, UpTaskOK
<1>3. /\ upStatus' \in [Files -> UpStatuses \cup {"none", "deleted"}]
      /\ \A g \in Files : upStatus[g] # "none" => upStatus'[g] # "none"
      /\ Occupying' \subseteq Occupying \cup {f}
  BY <1>1, <1>2 DEF Occupying, UpStatuses
<1>4. IsFiniteSet(Occupying')
  <2>1. IsFiniteSet(Occupying \cup {f})
    BY <1>2, FS_AddElement
  <2> QED BY <1>3, <2>1, FS_Subset
<1>5. PICK task : UpGoto(t, task) /\ NoClaim(task)
  <2>1. UpGoto(t, NoUpload) \/ UpGoto(t, Previewing(f, FALSE))
    BY <1>1 DEF UpDone, UpGoto
  <2> QED BY <2>1, RestClaimsNothing
<1>6. /\ upTask' = [r \in Uploaders |-> upTask'[r]] /\ upTask'[t] = task
      /\ \A r \in Uploaders \ {t} : upTask'[r] = upTask[r]
  BY <1>5, OneHandlerMoves
<1>7. CASE upTask[t].looked
  <2>1. Slots' \subseteq Slots \cup {f}
    BY <1>1, <1>3, <1>7 DEF Slots
  <2>2. t \in Looked /\ Looked' \subseteq Looked \ {t}
    BY <1>2, <1>5, <1>6, <1>7 DEF Looked, NoClaim
  <2>3. SlotsArePromised'
    BY <1>2, <2>1, <2>2, PromisesStand
  <2>4. \A r \in Uploaders : UpTaskOK(r)'
    BY <1>3, <1>5, <1>6 DEF UploadInv, UpTaskOK, NoClaim
  <2> QED BY <1>3, <1>4, <1>6, <2>3, <2>4 DEF UploadInv
<1>8. CASE ~ upTask[t].looked
  <2>1. Slots' \subseteq Slots
    BY <1>1, <1>3, <1>8 DEF Slots
  <2> QED BY <1>3, <1>4, <1>5, <1>6, <2>1, NoSlotKeepsInv
<1> QED BY <1>7, <1>8

\* A status is written over one that was there: what it takes back nobody looked for.
LEMMA StatusKeepsSlots ==
  ASSUME UploadInv, NEW f \in Files, NEW s \in UpStatuses, upStatus[f] \in UpStatuses,
         upStatus' = [upStatus EXCEPT ![f] = s], upOver' = upOver \cup TakenBack(f, s)
  PROVE  /\ upStatus' \in [Files -> UpStatuses \cup {"none", "deleted"}]
         /\ \A g \in Files : upStatus[g] # "none" => upStatus'[g] # "none"
         /\ IsFiniteSet(Occupying') /\ Slots' \subseteq Slots
<1>1. upStatus \in [Files -> UpStatuses \cup {"none", "deleted"}] /\ IsFiniteSet(Occupying)
  BY DEF UploadInv
<1>2. /\ upStatus' \in [Files -> UpStatuses \cup {"none", "deleted"}]
      /\ \A g \in Files : upStatus[g] # "none" => upStatus'[g] # "none"
      /\ Occupying' \subseteq Occupying \cup {f}
  BY <1>1 DEF Occupying, UpStatuses
<1>3. IsFiniteSet(Occupying')
  <2>1. IsFiniteSet(Occupying \cup {f})
    BY <1>1, FS_AddElement
  <2> QED BY <1>2, <2>1, FS_Subset
<1>4. Slots' \subseteq Slots
  <2>1. f \in Occupying' => f \in Occupying \/ f \in TakenBack(f, s)
    BY <1>1 DEF Occupying, UpStatuses, TakenBack
  <2> QED BY <1>2, <2>1 DEF Slots
<1> QED BY <1>2, <1>3, <1>4

\* A verdict is written (approve, reject), over whatever the file is by now.
LEMMA VerdictKeepsUploads == ASSUME UploadInv, NEW t \in Uploaders, ReviewCommits(t) PROVE UploadInv'
<1> DEFINE f == upTask[t].file
           verdict == upTask[t].verdict
<1>1. f \in Files /\ verdict \in UpStatuses /\ upStatus[f] \in UpStatuses \cup {"deleted"}
  BY DEF ReviewCommits, UpAt, UploadInv, UpTaskOK, UpStatuses
<1>2. PICK task : UpGoto(t, task) /\ NoClaim(task)
  <2>1. UpGoto(t, NoUpload) \/ UpGoto(t, Previewing(f, upTask[t].hidden))
    BY DEF ReviewCommits, UpDone, UpGoto
  <2> QED BY <2>1, RestClaimsNothing
<1>3. /\ upTask' = [r \in Uploaders |-> upTask'[r]] /\ upTask'[t] = task
      /\ \A r \in Uploaders \ {t} : upTask'[r] = upTask[r]
  BY <1>2, OneHandlerMoves
<1>4. /\ upStatus' \in [Files -> UpStatuses \cup {"none", "deleted"}]
      /\ \A g \in Files : upStatus[g] # "none" => upStatus'[g] # "none"
      /\ IsFiniteSet(Occupying') /\ Slots' \subseteq Slots
  <2>1. CASE upStatus[f] = "deleted"
    <3>1. UNCHANGED <<upStatus, upOver>> /\ Occupying' = Occupying
      BY <2>1 DEF ReviewCommits, Occupying
    <3> QED BY <3>1 DEF UploadInv, Slots
  <2>2. CASE upStatus[f] # "deleted"
    <3>1. /\ upStatus' = [upStatus EXCEPT ![f] = verdict]
          /\ upOver' = upOver \cup TakenBack(f, verdict)
      BY <2>2 DEF ReviewCommits
    <3> HIDE DEF f, verdict
    <3> QED BY <1>1, <2>2, <3>1, StatusKeepsSlots
  <2> QED BY <2>1, <2>2
<1> QED BY <1>2, <1>3, <1>4, NoSlotKeepsInv

\* The panel's form and the API write any status.
LEMMA WrittenKeepsUploads == ASSUME UploadInv, StatusWritten PROVE UploadInv'
<1>1. PICK f \in Files, s \in UpStatuses :
        /\ upStatus[f] \in UpStatuses \ {s}
        /\ upStatus' = [upStatus EXCEPT ![f] = s]
        /\ upOver' = upOver \cup TakenBack(f, s)
  BY DEF StatusWritten
<1>2. upTask' = upTask /\ upTask' = [r \in Uploaders |-> upTask'[r]]
  BY DEF StatusWritten, UploadInv
<1> QED BY <1>1, <1>2, StatusKeepsSlots, NoSlotKeepsInv

\* The other steps leave the quota alone or free a slot.
LEMMA RestKeepsUploads ==
  ASSUME UploadInv,
         \/ BatchStart \/ BatchCollect \/ BatchCancel \/ SetActive \/ DeleteMedia \/ ReviewSwitch
         \/ \E t \in Uploaders : PreviewChecks(t) \/ PreviewSends(t) \/ PreviewCommits(t)
  PROVE  UploadInv'
<1>1. UNCHANGED upOver
  BY DEF BatchStart, BatchCollect, BatchCancel, SetActive, DeleteMedia, ReviewSwitch,
         PreviewChecks, PreviewSends, PreviewCommits, UpKept
<1>2. /\ upStatus' \in [Files -> UpStatuses \cup {"none", "deleted"}]
      /\ \A f \in Files : upStatus[f] # "none" => upStatus'[f] # "none"
      /\ Occupying' \subseteq Occupying
  <2>1. upStatus \in [Files -> UpStatuses \cup {"none", "deleted"}]
    BY DEF UploadInv
  <2>2. CASE upStatus' = upStatus
    BY <2>1, <2>2 DEF Occupying
  <2>3. CASE DeleteMedia
    BY <2>1, <2>3 DEF DeleteMedia, Occupying, UpStatuses
  <2> QED BY <2>2, <2>3 DEF BatchStart, BatchCollect, BatchCancel, SetActive, ReviewSwitch,
         PreviewChecks, PreviewSends, PreviewCommits, UpKept
<1>3. IsFiniteSet(Occupying') /\ Slots' \subseteq Slots
  <2>1. IsFiniteSet(Occupying)
    BY DEF UploadInv
  <2> QED BY <1>1, <1>2, <2>1, FS_Subset DEF Slots
<1>4. /\ upTask' = [t \in Uploaders |-> upTask'[t]]
      /\ \A t \in Uploaders : upTask'[t] = upTask[t] \/ NoClaim(upTask'[t])
  <2>1. CASE upTask' = upTask
    BY <2>1 DEF UploadInv
  <2>2. ASSUME NEW t \in Uploaders, PreviewChecks(t) \/ PreviewSends(t) \/ PreviewCommits(t)
        PROVE  \E task : UpGoto(t, task) /\ NoClaim(task)
    <3> DEFINE f == upTask[t].file
    <3>1. UpGoto(t, NoUpload) \/ UpGoto(t, [kind |-> "post", file |-> f])
          \/ UpGoto(t, [kind |-> "posted", file |-> f])
      BY <2>2 DEF PreviewChecks, PreviewSends, PreviewCommits, UpDone, UpGoto
    <3> QED BY <3>1, RestClaimsNothing
  <2>3. CASE \E t \in Uploaders : PreviewChecks(t) \/ PreviewSends(t) \/ PreviewCommits(t)
    BY <2>2, <2>3, OneHandlerMoves
  <2> QED BY <2>1, <2>3 DEF BatchStart, BatchCollect, BatchCancel, SetActive, DeleteMedia,
                            ReviewSwitch
<1> QED BY <1>2, <1>3, <1>4, NoSlotKeepsInv

\* The slots and who looks at them, in every run.
LEMMA SlotsAreCounted == UploadsSpec => []UploadInv
<1>1. UploadsInit => UploadInv
  <2> SUFFICES ASSUME UploadsInit PROVE UploadInv
    OBVIOUS
  <2>1. \A t \in Uploaders : upTask[t].kind = "idle"
    BY DEF UploadsInit, NoUpload
  <2>2. Occupying = {} /\ Slots = {} /\ Looked = {} /\ IsFiniteSet({}) /\ Cardinality({}) = 0
    BY <2>1, FS_EmptySet DEF UploadsInit, Occupying, Slots, Looked
  <2>3. SlotsArePromised
    BY <2>2, UploadsAssumption, UploadersAreFew DEF SlotsArePromised
  <2> QED BY <2>1, <2>2, <2>3 DEF UploadsInit, UploadInv, UpTaskOK
<1>2. UploadInv /\ [UploadsNext]_upVars => UploadInv'
  <2> SUFFICES ASSUME UploadInv, [UploadsNext]_upVars PROVE UploadInv'
    OBVIOUS
  <2>1. CASE UNCHANGED upVars
    BY <2>1 DEF upVars, UploadInv, UpTaskOK, SlotsArePromised, Slots, Looked, Occupying
  <2>2. CASE UploadsNext
    BY <2>2, BeginKeepsUploads, CreateKeepsUploads, VerdictKeepsUploads, WrittenKeepsUploads,
       RestKeepsUploads DEF UploadsNext, MediaEdit, MediaPatch, CbMediaToggle, MediaToggle,
                            CbMediaDelete, MediaDelete, ApiMediaDelete
  <2> QED BY <2>1, <2>2
<1> QED BY <1>1, <1>2, PTL DEF UploadsSpec

\* QuotaHolds: what everyone who looked at a plan's max_files at the same time inserts is
\* at most one file too many each (within_file_limit, create_media), for any files,
\* limits and overlapping handlers, the worker's albums among them.
THEOREM QuotaAlwaysHolds == UploadsSpec => []QuotaHolds
<1>1. UploadInv => QuotaHolds
  <2> SUFFICES ASSUME UploadInv PROVE QuotaHolds
    OBVIOUS
  <2>1. Looked \subseteq Uploaders /\ IsFiniteSet(Occupying) /\ SlotsArePromised
    BY DEF UploadInv, Looked
  <2>2. Cardinality(Slots) \in Nat /\ Cardinality(Looked) \in Nat
    BY <2>1, UploadersAreFew, FS_Subset, FS_CardinalityType DEF Slots
  <2>3. Cardinality(Slots) <= MaxFiles + Cardinality(Uploaders) - 1
    BY <2>1, <2>2, UploadersAreFew, UploadsAssumption DEF SlotsArePromised
  <2> QED BY <2>3 DEF QuotaHolds, Slots
<1> QED BY <1>1, SlotsAreCounted, PTL

-----------------------------------------------------------------------------
(* Texts and command lists: what a bot shows was in force a moment ago. *)

Resolution == [kind : {"cache", "rows", "fill", "show"}, shop : Shops, key : Keys, to : Shops,
               value : Values]
Saving == [kind : {"bust"}, shop : Shops, key : Keys, push : BOOLEAN]
MenuTask == Resolution \cup Saving \cup {Idle}

MnTypes ==
  /\ BotMenuTypeOK
  /\ mnCache \in [Keys -> [value : Values, until : Nat] \cup {NoEntry}]
  /\ mnTask \in [MenuTasks -> MenuTask]
  /\ mnLast \in [Shops -> [Keys -> [Values -> Nat]]]

\* What the rows say is in force now; nothing is in force later than now.
InForceNow ==
  \A s \in Shops, k \in Keys :
    /\ mnLast[s][k][mnRow[s][k]] = mnTick
    /\ \A v \in Values : mnLast[s][k][v] <= mnTick

\* An entry has not expired, and was filled from rows of its last tick but one.
CacheIsFresh ==
  \A s \in Shops, k \in Keys :
    mnCache[k] # NoEntry => /\ mnTick <= mnCache[k].until
                            /\ mnCache[k].until <= mnLast[s][k][mnCache[k].value] + 1

\* Read from the rows: in force in this tick.  Resolved: in this one or the one before.
Fresh(task) ==
  /\ task.kind = "fill" => mnTick <= mnLast[task.shop][task.key][task.value]
  /\ task.kind = "show" => mnTick <= mnLast[task.shop][task.key][task.value] + 1

MnInv == MnTypes /\ InForceNow /\ CacheIsFresh /\ \A t \in MenuTasks : Fresh(mnTask[t])

\* A handler moves, an admin comes or goes: what is in force stays.
LEMMA MenuKeepsInv ==
  ASSUME MnInv, NEW t \in MenuTasks, NEW task \in MenuTask, MenuGoes(t, task),
         Fresh(task), mnCache' \in [Keys -> [value : Values, until : Nat] \cup {NoEntry}],
         \A k \in Keys, s \in Shops : mnCache'[k] # NoEntry =>
           /\ mnTick <= mnCache'[k].until
           /\ mnCache'[k].until <= mnLast[s][k][mnCache'[k].value] + 1,
         mnMenu' \in [Shops -> [Scopes -> Values \cup {NoList}]], mnAdmin' \subseteq Shops,
         mnShows' \in 0..MaxShows, UNCHANGED <<mnRow, mnTick, mnLast, mnEdits>>
  PROVE  MnInv'
<1>1. MnTypes /\ InForceNow
  BY DEF MnInv
<1>2. mnTask' \in [MenuTasks -> MenuTask] /\ mnTask'[t] = task
      /\ \A u \in MenuTasks \ {t} : mnTask'[u] = mnTask[u]
  BY <1>1 DEF MenuGoes, MnTypes
<1>3. MnTypes'
  BY <1>1, <1>2 DEF MnTypes, BotMenuTypeOK
<1>4. InForceNow'
  BY <1>1 DEF InForceNow
<1>5. CacheIsFresh'
  BY DEF CacheIsFresh
<1>6. \A u \in MenuTasks : mnTask'[u] = task \/ mnTask'[u] = mnTask[u]
  BY <1>2
<1>7. ASSUME NEW u \in MenuTasks PROVE Fresh(mnTask[u])'
  BY <1>6 DEF MnInv, Fresh
<1> QED BY <1>3, <1>4, <1>5, <1>7 DEF MnInv

\* The cache stays.
LEMMA CacheStays ==
  ASSUME MnInv, UNCHANGED mnCache
  PROVE  /\ mnCache' \in [Keys -> [value : Values, until : Nat] \cup {NoEntry}]
         /\ \A k \in Keys, s \in Shops : mnCache'[k] # NoEntry =>
              /\ mnTick <= mnCache'[k].until
              /\ mnCache'[k].until <= mnLast[s][k][mnCache'[k].value] + 1
BY DEF MnInv, MnTypes, CacheIsFresh

\* A handler starts to resolve a text or a list.
LEMMA ShowKeepsInv ==
  ASSUME MnInv, NEW s \in Shops, NEW k \in Keys, NEW to \in Shops,
         ShowBegins(Resolving(s, k, to)), mnAdmin' \subseteq Shops,
         UNCHANGED <<mnRow, mnCache, mnMenu, mnTick, mnLast, mnEdits>>
  PROVE  MnInv'
<1> DEFINE task == [kind |-> "cache", shop |-> s, key |-> k, to |-> to, value |-> 0]
<1>1. PICK t \in MenuTasks : MenuGoes(t, task)
  BY DEF ShowBegins, Resolving
<1>2. BotMenuTypeOK /\ MaxShows \in Nat /\ 0 \in Values
  BY BotMenuAssumption DEF MnInv, MnTypes, Values
<1>3. task \in MenuTask /\ task.kind = "cache"
  BY <1>2 DEF MenuTask, Resolution
<1> HIDE DEF task
<1>4. Fresh(task)
  BY <1>3 DEF Fresh
<1>5. mnShows' \in 0..MaxShows /\ mnMenu' \in [Shops -> [Scopes -> Values \cup {NoList}]]
  BY <1>2 DEF ShowBegins, BotMenuTypeOK
<1> QED BY <1>1, <1>3, <1>4, <1>5, CacheStays, MenuKeepsInv

\* get_text, /start, /panel, sync_all, an admin that is added or switched on.
LEMMA ShowsKeepInv ==
  ASSUME MnInv, \/ GetText \/ SendWelcome \/ CmdPanelPush \/ SyncAll \/ BotAdminAdd
                \/ BotAdminToggle \/ PanelAdminAdd
  PROVE  MnInv'
<1>1. mnAdmin \subseteq Shops /\ Platform \in Shops /\ "text" \in Keys /\ Scopes \subseteq Keys
      /\ "admin" \in Keys
  BY BotMenuAssumption DEF MnInv, MnTypes, BotMenuTypeOK, Keys, Scopes
<1>2. PICK s \in Shops, k \in Keys, to \in Shops :
        /\ ShowBegins(Resolving(s, k, to)) /\ mnAdmin' \subseteq Shops
        /\ UNCHANGED <<mnRow, mnCache, mnMenu, mnTick, mnLast, mnEdits>>
  <2>1. CASE GetText
    BY <1>1, <2>1 DEF GetText, OnlyShows
  <2>2. CASE SendWelcome \/ CmdPanelPush
    BY <1>1, <2>2 DEF SendWelcome, CmdPanelPush, AdminComes, OnlyShows
  <2>3. CASE SyncAll
    BY <1>1, <2>3 DEF SyncAll, OnlyShows
  <2>4. CASE BotAdminAdd \/ BotAdminToggle \/ PanelAdminAdd
    BY <1>1, <2>4 DEF BotAdminAdd, BotAdminToggle, PanelAdminAdd, AdminOn
  <2> QED BY <2>1, <2>2, <2>3, <2>4
<1> QED BY <1>2, ShowKeepsInv

\* A list that is pushed or cleared.
LEMMA ListTyped ==
  ASSUME BotMenuTypeOK, NEW to \in Shops, NEW scope \in Scopes, NEW list \in Values \cup {NoList},
         \/ mnMenu' = [mnMenu EXCEPT ![to][scope] = list]
         \/ UNCHANGED mnMenu
  PROVE  mnMenu' \in [Shops -> [Scopes -> Values \cup {NoList}]]
<1>1. mnMenu \in [Shops -> [Scopes -> Values \cup {NoList}]]
  BY DEF BotMenuTypeOK
<1> QED BY <1>1

\* Only the lists in Telegram and the admins change.
LEMMA AdminOffKeepsInv == ASSUME MnInv, BotAdminRemove \/ PanelAdminRemove PROVE MnInv'
<1>1. MnTypes /\ BotMenuTypeOK /\ Platform \in Shops /\ MaxShows \in Nat
  BY BotMenuAssumption DEF MnInv, MnTypes
<1>2. PICK s \in Shops, to \in Shops : AdminOff(s, to)
  BY <1>1 DEF BotAdminRemove, PanelAdminRemove
<1>3. mnMenu' \in [Shops -> [Scopes -> Values \cup {NoList}]] /\ mnAdmin' \subseteq Shops
      /\ mnShows' \in 0..MaxShows
  <2>1. mnMenu' = [mnMenu EXCEPT ![to]["admin"] = NoList] \/ UNCHANGED mnMenu
    BY <1>2 DEF AdminOff
  <2>2. mnMenu' \in [Shops -> [Scopes -> Values \cup {NoList}]]
    BY <1>1, <2>1, ListTyped DEF Scopes
  <2> QED BY <1>1, <1>2, <2>2 DEF AdminOff, BotMenuTypeOK
<1>4. UNCHANGED <<mnRow, mnCache, mnTask, mnTick, mnLast, mnEdits>>
  BY <1>2 DEF AdminOff
<1>5. MnTypes'
  BY <1>1, <1>3, <1>4 DEF MnTypes, BotMenuTypeOK
<1> QED BY <1>4, <1>5 DEF MnInv, InForceNow, CacheIsFresh, Fresh

\* A handler that resolves, with the fields of its task.
LEMMA ResolvesTyped ==
  ASSUME MnInv, NEW t \in MenuTasks, mnTask[t].kind \in {"cache", "rows", "fill", "show"}
  PROVE  mnTask[t] \in Resolution
BY DEF MnInv, MnTypes, MenuTask, Resolution, Saving, Idle

\* The cache is asked: what it holds was in force a moment ago.
LEMMA LookupKeepsInv == ASSUME MnInv, NEW t \in MenuTasks, CacheLookup(t) PROVE MnInv'
<1>1. mnTask[t] \in Resolution /\ MnTypes /\ BotMenuTypeOK
  BY ResolvesTyped DEF CacheLookup, MenuIs, MnInv, MnTypes
<1>2. UNCHANGED <<mnCache, mnRow, mnMenu, mnAdmin, mnTick, mnLast, mnEdits, mnShows>>
  BY DEF CacheLookup, OnlyMenuTasks
<1>3. /\ mnMenu' \in [Shops -> [Scopes -> Values \cup {NoList}]] /\ mnAdmin' \subseteq Shops
      /\ mnShows' \in 0..MaxShows
  BY <1>1, <1>2 DEF BotMenuTypeOK
<1> DEFINE key == mnTask[t].key
           hit == [mnTask[t] EXCEPT !.kind = "show", !.value = mnCache[key].value]
           miss == [mnTask[t] EXCEPT !.kind = "rows"]
<1>4. (mnCache[key] # NoEntry /\ MenuGoes(t, hit)) \/ MenuGoes(t, miss)
  BY DEF CacheLookup, CacheKey
<1>5. CASE mnCache[key] # NoEntry /\ MenuGoes(t, hit)
  <2>1. key \in Keys /\ mnTask[t].shop \in Shops /\ mnCache[key] \in [value : Values, until : Nat]
    BY <1>1, <1>5 DEF MnTypes, Resolution
  <2>2. hit \in Resolution /\ hit.kind = "show" /\ hit.shop = mnTask[t].shop /\ hit.key = key
        /\ hit.value = mnCache[key].value /\ mnCache[key].value \in Values
    BY <1>1, <2>1 DEF Resolution
  <2>3. /\ mnTick <= mnCache[key].until
        /\ mnCache[key].until <= mnLast[mnTask[t].shop][key][mnCache[key].value] + 1
    BY <1>5, <2>1 DEF MnInv, CacheIsFresh
  <2>4. mnTick \in Nat /\ mnLast[mnTask[t].shop][key][mnCache[key].value] \in Nat
    BY <1>1, <2>1, <2>2 DEF MnTypes, BotMenuTypeOK
  <2>5. mnTick <= mnLast[mnTask[t].shop][key][mnCache[key].value] + 1
    BY <2>1, <2>3, <2>4
  <2> HIDE DEF hit
  <2>6. Fresh(hit)
    BY <2>2, <2>5 DEF Fresh
  <2>7. hit \in MenuTask
    BY <2>2 DEF MenuTask
  <2> QED BY <1>2, <1>3, <1>5, <2>6, <2>7, CacheStays, MenuKeepsInv
<1>6. CASE MenuGoes(t, miss)
  <2>1. miss \in MenuTask /\ miss.kind = "rows"
    BY <1>1 DEF MenuTask, Resolution
  <2> HIDE DEF miss
  <2>2. Fresh(miss)
    BY <2>1 DEF Fresh
  <2> QED BY <1>2, <1>3, <1>6, <2>1, <2>2, CacheStays, MenuKeepsInv
<1> QED BY <1>4, <1>5, <1>6

\* The rows are read: what they say is in force now.
LEMMA RowsReadKeepsInv == ASSUME MnInv, NEW t \in MenuTasks, RowsRead(t) PROVE MnInv'
<1>1. mnTask[t] \in Resolution /\ MnTypes /\ BotMenuTypeOK
  BY ResolvesTyped DEF RowsRead, MenuIs, MnInv, MnTypes
<1>2. UNCHANGED <<mnCache, mnRow, mnMenu, mnAdmin, mnTick, mnLast, mnEdits, mnShows>>
  BY DEF RowsRead, OnlyMenuTasks
<1>3. /\ mnMenu' \in [Shops -> [Scopes -> Values \cup {NoList}]] /\ mnAdmin' \subseteq Shops
      /\ mnShows' \in 0..MaxShows
  BY <1>1, <1>2 DEF BotMenuTypeOK
<1> DEFINE s == mnTask[t].shop
           k == mnTask[t].key
           task == [mnTask[t] EXCEPT !.kind = "fill", !.value = mnRow[s][k]]
<1>4. s \in Shops /\ k \in Keys
  BY <1>1 DEF Resolution
<1>5. mnRow[s][k] \in Values /\ mnLast[s][k][mnRow[s][k]] = mnTick /\ mnTick \in Nat
  BY <1>1, <1>4 DEF MnInv, InForceNow, BotMenuTypeOK
<1>6. task \in Resolution /\ task.kind = "fill" /\ task.shop = s /\ task.key = k
      /\ task.value = mnRow[s][k]
  BY <1>1, <1>5 DEF Resolution
<1>7. MenuGoes(t, task)
  BY DEF RowsRead
<1> HIDE DEF task
<1>8. Fresh(task)
  BY <1>5, <1>6 DEF Fresh
<1>9. task \in MenuTask
  BY <1>6 DEF MenuTask
<1> QED BY <1>2, <1>3, <1>7, <1>8, <1>9, CacheStays, MenuKeepsInv

\* With one shop, an entry is filled from the rows of the shop that will read it.
LEMMA FillKeepsInv ==
  ASSUME Shops = {Platform}, MnInv, NEW t \in MenuTasks, CacheFilled(t) PROVE MnInv'
<1> DEFINE task == mnTask[t]
           after == [task EXCEPT !.kind = "show"]
           entry == [value |-> task.value, until |-> mnTick + 1]
<1>1. task \in Resolution /\ MnTypes /\ BotMenuTypeOK /\ task.kind = "fill"
  BY ResolvesTyped DEF CacheFilled, MenuIs, MnInv, MnTypes
<1>2. UNCHANGED <<mnRow, mnMenu, mnAdmin, mnTick, mnLast, mnEdits, mnShows>>
  BY DEF CacheFilled, OnlyMenuTasks
<1>3. /\ mnMenu' \in [Shops -> [Scopes -> Values \cup {NoList}]] /\ mnAdmin' \subseteq Shops
      /\ mnShows' \in 0..MaxShows
  BY <1>1, <1>2 DEF BotMenuTypeOK
<1>4. task.shop \in Shops /\ task.key \in Keys /\ task.value \in Values
      /\ mnTick <= mnLast[task.shop][task.key][task.value]
      /\ mnLast[task.shop][task.key][task.value] \in Nat /\ mnTick \in Nat
  BY <1>1 DEF Resolution, MnInv, Fresh, MnTypes, BotMenuTypeOK
<1>5. after \in Resolution /\ after.kind = "show" /\ after.shop = task.shop
      /\ after.key = task.key /\ after.value = task.value
  BY <1>1 DEF Resolution
<1>6. MenuGoes(t, after)
      /\ (mnCache' = [mnCache EXCEPT ![task.key] = entry] \/ UNCHANGED mnCache)
  BY DEF CacheFilled, CacheKey, Until
<1>7. entry \in [value : Values, until : Nat] /\ entry.value = task.value
      /\ entry.until = mnTick + 1
  BY <1>4
<1> HIDE DEF after, entry, task
<1>8. Fresh(after) /\ after \in MenuTask
  BY <1>4, <1>5 DEF Fresh, MenuTask
<1>9. CASE mnCache' = [mnCache EXCEPT ![task.key] = entry]
  <2>1. /\ mnCache' \in [Keys -> [value : Values, until : Nat] \cup {NoEntry}]
        /\ mnCache'[task.key] = entry
        /\ \A k \in Keys \ {task.key} : mnCache'[k] = mnCache[k]
    BY <1>1, <1>4, <1>7, <1>9 DEF MnTypes
  <2>2. ASSUME NEW k \in Keys, NEW s \in Shops, mnCache'[k] # NoEntry
        PROVE  /\ mnTick <= mnCache'[k].until
               /\ mnCache'[k].until <= mnLast[s][k][mnCache'[k].value] + 1
    <3>1. CASE k = task.key
      <4>1. s = task.shop
        BY <1>4
      <4> QED BY <1>4, <1>7, <2>1, <3>1, <4>1
    <3>2. CASE k # task.key
      BY <2>1, <2>2, <3>2 DEF MnInv, CacheIsFresh
    <3> QED BY <3>1, <3>2
  <2> QED BY <1>2, <1>3, <1>6, <1>8, <2>1, <2>2, MenuKeepsInv
<1>10. CASE UNCHANGED mnCache
  BY <1>2, <1>3, <1>6, <1>8, <1>10, CacheStays, MenuKeepsInv
<1> QED BY <1>6, <1>9, <1>10

\* A text is answered, a list pushed or refused.
LEMMA ShownKeepsInv ==
  ASSUME MnInv, NEW t \in MenuTasks,
         TextShown(t) \/ PushDefaultCommands(t) \/ PushAdminCommands(t)
  PROVE  MnInv'
<1>1. mnTask[t] \in Resolution /\ MnTypes /\ BotMenuTypeOK
  BY ResolvesTyped DEF TextShown, PushDefaultCommands, PushAdminCommands, Pushes, MenuIs, MnInv,
                       MnTypes
<1>2. mnTask[t].to \in Shops /\ mnTask[t].value \in Values
  BY <1>1 DEF Resolution
<1>3. mnMenu' \in [Shops -> [Scopes -> Values \cup {NoList}]]
  <2>1. PICK scope \in Scopes :
          \/ mnMenu' = [mnMenu EXCEPT ![mnTask[t].to][scope] = mnTask[t].value]
          \/ UNCHANGED mnMenu
    BY DEF TextShown, PushDefaultCommands, PushAdminCommands, Pushes, Scopes
  <2> QED BY <1>1, <1>2, <2>1, ListTyped
<1>4. UNCHANGED <<mnRow, mnCache, mnAdmin, mnTick, mnLast, mnEdits, mnShows>> /\ MenuGoes(t, Idle)
  BY DEF TextShown, PushDefaultCommands, PushAdminCommands, Pushes
<1>5. mnAdmin' \subseteq Shops /\ mnShows' \in 0..MaxShows /\ Idle \in MenuTask /\ Fresh(Idle)
  BY <1>1, <1>4 DEF BotMenuTypeOK, MenuTask, Fresh, Idle
<1> QED BY <1>3, <1>4, <1>5, CacheStays, MenuKeepsInv

\* The entry of the key is dropped, and the saver goes on to push.
LEMMA BustKeepsInv == ASSUME MnInv, NEW t \in MenuTasks, BustCache(t) PROVE MnInv'
<1>1. mnTask[t] \in Saving /\ MnTypes /\ BotMenuTypeOK /\ Platform \in Shops /\ 0 \in Values
  <2>1. MnTypes /\ BotMenuTypeOK /\ Platform \in Shops /\ 0 \in Values
    BY BotMenuAssumption DEF MnInv, MnTypes, Values
  <2>2. mnTask[t] \in MenuTask /\ mnTask[t].kind = "bust"
    BY <2>1 DEF BustCache, MenuIs, MnTypes
  <2>3. mnTask[t] \in Saving
    BY <2>2 DEF MenuTask, Saving, Resolution, Idle
  <2> QED BY <2>1, <2>3
<1>2. UNCHANGED <<mnRow, mnMenu, mnAdmin, mnTick, mnLast, mnEdits, mnShows>>
  BY DEF BustCache, OnlyMenuTasks
<1>3. /\ mnMenu' \in [Shops -> [Scopes -> Values \cup {NoList}]] /\ mnAdmin' \subseteq Shops
      /\ mnShows' \in 0..MaxShows
  BY <1>1, <1>2 DEF BotMenuTypeOK
<1>4. mnTask[t].shop \in Shops /\ mnTask[t].key \in Keys
  BY <1>1 DEF Saving
<1>5. mnCache' = mnCache \/ mnCache' = [mnCache EXCEPT ![mnTask[t].key] = NoEntry]
  BY DEF BustCache, CacheKey
<1>6. mnCache' \in [Keys -> [value : Values, until : Nat] \cup {NoEntry}]
      /\ \A k \in Keys : mnCache'[k] \in {mnCache[k], NoEntry}
  BY <1>1, <1>4, <1>5 DEF MnTypes
<1>7. \A k \in Keys, s \in Shops : mnCache'[k] # NoEntry =>
        /\ mnTick <= mnCache'[k].until
        /\ mnCache'[k].until <= mnLast[s][k][mnCache'[k].value] + 1
  BY <1>6 DEF MnInv, CacheIsFresh
<1> DEFINE next == [kind |-> "cache", shop |-> mnTask[t].shop, key |-> mnTask[t].key,
                    to |-> Platform, value |-> 0]
<1>8. MenuGoes(t, next) \/ MenuGoes(t, Idle)
  BY DEF BustCache, Resolving
<1>9. next \in MenuTask /\ next.kind = "cache" /\ Idle \in MenuTask /\ Idle.kind = "idle"
  BY <1>1, <1>4 DEF MenuTask, Resolution, Idle
<1> HIDE DEF next
<1>10. Fresh(next) /\ Fresh(Idle)
  BY <1>9 DEF Fresh
<1> QED BY <1>2, <1>3, <1>6, <1>7, <1>8, <1>9, <1>10, MenuKeepsInv

\* A save: nothing is forgotten that was in force, and the new content is.
LEMMA SavingKeepsInv ==
  ASSUME MnInv, NEW s \in Shops, NEW k \in Keys, NEW push \in BOOLEAN, NEW value \in Values,
         SaveBegins(s, k, push), InForce(s, k, value)
  PROVE  MnInv'
<1> DEFINE task == [kind |-> "bust", shop |-> s, key |-> k, push |-> push]
           old == mnRow[s][k]
<1>1. MnTypes /\ BotMenuTypeOK /\ InForceNow /\ MaxEdits \in Nat /\ mnTick \in Nat
  BY BotMenuAssumption DEF MnInv, MnTypes, BotMenuTypeOK
<1>2. UNCHANGED <<mnCache, mnMenu, mnAdmin, mnTick, mnShows>>
  BY DEF InForce
<1>3. mnEdits' \in 0..MaxEdits
  BY <1>1 DEF SaveBegins, BotMenuTypeOK
<1>4. mnRow' \in [Shops -> [Keys -> Values]] /\ mnRow'[s][k] = value
      /\ \A r \in Shops, j \in Keys : r # s \/ j # k => mnRow'[r][j] = mnRow[r][j]
  BY <1>1 DEF InForce, BotMenuTypeOK
<1>5. mnLast[s][k] \in [Values -> Nat] /\ old \in Values
  BY <1>1 DEF MnTypes, BotMenuTypeOK
<1> DEFINE now == [mnLast[s][k] EXCEPT ![old] = mnTick, ![value] = mnTick]
<1>6. now \in [Values -> Nat] /\ now[value] = mnTick
      /\ \A v \in Values : now[v] \in {mnLast[s][k][v], mnTick}
  <2> HIDE DEF old
  <2> QED BY <1>1, <1>5
<1>7. mnLast' = [mnLast EXCEPT ![s][k] = now]
  BY <1>1 DEF InForce, MnTypes
<1> HIDE DEF now
<1>8. /\ mnLast' \in [Shops -> [Keys -> [Values -> Nat]]] /\ mnLast'[s][k] = now
      /\ \A r \in Shops, j \in Keys : r # s \/ j # k => mnLast'[r][j] = mnLast[r][j]
  BY <1>1, <1>6, <1>7 DEF MnTypes
<1>9. ASSUME NEW r \in Shops, NEW j \in Keys, NEW v \in Values
      PROVE  mnLast[r][j][v] <= mnLast'[r][j][v] /\ mnLast'[r][j][v] <= mnTick
             /\ mnLast[r][j][v] \in Nat /\ mnLast'[r][j][v] \in Nat
  <2>1. mnLast[r][j][v] <= mnTick /\ mnLast[r][j][v] \in Nat
    BY <1>1 DEF InForceNow, MnTypes
  <2>2. CASE r = s /\ j = k
    BY <1>1, <1>6, <1>8, <2>1, <2>2
  <2>3. CASE r # s \/ j # k
    BY <1>8, <2>1, <2>3
  <2> QED BY <2>2, <2>3
<1>10. PICK t \in MenuTasks : MenuGoes(t, task)
  BY DEF SaveBegins
<1>11. task \in MenuTask /\ task.kind = "bust"
  BY DEF MenuTask, Saving
<1> HIDE DEF task
<1>12. mnTask' \in [MenuTasks -> MenuTask]
       /\ \A u \in MenuTasks : mnTask'[u] = task \/ mnTask'[u] = mnTask[u]
  BY <1>1, <1>10, <1>11 DEF MenuGoes, MnTypes
<1>13. MnTypes'
  BY <1>1, <1>2, <1>3, <1>4, <1>8, <1>12 DEF MnTypes, BotMenuTypeOK
<1>14. InForceNow'
  <2> SUFFICES ASSUME NEW r \in Shops, NEW j \in Keys
               PROVE  mnLast'[r][j][mnRow'[r][j]] = mnTick
    BY <1>2, <1>9 DEF InForceNow
  <2>1. CASE r = s /\ j = k
    <3>1. mnLast'[s][k][mnRow'[s][k]] = now[value]
      BY <1>4, <1>8
    <3> QED BY <1>6, <2>1, <3>1
  <2>2. CASE r # s \/ j # k
    <3>1. mnLast'[r][j] = mnLast[r][j] /\ mnRow'[r][j] = mnRow[r][j]
      BY <1>4, <1>8, <2>2
    <3>2. mnLast[r][j][mnRow[r][j]] = mnTick
      BY <1>1 DEF InForceNow
    <3> QED BY <3>1, <3>2
  <2> QED BY <2>1, <2>2
<1>15. CacheIsFresh'
  <2> SUFFICES ASSUME NEW r \in Shops, NEW j \in Keys, mnCache[j] # NoEntry
               PROVE  /\ mnTick <= mnCache[j].until
                      /\ mnCache[j].until <= mnLast'[r][j][mnCache[j].value] + 1
    BY <1>2 DEF CacheIsFresh
  <2>1. mnCache[j] \in [value : Values, until : Nat]
    BY <1>1 DEF MnTypes
  <2>2. /\ mnTick <= mnCache[j].until
        /\ mnCache[j].until <= mnLast[r][j][mnCache[j].value] + 1
    BY DEF MnInv, CacheIsFresh
  <2>3. mnCache[j].value \in Values /\ mnCache[j].until \in Nat
    BY <2>1
  <2> QED BY <1>9, <2>2, <2>3
<1>16. ASSUME NEW u \in MenuTasks PROVE Fresh(mnTask[u])'
  <2>1. CASE mnTask'[u] = task
    BY <1>11, <2>1 DEF Fresh
  <2>2. CASE mnTask'[u] = mnTask[u] /\ mnTask[u].kind \in {"fill", "show"}
    <3>1. mnTask[u] \in Resolution
      BY <2>2, ResolvesTyped
    <3>2. mnTask[u].shop \in Shops /\ mnTask[u].key \in Keys /\ mnTask[u].value \in Values
      BY <3>1 DEF Resolution
    <3>3. Fresh(mnTask[u])
      BY DEF MnInv
    <3> DEFINE a == mnLast[mnTask[u].shop][mnTask[u].key][mnTask[u].value]
               b == mnLast'[mnTask[u].shop][mnTask[u].key][mnTask[u].value]
    <3>4. a <= b /\ a \in Nat /\ b \in Nat
      BY <1>9, <3>2
    <3> QED BY <1>1, <1>2, <2>2, <3>3, <3>4 DEF Fresh
  <2>3. CASE mnTask'[u] = mnTask[u] /\ mnTask[u].kind \notin {"fill", "show"}
    BY <2>3 DEF Fresh
  <2> QED BY <1>12, <2>1, <2>2, <2>3
<1> QED BY <1>13, <1>14, <1>15, <1>16 DEF MnInv

\* The handlers that save a text or a command list.
LEMMA SavesKeepInv ==
  ASSUME MnInv, \/ CommandsAdd \/ CommandsSave \/ CommandsDelete \/ CommandsReset
                \/ CommandsSeed \/ SettingsSearch \/ TextsSave
  PROVE  MnInv'
<1>1. mnEdits \in Nat /\ MaxEdits \in Nat
  BY BotMenuAssumption DEF MnInv, MnTypes, BotMenuTypeOK
<1>2. "text" \in Keys /\ Scopes \subseteq Keys /\ "user" \in Scopes /\ 0 \in Values
      /\ (mnEdits < MaxEdits => mnEdits + 1 \in Values)
  BY <1>1 DEF Keys, Scopes, Values
<1>3. PICK s \in Shops, k \in Keys, push \in BOOLEAN, value \in Values :
        SaveBegins(s, k, push) /\ InForce(s, k, value)
  <2>1. CASE CommandsAdd \/ CommandsSave \/ CommandsDelete
    BY <1>2, <2>1 DEF CommandsAdd, CommandsSave, CommandsDelete, Upsert, SaveBegins
  <2>2. CASE CommandsReset
    BY <1>2, <2>2 DEF CommandsReset
  <2>3. CASE CommandsSeed
    BY <1>2, <2>3 DEF CommandsSeed
  <2>4. CASE SettingsSearch
    BY <1>2, <2>4 DEF SettingsSearch, Upsert, SaveBegins
  <2>5. CASE TextsSave
    BY <1>2, <2>5 DEF TextsSave, SaveBegins
  <2> QED BY <2>1, <2>2, <2>3, <2>4, <2>5
<1> QED BY <1>3, SavingKeepsInv

\* The clock ticks between handlers, and takes the entries that are due with it.
LEMMA TickKeepsInv == ASSUME MnInv, Tick PROVE MnInv'
<1>1. MnTypes /\ BotMenuTypeOK /\ InForceNow /\ MaxTicks \in Nat /\ mnTick \in Nat
  BY BotMenuAssumption DEF MnInv, MnTypes, BotMenuTypeOK
<1>2. mnTick' = mnTick + 1 /\ mnTick' \in 0..MaxTicks
      /\ UNCHANGED <<mnRow, mnMenu, mnAdmin, mnTask, mnEdits, mnShows>>
  BY <1>1 DEF Tick
<1>3. PICK gone \in SUBSET Keys :
        /\ \A k \in Keys : mnCache[k] # NoEntry /\ mnCache[k].until <= mnTick => k \in gone
        /\ mnCache' = [k \in Keys |-> IF k \in gone THEN NoEntry ELSE mnCache[k]]
  BY DEF Tick
<1>4. mnLast' = [s \in Shops |-> [k \in Keys |-> [mnLast[s][k] EXCEPT ![mnRow[s][k]] = mnTick']]]
  BY DEF Tick
<1>5. ASSUME NEW s \in Shops, NEW k \in Keys
      PROVE  /\ mnLast'[s][k] = [mnLast[s][k] EXCEPT ![mnRow[s][k]] = mnTick']
             /\ mnLast[s][k] \in [Values -> Nat] /\ mnRow[s][k] \in Values
  BY <1>1, <1>4 DEF MnTypes, BotMenuTypeOK
<1>6. ASSUME NEW s \in Shops, NEW k \in Keys
      PROVE  /\ mnLast'[s][k] \in [Values -> Nat] /\ mnLast'[s][k][mnRow[s][k]] = mnTick'
             /\ \A v \in Values : mnLast'[s][k][v] \in {mnLast[s][k][v], mnTick'}
  <2>1. mnTick' \in Nat
    BY <1>1, <1>2
  <2>2. mnLast[s][k] \in [Values -> Nat] /\ mnRow[s][k] \in Values
        /\ mnLast'[s][k] = [mnLast[s][k] EXCEPT ![mnRow[s][k]] = mnTick']
    BY <1>5
  <2> QED BY <2>1, <2>2
<1>7. mnLast' \in [Shops -> [Keys -> [Values -> Nat]]]
  BY <1>4, <1>5, <1>6
<1>8. mnCache' \in [Keys -> [value : Values, until : Nat] \cup {NoEntry}]
  BY <1>1, <1>3 DEF MnTypes
<1>9. MnTypes'
  BY <1>1, <1>2, <1>7, <1>8 DEF MnTypes, BotMenuTypeOK
<1>10. InForceNow'
  <2> SUFFICES ASSUME NEW s \in Shops, NEW k \in Keys, NEW v \in Values
               PROVE  mnLast'[s][k][v] <= mnTick'
    BY <1>2, <1>6 DEF InForceNow
  <2>1. mnLast[s][k][v] <= mnTick /\ mnLast[s][k][v] \in Nat
    BY <1>1 DEF InForceNow, MnTypes
  <2> QED BY <1>1, <1>2, <1>6, <2>1
<1>11. CacheIsFresh'
  <2> SUFFICES ASSUME NEW s \in Shops, NEW k \in Keys, mnCache'[k] # NoEntry
               PROVE  /\ mnTick' <= mnCache'[k].until
                      /\ mnCache'[k].until <= mnLast'[s][k][mnCache'[k].value] + 1
    BY DEF CacheIsFresh
  <2>1. k \notin gone /\ mnCache'[k] = mnCache[k]
    BY <1>3
  <2>2. mnCache[k] # NoEntry /\ mnCache[k] \in [value : Values, until : Nat]
    BY <1>1, <2>1 DEF MnTypes
  <2>3. ~ (mnCache[k].until <= mnTick) /\ mnCache[k].until \in Nat /\ mnCache[k].value \in Values
    BY <1>3, <2>1, <2>2
  <2>4. mnCache[k].until <= mnLast[s][k][mnCache[k].value] + 1
    BY <2>2 DEF MnInv, CacheIsFresh
  <2>5. mnLast[s][k][mnCache[k].value] \in Nat /\ mnLast[s][k][mnCache[k].value] <= mnTick
        /\ mnLast'[s][k][mnCache[k].value] \in {mnLast[s][k][mnCache[k].value], mnTick'}
    BY <1>1, <1>6, <2>3 DEF InForceNow, MnTypes
  <2> QED BY <1>1, <1>2, <2>1, <2>3, <2>4, <2>5
<1>12. ASSUME NEW t \in MenuTasks PROVE Fresh(mnTask[t])'
  <2>1. mnTask'[t].kind = "idle"
    BY <1>2 DEF Tick, MenuIs
  <2> QED BY <2>1 DEF Fresh
<1> QED BY <1>9, <1>10, <1>11, <1>12 DEF MnInv

\* It holds at first.
LEMMA MenuInitInv == ASSUME BotMenuInit PROVE MnInv
<1>1. MaxEdits \in Nat /\ MaxShows \in Nat /\ MaxTicks \in Nat /\ 0 \in Values
  BY BotMenuAssumption DEF Values
<1>2. BotMenuTypeOK
  BY <1>1 DEF BotMenuInit, BotMenuTypeOK
<1>3. MnTypes
  BY <1>2 DEF BotMenuInit, MnTypes, MenuTask
<1>4. InForceNow
  BY <1>1 DEF BotMenuInit, InForceNow
<1>5. CacheIsFresh /\ \A t \in MenuTasks : Fresh(mnTask[t])
  BY DEF BotMenuInit, CacheIsFresh, Fresh, Idle
<1> QED BY <1>3, <1>4, <1>5 DEF MnInv

\* It is kept by every step, if there is one shop.
LEMMA MenuNextKeepsInv ==
  ASSUME Shops = {Platform}, MnInv, [BotMenuNext]_mnVars PROVE MnInv'
<1>1. CASE UNCHANGED mnVars
  BY <1>1 DEF MnInv, MnTypes, BotMenuTypeOK, InForceNow, CacheIsFresh, Fresh, mnVars
<1>2. CASE Tick
  BY <1>2, TickKeepsInv
<1>3. CASE GetText \/ SendWelcome \/ CmdPanelPush \/ SyncAll \/ BotAdminAdd \/ BotAdminToggle
           \/ PanelAdminAdd
  BY <1>3, ShowsKeepInv
<1>4. CASE BotAdminRemove \/ PanelAdminRemove
  BY <1>4, AdminOffKeepsInv
<1>5. CASE CommandsAdd \/ CommandsSave \/ CommandsDelete \/ CommandsReset \/ CommandsSeed
           \/ SettingsSearch \/ TextsSave
  BY <1>5, SavesKeepInv
<1>6. ASSUME NEW t \in MenuTasks,
             CacheLookup(t) \/ RowsRead(t) \/ CacheFilled(t) \/ TextShown(t)
               \/ PushDefaultCommands(t) \/ PushAdminCommands(t) \/ BustCache(t)
      PROVE  MnInv'
  BY <1>6, LookupKeepsInv, RowsReadKeepsInv, FillKeepsInv, ShownKeepsInv, BustKeepsInv
<1> QED BY <1>1, <1>2, <1>3, <1>4, <1>5, <1>6 DEF BotMenuNext

\* text_override_service and command_service behind their cache, BotMenuSpec, where one tenant
\* uses the cache (the keys do not name the tenant): whatever saves and reads overlap and
\* whichever calls to Redis fail, what a bot shows was the content in force at most one life
\* of a cache entry ago.
THEOREM EditsLive == ASSUME Shops = {Platform} PROVE BotMenuSpec => []EditsGoLive
<1>1. BotMenuInit => MnInv
  BY MenuInitInv
<1>2. MnInv /\ [BotMenuNext]_mnVars => MnInv'
  BY MenuNextKeepsInv
<1>3. MnInv => EditsGoLive
  BY DEF MnInv, Fresh, EditsGoLive, MenuIs
<1> QED BY <1>1, <1>2, <1>3, PTL DEF BotMenuSpec

-----------------------------------------------------------------------------
(* Advertisements: sends stay within the largest limit. *)

AdDelivery == [kind : {"send"}, left : SUBSET AdIds]
              \cup [kind : {"count"}, ad : AdIds, left : SUBSET AdIds]
AdChange == [kind : {"toggle", "edit"}, ad : AdIds, row : [there : BOOLEAN, active : BOOLEAN,
             here : BOOLEAN, limit : AdLimits, count : Nat, clicks : Nat]]

\* An ad that was sent and is being counted is not sent again.
AdTypes ==
  /\ AdsTypeOK
  /\ adTask \in [AdTasks -> AdDelivery \cup AdChange \cup {AdRest}]
  /\ \A t \in AdTasks : adTask[t].kind = "count" => adTask[t].ad \notin adTask[t].left

\* The handlers that will send the ad, and those that have sent it and not counted it.
Sending(a) == {t \in AdTasks : adTask[t].kind \in {"send", "count"} /\ a \in adTask[t].left}
Counting(a) == {t \in AdTasks : adTask[t].kind = "count" /\ adTask[t].ad = a}

\* Nobody knows of an ad that was never created.
Unused(a) ==
  adRow[a] = NoAd => /\ adShown[a] = 0 /\ adLost[a] = 0
                     /\ Sending(a) = {} /\ Counting(a) = {}

\* What was sent of an ad that is there was counted, lost or is being counted.
SentIsCounted(a) ==
  adRow[a].there =>
    /\ adRow[a].limit <= adTop[a]
    /\ adShown[a] = adRow[a].count + adLost[a] + Cardinality(Counting(a))

\* With what is going to be sent it is bounded: a handler that picks the ad finds the
\* count below the limit, and at most the other handlers on their way.
SentIsBounded(a) ==
  adTop[a] # NoLimit =>
    adShown[a] + Cardinality(Sending(a)) + 1 <= adTop[a] + Cardinality(AdTasks) + adLost[a]

AdInv == AdTypes /\ \A a \in AdIds : Unused(a) /\ SentIsCounted(a) /\ SentIsBounded(a)

-----------------------------------------------------------------------------
\* Two sets of handlers that share none.
LEMMA ApartInAll ==
  ASSUME NEW T, IsFiniteSet(T), T # {}, NEW A \in SUBSET T, NEW B \in SUBSET T, A \cap B = {}
  PROVE  /\ IsFiniteSet(A) /\ IsFiniteSet(B) /\ Cardinality(A) \in Nat /\ Cardinality(B) \in Nat
         /\ Cardinality(T) \in Nat \ {0} /\ Cardinality(A) + Cardinality(B) <= Cardinality(T)
<1>1. IsFiniteSet(A) /\ IsFiniteSet(B)
  BY FS_Subset
<1>2. Cardinality(A) \in Nat /\ Cardinality(B) \in Nat /\ Cardinality(T) \in Nat \ {0}
  BY <1>1, FS_CardinalityType, FS_EmptySet
<1>3. Cardinality(A \cap B) = 0
  BY FS_EmptySet
<1>4. Cardinality(A \cup B) = Cardinality(A) + Cardinality(B)
  <2>1. Cardinality(A \cup B) = Cardinality(A) + Cardinality(B) - Cardinality(A \cap B)
    BY <1>1, FS_Union
  <2> QED BY <1>2, <1>3, <2>1
<1>5. Cardinality(A \cup B) <= Cardinality(T)
  BY FS_Subset
<1> QED BY <1>1, <1>2, <1>4, <1>5

\* Handlers are counted in numbers, and a handler does not both send and count an ad.
LEMMA HandlersAreFew ==
  ASSUME AdTypes, NEW a \in AdIds
  PROVE  /\ IsFiniteSet(Sending(a)) /\ IsFiniteSet(Counting(a))
         /\ Cardinality(Sending(a)) \in Nat /\ Cardinality(Counting(a)) \in Nat
         /\ Cardinality(AdTasks) \in Nat \ {0}
         /\ Cardinality(Sending(a)) + Cardinality(Counting(a)) <= Cardinality(AdTasks)
<1>1. IsFiniteSet(AdTasks) /\ AdTasks # {}
  BY AdsAssumption
<1>2. Sending(a) \subseteq AdTasks /\ Counting(a) \subseteq AdTasks
  BY DEF Sending, Counting
<1>3. Sending(a) \cap Counting(a) = {}
  BY DEF Sending, Counting, AdTypes
<1> QED BY <1>1, <1>2, <1>3, ApartInAll

\* One handler moves: it is in the sets its new task says.
LEMMA HandlerMoves ==
  ASSUME AdTypes, NEW t \in AdTasks, NEW task \in AdDelivery \cup AdChange \cup {AdRest},
         AdGoes(t, task), NEW a \in AdIds
  PROVE  /\ Sending(a)' = IF task.kind \in {"send", "count"} /\ a \in task.left
                          THEN Sending(a) \cup {t} ELSE Sending(a) \ {t}
         /\ Counting(a)' = IF task.kind = "count" /\ task.ad = a
                           THEN Counting(a) \cup {t} ELSE Counting(a) \ {t}
<1>1. adTask'[t] = task /\ \A u \in AdTasks \ {t} : adTask'[u] = adTask[u]
  BY DEF AdGoes, AdTypes
<1>2. ASSUME NEW u \in AdTasks
      PROVE  /\ u \in Sending(a)' <=> adTask'[u].kind \in {"send", "count"} /\ a \in adTask'[u].left
             /\ u \in Counting(a)' <=> adTask'[u].kind = "count" /\ adTask'[u].ad = a
             /\ u \in Sending(a) <=> adTask[u].kind \in {"send", "count"} /\ a \in adTask[u].left
             /\ u \in Counting(a) <=> adTask[u].kind = "count" /\ adTask[u].ad = a
  BY DEF Sending, Counting
<1>3. /\ Sending(a) \subseteq AdTasks /\ Sending(a)' \subseteq AdTasks
      /\ Counting(a) \subseteq AdTasks /\ Counting(a)' \subseteq AdTasks
  BY DEF Sending, Counting
<1> QED BY <1>1, <1>2, <1>3

\* What it keeps: the tasks are of their types.
LEMMA HandlerTyped ==
  ASSUME AdTypes, NEW t \in AdTasks, NEW task \in AdDelivery \cup AdChange \cup {AdRest},
         AdGoes(t, task), task.kind = "count" => task.ad \notin task.left, AdsTypeOK'
  PROVE  AdTypes'
BY DEF AdTypes, AdGoes

AdOK(a) == Unused(a) /\ SentIsCounted(a) /\ SentIsBounded(a)

AdRowType == [there : BOOLEAN, active : BOOLEAN, here : BOOLEAN, limit : AdLimits, count : Nat,
              clicks : Nat]

\* An ad that nobody sends or counts in this step; handlers that would may give up.
LEMMA AdStands ==
  ASSUME AdInv, NEW a \in AdIds, adTop'[a] \in AdLimits,
         Sending(a)' \subseteq Sending(a), Counting(a)' = Counting(a),
         adShown'[a] = adShown[a], adLost'[a] = adLost[a], adTop[a] <= adTop'[a],
         adRow'[a] = NoAd => adRow[a] = NoAd,
         adRow'[a].there => /\ adRow[a].there /\ adRow'[a].count = adRow[a].count
                            /\ adRow'[a].limit <= adTop'[a]
  PROVE  AdOK(a)'
<1>1. AdTypes /\ Unused(a) /\ SentIsCounted(a) /\ SentIsBounded(a)
  BY DEF AdInv
<1>2. /\ adShown[a] \in Nat /\ adLost[a] \in Nat /\ adTop[a] \in 0..NoLimit
      /\ adTop'[a] \in 0..NoLimit /\ NoLimit \in Nat
      /\ Cardinality(Sending(a)) \in Nat /\ Cardinality(AdTasks) \in Nat
      /\ IsFiniteSet(Sending(a))
  BY <1>1, HandlersAreFew, AdsAssumption DEF AdTypes, AdsTypeOK, AdLimits, NoLimit
<1> DEFINE n == Cardinality(Sending(a)')
<1>3. n \in Nat /\ n <= Cardinality(Sending(a))
  BY <1>2, FS_Subset, FS_CardinalityType
<1> HIDE DEF n
<1>4. Unused(a)' /\ SentIsCounted(a)'
  BY <1>1 DEF Unused, SentIsCounted
<1>5. SentIsBounded(a)'
  <2> SUFFICES ASSUME adTop'[a] # NoLimit
               PROVE  adShown[a] + n + 1 <= adTop'[a] + Cardinality(AdTasks) + adLost[a]
    BY DEF SentIsBounded, n
  <2>1. adTop[a] # NoLimit
    BY <1>2
  <2> QED BY <1>1, <1>2, <1>3, <2>1 DEF SentIsBounded
<1> QED BY <1>4, <1>5 DEF AdOK

\* Only the rows of ads change: a click, a deletion, what an update leaves.
LEMMA RowKeepsAds ==
  ASSUME AdInv, NEW a \in AdIds, NEW row \in AdRowType, adRow' = [adRow EXCEPT ![a] = row],
         adRow[a].there, row # NoAd, row.there => row.count = adRow[a].count,
         adTop' \in [AdIds -> AdLimits], row.limit <= adTop'[a], adTop[a] <= adTop'[a],
         \A b \in AdIds \ {a} : adTop'[b] = adTop[b],
         UNCHANGED <<adShown, adLost>>, adCalls' \in 0..MaxAdCalls, AdTypes',
         \A b \in AdIds : Sending(b)' = Sending(b) /\ Counting(b)' = Counting(b)
  PROVE  AdInv'
<1>1. AdTypes /\ adTop \in [AdIds -> AdLimits] /\ adRow \in [AdIds -> AdRowType]
  BY DEF AdInv, AdTypes, AdsTypeOK, AdRowType
<1>2. AdsTypeOK'
  BY DEF AdTypes
<1>3. AdOK(a)'
  BY <1>1, <1>2, AdStands
<1>4. ASSUME NEW b \in AdIds, b # a PROVE AdOK(b)'
  <2>1. adRow'[b] = adRow[b] /\ adTop'[b] = adTop[b] /\ adTop[b] <= adTop'[b]
    BY <1>1, <1>4 DEF AdLimits, NoLimit
  <2>2. adRow[b].there => adRow[b].limit <= adTop[b]
    BY DEF AdInv, SentIsCounted
  <2> QED BY <1>2, <2>1, <2>2, AdStands
<1> QED BY <1>3, <1>4 DEF AdInv, AdOK

\* A handler that neither sends nor counts, before and after.
LEMMA HandlersStay ==
  ASSUME AdTypes, NEW t \in AdTasks, adTask[t].kind \notin {"send", "count"},
         NEW task \in AdChange \cup {AdRest}, AdGoes(t, task), NEW a \in AdIds
  PROVE  Sending(a)' = Sending(a) /\ Counting(a)' = Counting(a)
<1>1. task.kind \notin {"send", "count"}
  BY DEF AdChange, AdRest
<1>2. t \notin Sending(a) /\ t \notin Counting(a)
  BY DEF Sending, Counting
<1>3. Sending(a)' = Sending(a) \ {t} /\ Counting(a)' = Counting(a) \ {t}
  BY <1>1, HandlerMoves
<1> QED BY <1>2, <1>3

\* No row changes and nothing is sent: handlers begin, give up, or do nothing.
LEMMA HandlersKeepAds ==
  ASSUME AdInv, AdTypes', UNCHANGED <<adRow, adShown, adLost, adTop>>,
         \A a \in AdIds : Sending(a)' \subseteq Sending(a) /\ Counting(a)' = Counting(a)
  PROVE  AdInv'
<1> SUFFICES ASSUME NEW a \in AdIds PROVE AdOK(a)'
  BY DEF AdInv, AdOK
<1>1. adTop[a] \in AdLimits /\ adTop[a] <= adTop[a]
  BY AdsAssumption DEF AdInv, AdTypes, AdsTypeOK, AdLimits, NoLimit
<1>2. adRow[a].there => adRow[a].limit <= adTop[a]
  BY DEF AdInv, SentIsCounted
<1> QED BY <1>1, <1>2, AdStands

\* Handlers of the owner load a row; deliveries give up.
LEMMA LoadKeepsAds == ASSUME AdInv, AdToggle \/ AdsToggle \/ AdsEdit PROVE AdInv'
<1>1. AdTypes /\ adRow \in [AdIds -> AdRowType]
  BY DEF AdInv, AdTypes, AdsTypeOK, AdRowType
<1>2. PICK kind \in {"toggle", "edit"} : AdLoads(kind)
  BY DEF AdToggle, AdsToggle, AdsEdit
<1>3. PICK a \in AdIds : AdStarts([kind |-> kind, ad |-> a, row |-> adRow[a]])
  BY <1>2 DEF AdLoads
<1> DEFINE task == [kind |-> kind, ad |-> a, row |-> adRow[a]]
<1>4. task \in AdChange /\ task.kind # "count"
  BY <1>1 DEF AdChange, AdRowType
<1>5. PICK t \in AdTasks : AdIs(t, "idle") /\ AdGoes(t, task)
  BY <1>3 DEF AdStarts
<1> HIDE DEF task
<1>6. \A b \in AdIds : Sending(b)' = Sending(b) /\ Counting(b)' = Counting(b)
  BY <1>1, <1>4, <1>5, HandlersStay DEF AdIs
<1>7. adCalls' \in 0..MaxAdCalls /\ UNCHANGED <<adRow, adShown, adLost, adTop>>
  BY <1>1, <1>2, <1>3, AdsAssumption DEF AdLoads, AdStarts, AdSpent, AdTypes, AdsTypeOK
<1>8. AdTypes'
  <2>1. AdsTypeOK'
    BY <1>1, <1>7 DEF AdTypes, AdsTypeOK
  <2> QED BY <1>1, <1>4, <1>5, <2>1, HandlerTyped
<1> QED BY <1>6, <1>7, <1>8, HandlersKeepAds

\* A click, a deletion.
LEMMA RowsChange ==
  ASSUME AdInv, AdClick \/ Delete PROVE AdInv'
<1>1. AdTypes /\ adRow \in [AdIds -> AdRowType] /\ adTop \in [AdIds -> AdLimits]
  BY DEF AdInv, AdTypes, AdsTypeOK, AdRowType
<1>2. PICK a \in AdIds : /\ adRow[a].there
                         /\ \/ adRow' = [adRow EXCEPT ![a].clicks = @ + 1]
                            \/ adRow' = [adRow EXCEPT ![a].there = FALSE, ![a].active = TRUE]
  BY DEF AdClick, Delete
<1>3. AdSpent /\ UNCHANGED <<adTask, adShown, adLost, adTop>>
  BY DEF AdClick, Delete
<1>4. PICK row \in AdRowType :
        /\ adRow' = [adRow EXCEPT ![a] = row] /\ (row.there \/ row.active)
        /\ row.count = adRow[a].count /\ row.limit = adRow[a].limit
  <2>1. adRow[a] \in AdRowType
    BY <1>1
  <2>2. CASE adRow' = [adRow EXCEPT ![a].clicks = @ + 1]
    <3> DEFINE row == [adRow[a] EXCEPT !.clicks = adRow[a].clicks + 1]
    <3>1. row \in AdRowType /\ row.there /\ row.count = adRow[a].count /\ row.limit = adRow[a].limit
      BY <1>2, <2>1 DEF AdRowType
    <3>2. adRow' = [adRow EXCEPT ![a] = row]
      BY <2>2
    <3> HIDE DEF row
    <3> QED BY <3>1, <3>2
  <2>3. CASE adRow' = [adRow EXCEPT ![a].there = FALSE, ![a].active = TRUE]
    <3> DEFINE row == [adRow[a] EXCEPT !.there = FALSE, !.active = TRUE]
    <3>1. row \in AdRowType /\ row.active /\ row.count = adRow[a].count /\ row.limit = adRow[a].limit
      BY <2>1 DEF AdRowType
    <3>2. adRow' = [adRow EXCEPT ![a] = row]
      BY <2>3
    <3> HIDE DEF row
    <3> QED BY <3>1, <3>2
  <2> QED BY <1>2, <2>2, <2>3
<1>5. row # NoAd
  BY <1>4 DEF NoAd
<1>6. \A b \in AdIds : Sending(b)' = Sending(b) /\ Counting(b)' = Counting(b)
  BY <1>3 DEF Sending, Counting
<1>7. adRow' \in [AdIds -> AdRowType]
  BY <1>1, <1>4
<1>8. adCalls' \in 0..MaxAdCalls
  BY <1>1, <1>3, AdsAssumption DEF AdSpent, AdTypes, AdsTypeOK
<1>9. AdTypes'
  BY <1>1, <1>3, <1>7, <1>8 DEF AdTypes, AdsTypeOK, AdRowType
<1>10. adRow[a].limit <= adTop[a]
  BY <1>2 DEF AdInv, SentIsCounted
<1>11. adTop' = adTop /\ adTop[a] <= adTop[a]
  BY <1>1, <1>3 DEF AdLimits, NoLimit
<1> QED BY <1>1, <1>2, <1>3, <1>4, <1>5, <1>6, <1>8, <1>9, <1>10, <1>11, RowKeepsAds

\* The handler of a change has its row.
LEMMA ChangeTyped ==
  ASSUME AdTypes, NEW t \in AdTasks, adTask[t].kind \in {"toggle", "edit"}
  PROVE  adTask[t] \in AdChange /\ adTask[t].ad \in AdIds /\ adTask[t].row \in AdRowType
BY DEF AdTypes, AdDelivery, AdChange, AdRest, AdRowType

\* toggle and update_fields commit: the largest limit keeps up with the limit.
LEMMA ChangeKeepsAds ==
  ASSUME AdInv, NEW t \in AdTasks, ToggleCommits(t) \/ UpdateFields(t) PROVE AdInv'
<1>1. AdTypes /\ adRow \in [AdIds -> AdRowType] /\ adTop \in [AdIds -> AdLimits]
      /\ adCalls \in 0..MaxAdCalls
  BY DEF AdInv, AdTypes, AdsTypeOK, AdRowType
<1>2. adTask[t].kind \in {"toggle", "edit"} /\ AdGoes(t, AdRest) /\ UNCHANGED <<adShown, adLost, adCalls>>
  BY DEF ToggleCommits, UpdateFields, AdIs
<1> DEFINE a == adTask[t].ad
           seen == adTask[t].row
<1>3. a \in AdIds /\ seen \in AdRowType
  BY <1>1, <1>2, ChangeTyped
<1>4. \A b \in AdIds : Sending(b)' = Sending(b) /\ Counting(b)' = Counting(b)
  BY <1>1, <1>2, HandlersStay
<1>5. CASE UNCHANGED <<adRow, adTop>>
  <2>1. AdTypes'
    BY <1>1, <1>2, <1>5, HandlerTyped DEF AdTypes, AdsTypeOK, AdRest
  <2> QED BY <1>2, <1>4, <1>5, <2>1, HandlersKeepAds
<1>6. CASE adRow[a].there /\ ~ UNCHANGED <<adRow, adTop>>
  <2>1. PICK row \in AdRowType, top \in AdLimits :
          /\ adRow' = [adRow EXCEPT ![a] = row] /\ row.there /\ row.count = adRow[a].count
          /\ adTop' = [adTop EXCEPT ![a] = top] /\ row.limit <= top /\ adTop[a] <= top
    <3>1. adRow[a] \in AdRowType /\ adTop[a] \in AdLimits /\ adRow[a].limit <= adTop[a]
      BY <1>1, <1>3, <1>6 DEF AdInv, SentIsCounted
    <3>2. CASE ToggleCommits(t)
      <4> DEFINE row == [adRow[a] EXCEPT !.active = ~seen.active]
      <4>1. /\ row \in AdRowType /\ row.there /\ row.count = adRow[a].count
            /\ row.limit = adRow[a].limit
        BY <1>3, <1>6, <3>1 DEF AdRowType
      <4>2. adRow' = [adRow EXCEPT ![a] = row] /\ adTop' = [adTop EXCEPT ![a] = adTop[a]]
        BY <1>1, <1>6, <3>2 DEF ToggleCommits
      <4>3. adTop[a] <= adTop[a]
        BY <3>1 DEF AdLimits, NoLimit
      <4> HIDE DEF row
      <4> QED BY <3>1, <4>1, <4>2, <4>3
    <3>3. CASE UpdateFields(t)
      <4>1. PICK limit \in AdLimits \ {0}, here \in BOOLEAN :
              /\ adRow' = [adRow EXCEPT ![a].limit = IF limit = seen.limit THEN @ ELSE limit,
                                        ![a].here = IF here = seen.here THEN @ ELSE here]
              /\ Topped(a, adRow'[a].limit)
        BY <1>6, <3>3 DEF UpdateFields
      <4> DEFINE next == IF limit = seen.limit THEN adRow[a].limit ELSE limit
                 place == IF here = seen.here THEN adRow[a].here ELSE here
                 row == [adRow[a] EXCEPT !.limit = next, !.here = place]
                 top == IF next > adTop[a] THEN next ELSE adTop[a]
      <4>2. /\ next \in AdLimits /\ place \in BOOLEAN /\ row \in AdRowType /\ row.there
            /\ row.count = adRow[a].count /\ row.limit = next
        BY <1>6, <3>1 DEF AdRowType
      <4>3. adRow' = [adRow EXCEPT ![a] = row]
        BY <4>1
      <4>4. adRow'[a].limit = next
        BY <1>1, <1>3, <4>2, <4>3
      <4>5. adTop' = [adTop EXCEPT ![a] = top]
        BY <4>1, <4>4 DEF Topped
      <4>6. top \in AdLimits /\ next <= top /\ adTop[a] <= top
        <5> HIDE DEF next
        <5> QED BY <3>1, <4>2, AdsAssumption DEF AdLimits, NoLimit
      <4> HIDE DEF row, top, next
      <4> QED BY <4>2, <4>3, <4>5, <4>6
    <3> QED BY <3>2, <3>3
  <2>2. row # NoAd /\ adRow' \in [AdIds -> AdRowType] /\ adTop' \in [AdIds -> AdLimits]
        /\ adTop'[a] = top /\ \A b \in AdIds \ {a} : adTop'[b] = adTop[b]
    BY <1>1, <1>3, <2>1 DEF NoAd
  <2>3. AdTypes'
    <3>1. AdsTypeOK'
      BY <1>1, <1>2, <2>2 DEF AdTypes, AdsTypeOK, AdRowType
    <3> QED BY <1>1, <1>2, <3>1, HandlerTyped DEF AdRest
  <2> HIDE DEF a
  <2> QED BY <1>1, <1>2, <1>3, <1>4, <1>6, <2>1, <2>2, <2>3, RowKeepsAds
<1> QED BY <1>5, <1>6, <1>2 DEF ToggleCommits, UpdateFields

\* A new ad: nothing is known of it, and there is at least one handler.
LEMMA CreateKeepsAds == ASSUME AdInv, BotAdCreate \/ AdsCreate \/ ApiAdsCreate PROVE AdInv'
<1>1. AdTypes /\ adRow \in [AdIds -> AdRowType] /\ adTop \in [AdIds -> AdLimits]
  BY DEF AdInv, AdTypes, AdsTypeOK, AdRowType
<1>2. PICK limits \in SUBSET AdLimits : Create(limits)
  <2>1. NoLimit \in AdLimits
    BY AdsAssumption DEF AdLimits, NoLimit
  <2> QED BY <2>1 DEF BotAdCreate, AdsCreate, ApiAdsCreate
<1>3. PICK a \in AdIds, limit \in AdLimits, here \in BOOLEAN :
        /\ adRow[a] = NoAd
        /\ adRow' = [adRow EXCEPT ![a] = [there |-> TRUE, active |-> TRUE, here |-> here,
                                          limit |-> limit, count |-> 0, clicks |-> 0]]
        /\ Topped(a, limit)
  BY <1>2 DEF Create
<1>4. AdSpent /\ UNCHANGED <<adTask, adShown, adLost>>
  BY <1>2 DEF Create
<1> DEFINE row == [there |-> TRUE, active |-> TRUE, here |-> here, limit |-> limit, count |-> 0,
                   clicks |-> 0]
           top == IF limit > adTop[a] THEN limit ELSE adTop[a]
<1>5. row \in AdRowType /\ row # NoAd /\ row.count = 0 /\ row.limit = limit
  BY DEF AdRowType, NoAd
<1>6. top \in AdLimits /\ limit <= top /\ adTop' = [adTop EXCEPT ![a] = top]
  BY <1>1, <1>3, AdsAssumption DEF AdLimits, NoLimit, Topped
<1>7. adRow' = [adRow EXCEPT ![a] = row]
  BY <1>3
<1> HIDE DEF row, top
<1>8. /\ adRow' \in [AdIds -> AdRowType] /\ adTop' \in [AdIds -> AdLimits]
      /\ adRow'[a] = row /\ adTop'[a] = top
      /\ \A b \in AdIds \ {a} : adRow'[b] = adRow[b] /\ adTop'[b] = adTop[b]
  BY <1>1, <1>5, <1>6, <1>7
<1>9. adCalls' \in 0..MaxAdCalls
  BY <1>1, <1>4, AdsAssumption DEF AdSpent, AdTypes, AdsTypeOK
<1>10. AdsTypeOK' /\ AdTypes'
  BY <1>1, <1>4, <1>8, <1>9 DEF AdTypes, AdsTypeOK, AdRowType
<1>11. \A b \in AdIds : Sending(b)' = Sending(b) /\ Counting(b)' = Counting(b)
  BY <1>4 DEF Sending, Counting
<1>12. ASSUME NEW b \in AdIds, b # a PROVE AdOK(b)'
  <2>1. adRow[b].there => adRow[b].limit <= adTop[b]
    BY DEF AdInv, SentIsCounted
  <2>2. adTop[b] <= adTop[b]
    BY <1>1 DEF AdLimits, NoLimit
  <2> QED BY <1>4, <1>8, <1>10, <1>11, <1>12, <2>1, <2>2, AdStands
<1>13. AdOK(a)'
  <2>1. adShown[a] = 0 /\ adLost[a] = 0 /\ Sending(a) = {} /\ Counting(a) = {}
    BY <1>3 DEF AdInv, Unused
  <2>2. Cardinality({}) = 0 /\ Cardinality(AdTasks) \in Nat \ {0} /\ top \in Nat
    BY <1>1, <1>6, HandlersAreFew, FS_EmptySet, AdsAssumption DEF AdLimits, NoLimit
  <2>3. Unused(a)'
    BY <1>5, <1>8 DEF Unused
  <2>4. SentIsCounted(a)'
    BY <1>4, <1>5, <1>6, <1>8, <1>11, <2>1, <2>2 DEF SentIsCounted
  <2>5. SentIsBounded(a)'
    <3>1. 0 + 0 + 1 <= top + Cardinality(AdTasks) + 0
      BY <2>2
    <3>2. /\ adShown'[a] = 0 /\ adLost'[a] = 0 /\ Cardinality(Sending(a)') = 0
          /\ adTop'[a] = top
      BY <1>4, <1>8, <1>11, <2>1, <2>2
    <3> QED BY <3>1, <3>2 DEF SentIsBounded
  <2> QED BY <2>3, <2>4, <2>5 DEF AdOK
<1> QED BY <1>10, <1>12, <1>13 DEF AdInv, AdOK

\* A delivery picks ads that are below their limits: the sends on their way, its own
\* included, are at most as many as there are handlers.
LEMMA PickKeepsAds == ASSUME AdInv, PickForPlacement PROVE AdInv'
<1>1. AdTypes
  BY DEF AdInv
<1> DEFINE task == [kind |-> "send", left |-> Picked]
<1>2. task \in AdDelivery /\ task.kind = "send" /\ task.left = Picked
  BY DEF AdDelivery, Picked
<1>3. PICK t \in AdTasks : AdIs(t, "idle") /\ AdGoes(t, task)
  BY DEF PickForPlacement, AdStarts
<1> HIDE DEF task
<1>4. AdSpent /\ UNCHANGED <<adRow, adShown, adLost, adTop>>
  BY DEF PickForPlacement, AdStarts
<1>5. AdsTypeOK' /\ AdTypes'
  <2>1. adCalls' \in 0..MaxAdCalls
    BY <1>1, <1>4, AdsAssumption DEF AdSpent, AdTypes, AdsTypeOK
  <2>2. AdsTypeOK'
    BY <1>1, <1>4, <2>1 DEF AdTypes, AdsTypeOK
  <2> QED BY <1>1, <1>2, <1>3, <2>2, HandlerTyped
<1> SUFFICES ASSUME NEW a \in AdIds PROVE AdOK(a)'
  BY <1>5 DEF AdInv, AdOK
<1>6. t \notin Sending(a) /\ t \notin Counting(a)
  BY <1>3 DEF AdIs, Sending, Counting
<1>7. /\ Sending(a)' = IF a \in Picked THEN Sending(a) \cup {t} ELSE Sending(a)
      /\ Counting(a)' = Counting(a)
  <2>1. /\ Sending(a)' = IF a \in task.left THEN Sending(a) \cup {t} ELSE Sending(a) \ {t}
        /\ Counting(a)' = Counting(a) \ {t}
    BY <1>1, <1>2, <1>3, HandlerMoves
  <2> QED BY <1>2, <1>6, <2>1
<1>8. CASE a \notin Picked
  <2>1. /\ adTop'[a] \in AdLimits /\ adTop[a] <= adTop'[a]
        /\ adRow[a].there => adRow[a].limit <= adTop[a]
    BY <1>1, <1>4, AdsAssumption DEF AdTypes, AdsTypeOK, AdLimits, NoLimit, AdInv, SentIsCounted
  <2> QED BY <1>4, <1>5, <1>7, <1>8, <2>1, AdStands
<1>9. CASE a \in Picked
  <2>1. Eligible(a)
    BY <1>9 DEF Picked
  <2>2. adRow[a].there /\ adRow[a] # NoAd /\ (adRow[a].limit # NoLimit => adRow[a].count < adRow[a].limit)
    BY <2>1 DEF Eligible, NoAd
  <2>3. /\ adRow[a].limit <= adTop[a]
        /\ adShown[a] = adRow[a].count + adLost[a] + Cardinality(Counting(a))
    BY <2>2 DEF AdInv, SentIsCounted
  <2>4. /\ adShown[a] \in Nat /\ adLost[a] \in Nat /\ adTop[a] \in 0..NoLimit
        /\ adRow[a].limit \in 0..NoLimit /\ adRow[a].count \in Nat /\ NoLimit \in Nat
    BY <1>1, AdsAssumption DEF AdTypes, AdsTypeOK, AdLimits, NoLimit
  <2>5. /\ Cardinality(Sending(a)) \in Nat /\ Cardinality(Counting(a)) \in Nat
        /\ Cardinality(AdTasks) \in Nat /\ IsFiniteSet(Sending(a)) /\ IsFiniteSet(Counting(a))
        /\ IsFiniteSet(Sending(a) \cup {t})
        /\ Cardinality(Sending(a) \cup {t}) = Cardinality(Sending(a)) + 1
    BY <1>1, <1>6, HandlersAreFew, FS_AddElement
  <2>6. Cardinality(Sending(a) \cup {t}) + Cardinality(Counting(a)) <= Cardinality(AdTasks)
    <3>1. /\ Sending(a) \cup {t} \in SUBSET AdTasks /\ Counting(a) \in SUBSET AdTasks
          /\ (Sending(a) \cup {t}) \cap Counting(a) = {}
      BY <1>1, <1>6 DEF Sending, Counting, AdTypes
    <3> QED BY <3>1, ApartInAll, AdsAssumption
  <2>7. Unused(a)' /\ SentIsCounted(a)'
    BY <1>4, <1>7, <2>2, <2>3 DEF Unused, SentIsCounted
  <2>8. SentIsBounded(a)'
    <3> SUFFICES ASSUME adTop[a] # NoLimit
                 PROVE  adShown[a] + Cardinality(Sending(a) \cup {t}) + 1
                          <= adTop[a] + Cardinality(AdTasks) + adLost[a]
      BY <1>4, <1>7, <1>9 DEF SentIsBounded
    <3>1. adRow[a].count < adTop[a]
      BY <2>2, <2>3, <2>4
    <3> QED BY <2>3, <2>4, <2>5, <2>6, <3>1
  <2> QED BY <2>7, <2>8 DEF AdOK
<1> QED BY <1>8, <1>9

\* A send that fails ends the placement; one that succeeds is to be counted.
LEMMA SendKeepsAds == ASSUME AdInv, NEW t \in AdTasks, SendAd(t) PROVE AdInv'
<1>1. AdTypes /\ adShown \in [AdIds -> Nat]
  BY DEF AdInv, AdTypes, AdsTypeOK
<1>2. adTask[t].kind = "send" /\ adTask[t].left \in SUBSET AdIds
  BY <1>1 DEF SendAd, AdIs, AdTypes, AdDelivery, AdChange, AdRest
<1>3. UNCHANGED <<adRow, adLost, adTop, adCalls>>
  BY DEF SendAd
<1>4. CASE AdGoes(t, AdRest) /\ UNCHANGED adShown
  <2>1. AdTypes'
    <3>1. AdsTypeOK'
      BY <1>1, <1>3, <1>4 DEF AdTypes, AdsTypeOK
    <3> QED BY <1>1, <1>4, <3>1, HandlerTyped DEF AdRest
  <2>2. ASSUME NEW a \in AdIds PROVE Sending(a)' \subseteq Sending(a) /\ Counting(a)' = Counting(a)
    <3>1. Sending(a)' = Sending(a) \ {t} /\ Counting(a)' = Counting(a) \ {t}
      BY <1>1, <1>4, HandlerMoves DEF AdRest
    <3> QED BY <1>2, <3>1 DEF Counting
  <2> QED BY <1>3, <1>4, <2>1, <2>2, HandlersKeepAds
<1>5. CASE ~ (AdGoes(t, AdRest) /\ UNCHANGED adShown)
  <2>1. PICK a \in adTask[t].left :
          /\ adShown' = [adShown EXCEPT ![a] = adShown[a] + 1]
          /\ AdGoes(t, [kind |-> "count", ad |-> a, left |-> adTask[t].left \ {a}])
    BY <1>5 DEF SendAd
  <2> DEFINE task == [kind |-> "count", ad |-> a, left |-> adTask[t].left \ {a}]
  <2>2. /\ task \in AdDelivery /\ task.kind = "count" /\ task.ad = a
        /\ task.left = adTask[t].left \ {a} /\ AdGoes(t, task) /\ a \in AdIds
    BY <1>2, <2>1 DEF AdDelivery
  <2> HIDE DEF task
  <2>3. /\ adShown' \in [AdIds -> Nat] /\ adShown'[a] = adShown[a] + 1
        /\ \A b \in AdIds \ {a} : adShown'[b] = adShown[b]
    BY <1>1, <2>1, <2>2
  <2>4. AdsTypeOK' /\ AdTypes'
    <3>1. AdsTypeOK'
      BY <1>1, <1>3, <2>3 DEF AdTypes, AdsTypeOK
    <3> QED BY <1>1, <2>2, <3>1, HandlerTyped
  <2>5. ASSUME NEW b \in AdIds, b # a PROVE AdOK(b)'
    <3>1. Sending(b)' = Sending(b) /\ Counting(b)' = Counting(b)
      <4>1. /\ Sending(b)' = IF b \in adTask[t].left \ {a} THEN Sending(b) \cup {t} ELSE Sending(b) \ {t}
            /\ Counting(b)' = Counting(b) \ {t}
        BY <1>1, <2>2, <2>5, HandlerMoves
      <4>2. (t \in Sending(b) <=> b \in adTask[t].left) /\ t \notin Counting(b)
        BY <1>2 DEF Sending, Counting
      <4> QED BY <2>5, <4>1, <4>2
    <3>2. /\ adTop'[b] \in AdLimits /\ adTop[b] <= adTop'[b]
          /\ adRow[b].there => adRow[b].limit <= adTop[b]
      BY <1>1, <1>3, AdsAssumption DEF AdTypes, AdsTypeOK, AdLimits, NoLimit, AdInv, SentIsCounted
    <3> QED BY <1>3, <2>3, <2>4, <2>5, <3>1, <3>2, AdStands
  <2>6. AdOK(a)'
    <3>1. t \in Sending(a) /\ t \notin Counting(a)
      BY <1>2, <2>1 DEF Sending, Counting
    <3>2. Sending(a)' = Sending(a) \ {t} /\ Counting(a)' = Counting(a) \cup {t}
      BY <1>1, <2>2, HandlerMoves
    <3>3. /\ Cardinality(Sending(a)) \in Nat /\ Cardinality(Counting(a)) \in Nat
          /\ Cardinality(AdTasks) \in Nat /\ IsFiniteSet(Sending(a)) /\ IsFiniteSet(Counting(a))
      BY <1>1, <2>2, HandlersAreFew
    <3>4. /\ Cardinality(Sending(a) \ {t}) = Cardinality(Sending(a)) - 1
          /\ Cardinality(Counting(a) \cup {t}) = Cardinality(Counting(a)) + 1
      BY <3>1, <3>3, FS_AddElement, FS_RemoveElement
    <3>5. /\ adShown[a] \in Nat /\ adLost[a] \in Nat /\ adTop[a] \in Nat /\ adRow[a].count \in Nat
      BY <1>1, <2>2, AdsAssumption DEF AdTypes, AdsTypeOK, AdLimits, NoLimit
    <3>6. adRow[a] # NoAd
      BY <2>2, <3>1 DEF AdInv, Unused
    <3>7. Unused(a)'
      BY <1>3, <3>6 DEF Unused
    <3>8. SentIsCounted(a)'
      <4> SUFFICES ASSUME adRow[a].there
                   PROVE  /\ adRow[a].limit <= adTop[a]
                          /\ adShown[a] + 1 = adRow[a].count + adLost[a] + Cardinality(Counting(a) \cup {t})
        BY <1>3, <2>3, <3>2 DEF SentIsCounted
      <4>1. /\ adRow[a].limit <= adTop[a]
            /\ adShown[a] = adRow[a].count + adLost[a] + Cardinality(Counting(a))
        BY <2>2 DEF AdInv, SentIsCounted
      <4> QED BY <3>3, <3>4, <3>5, <4>1
    <3>9. SentIsBounded(a)'
      <4> SUFFICES ASSUME adTop[a] # NoLimit
                   PROVE  adShown[a] + 1 + Cardinality(Sending(a) \ {t}) + 1
                            <= adTop[a] + Cardinality(AdTasks) + adLost[a]
        BY <1>3, <2>3, <3>2 DEF SentIsBounded
      <4>1. adShown[a] + Cardinality(Sending(a)) + 1 <= adTop[a] + Cardinality(AdTasks) + adLost[a]
        BY <2>2 DEF AdInv, SentIsBounded
      <4> QED BY <3>3, <3>4, <3>5, <4>1
    <3> QED BY <3>7, <3>8, <3>9 DEF AdOK
  <2> QED BY <2>4, <2>5, <2>6 DEF AdInv, AdOK
<1> QED BY <1>4, <1>5

\* A send is counted, or is lost with the rest of the placement.
LEMMA RecordKeepsAds == ASSUME AdInv, NEW t \in AdTasks, RecordImpression(t) PROVE AdInv'
<1>1. AdTypes /\ adRow \in [AdIds -> AdRowType] /\ adLost \in [AdIds -> Nat]
  BY DEF AdInv, AdTypes, AdsTypeOK, AdRowType
<1>2. PICK a \in AdIds, rest \in SUBSET AdIds :
        /\ adTask[t].kind = "count" /\ adTask[t].ad = a /\ adTask[t].left = rest
        /\ a \notin rest
  BY <1>1 DEF RecordImpression, AdIs, AdTypes, AdDelivery, AdChange, AdRest
<1>3. PICK task \in AdDelivery \cup {AdRest} :
        /\ AdGoes(t, task) /\ task.kind # "count"
        /\ task.kind = "send" => task.left = rest
        /\ \/ Counted(a) /\ adLost' = adLost /\ (task.kind = "send" \/ rest = {})
           \/ adLost' = [adLost EXCEPT ![a] = adLost[a] + 1] /\ adRow' = adRow
  <2> DEFINE next == [kind |-> "send", left |-> rest]
  <2>1. next \in AdDelivery /\ next.kind = "send" /\ next.left = rest
    BY <1>2 DEF AdDelivery
  <2>2. AdRest.kind # "count" /\ AdRest.kind # "send"
    BY DEF AdRest
  <2>3. CASE AdGoes(t, AdRest) /\ adLost' = [adLost EXCEPT ![a] = adLost[a] + 1] /\ adRow' = adRow
    BY <2>2, <2>3
  <2>4. CASE Counted(a) /\ adLost' = adLost /\ AdGoes(t, IF rest = {} THEN AdRest ELSE next)
    BY <2>1, <2>2, <2>4
  <2> QED BY <1>2, <2>3, <2>4 DEF RecordImpression
<1>4. UNCHANGED <<adShown, adTop, adCalls>>
  BY DEF RecordImpression
<1>5. /\ adLost' \in [AdIds -> Nat] /\ \A b \in AdIds \ {a} : adLost'[b] = adLost[b]
      /\ \/ adLost'[a] = adLost[a] /\ Counted(a)
         \/ adLost'[a] = adLost[a] + 1 /\ adRow' = adRow
  BY <1>1, <1>2, <1>3
<1>6. /\ adRow' \in [AdIds -> AdRowType] /\ \A b \in AdIds \ {a} : adRow'[b] = adRow[b]
      /\ adRow'[a].there = adRow[a].there /\ adRow'[a].limit = adRow[a].limit
      /\ adRow'[a].active = adRow[a].active
      /\ adRow[a].there => adRow'[a].count = IF adLost'[a] = adLost[a] THEN adRow[a].count + 1
                                             ELSE adRow[a].count
  <2>1. adRow[a] \in AdRowType /\ adLost[a] \in Nat /\ adLost[a] + 1 # adLost[a]
    BY <1>1, <1>2
  <2>2. CASE adRow' = adRow /\ adLost'[a] = adLost[a] + 1
    BY <1>1, <2>1, <2>2
  <2>3. CASE adLost'[a] = adLost[a] /\ Counted(a)
    <3>1. CASE ~ adRow[a].there
      BY <1>1, <2>3, <3>1 DEF Counted
    <3>2. CASE adRow[a].there
      <4> DEFINE row == [adRow[a] EXCEPT !.count = adRow[a].count + 1]
      <4>1. /\ row \in AdRowType /\ row.there = adRow[a].there /\ row.limit = adRow[a].limit
            /\ row.active = adRow[a].active /\ row.count = adRow[a].count + 1
        BY <2>1 DEF AdRowType
      <4>2. adRow' = [adRow EXCEPT ![a] = row]
        BY <2>3, <3>2 DEF Counted
      <4> HIDE DEF row
      <4>3. adRow'[a] = row /\ adRow' \in [AdIds -> AdRowType]
            /\ \A b \in AdIds \ {a} : adRow'[b] = adRow[b]
        BY <1>1, <1>2, <4>1, <4>2
      <4> QED BY <2>3, <4>1, <4>3
    <3> QED BY <3>1, <3>2
  <2> QED BY <1>5, <2>2, <2>3
<1>7. AdsTypeOK' /\ AdTypes'
  <2>1. AdsTypeOK'
    BY <1>1, <1>4, <1>5, <1>6 DEF AdTypes, AdsTypeOK, AdRowType
  <2> QED BY <1>1, <1>3, <2>1, HandlerTyped
<1>8. ASSUME NEW b \in AdIds
      PROVE  /\ Sending(b)' \subseteq Sending(b)
             /\ Counting(b)' = Counting(b) \ {t}
             /\ (t \in Counting(b) <=> b = a) /\ (t \in Sending(b) <=> b \in rest)
  <2>1. (t \in Counting(b) <=> b = a) /\ (t \in Sending(b) <=> b \in rest)
    BY <1>2 DEF Counting, Sending
  <2>2. /\ Sending(b)' = IF task.kind = "send" /\ b \in task.left THEN Sending(b) \cup {t}
                         ELSE Sending(b) \ {t}
        /\ Counting(b)' = Counting(b) \ {t}
    BY <1>1, <1>3, HandlerMoves
  <2> QED BY <1>3, <2>1, <2>2
<1>9. ASSUME NEW b \in AdIds, b # a PROVE AdOK(b)'
  <2>1. adTop'[b] \in AdLimits /\ adTop[b] <= adTop'[b] /\ (adRow[b].there => adRow[b].limit <= adTop[b])
    BY <1>1, <1>4, AdsAssumption DEF AdTypes, AdsTypeOK, AdLimits, NoLimit, AdInv, SentIsCounted
  <2>2. Sending(b)' \subseteq Sending(b) /\ Counting(b)' = Counting(b)
    BY <1>8, <1>9
  <2> QED BY <1>4, <1>5, <1>6, <1>9, <2>1, <2>2, AdStands
<1>10. AdOK(a)'
  <2>1. t \in Counting(a) /\ t \notin Sending(a) /\ Counting(a)' = Counting(a) \ {t}
        /\ Sending(a)' \subseteq Sending(a)
    BY <1>2, <1>8
  <2>2. /\ Cardinality(Sending(a)) \in Nat /\ Cardinality(Counting(a)) \in Nat
        /\ Cardinality(AdTasks) \in Nat /\ IsFiniteSet(Sending(a)) /\ IsFiniteSet(Counting(a))
    BY <1>1, <1>2, HandlersAreFew
  <2> DEFINE n == Cardinality(Sending(a)')
  <2>3. /\ Cardinality(Counting(a) \ {t}) = Cardinality(Counting(a)) - 1
        /\ n \in Nat /\ n <= Cardinality(Sending(a))
    BY <2>1, <2>2, FS_RemoveElement, FS_Subset, FS_CardinalityType
  <2> HIDE DEF n
  <2>4. /\ adShown[a] \in Nat /\ adLost[a] \in Nat /\ adTop[a] \in Nat /\ adRow[a].count \in Nat
        /\ adLost'[a] \in Nat /\ adLost[a] <= adLost'[a]
    BY <1>1, <1>2, <1>5, AdsAssumption DEF AdTypes, AdsTypeOK, AdLimits, NoLimit
  <2>5. adRow[a] # NoAd
    BY <1>2, <2>1 DEF AdInv, Unused
  <2>6. adRow'[a] # NoAd
    <3>1. CASE Counted(a)
      <4>1. CASE ~ adRow[a].there
        BY <2>5, <3>1, <4>1 DEF Counted
      <4>2. CASE adRow[a].there
        <5>1. adRow'[a].there /\ ~ NoAd.there
          BY <1>6, <4>2 DEF NoAd
        <5> QED BY <5>1
      <4> QED BY <4>1, <4>2
    <3>2. CASE adRow' = adRow
      BY <2>5, <3>2
    <3> QED BY <1>5, <3>1, <3>2
  <2>7. Unused(a)'
    BY <2>6 DEF Unused
  <2>8. SentIsCounted(a)'
    <3> SUFFICES ASSUME adRow[a].there
                 PROVE  /\ adRow[a].limit <= adTop[a]
                        /\ adShown[a] = adRow'[a].count + adLost'[a] + Cardinality(Counting(a) \ {t})
      BY <1>4, <1>6, <2>1 DEF SentIsCounted
    <3>1. /\ adRow[a].limit <= adTop[a]
          /\ adShown[a] = adRow[a].count + adLost[a] + Cardinality(Counting(a))
      BY <1>2 DEF AdInv, SentIsCounted
    <3> QED BY <1>5, <1>6, <2>2, <2>3, <2>4, <3>1
  <2>9. SentIsBounded(a)'
    <3> SUFFICES ASSUME adTop[a] # NoLimit
                 PROVE  adShown[a] + n + 1 <= adTop[a] + Cardinality(AdTasks) + adLost'[a]
      BY <1>4 DEF SentIsBounded, n
    <3>1. adShown[a] + Cardinality(Sending(a)) + 1 <= adTop[a] + Cardinality(AdTasks) + adLost[a]
      BY <1>2 DEF AdInv, SentIsBounded
    <3> QED BY <2>2, <2>3, <2>4, <3>1
  <2> QED BY <2>7, <2>8, <2>9 DEF AdOK
<1> QED BY <1>7, <1>9, <1>10 DEF AdInv, AdOK

\* It holds at first, for at least one handler, and is kept by every step.
LEMMA AdsAreOK == AdsSpec => []AdInv
<1>1. ASSUME AdsInit PROVE AdInv
  <2>1. AdTypes
    BY <1>1, AdsAssumption DEF AdsInit, AdTypes, AdsTypeOK, AdRest, NoAd, AdLimits, NoLimit
  <2> SUFFICES ASSUME NEW a \in AdIds PROVE Unused(a) /\ SentIsCounted(a) /\ SentIsBounded(a)
    BY <2>1 DEF AdInv
  <2>2. Sending(a) = {} /\ Counting(a) = {}
    BY <1>1 DEF AdsInit, AdRest, Sending, Counting
  <2>3. Cardinality({}) = 0 /\ Cardinality(AdTasks) \in Nat \ {0}
    BY <2>1, HandlersAreFew, FS_EmptySet
  <2>4. 0 + 0 + 1 <= 0 + Cardinality(AdTasks) + 0
    BY <2>3
  <2>5. adShown[a] = 0 /\ adLost[a] = 0 /\ adTop[a] = 0 /\ ~ adRow[a].there
    BY <1>1 DEF AdsInit, NoAd
  <2> QED BY <2>2, <2>3, <2>4, <2>5 DEF Unused, SentIsCounted, SentIsBounded
<1>2. ASSUME AdInv, [AdsNext]_adVars PROVE AdInv'
  <2>1. CASE UNCHANGED adVars
    <3>1. AdTypes' /\ \A a \in AdIds : Sending(a)' = Sending(a) /\ Counting(a)' = Counting(a)
      BY <1>2, <2>1 DEF adVars, AdInv, AdTypes, AdsTypeOK, Sending, Counting
    <3> QED BY <1>2, <2>1, <3>1, HandlersKeepAds DEF adVars
  <2>2. ASSUME NEW t \in AdTasks,
               SendAd(t) \/ RecordImpression(t) \/ ToggleCommits(t) \/ UpdateFields(t)
        PROVE  AdInv'
    BY <1>2, <2>2, SendKeepsAds, RecordKeepsAds, ChangeKeepsAds
  <2>3. CASE AdClick \/ AdDelete \/ AdsDelete \/ ApiAdsDelete
    BY <1>2, <2>3, RowsChange DEF AdDelete, AdsDelete, ApiAdsDelete
  <2> QED BY <1>2, <2>1, <2>2, <2>3, PickKeepsAds, CreateKeepsAds, LoadKeepsAds DEF AdsNext
<1> QED BY <1>1, <1>2, PTL DEF AdsSpec

\* The rows, the histories and the bounds of AdsSpec keep their types.
THEOREM AdsTypeCorrect == AdsSpec => []AdsTypeOK
<1>1. AdInv => AdsTypeOK
  BY DEF AdInv, AdTypes
<1> QED BY <1>1, AdsAreOK, PTL

\* pick_for_placement, send_placement_ads and record_impression against the owner's edits,
\* switches and deletions (ad_service, the bot's, the panel's and the API's handlers): an ad
\* is sent at most its largest limit, and once more for every other delivery at that moment
\* and for every send that was never counted.
THEOREM ImpressionsAlwaysBounded == AdsSpec => []ImpressionsBounded
<1>1. ASSUME AdInv PROVE ImpressionsBounded
  <2> SUFFICES ASSUME NEW a \in AdIds, adTop[a] # NoLimit
               PROVE  adShown[a] <= adTop[a] + Cardinality(AdTasks) - 1 + adLost[a]
    BY DEF ImpressionsBounded
  <2>1. adShown[a] + Cardinality(Sending(a)) + 1 <= adTop[a] + Cardinality(AdTasks) + adLost[a]
    BY <1>1 DEF AdInv, SentIsBounded
  <2>2. /\ adShown[a] \in Nat /\ adLost[a] \in Nat /\ adTop[a] \in Nat
        /\ Cardinality(Sending(a)) \in Nat /\ Cardinality(AdTasks) \in Nat
    BY <1>1, HandlersAreFew, AdsAssumption DEF AdInv, AdTypes, AdsTypeOK, AdLimits, NoLimit
  <2> QED BY <2>1, <2>2
<1> QED BY <1>1, AdsAreOK, PTL

-----------------------------------------------------------------------------
(* The log group: an event lands in the topic of its category. *)

LgGroup == LogGroups \cup {NoGroup}
LgRow == [there : BOOLEAN, group : LgGroup, topic : [Categories -> Nat]]
EventKinds == {"topic", "keep", "send"}
EventRow == [there : BOOLEAN, group : LogGroups \ {NoGroup}, topic : [Categories -> Nat]]
EventTask == [kind : EventKinds, category : Categories, document : BOOLEAN, thread : Nat,
              row : EventRow, connects : Nat]
ConnectTask == [kind : {"connect"}, group : LgGroup, row : LgRow, kept : Nat]

LgTypes ==
  /\ TenantLogTypeOK
  /\ lgTask \in [LogTasks -> EventTask \cup ConnectTask \cup {LogRest}]

\* A topic of the group for the category.
TopicOf(forum, group, thread, category) ==
  thread \in 1..Len(forum[group]) /\ forum[group][thread] = category

\* The topics of a row, loaded or committed, are topics of its group.
RowInTopic(row, forum) ==
  \A c \in Categories :
    row.group # NoGroup /\ row.topic[c] # NoTopic => TopicOf(forum, row.group, row.topic[c], c)

\* An event has a good row, of the group of today unless a group was connected since it
\* was loaded; the thread it goes to is one of its category.
EventInTopic(task, row, forum, connects) ==
  task.kind \in EventKinds =>
    /\ RowInTopic(task.row, forum) /\ task.connects <= connects
    /\ task.connects = connects => task.row.group = row.group
    /\ task.kind # "topic" => TopicOf(forum, task.row.group, task.thread, task.category)

\* Unless a topic was kept since, a handler that connects a group has seen every topic of the row.
ConnectSawTopics(task, row, kept) ==
  task.kind = "connect" =>
    /\ task.kept <= kept
    /\ task.kept = kept =>
         \A c \in Categories : row.topic[c] # NoTopic => task.row.topic[c] # NoTopic

InTopic ==
  /\ ~lgAstray /\ RowInTopic(lgRow, lgForum)
  /\ \A t \in LogTasks : /\ EventInTopic(lgTask[t], lgRow, lgForum, lgConnects)
                         /\ ConnectSawTopics(lgTask[t], lgRow, lgKept)

LgInv == LgTypes /\ (~lgOverlap => InTopic)

\* A forum only gets longer.
Longer(forum, next) ==
  \A g \in LogGroups :
    /\ Len(forum[g]) <= Len(next[g])
    /\ \A n \in 1..Len(forum[g]) : next[g][n] = forum[g][n]

\* A topic of a forum is one of every later forum.
LEMMA LongerKeepsTopics ==
  ASSUME NEW forum \in [LogGroups -> Seq(Categories)], NEW next \in [LogGroups -> Seq(Categories)],
         Longer(forum, next), NEW g \in LogGroups, NEW thread \in Nat, NEW c,
         TopicOf(forum, g, thread, c)
  PROVE  TopicOf(next, g, thread, c)
<1>1. Len(forum[g]) \in Nat /\ Len(next[g]) \in Nat
  OBVIOUS
<1>2. thread \in 1..Len(forum[g]) /\ Len(forum[g]) <= Len(next[g])
      /\ next[g][thread] = forum[g][thread]
  BY DEF TopicOf, Longer
<1> QED BY <1>1, <1>2 DEF TopicOf

\* So is every topic that a row knows.
LEMMA LongerKeepsRow ==
  ASSUME NEW forum \in [LogGroups -> Seq(Categories)], NEW next \in [LogGroups -> Seq(Categories)],
         Longer(forum, next), NEW row \in LgRow, RowInTopic(row, forum)
  PROVE  RowInTopic(row, next)
<1> SUFFICES ASSUME NEW c \in Categories, row.group # NoGroup, row.topic[c] # NoTopic
             PROVE  TopicOf(next, row.group, row.topic[c], c)
  BY DEF RowInTopic
<1>1. row.group \in LogGroups /\ row.topic[c] \in Nat
  BY DEF LgRow, LgGroup
<1>2. TopicOf(forum, row.group, row.topic[c], c)
  BY DEF RowInTopic
<1> QED BY <1>1, <1>2, LongerKeepsTopics

\* So is the one an event goes to.
LEMMA LongerKeepsEvent ==
  ASSUME NEW forum \in [LogGroups -> Seq(Categories)], NEW next \in [LogGroups -> Seq(Categories)],
         Longer(forum, next), NEW row, NEW connects,
         NEW task \in EventTask \cup ConnectTask \cup {LogRest},
         EventInTopic(task, row, forum, connects)
  PROVE  EventInTopic(task, row, next, connects)
<1> SUFFICES ASSUME task.kind \in EventKinds
             PROVE  EventInTopic(task, row, next, connects)
  BY DEF EventInTopic
<1>1. task \in EventTask
  BY DEF EventTask, ConnectTask, LogRest, EventKinds
<1>2. task.row \in LgRow /\ task.row.group \in LogGroups /\ task.thread \in Nat
  BY <1>1 DEF EventTask, EventRow, LgRow, LgGroup
<1>3. RowInTopic(task.row, next)
  BY <1>2, LongerKeepsRow DEF EventInTopic
<1>4. task.kind # "topic" => TopicOf(next, task.row.group, task.thread, task.category)
  BY <1>2, <1>3, LongerKeepsTopics DEF EventInTopic
<1> QED BY <1>3, <1>4 DEF EventInTopic

\* The forum that stays is no shorter.
LEMMA SameForum == ASSUME NEW forum \in [LogGroups -> Seq(Categories)] PROVE Longer(forum, forum)
<1>1. ASSUME NEW g \in LogGroups PROVE Len(forum[g]) <= Len(forum[g])
  <2>1. Len(forum[g]) \in Nat
    OBVIOUS
  <2> QED BY <2>1
<1> QED BY <1>1 DEF Longer

\* A new topic.
LEMMA NewTopic ==
  ASSUME NEW forum \in [LogGroups -> Seq(Categories)], NEW g \in LogGroups, NEW c \in Categories,
         NEW next, next = [forum EXCEPT ![g] = Append(@, c)]
  PROVE  /\ next \in [LogGroups -> Seq(Categories)] /\ Longer(forum, next)
         /\ Len(next[g]) \in Nat /\ TopicOf(next, g, Len(next[g]), c)
<1>1. next \in [LogGroups -> Seq(Categories)] /\ next[g] = Append(forum[g], c)
      /\ \A h \in LogGroups \ {g} : next[h] = forum[h]
  OBVIOUS
<1>2. forum[g] \in Seq(Categories)
  OBVIOUS
<1>3. Len(forum[g]) \in Nat /\ Len(next[g]) = Len(forum[g]) + 1 /\ next[g][Len(next[g])] = c
      /\ \A n \in 1..Len(forum[g]) : next[g][n] = forum[g][n]
  BY <1>1, <1>2
<1>4. ASSUME NEW h \in LogGroups
      PROVE  Len(forum[h]) <= Len(next[h]) /\ \A n \in 1..Len(forum[h]) : next[h][n] = forum[h][n]
  <2>1. CASE h = g
    BY <1>3, <2>1
  <2>2. CASE h # g
    <3>1. next[h] = forum[h] /\ Len(forum[h]) \in Nat
      BY <1>1, <2>2
    <3> QED BY <3>1
  <2> QED BY <2>1, <2>2
<1>5. Longer(forum, next)
  BY <1>4 DEF Longer
<1>6. TopicOf(next, g, Len(next[g]), c)
  BY <1>3 DEF TopicOf
<1> QED BY <1>1, <1>3, <1>5, <1>6

\* A handler moves and the row stays; the forum may get longer.
LEMMA TaskKeepsInv ==
  ASSUME LgInv, NEW t \in LogTasks, NEW task \in EventTask \cup ConnectTask \cup {LogRest},
         LogGoes(t, task), UNCHANGED <<lgRow, lgConnects, lgKept, lgOverlap>>,
         lgForum' \in [LogGroups -> Seq(Categories)], Longer(lgForum, lgForum'),
         lgBackoff' \in BOOLEAN, lgAstray' \in BOOLEAN, lgCalls' \in 0..MaxLogCalls,
         ~lgOverlap => /\ ~lgAstray'
                       /\ EventInTopic(task, lgRow, lgForum', lgConnects)
                       /\ ConnectSawTopics(task, lgRow, lgKept)
  PROVE  LgInv'
<1>1. LgTypes /\ TenantLogTypeOK /\ lgForum \in [LogGroups -> Seq(Categories)] /\ lgRow \in LgRow
  BY DEF LgInv, LgTypes, TenantLogTypeOK, LgRow, LgGroup
<1>2. lgTask' \in [LogTasks -> EventTask \cup ConnectTask \cup {LogRest}]
      /\ lgTask'[t] = task /\ \A u \in LogTasks \ {t} : lgTask'[u] = lgTask[u]
  BY <1>1 DEF LogGoes, LgTypes
<1>3. LgTypes'
  BY <1>1, <1>2 DEF LgTypes, TenantLogTypeOK
<1>4. ASSUME ~lgOverlap PROVE InTopic'
  <2>1. RowInTopic(lgRow, lgForum')
    BY <1>1, <1>4, LongerKeepsRow DEF LgInv, InTopic
  <2>2. ASSUME NEW u \in LogTasks
        PROVE  /\ EventInTopic(lgTask'[u], lgRow, lgForum', lgConnects)
               /\ ConnectSawTopics(lgTask'[u], lgRow, lgKept)
    <3>1. CASE u = t
      BY <1>2, <1>4, <3>1
    <3>2. CASE u # t
      <4>1. lgTask'[u] = lgTask[u] /\ lgTask[u] \in EventTask \cup ConnectTask \cup {LogRest}
        BY <1>1, <1>2, <3>2 DEF LgTypes
      <4>2. EventInTopic(lgTask[u], lgRow, lgForum, lgConnects)
            /\ ConnectSawTopics(lgTask[u], lgRow, lgKept)
        BY <1>4 DEF LgInv, InTopic
      <4> QED BY <1>1, <4>1, <4>2, LongerKeepsEvent
    <3> QED BY <3>1, <3>2
  <2> QED BY <1>4, <2>1, <2>2 DEF InTopic
<1> QED BY <1>3, <1>4 DEF LgInv

\* The forum, and what the bounds and the history allow, when they stay.
LEMMA ForumStays ==
  ASSUME LgInv, UNCHANGED lgForum
  PROVE  lgForum' \in [LogGroups -> Seq(Categories)] /\ Longer(lgForum, lgForum')
<1>1. lgForum \in [LogGroups -> Seq(Categories)]
  BY DEF LgInv, LgTypes, TenantLogTypeOK
<1> QED BY <1>1, SameForum

\* An event that starts has today's row.
LEMMA EmitKeepsInv ==
  ASSUME LgInv, NEW category \in Categories, NEW document \in BOOLEAN, Emit(category, document)
  PROVE  LgInv'
<1> DEFINE task == [kind |-> "topic", category |-> category, document |-> document,
                    thread |-> NoTopic, row |-> lgRow, connects |-> lgConnects]
<1>1. lgRow \in EventRow /\ lgConnects \in Nat /\ TenantLogTypeOK /\ MaxLogCalls \in Nat
  BY TenantLogAssumption DEF Emit, LgInv, LgTypes, TenantLogTypeOK, EventRow
<1>2. task \in EventTask /\ task.kind = "topic" /\ task.row = lgRow /\ task.connects = lgConnects
  BY <1>1 DEF EventTask, EventKinds, NoTopic
<1>3. PICK t \in LogTasks : LogGoes(t, task)
  BY DEF Emit, LogStarts
<1> HIDE DEF task
<1>4. UNCHANGED <<lgRow, lgForum, lgBackoff, lgConnects, lgKept, lgOverlap, lgAstray>>
      /\ lgCalls' \in 0..MaxLogCalls /\ lgBackoff' \in BOOLEAN /\ lgAstray' \in BOOLEAN
  BY <1>1 DEF Emit, LogStarts, History, TenantLogTypeOK
<1>5. ConnectSawTopics(task, lgRow, lgKept)
  BY <1>2 DEF ConnectSawTopics
<1>6. ~lgOverlap => EventInTopic(task, lgRow, lgForum, lgConnects)
  BY <1>1, <1>2 DEF EventInTopic, LgInv, InTopic
<1>7. ~lgOverlap => ~lgAstray
  BY DEF LgInv, InTopic
<1> QED BY <1>2, <1>3, <1>4, <1>5, <1>6, <1>7, ForumStays, TaskKeepsInv

\* So has the owner who connects a group.
LEMMA SetGroupKeepsInv == ASSUME LgInv, SetGroup PROVE LgInv'
<1>1. PICK g \in LgGroup :
        LogStarts([kind |-> "connect", group |-> g, row |-> lgRow, kept |-> lgKept])
  BY DEF SetGroup, LgGroup
<1> DEFINE task == [kind |-> "connect", group |-> g, row |-> lgRow, kept |-> lgKept]
<1>2. lgRow \in LgRow /\ lgKept \in Nat /\ TenantLogTypeOK /\ MaxLogCalls \in Nat
  BY TenantLogAssumption DEF LgInv, LgTypes, TenantLogTypeOK, LgRow, LgGroup
<1>3. task \in ConnectTask /\ task.kind = "connect" /\ task.row = lgRow /\ task.kept = lgKept
  BY <1>2 DEF ConnectTask
<1>4. PICK t \in LogTasks : LogGoes(t, task)
  BY <1>1 DEF LogStarts
<1> HIDE DEF task
<1>5. UNCHANGED <<lgRow, lgForum, lgBackoff, lgConnects, lgKept, lgOverlap, lgAstray>>
      /\ lgCalls' \in 0..MaxLogCalls /\ lgBackoff' \in BOOLEAN /\ lgAstray' \in BOOLEAN
  BY <1>1, <1>2 DEF LogStarts, History, TenantLogTypeOK
<1>6. ConnectSawTopics(task, lgRow, lgKept)
  BY <1>2, <1>3 DEF ConnectSawTopics
<1>7. EventInTopic(task, lgRow, lgForum, lgConnects)
  BY <1>3 DEF EventInTopic, EventKinds
<1>8. ~lgOverlap => ~lgAstray
  BY DEF LgInv, InTopic
<1> QED BY <1>3, <1>4, <1>5, <1>6, <1>7, <1>8, ForumStays, TaskKeepsInv

\* An event in flight, with its fields.
LEMMA EventTyped ==
  ASSUME LgInv, NEW t \in LogTasks, lgTask[t].kind \in EventKinds
  PROVE  /\ lgTask[t] \in EventTask /\ lgTask[t].row.group \in LogGroups \ {NoGroup}
         /\ lgTask[t].category \in Categories /\ lgTask[t].row.topic \in [Categories -> Nat]
         /\ lgTask[t].thread \in Nat /\ lgTask[t].connects \in Nat
         /\ ~lgOverlap => EventInTopic(lgTask[t], lgRow, lgForum, lgConnects)
<1>1. lgTask[t] \in EventTask
  BY DEF LgInv, LgTypes, EventTask, ConnectTask, LogRest, EventKinds
<1>2. ~lgOverlap => EventInTopic(lgTask[t], lgRow, lgForum, lgConnects)
  BY DEF LgInv, InTopic
<1> QED BY <1>1, <1>2 DEF EventTask, EventRow

\* _ensure_topic: the thread of the loaded row, or a new topic of its group.
LEMMA EnsureKeepsInv == ASSUME LgInv, NEW t \in LogTasks, EnsureTopic(t) PROVE LgInv'
<1> DEFINE task == lgTask[t]
           g == task.row.group
           thread == task.row.topic[task.category]
<1>1. task \in EventTask /\ g \in LogGroups \ {NoGroup} /\ task.category \in Categories
      /\ thread \in Nat
      /\ (~lgOverlap => EventInTopic(task, lgRow, lgForum, lgConnects))
  <2>1. lgTask[t].kind \in EventKinds
    BY DEF EnsureTopic, LogIs, EventKinds
  <2> QED BY <2>1, EventTyped
<1>2. TenantLogTypeOK /\ lgForum \in [LogGroups -> Seq(Categories)]
      /\ UNCHANGED <<lgRow, lgBackoff, lgCalls, lgConnects, lgKept, lgOverlap, lgAstray>>
      /\ lgBackoff' \in BOOLEAN /\ lgAstray' \in BOOLEAN /\ lgCalls' \in 0..MaxLogCalls
  BY DEF EnsureTopic, History, LgInv, LgTypes, TenantLogTypeOK
<1>3. ~lgOverlap => ~lgAstray'
  BY <1>2 DEF LgInv, InTopic
<1>4. CASE thread # NoTopic
  <2> DEFINE next == [task EXCEPT !.thread = thread, !.kind = "send"]
  <2>1. LogGoes(t, next) /\ UNCHANGED lgForum
    BY <1>4 DEF EnsureTopic
  <2>2. next \in EventTask /\ next.kind = "send" /\ next.row = task.row
        /\ next.category = task.category /\ next.connects = task.connects /\ next.thread = thread
    <3> HIDE DEF task, thread
    <3> QED BY <1>1 DEF EventTask, EventKinds
  <2> HIDE DEF next
  <2>3. ConnectSawTopics(next, lgRow, lgKept)
    BY <2>2 DEF ConnectSawTopics
  <2>4. ASSUME ~lgOverlap PROVE EventInTopic(next, lgRow, lgForum, lgConnects)
    <3>1. task.kind \in EventKinds /\ EventInTopic(task, lgRow, lgForum, lgConnects)
      BY <1>1, <2>4 DEF EventTask
    <3>2. TopicOf(lgForum, g, thread, task.category)
      <4>1. RowInTopic(task.row, lgForum)
        BY <3>1 DEF EventInTopic
      <4> QED BY <1>1, <1>4, <4>1 DEF RowInTopic
    <3> QED BY <2>2, <3>1, <3>2 DEF EventInTopic
  <2>5. lgForum' \in [LogGroups -> Seq(Categories)] /\ Longer(lgForum, lgForum')
    BY <2>1, ForumStays
  <2> QED BY <1>2, <1>3, <2>1, <2>2, <2>3, <2>4, <2>5, TaskKeepsInv
<1>5. CASE thread = NoTopic
  <2> DEFINE n == Len(lgForum'[g])
             next == [task EXCEPT !.thread = n, !.kind = "keep"]
  <2>1. LogGoes(t, next) /\ lgForum' = [lgForum EXCEPT ![g] = Append(@, task.category)]
    BY <1>5 DEF EnsureTopic
  <2>2. /\ lgForum' \in [LogGroups -> Seq(Categories)] /\ Longer(lgForum, lgForum')
        /\ n \in Nat /\ TopicOf(lgForum', g, n, task.category)
    BY <1>1, <1>2, <2>1, NewTopic
  <2>3. next \in EventTask /\ next.kind = "keep" /\ next.row = task.row
        /\ next.category = task.category /\ next.connects = task.connects /\ next.thread = n
    <3> HIDE DEF task, n
    <3> QED BY <1>1, <2>2 DEF EventTask, EventKinds
  <2> HIDE DEF next, n
  <2>4. ConnectSawTopics(next, lgRow, lgKept)
    BY <2>3 DEF ConnectSawTopics
  <2>5. ASSUME ~lgOverlap PROVE EventInTopic(next, lgRow, lgForum', lgConnects)
    <3>1. task.kind \in EventKinds /\ EventInTopic(task, lgRow, lgForum, lgConnects)
      BY <1>1, <2>5 DEF EventTask
    <3>2. EventInTopic(task, lgRow, lgForum', lgConnects)
      BY <1>1, <1>2, <2>2, <3>1, LongerKeepsEvent
    <3> QED BY <2>2, <2>3, <3>1, <3>2 DEF EventInTopic
  <2> QED BY <1>2, <1>3, <2>1, <2>2, <2>3, <2>4, <2>5, TaskKeepsInv
<1> QED BY <1>4, <1>5

\* _keep_topic: a topic of the row's group, unless a group was connected meanwhile.
LEMMA KeptKeepsInv == ASSUME LgInv, NEW t \in LogTasks, TopicKept(t) PROVE LgInv'
<1> DEFINE task == lgTask[t]
           next == [task EXCEPT !.kind = "send"]
           topics == [lgRow.topic EXCEPT ![task.category] = task.thread]
<1>1. task \in EventTask /\ task.kind = "keep" /\ task.row.group \in LogGroups \ {NoGroup}
      /\ task.category \in Categories /\ task.thread \in Nat
      /\ (~lgOverlap => EventInTopic(task, lgRow, lgForum, lgConnects))
  <2>1. lgTask[t].kind = "keep" /\ lgTask[t].kind \in EventKinds
    BY DEF TopicKept, LogIs, EventKinds
  <2> QED BY <2>1, EventTyped
<1>2. LgTypes /\ TenantLogTypeOK /\ lgRow \in LgRow /\ lgKept \in Nat /\ lgConnects \in Nat
  BY DEF LgInv, LgTypes, TenantLogTypeOK, LgRow, LgGroup
<1>3. UNCHANGED <<lgForum, lgBackoff, lgConnects, lgAstray, lgCalls>> /\ lgKept' = lgKept + 1
      /\ lgOverlap' = (lgOverlap \/ task.connects # lgConnects)
      /\ LogGoes(t, next) /\ lgRow' = [lgRow EXCEPT !.topic[task.category] = task.thread]
  BY DEF TopicKept
<1>4. next \in EventTask /\ next.kind = "send" /\ next.row = task.row
      /\ next.category = task.category /\ next.connects = task.connects
      /\ next.thread = task.thread
  <2> HIDE DEF task
  <2> QED BY <1>1 DEF EventTask, EventKinds
<1>5. lgRow' \in LgRow /\ lgRow'.group = lgRow.group /\ lgRow'.topic = topics
      /\ topics[task.category] = task.thread
      /\ \A c \in Categories \ {task.category} : topics[c] = lgRow.topic[c]
  <2> HIDE DEF task
  <2> QED BY <1>1, <1>2, <1>3 DEF LgRow
<1> HIDE DEF task, next, topics
<1>6. lgTask' \in [LogTasks -> EventTask \cup ConnectTask \cup {LogRest}] /\ lgTask'[t] = next
      /\ \A u \in LogTasks \ {t} : lgTask'[u] = lgTask[u]
  BY <1>2, <1>3, <1>4 DEF LogGoes, LgTypes
<1>7. lgOverlap' \in BOOLEAN /\ lgKept' \in Nat
  BY <1>2, <1>3
<1>8. LgTypes'
  <2>1. TenantLogTypeOK'
    BY <1>2, <1>3, <1>5, <1>7 DEF TenantLogTypeOK, LgRow, LgGroup
  <2> QED BY <1>6, <2>1 DEF LgTypes
<1>9. ASSUME ~lgOverlap' PROVE InTopic'
  <2>1. ~lgOverlap /\ task.connects = lgConnects /\ ~lgAstray' /\ InTopic
    BY <1>3, <1>9 DEF LgInv, InTopic
  <2>2. EventInTopic(task, lgRow, lgForum, lgConnects) /\ task.kind \in EventKinds
    BY <1>1, <2>1 DEF EventKinds
  <2>3. lgRow'.group = task.row.group
        /\ TopicOf(lgForum, task.row.group, task.thread, task.category)
    BY <1>1, <1>5, <2>1, <2>2 DEF EventInTopic
  <2>4. RowInTopic(lgRow', lgForum)
    <3> SUFFICES ASSUME NEW c \in Categories, lgRow'.group # NoGroup, lgRow'.topic[c] # NoTopic
                 PROVE  TopicOf(lgForum, lgRow'.group, lgRow'.topic[c], c)
      BY DEF RowInTopic
    <3>1. CASE c = task.category
      BY <1>5, <2>3, <3>1
    <3>2. CASE c # task.category
      BY <1>5, <2>1, <3>2 DEF InTopic, RowInTopic
    <3> QED BY <3>1, <3>2
  <2>5. ASSUME NEW u \in LogTasks
        PROVE  /\ EventInTopic(lgTask'[u], lgRow', lgForum, lgConnects)
               /\ ConnectSawTopics(lgTask'[u], lgRow', lgKept')
    <3>1. CASE u = t
      <4>1. EventInTopic(next, lgRow', lgForum, lgConnects)
        BY <1>4, <2>2, <2>3 DEF EventInTopic
      <4>2. ConnectSawTopics(next, lgRow', lgKept')
        BY <1>4 DEF ConnectSawTopics
      <4> QED BY <1>6, <3>1, <4>1, <4>2
    <3>2. CASE u # t
      <4>1. lgTask'[u] = lgTask[u] /\ lgTask[u] \in EventTask \cup ConnectTask \cup {LogRest}
        BY <1>2, <1>6, <3>2 DEF LgTypes
      <4>2. EventInTopic(lgTask[u], lgRow, lgForum, lgConnects)
            /\ ConnectSawTopics(lgTask[u], lgRow, lgKept)
        BY <2>1 DEF InTopic
      <4>3. EventInTopic(lgTask[u], lgRow', lgForum, lgConnects)
        BY <1>5, <4>2 DEF EventInTopic
      <4>4. ConnectSawTopics(lgTask[u], lgRow', lgKept')
        <5> SUFFICES ASSUME lgTask[u].kind = "connect"
                     PROVE  lgTask[u].kept <= lgKept' /\ lgTask[u].kept # lgKept'
          BY DEF ConnectSawTopics
        <5>1. lgTask[u].kept \in Nat
          BY <4>1 DEF EventTask, EventKinds, ConnectTask, LogRest
        <5>2. lgTask[u].kept <= lgKept
          BY <4>2 DEF ConnectSawTopics
        <5> QED BY <1>2, <1>3, <5>1, <5>2
      <4> QED BY <4>1, <4>3, <4>4
    <3> QED BY <3>1, <3>2
  <2> QED BY <1>3, <2>1, <2>4, <2>5 DEF InTopic
<1> QED BY <1>8, <1>9 DEF LgInv

\* The message is sent under its category's topic, or refused.
LEMMA SendsKeepsInv ==
  ASSUME LgInv, NEW t \in LogTasks, EmitSends(t) \/ EmitFails(t) PROVE LgInv'
<1> DEFINE task == lgTask[t]
<1>1. TenantLogTypeOK /\ LogGoes(t, LogRest) /\ lgCalls' \in 0..MaxLogCalls
      /\ UNCHANGED <<lgRow, lgForum, lgConnects, lgKept, lgOverlap>>
  BY DEF EmitSends, EmitFails, History, LgInv, LgTypes, TenantLogTypeOK
<1>2. lgBackoff' \in BOOLEAN
  BY <1>1 DEF EmitSends, EmitFails, TenantLogTypeOK
<1>3. lgAstray' \in BOOLEAN
  BY <1>1 DEF EmitSends, EmitFails, History, TenantLogTypeOK
<1>4. ASSUME ~lgOverlap PROVE ~lgAstray'
  <2>1. CASE EmitFails(t)
    BY <1>4, <2>1 DEF EmitFails, History, LgInv, InTopic
  <2>2. CASE EmitSends(t)
    <3>1. lgTask[t].kind = "send" /\ lgTask[t].kind \in EventKinds
      BY <2>2 DEF EmitSends, LogIs, EventKinds
    <3>2. EventInTopic(lgTask[t], lgRow, lgForum, lgConnects)
      BY <1>4, <3>1, EventTyped
    <3>3. TopicOf(lgForum, lgTask[t].row.group, lgTask[t].thread, lgTask[t].category)
      BY <3>1, <3>2 DEF EventInTopic
    <3>4. lgForum[lgTask[t].row.group][lgTask[t].thread] = lgTask[t].category /\ ~lgAstray
      BY <1>4, <3>3 DEF TopicOf, LgInv, InTopic
    <3> QED BY <2>2, <3>4 DEF EmitSends
  <2> QED BY <2>1, <2>2
<1>5. EventInTopic(LogRest, lgRow, lgForum', lgConnects) /\ ConnectSawTopics(LogRest, lgRow, lgKept)
  BY DEF EventInTopic, ConnectSawTopics, LogRest, EventKinds
<1> QED BY <1>1, <1>2, <1>3, <1>4, <1>5, ForumStays, TaskKeepsInv

\* A group that is connected clears the topics that were loaded; unless one was kept since,
\* those are all there are.
LEMMA ConnectedKeepsInv == ASSUME LgInv, NEW t \in LogTasks, GroupConnected(t) PROVE LgInv'
<1> DEFINE task == lgTask[t]
           group == IF task.group = task.row.group /\ task.row.there
                    THEN lgRow.group ELSE task.group
           topics == TopicsAfter(task.row.topic, lgRow.topic)
           new == [there |-> TRUE, group |-> group, topic |-> topics]
<1>1. LgTypes /\ TenantLogTypeOK /\ lgRow \in LgRow /\ lgKept \in Nat /\ lgConnects \in Nat
      /\ task.kind = "connect"
  BY DEF LgInv, LgTypes, TenantLogTypeOK, LgRow, LgGroup, GroupConnected, LogIs
<1>2. task \in ConnectTask
  BY <1>1 DEF LgTypes, EventTask, EventKinds, LogRest
<1>3. UNCHANGED <<lgForum, lgBackoff, lgKept, lgAstray, lgCalls>> /\ LogGoes(t, LogRest)
      /\ \/ UNCHANGED <<lgRow, lgConnects, lgOverlap>>
         \/ /\ lgRow' = new /\ lgConnects' = lgConnects + 1
            /\ lgOverlap' = (lgOverlap \/ task.kept # lgKept)
  BY DEF GroupConnected
<1>4. EventInTopic(LogRest, lgRow, lgForum', lgConnects) /\ ConnectSawTopics(LogRest, lgRow, lgKept)
  BY DEF EventInTopic, ConnectSawTopics, LogRest, EventKinds
<1>5. CASE UNCHANGED <<lgRow, lgConnects, lgOverlap>>
  <2>1. lgBackoff' \in BOOLEAN /\ lgAstray' \in BOOLEAN /\ lgCalls' \in 0..MaxLogCalls
        /\ (~lgOverlap => ~lgAstray')
    BY <1>1, <1>3 DEF TenantLogTypeOK, LgInv, InTopic
  <2> QED BY <1>3, <1>4, <1>5, <2>1, ForumStays, TaskKeepsInv
<1>6. CASE /\ lgRow' = new /\ lgConnects' = lgConnects + 1
           /\ lgOverlap' = (lgOverlap \/ task.kept # lgKept)
  <2>1. group \in LgGroup
    BY <1>1, <1>2 DEF ConnectTask, LgRow
  <2>2. topics \in [Categories -> Nat]
        /\ \A c \in Categories :
             topics[c] # NoTopic => task.row.topic[c] = NoTopic /\ topics[c] = lgRow.topic[c]
    BY <1>1 DEF TopicsAfter, LgRow, NoTopic
  <2> HIDE DEF group, topics
  <2>3. lgRow' \in LgRow /\ lgRow'.topic = topics
    BY <1>6, <2>1, <2>2 DEF LgRow
  <2>4. lgTask' \in [LogTasks -> EventTask \cup ConnectTask \cup {LogRest}] /\ lgTask'[t] = LogRest
        /\ \A u \in LogTasks \ {t} : lgTask'[u] = lgTask[u]
    BY <1>1, <1>3 DEF LogGoes, LgTypes
  <2> HIDE DEF task, new
  <2>5. LgTypes'
    BY <1>1, <1>3, <1>6, <2>3, <2>4 DEF LgTypes, TenantLogTypeOK, LgRow, LgGroup
  <2>6. ASSUME ~lgOverlap' PROVE InTopic'
    <3>1. ~lgOverlap /\ task.kept = lgKept /\ InTopic /\ ~lgAstray'
      BY <1>3, <1>6, <2>6 DEF LgInv, InTopic
    <3>2. \A c \in Categories : topics[c] = NoTopic
      <4>1. ConnectSawTopics(task, lgRow, lgKept)
        BY <3>1 DEF InTopic, task
      <4> QED BY <1>1, <2>2, <3>1, <4>1 DEF ConnectSawTopics
    <3>3. RowInTopic(lgRow', lgForum)
      BY <2>3, <3>2 DEF RowInTopic
    <3>4. ASSUME NEW u \in LogTasks
          PROVE  /\ EventInTopic(lgTask'[u], lgRow', lgForum, lgConnects')
                 /\ ConnectSawTopics(lgTask'[u], lgRow', lgKept)
      <4>1. CASE u = t
        BY <2>4, <4>1 DEF EventInTopic, ConnectSawTopics, LogRest, EventKinds
      <4>2. CASE u # t
        <5>1. lgTask'[u] = lgTask[u] /\ lgTask[u] \in EventTask \cup ConnectTask \cup {LogRest}
          BY <1>1, <2>4, <4>2 DEF LgTypes
        <5>2. EventInTopic(lgTask[u], lgRow, lgForum, lgConnects)
              /\ ConnectSawTopics(lgTask[u], lgRow, lgKept)
          BY <3>1 DEF InTopic
        <5>3. EventInTopic(lgTask[u], lgRow', lgForum, lgConnects')
          <6> SUFFICES ASSUME lgTask[u].kind \in EventKinds
                       PROVE  /\ lgTask[u].connects <= lgConnects'
                              /\ lgTask[u].connects # lgConnects'
            BY <5>2 DEF EventInTopic
          <6>1. lgTask[u].connects \in Nat
            BY <5>1 DEF EventTask, EventKinds, ConnectTask, LogRest
          <6>2. lgTask[u].connects <= lgConnects
            BY <5>2 DEF EventInTopic
          <6> QED BY <1>1, <1>6, <6>1, <6>2
        <5>4. ConnectSawTopics(lgTask[u], lgRow', lgKept)
          BY <2>3, <3>2, <5>2 DEF ConnectSawTopics
        <5> QED BY <5>1, <5>3, <5>4
      <4> QED BY <4>1, <4>2
    <3> QED BY <1>3, <3>1, <3>3, <3>4 DEF InTopic
  <2> QED BY <2>5, <2>6 DEF LgInv
<1> QED BY <1>3, <1>5, <1>6

\* A backoff that ends touches neither rows nor topics.
LEMMA BackoffKeepsInv == ASSUME LgInv, BackoffExpires PROVE LgInv'
BY DEF BackoffExpires, LgInv, LgTypes, TenantLogTypeOK, InTopic, History

\* It holds at first.
LEMMA LogInitInv == ASSUME TenantLogInit PROVE LgInv
<1>1. NoTopics \in [Categories -> Nat] /\ MaxLogCalls \in Nat
  BY TenantLogAssumption DEF NoTopics, NoTopic
<1>2. LgTypes
  <2>1. lgRow \in LgRow /\ lgForum \in [LogGroups -> Seq(Categories)]
    BY <1>1 DEF TenantLogInit, LgRow, LgGroup
  <2>2. lgBackoff \in BOOLEAN /\ lgOverlap \in BOOLEAN /\ lgAstray \in BOOLEAN
    BY DEF TenantLogInit
  <2>3. lgConnects \in Nat /\ lgKept \in Nat /\ lgCalls \in 0..MaxLogCalls
    BY <1>1 DEF TenantLogInit
  <2>4. TenantLogTypeOK
    BY <2>1, <2>2, <2>3 DEF TenantLogTypeOK, LgRow, LgGroup
  <2> QED BY <2>4 DEF TenantLogInit, LgTypes
<1>3. RowInTopic(lgRow, lgForum)
  BY DEF TenantLogInit, RowInTopic
<1>4. InTopic
  BY <1>3 DEF TenantLogInit, InTopic, EventInTopic, ConnectSawTopics, LogRest, EventKinds
<1> QED BY <1>2, <1>4 DEF LgInv

\* It is kept by every step.
LEMMA LogNextKeepsInv == ASSUME LgInv, [TenantLogNext]_lgVars PROVE LgInv'
<1>1. CASE UNCHANGED lgVars
  BY <1>1 DEF LgInv, LgTypes, TenantLogTypeOK, InTopic, lgVars
<1>2. CASE LogNewUser \/ LogUpload \/ LogPayment \/ DeliverBackup
  BY <1>2, EmitKeepsInv DEF LogNewUser, LogUpload, LogPayment, DeliverBackup, Categories
<1>3. CASE BackoffExpires
  BY <1>3, BackoffKeepsInv
<1>4. CASE LogsSave \/ LogGroupEntered
  BY <1>4, SetGroupKeepsInv DEF LogsSave, LogGroupEntered
<1>5. ASSUME NEW t \in LogTasks,
             EnsureTopic(t) \/ TopicKept(t) \/ EmitSends(t) \/ EmitFails(t) \/ GroupConnected(t)
      PROVE  LgInv'
  BY <1>5, EnsureKeepsInv, KeptKeepsInv, SendsKeepsInv, ConnectedKeepsInv
<1> QED BY <1>1, <1>2, <1>3, <1>4, <1>5 DEF TenantLogNext

\* log_service and the two forms that connect a group, TenantLogSpec, any number of sessions
\* and forums: unless a topic is kept while a group is connected, the row's topics are topics
\* of its group and no event lands under another category.
THEOREM LogsInTopic == TenantLogSpec => []LogsStayInTopic
<1>1. TenantLogInit => LgInv
  BY LogInitInv
<1>2. LgInv /\ [TenantLogNext]_lgVars => LgInv'
  BY LogNextKeepsInv
<1>3. ASSUME LgInv PROVE LogsStayInTopic
  <2> SUFFICES ASSUME ~lgOverlap, NEW c \in Categories, lgRow.group # NoGroup,
                      lgRow.topic[c] # NoTopic
               PROVE  /\ lgRow.topic[c] <= Len(lgForum[lgRow.group])
                      /\ lgForum[lgRow.group][lgRow.topic[c]] = c
    BY <1>3 DEF LogsStayInTopic, LgInv, InTopic
  <2>1. TopicOf(lgForum, lgRow.group, lgRow.topic[c], c)
    BY <1>3 DEF LgInv, InTopic, RowInTopic
  <2> QED BY <2>1 DEF TopicOf
<1> QED BY <1>1, <1>2, <1>3, PTL DEF TenantLogSpec

\* The row, the forums and the bounds of TenantLogSpec keep their types.
THEOREM TenantLogTypeCorrect == TenantLogSpec => []TenantLogTypeOK
<1>1. TenantLogInit => LgInv
  BY LogInitInv
<1>2. LgInv /\ [TenantLogNext]_lgVars => LgInv'
  BY LogNextKeepsInv
<1>3. LgInv => TenantLogTypeOK
  BY DEF LgInv, LgTypes
<1> QED BY <1>1, <1>2, <1>3, PTL DEF TenantLogSpec
=============================================================================
