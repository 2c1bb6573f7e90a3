----------------------------- MODULE AutoDelete -----------------------------
(***************************************************************************)
(* The queue of scheduled deletions: a sorted set in Redis                 *)
(* (src/app/services/autodelete.py), filled by the delivery of files and   *)
(* worked off by the worker (process_once, src/app/workers/main.py) with   *)
(* each tenant's own bot, taken from the worker's cache of bots.           *)
(***************************************************************************)
EXTENDS Naturals

CONSTANTS Tenants,   \* the customer tenants
          Deletions, \* the messages to be deleted, each <<tenant, number>>
          MaxDeletionTrouble \* bound: deaths of the worker and broken connections

ASSUME DeletionAssumption ==
  MaxDeletionTrouble \in Nat /\ \A d \in Deletions : d[1] \in Tenants

VARIABLES adQueue,   \* QUEUE_KEY: [Deletions -> "no", "waiting" or "due"]
          adFate,    \* history: [Deletions -> none, tried or excused]
          adActive,  \* the tenants with status active
          adBots,    \* TenantBotProvider._bots: who has a cached bot
          adTurn,    \* the turn of the worker
          adTrouble  \* history: how much trouble there was

adVars == <<adQueue, adFate, adActive, adBots, adTurn, adTrouble>>

TenantOf(d) == d[1]
NotWorking == [popped |-> {}, left |-> {}, broken |-> FALSE]

AutoDeleteTypeOK ==
  /\ adQueue \in [Deletions -> {"no", "waiting", "due"}]
  /\ adFate \in [Deletions -> {"none", "tried", "excused"}]
  /\ adActive \subseteq Tenants /\ adBots \subseteq Tenants
  /\ adTurn \in [popped : SUBSET Deletions, left : SUBSET Deletions, broken : BOOLEAN]
  /\ adTurn.left \subseteq adTurn.popped
  /\ adTrouble \in 0..MaxDeletionTrouble

AutoDeleteInit ==
  /\ adQueue = [d \in Deletions |-> "no"]
  /\ adFate = [d \in Deletions |-> "none"]
  /\ adActive = Tenants /\ adBots = {}
  /\ adTurn = NotWorking
  /\ adTrouble = 0

\* schedule: the messages of one delivery, in one ZADD, for later.
Schedule(t) ==
  \E ms \in SUBSET {d \in Deletions : TenantOf(d) = t /\ adFate[d] = "none"} :
    /\ ms # {} /\ \A d \in ms : adQueue[d] = "no"
    /\ adQueue' = [d \in Deletions |-> IF d \in ms THEN "waiting" ELSE adQueue[d]]
    /\ UNCHANGED <<adFate, adActive, adBots, adTurn, adTrouble>>

\* The score of a member passes.
FallsDue(d) ==
  /\ adQueue[d] = "waiting"
  /\ adQueue' = [adQueue EXCEPT ![d] = "due"]
  /\ UNCHANGED <<adFate, adActive, adBots, adTurn, adTrouble>>

Due == {d \in Deletions : adQueue[d] = "due"}

\* Mutant: ZPOPMIN, which takes the members out of the queue as it reads them.
PopDue_Removing ==
  /\ adTurn = NotWorking /\ Due # {}
  /\ adTurn' = [popped |-> Due, left |-> Due, broken |-> FALSE]
  /\ adQueue' = [d \in Deletions |-> IF d \in Due THEN "no" ELSE adQueue[d]]
  /\ UNCHANGED <<adFate, adActive, adBots, adTrouble>>

\* pop_due only reads: the members stay in the queue until they are acknowledged.
PopDue ==
  /\ adTurn = NotWorking /\ Due # {}
  /\ adTurn' = [popped |-> Due, left |-> Due, broken |-> FALSE]
  /\ UNCHANGED <<adQueue, adFate, adActive, adBots, adTrouble>>

\* provider.get: a bot once cached is served without a look at the tenant.
HasBot(t) == t \in adBots \/ (t \in adActive /\ ~adTurn.broken)

\* One member: the bot is asked to delete the message, whatever it answers (gone
\* already, flood wait, network).
DeleteOne(d) ==
  /\ d \in adTurn.left /\ HasBot(TenantOf(d))
  /\ adBots' = adBots \cup {TenantOf(d)}
  /\ adFate' = [adFate EXCEPT ![d] = "tried"]
  /\ adTurn' = [adTurn EXCEPT !.left = @ \ {d}]
  /\ UNCHANGED <<adQueue, adActive, adTrouble>>

\* The tenant is gone or suspended, or the turn's session is broken: the member is
\* passed over, and acknowledged with the others.
PassOver(d) ==
  /\ d \in adTurn.left /\ ~HasBot(TenantOf(d))
  /\ adFate' = [adFate EXCEPT ![d] = IF @ = "tried" THEN @ ELSE "excused"]
  /\ adTurn' = [adTurn EXCEPT !.left = @ \ {d}]
  /\ UNCHANGED <<adQueue, adActive, adBots, adTrouble>>

\* The lookup of a tenant loses the connection: no later lookup of the turn works.
ConnectionBreaks(d) ==
  /\ d \in adTurn.left /\ TenantOf(d) \notin adBots /\ ~adTurn.broken
  /\ adTrouble < MaxDeletionTrouble /\ adTrouble' = adTrouble + 1
  /\ adFate' = [adFate EXCEPT ![d] = IF @ = "tried" THEN @ ELSE "excused"]
  /\ adTurn' = [adTurn EXCEPT !.left = @ \ {d}, !.broken = TRUE]
  /\ UNCHANGED <<adQueue, adActive, adBots>>

\* ack: all of what was popped leaves the queue.
Acknowledge ==
  /\ adTurn # NotWorking /\ adTurn.left = {}
  /\ adQueue' = [d \in Deletions |-> IF d \in adTurn.popped THEN "no" ELSE adQueue[d]]
  /\ adTurn' = NotWorking
  /\ UNCHANGED <<adFate, adActive, adBots, adTrouble>>

\* The worker dies, and its cache with it.
DeleterDies ==
  /\ adTurn # NotWorking
  /\ adTrouble < MaxDeletionTrouble /\ adTrouble' = adTrouble + 1
  /\ adTurn' = NotWorking /\ adBots' = {}
  /\ UNCHANGED <<adQueue, adFate, adActive>>

\* The platform suspends or re-activates a customer's bot.
SwitchTenant(t) ==
  /\ adActive' = IF t \in adActive THEN adActive \ {t} ELSE adActive \cup {t}
  /\ UNCHANGED <<adQueue, adFate, adBots, adTurn, adTrouble>>

-----------------------------------------------------------------------------
DeleterStep ==
  \/ PopDue \/ Acknowledge
  \/ \E d \in Deletions : DeleteOne(d) \/ PassOver(d)

AutoDeleteNext ==
  \/ DeleterStep \/ DeleterDies
  \/ \E t \in Tenants : Schedule(t) \/ SwitchTenant(t)
  \/ \E d \in Deletions : FallsDue(d) \/ ConnectionBreaks(d)

\* Time passes, and the worker's loop takes one turn after the other.
AutoDeleteFairness == WF_adVars(DeleterStep) /\ WF_adVars(\E d \in Deletions : FallsDue(d))

AutoDeleteSpec == AutoDeleteInit /\ [][AutoDeleteNext]_adVars /\ AutoDeleteFairness

-----------------------------------------------------------------------------
\* A deletion leaves the queue only after it was tried or passed over: a turn that ends
\* early, or a message scheduled while a turn is under way, loses none.
NoneIsDropped ==
  [][\A d \in Deletions : adQueue[d] # "no" /\ adQueue'[d] = "no" => adFate[d] # "none"]_adVars

\* A deletion that was scheduled is tried, across deaths of the worker at any
\* point; it is passed over only when its tenant has no bot to do it or the turn's
\* connection broke.
DeletionsAreTried ==
  \A d \in Deletions : adQueue[d] # "no" ~> adFate[d] \in {"tried", "excused"}
=============================================================================
