-------------------------------- MODULE Ads ---------------------------------
(***************************************************************************)
(* Advertisements of a tenant: deliveries pick the ads of a placement,     *)
(* send them one by one and count each, while the owner creates, edits,    *)
(* switches and deletes ads in the bot, the panel and the API.             *)
(***************************************************************************)
EXTENDS Naturals, FiniteSets

CONSTANTS AdIds,       \* ids of ads: 1..n
          AdTasks,     \* handlers at the same time
          AdsPerEvent, \* MAX_ADS_PER_PLACEMENT
          MaxAdLimit,  \* bound: impression_limit
          MaxAdCalls   \* bound: handlers that are ever started

ASSUME AdsAssumption ==
  /\ AdIds = 1..Cardinality(AdIds) /\ AdsPerEvent \in Nat \ {0}
  /\ MaxAdLimit \in Nat /\ MaxAdCalls \in Nat
  /\ IsFiniteSet(AdTasks) /\ AdTasks # {}

VARIABLES adRow,   \* [AdIds -> the row of ads]
          adTask,  \* [AdTasks -> the handler]
          adShown, \* history: [AdIds -> messages sent with the ad]
          adLost,  \* history: [AdIds -> of them, those that were never counted]
          adTop,   \* history: [AdIds -> the largest limit it has had]
          adCalls  \* spent bound

adVars == <<adRow, adTask, adShown, adLost, adTop, adCalls>>

NoLimit == MaxAdLimit + 1
AdLimits == 0..NoLimit

AdsTypeOK ==
  /\ adRow \in [AdIds -> [there : BOOLEAN, active : BOOLEAN, here : BOOLEAN,
                          limit : AdLimits, count : Nat, clicks : Nat]]
  /\ adShown \in [AdIds -> Nat] /\ adLost \in [AdIds -> Nat] /\ adTop \in [AdIds -> AdLimits]
  /\ adCalls \in 0..MaxAdCalls

NoAd == [there |-> FALSE, active |-> FALSE, here |-> FALSE, limit |-> 0, count |-> 0, clicks |-> 0]
AdRest == [kind |-> "idle"]

AdsInit ==
  /\ adRow = [a \in AdIds |-> NoAd]
  /\ adTask = [t \in AdTasks |-> AdRest]
  /\ adShown = [a \in AdIds |-> 0] /\ adLost = [a \in AdIds |-> 0] /\ adTop = [a \in AdIds |-> 0]
  /\ adCalls = 0

AdIs(t, kind) == adTask[t].kind = kind
AdGoes(t, task) == adTask' = [adTask EXCEPT ![t] = task]
AdSpent == adCalls < MaxAdCalls /\ adCalls' = adCalls + 1
AdStarts(task) == AdSpent /\ \E t \in AdTasks : AdIs(t, "idle") /\ AdGoes(t, task)

-----------------------------------------------------------------------------
(* The delivery side: send_placement_ads. *)

\* Mutant: the last one allowed is counted as one more.
Eligible_OffByOne(a) ==
  /\ adRow[a].there /\ adRow[a].active /\ adRow[a].here
  /\ adRow[a].limit # NoLimit => adRow[a].count <= adRow[a].limit

\* The row passes the query: this placement, this plan, below its limit.
Eligible(a) ==
  /\ adRow[a].there /\ adRow[a].active /\ adRow[a].here
  /\ adRow[a].limit # NoLimit => adRow[a].count < adRow[a].limit

\* ORDER BY id LIMIT n: the ads that fewer than n eligible ones come before.
Picked ==
  {a \in AdIds : /\ Eligible(a)
                 /\ Cardinality({b \in AdIds : b < a /\ Eligible(b)}) < AdsPerEvent}

PickForPlacement ==
  /\ Picked # {} /\ AdStarts([kind |-> "send", left |-> Picked])
  /\ UNCHANGED <<adRow, adShown, adLost, adTop>>

\* The next of the ads that were picked.  A message that cannot be sent ends the
\* placement: the error is logged.
SendAd(t) ==
  /\ AdIs(t, "send")
  /\ \/ \E a \in adTask[t].left :
          /\ \A b \in adTask[t].left : a <= b
          /\ adShown' = [adShown EXCEPT ![a] = @ + 1]
          /\ AdGoes(t, [kind |-> "count", ad |-> a, left |-> adTask[t].left \ {a}])
     \/ AdGoes(t, AdRest) /\ UNCHANGED adShown
  /\ UNCHANGED <<adRow, adLost, adTop, adCalls>>

\* UPDATE ads SET impression_count = impression_count + 1; no row, no change.
Counted(a) == adRow' = IF adRow[a].there THEN [adRow EXCEPT ![a].count = @ + 1] ELSE adRow

RecordImpression(t) ==
  /\ AdIs(t, "count")
  /\ LET a == adTask[t].ad
         rest == adTask[t].left
     IN \/ /\ Counted(a) /\ UNCHANGED adLost
           /\ AdGoes(t, IF rest = {} THEN AdRest ELSE [kind |-> "send", left |-> rest])
        \* The database fails, or the process stops after the message.
        \/ /\ adLost' = [adLost EXCEPT ![a] = @ + 1]
           /\ AdGoes(t, AdRest) /\ UNCHANGED adRow
  /\ UNCHANGED <<adShown, adTop, adCalls>>

\* The public click-through: the ad, then its counter.
AdClick ==
  /\ \E a \in AdIds : adRow[a].there /\ adRow' = [adRow EXCEPT ![a].clicks = @ + 1]
  /\ AdSpent /\ UNCHANGED <<adTask, adShown, adLost, adTop>>

-----------------------------------------------------------------------------
(* The owner. *)

Topped(a, limit) == adTop' = [adTop EXCEPT ![a] = IF limit > @ THEN limit ELSE @]

\* Ids are not used again: a deleted row leaves its counters in the history.
Create(limits) ==
  /\ \E a \in AdIds, limit \in limits, here \in BOOLEAN :
       /\ adRow[a] = NoAd /\ \A b \in 1..(a - 1) : adRow[b] # NoAd
       /\ adRow' = [adRow EXCEPT ![a] = [there |-> TRUE, active |-> TRUE, here |-> here,
                                         limit |-> limit, count |-> 0, clicks |-> 0]]
       /\ Topped(a, limit)
  /\ AdSpent /\ UNCHANGED <<adTask, adShown, adLost>>
\* The bot asks for no limit; _limit of the panel takes none below 1.
BotAdCreate == Create({NoLimit})
AdsCreate == Create(AdLimits \ {0})
ApiAdsCreate == Create(AdLimits)

\* The row stays as a mark that the id was used.
Delete ==
  /\ \E a \in AdIds : /\ adRow[a].there
                      /\ adRow' = [adRow EXCEPT ![a].there = FALSE, ![a].active = TRUE]
  /\ AdSpent /\ UNCHANGED <<adTask, adShown, adLost, adTop>>
AdDelete == Delete
AdsDelete == Delete
ApiAdsDelete == Delete

\* toggle and update_fields load the row, set columns and commit.
AdLoads(kind) ==
  /\ \E a \in AdIds : adRow[a].there /\ AdStarts([kind |-> kind, ad |-> a, row |-> adRow[a]])
  /\ UNCHANGED <<adRow, adShown, adLost, adTop>>
AdToggle == AdLoads("toggle")
AdsToggle == AdLoads("toggle")
AdsEdit == AdLoads("edit")

ToggleCommits(t) ==
  /\ AdIs(t, "toggle") /\ AdGoes(t, AdRest)
  /\ LET a == adTask[t].ad
     IN adRow' = IF adRow[a].there THEN [adRow EXCEPT ![a].active = ~adTask[t].row.active]
                 ELSE adRow
  /\ UNCHANGED <<adShown, adLost, adTop, adCalls>>

\* Only the columns whose value is another one than the loaded are written.
UpdateFields(t) ==
  /\ AdIs(t, "edit") /\ AdGoes(t, AdRest)
  /\ LET a == adTask[t].ad
         seen == adTask[t].row
     IN \E limit \in AdLimits \ {0}, here \in BOOLEAN :
          IF adRow[a].there
          THEN /\ adRow' = [adRow EXCEPT ![a].limit = IF limit = seen.limit THEN @ ELSE limit,
                                         ![a].here = IF here = seen.here THEN @ ELSE here]
               /\ Topped(a, adRow'[a].limit)
          ELSE UNCHANGED <<adRow, adTop>>
  /\ UNCHANGED <<adShown, adLost, adCalls>>

AdsNext ==
  \/ PickForPlacement \/ AdClick \/ BotAdCreate \/ AdsCreate \/ ApiAdsCreate
  \/ AdDelete \/ AdsDelete \/ ApiAdsDelete \/ AdToggle \/ AdsToggle \/ AdsEdit
  \/ \E t \in AdTasks :
       SendAd(t) \/ RecordImpression(t) \/ ToggleCommits(t) \/ UpdateFields(t)

AdsSpec == AdsInit /\ [][AdsNext]_adVars

-----------------------------------------------------------------------------
\* An ad is sent no more often than its largest limit, but for deliveries that
\* picked it at the same time as the last one that was allowed, and for sends
\* that were never counted: no overlap of deliveries, edits, switches and
\* deletions loses a count.
ImpressionsBounded ==
  \A a \in AdIds :
    adTop[a] # NoLimit =>
      adShown[a] <= adTop[a] + Cardinality(AdTasks) - 1 + adLost[a]
=============================================================================
