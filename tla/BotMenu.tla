------------------------------ MODULE BotMenu -------------------------------
(***************************************************************************)
(* The texts a bot answers with and its two command lists: rows per        *)
(* tenant, a Redis cache in front of them, the lists pushed to Telegram    *)
(* on a save, on a start, and when an admin comes or goes.  A tick of the  *)
(* clock is CACHE_TTL.                                                     *)
(***************************************************************************)
EXTENDS Naturals, FiniteSets

CONSTANTS Shops,     \* tenants, each with a bot
          Platform,  \* the tenant whose bot is request.app.state.bot
          MenuTasks, \* handlers at the same time
          MaxEdits,  \* bound: saves in the panel
          MaxShows,  \* bound: other handlers that are ever started
          MaxTicks   \* bound: the clock

ASSUME BotMenuAssumption ==
  Platform \in Shops /\ MaxEdits \in Nat /\ MaxShows \in Nat /\ MaxTicks \in Nat

\* One editable text, and the two command lists.
Scopes == {"user", "admin"}
Keys == {"text"} \cup Scopes

VARIABLES mnRow,    \* [Shops -> [Keys -> what the tenant's rows say]]; 0: the default
          mnCache,  \* [cache keys -> [value, until]]
          mnMenu,   \* [Shops -> [Scopes -> the list Telegram has for the bot]]
          mnAdmin,  \* shops whose second admin is active
          mnTask,   \* [MenuTasks -> the handler]
          mnTick,   \* the clock
          mnLast,   \* history: [Shops -> [Keys -> [value -> last tick it was in force]]]
          mnEdits, mnShows  \* spent bounds

mnVars == <<mnRow, mnCache, mnMenu, mnAdmin, mnTask, mnTick, mnLast, mnEdits, mnShows>>

Values == 0..MaxEdits
NoList == MaxEdits + 1    \* no list in Telegram, no entry in Redis
Idle == [kind |-> "idle"]

BotMenuTypeOK ==
  /\ mnRow \in [Shops -> [Keys -> Values]]
  /\ mnMenu \in [Shops -> [Scopes -> Values \cup {NoList}]]
  /\ mnAdmin \subseteq Shops /\ mnTick \in 0..MaxTicks
  /\ mnEdits \in 0..MaxEdits /\ mnShows \in 0..MaxShows

\* bottext:<key> and botcmds:<scope>: the tenant is not part of the name.
CacheKey(shop, key) == key

NoEntry == [value |-> NoList, until |-> 0]

BotMenuInit ==
  /\ mnRow = [s \in Shops |-> [k \in Keys |-> 0]]
  /\ mnCache = [k \in Keys |-> NoEntry]
  /\ mnMenu = [s \in Shops |-> [k \in Scopes |-> NoList]]
  /\ mnAdmin = {}
  /\ mnTask = [t \in MenuTasks |-> Idle]
  /\ mnTick = 0
  /\ mnLast = [s \in Shops |-> [k \in Keys |-> [v \in Values |-> 0]]]
  /\ mnEdits = 0 /\ mnShows = 0

MenuIs(t, at) == mnTask[t].kind = at
MenuGoes(t, task) == mnTask' = [mnTask EXCEPT ![t] = task]

\* A handler that resolves key for shop; the list goes to the bot of to, "" for
\* a text, which is shown.
Resolving(shop, key, to) == [kind |-> "cache", shop |-> shop, key |-> key, to |-> to, value |-> 0]

ShowBegins(task) ==
  /\ mnShows < MaxShows /\ mnShows' = mnShows + 1
  /\ \E t \in MenuTasks : MenuIs(t, "idle") /\ MenuGoes(t, task)

-----------------------------------------------------------------------------
(* Resolving: cache, then rows, then the cache is filled. *)

OnlyMenuTasks == UNCHANGED <<mnRow, mnMenu, mnAdmin, mnTick, mnLast, mnEdits, mnShows>>

\* get_text, resolved_commands; Redis may be down.
CacheLookup(t) ==
  /\ MenuIs(t, "cache")
  /\ LET hit == mnCache[CacheKey(mnTask[t].shop, mnTask[t].key)]
     IN \/ hit # NoEntry /\ MenuGoes(t, [mnTask[t] EXCEPT !.kind = "show", !.value = hit.value])
        \/ MenuGoes(t, [mnTask[t] EXCEPT !.kind = "rows"])
  /\ UNCHANGED mnCache /\ OnlyMenuTasks

\* The tenant's own rows, or the built-in default.
RowsRead(t) ==
  /\ MenuIs(t, "rows")
  /\ MenuGoes(t, [mnTask[t] EXCEPT !.kind = "fill", !.value = mnRow[mnTask[t].shop][mnTask[t].key]])
  /\ UNCHANGED mnCache /\ OnlyMenuTasks

\* Mutant: the entry is set without an expiry.
Until_Never == MaxTicks

\* SET ... EX CACHE_TTL: gone during the next tick.
Until == mnTick + 1

CacheFilled(t) ==
  /\ MenuIs(t, "fill")
  /\ \/ mnCache' = [mnCache EXCEPT ![CacheKey(mnTask[t].shop, mnTask[t].key)] =
                      [value |-> mnTask[t].value, until |-> Until]]
     \/ UNCHANGED mnCache
  /\ MenuGoes(t, [mnTask[t] EXCEPT !.kind = "show"]) /\ OnlyMenuTasks

\* A text is answered.
TextShown(t) ==
  /\ MenuIs(t, "show") /\ mnTask[t].key = "text" /\ MenuGoes(t, Idle)
  /\ UNCHANGED <<mnCache, mnMenu>> /\ UNCHANGED <<mnRow, mnAdmin, mnTick, mnLast, mnEdits, mnShows>>

\* push_default_commands, push_admin_commands(_many): set_my_commands or a warning.
Pushes(t, scope) ==
  /\ MenuIs(t, "show") /\ mnTask[t].key = scope /\ MenuGoes(t, Idle)
  /\ \/ mnMenu' = [mnMenu EXCEPT ![mnTask[t].to][scope] = mnTask[t].value]
     \/ UNCHANGED mnMenu
  /\ UNCHANGED <<mnRow, mnCache, mnAdmin, mnTick, mnLast, mnEdits, mnShows>>
PushDefaultCommands(t) == Pushes(t, "user")
PushAdminCommands(t) == Pushes(t, "admin")

Tick ==
  /\ mnTick < MaxTicks /\ mnTick' = mnTick + 1
  /\ \A t \in MenuTasks : MenuIs(t, "idle")
  /\ \E gone \in SUBSET Keys :
       /\ \A k \in Keys : mnCache[k] # NoEntry /\ mnCache[k].until <= mnTick => k \in gone
       /\ \A k \in gone : mnCache[k].until <= mnTick + 1
       /\ mnCache' = [k \in Keys |-> IF k \in gone THEN NoEntry ELSE mnCache[k]]
  /\ mnLast' = [s \in Shops |-> [k \in Keys |-> [mnLast[s][k] EXCEPT ![mnRow[s][k]] = mnTick']]]
  /\ UNCHANGED <<mnRow, mnMenu, mnAdmin, mnTask, mnEdits, mnShows>>

-----------------------------------------------------------------------------
(* Who resolves: a user, a start of a bot, an admin. *)

OnlyShows == UNCHANGED <<mnRow, mnCache, mnMenu, mnAdmin, mnTick, mnLast, mnEdits>>

\* Any handler that answers with an overridable text.
GetText == (\E s \in Shops : ShowBegins(Resolving(s, "text", s))) /\ OnlyShows

\* /start and /panel of an admin: the list of the admin's chat is pushed again.
AdminComes == (\E s \in mnAdmin : ShowBegins(Resolving(s, "admin", s))) /\ OnlyShows
SendWelcome == AdminComes
CmdPanelPush == AdminComes

\* sync_all when the platform's bot starts: both lists, of the platform.
SyncAll ==
  (\E k \in Scopes : ShowBegins(Resolving(Platform, k, Platform))) /\ OnlyShows

\* An admin is added or switched on, in the bot or in the panel of the shop.
AdminOn(shop, to) ==
  /\ ShowBegins(Resolving(shop, "admin", to))
  /\ mnAdmin' = mnAdmin \cup {shop}
  /\ UNCHANGED <<mnRow, mnCache, mnMenu, mnTick, mnLast, mnEdits>>
BotAdminAdd == \E s \in Shops : AdminOn(s, s)
BotAdminToggle == \E s \in Shops \ mnAdmin : AdminOn(s, s)
PanelAdminAdd == \E s \in Shops : AdminOn(s, Platform)

\* Switched off or removed: clear_admin_commands, or a warning.
AdminOff(shop, to) ==
  /\ shop \in mnAdmin /\ mnAdmin' = mnAdmin \ {shop}
  /\ \/ mnMenu' = [mnMenu EXCEPT ![to]["admin"] = NoList]
     \/ UNCHANGED mnMenu
  /\ mnShows < MaxShows /\ mnShows' = mnShows + 1
  /\ UNCHANGED <<mnRow, mnCache, mnTask, mnTick, mnLast, mnEdits>>
BotAdminRemove == \E s \in Shops : AdminOff(s, s)
PanelAdminRemove == \E s \in Shops : AdminOff(s, Platform)

-----------------------------------------------------------------------------
(* Saves: the rows are committed, then the entry is deleted, then the list *)
(* is resolved and pushed, from the panel always to the platform's bot.    *)

\* A handler of the panel about to save key for shop; push: it pushes after it.
SaveBegins(shop, key, push) ==
  /\ mnEdits < MaxEdits /\ mnEdits' = mnEdits + 1
  /\ \E t \in MenuTasks :
       /\ MenuIs(t, "idle")
       /\ MenuGoes(t, [kind |-> "bust", shop |-> shop, key |-> key, push |-> push])

\* The new content is in force from now on, the old one was until now.
InForce(shop, key, value) ==
  /\ mnRow' = [mnRow EXCEPT ![shop][key] = value]
  /\ mnLast' = [mnLast EXCEPT ![shop][key] = [@ EXCEPT ![mnRow[shop][key]] = mnTick, ![value] = mnTick]]
  /\ UNCHANGED <<mnCache, mnMenu, mnAdmin, mnTick, mnShows>>

\* upsert, update, remove: the list is another one.
Upsert(shop, scope) == SaveBegins(shop, scope, TRUE) /\ InForce(shop, scope, mnEdits + 1)

CommandsAdd == \E s \in Shops, k \in Scopes : Upsert(s, k)
CommandsSave == \E s \in Shops, k \in Scopes : Upsert(s, k)
CommandsDelete == \E s \in Shops, k \in Scopes : Upsert(s, k)
\* reset: the rows go, the defaults apply.
CommandsReset == \E s \in Shops, k \in Scopes : SaveBegins(s, k, TRUE) /\ InForce(s, k, 0)
\* seed_defaults: rows that say what the defaults say.
CommandsSeed ==
  \E s \in Shops, k \in Scopes :
    mnRow[s][k] = 0 /\ SaveBegins(s, k, FALSE) /\ InForce(s, k, 0)
\* The search switch adds or drops a command of the user list.
SettingsSearch == \E s \in Shops : Upsert(s, "user")
TextsSave == \E s \in Shops : SaveBegins(s, "text", FALSE) /\ InForce(s, "text", mnEdits + 1)

\* bust_cache; an error of Redis is ignored.
BustCache(t) ==
  /\ MenuIs(t, "bust")
  /\ LET k == CacheKey(mnTask[t].shop, mnTask[t].key)
     IN mnCache' \in {mnCache, [mnCache EXCEPT ![k] = NoEntry]}
  /\ MenuGoes(t, IF mnTask[t].push THEN Resolving(mnTask[t].shop, mnTask[t].key, Platform) ELSE Idle)
  /\ OnlyMenuTasks

BotMenuNext ==
  \/ Tick \/ GetText \/ SendWelcome \/ CmdPanelPush \/ SyncAll \/ BotAdminAdd
  \/ BotAdminToggle \/ PanelAdminAdd \/ BotAdminRemove \/ PanelAdminRemove \/ CommandsAdd
  \/ CommandsSave \/ CommandsDelete \/ CommandsReset \/ CommandsSeed \/ SettingsSearch
  \/ TextsSave
  \/ \E t \in MenuTasks : CacheLookup(t) \/ RowsRead(t) \/ CacheFilled(t) \/ TextShown(t)
                          \/ PushDefaultCommands(t) \/ PushAdminCommands(t) \/ BustCache(t)

BotMenuSpec == BotMenuInit /\ [][BotMenuNext]_mnVars

-----------------------------------------------------------------------------
\* What a bot answers with, or pushes to Telegram, was its tenant's own content
\* at most one life of a cache entry ago, whatever saves and reads overlap and
\* whichever calls to Redis fail.
EditsGoLive ==
  \A t \in MenuTasks :
    MenuIs(t, "show") =>
      mnTick <= mnLast[mnTask[t].shop][mnTask[t].key][mnTask[t].value] + 1
=============================================================================
