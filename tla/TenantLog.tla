----------------------------- MODULE TenantLog ------------------------------
(***************************************************************************)
(* The log group of a tenant: one forum topic per category, created by the *)
(* first event of the category and kept in the tenant's settings row, from *)
(* which the bot, the panel and the worker read it; the owner may connect  *)
(* another group meanwhile.                                                *)
(***************************************************************************)
EXTENDS Naturals, Sequences

CONSTANTS LogGroups,  \* forum groups
          LogTasks,   \* sessions at the same time
          MaxLogCalls \* bound: handlers that are ever started

ASSUME TenantLogAssumption == MaxLogCalls \in Nat

\* The categories that a caller exists for.
Categories == {"payments", "uploads", "new_users", "backups"}
NoGroup == "none"
NoTopic == 0

VARIABLES lgRow,      \* the row of tenant_log_settings
          lgForum,    \* [LogGroups -> the category of each topic, by thread id]
          lgBackoff,  \* the key logfail of the tenant is set
          lgTask,     \* [LogTasks -> the handler]
          lgConnects, \* history: groups that were connected
          lgKept,     \* history: topics that were kept in the row
          lgOverlap,  \* history: a topic was kept while a group was connected
          lgAstray,   \* history: an event landed in another category's topic
          lgCalls     \* spent bound

lgVars == <<lgRow, lgForum, lgBackoff, lgTask, lgConnects, lgKept, lgOverlap, lgAstray, lgCalls>>

NoTopics == [c \in Categories |-> NoTopic]
LogRest == [kind |-> "idle"]

TenantLogTypeOK ==
  /\ lgRow \in [there : BOOLEAN, group : LogGroups \cup {NoGroup}, topic : [Categories -> Nat]]
  /\ lgForum \in [LogGroups -> Seq(Categories)]
  /\ lgBackoff \in BOOLEAN /\ lgOverlap \in BOOLEAN /\ lgAstray \in BOOLEAN
  /\ lgConnects \in Nat /\ lgKept \in Nat /\ lgCalls \in 0..MaxLogCalls

TenantLogInit ==
  /\ lgRow = [there |-> FALSE, group |-> NoGroup, topic |-> NoTopics]
  /\ lgForum = [g \in LogGroups |-> <<>>]
  /\ lgBackoff = FALSE
  /\ lgTask = [t \in LogTasks |-> LogRest]
  /\ lgConnects = 0 /\ lgKept = 0 /\ lgOverlap = FALSE /\ lgAstray = FALSE /\ lgCalls = 0

LogIs(t, kind) == lgTask[t].kind = kind
LogGoes(t, task) == lgTask' = [lgTask EXCEPT ![t] = task]
History == <<lgConnects, lgKept, lgOverlap, lgAstray>>

\* A handler that has loaded the row and started task with it.
LogStarts(task) ==
  /\ lgCalls < MaxLogCalls /\ lgCalls' = lgCalls + 1
  /\ \E t \in LogTasks :
       /\ LogIs(t, "idle")
       /\ LogGoes(t, task)
  /\ UNCHANGED <<lgRow, lgForum, lgBackoff>> /\ UNCHANGED History

-----------------------------------------------------------------------------
(* Events. *)

\* emit, up to the first call to Telegram; a document asks no backoff.
Emit(category, document) ==
  /\ lgRow.there /\ lgRow.group # NoGroup
  /\ lgBackoff => document
  /\ LogStarts([kind |-> "topic", category |-> category, document |-> document,
                thread |-> NoTopic, row |-> lgRow, connects |-> lgConnects])

LogNewUser == Emit("new_users", FALSE)
LogUpload == Emit("uploads", FALSE)
LogPayment == Emit("payments", FALSE)
\* The dump, or a notice that it is too large.
DeliverBackup == \E document \in BOOLEAN : Emit("backups", document)

\* _ensure_topic.
EnsureTopic(t) ==
  /\ LogIs(t, "topic")
  /\ LET task == lgTask[t]
         g == task.row.group
         thread == task.row.topic[task.category]
     IN IF thread # NoTopic
        THEN LogGoes(t, [task EXCEPT !.thread = thread, !.kind = "send"]) /\ UNCHANGED lgForum
        ELSE /\ lgForum' = [lgForum EXCEPT ![g] = Append(@, task.category)]
             /\ LogGoes(t, [task EXCEPT !.thread = Len(lgForum'[g]), !.kind = "keep"])
  /\ UNCHANGED <<lgRow, lgBackoff, lgCalls>> /\ UNCHANGED History

\* The thread id is set on the loaded row and committed.
TopicKept(t) ==
  /\ LogIs(t, "keep")
  /\ lgRow' = [lgRow EXCEPT !.topic[lgTask[t].category] = lgTask[t].thread]
  /\ lgKept' = lgKept + 1
  /\ lgOverlap' = (lgOverlap \/ lgTask[t].connects # lgConnects)
  /\ LogGoes(t, [lgTask[t] EXCEPT !.kind = "send"])
  /\ UNCHANGED <<lgForum, lgBackoff, lgConnects, lgAstray, lgCalls>>

\* The message goes to the loaded group: a thread that is not there is refused.
EmitSends(t) ==
  /\ LogIs(t, "send")
  /\ LET task == lgTask[t]
         topics == lgForum[task.row.group]
     IN /\ task.thread <= Len(topics)
        /\ lgAstray' = (lgAstray \/ topics[task.thread] # task.category)
  /\ LogGoes(t, LogRest)
  /\ UNCHANGED <<lgRow, lgForum, lgBackoff, lgConnects, lgKept, lgOverlap, lgCalls>>

\* Telegram or the database refuses: every category is skipped for a while,
\* unless Redis is down; a document sets no backoff.
EmitFails(t) ==
  /\ \E kind \in {"topic", "keep", "send"} : LogIs(t, kind)
  /\ lgBackoff' \in IF lgTask[t].document THEN {lgBackoff} ELSE {lgBackoff, TRUE}
  /\ LogGoes(t, LogRest)
  /\ UNCHANGED <<lgRow, lgForum, lgCalls>> /\ UNCHANGED History

BackoffExpires ==
  /\ lgBackoff /\ lgBackoff' = FALSE
  /\ UNCHANGED <<lgRow, lgForum, lgTask, lgCalls>> /\ UNCHANGED History

-----------------------------------------------------------------------------
(* The owner connects a group, another one, or none. *)

SetGroup ==
  \E g \in LogGroups \cup {NoGroup} :
    LogStarts([kind |-> "connect", group |-> g, row |-> lgRow, kept |-> lgKept])
LogsSave == SetGroup
LogGroupEntered == SetGroup

\* Mutant: the topics of the group before stay.
TopicsAfter_Kept(seen, now) == now

\* A topic id that was loaded as None is not written: None is what it had.
TopicsAfter(seen, now) == [c \in Categories |-> IF seen[c] = NoTopic THEN now[c] ELSE NoTopic]

\* The row is inserted, or the columns that changed are written; a second
\* insert of the row is refused by its unique tenant.
GroupConnected(t) ==
  /\ LogIs(t, "connect")
  /\ LET task == lgTask[t]
     IN IF ~task.row.there /\ lgRow.there
        THEN UNCHANGED <<lgRow, lgConnects, lgOverlap>>
        ELSE /\ lgRow' = [there |-> TRUE,
                          group |-> IF task.group = task.row.group /\ task.row.there
                                    THEN lgRow.group ELSE task.group,
                          topic |-> TopicsAfter(task.row.topic, lgRow.topic)]
             /\ lgConnects' = lgConnects + 1
             /\ lgOverlap' = (lgOverlap \/ task.kept # lgKept)
  /\ LogGoes(t, LogRest)
  /\ UNCHANGED <<lgForum, lgBackoff, lgKept, lgAstray, lgCalls>>

TenantLogNext ==
  \/ LogNewUser \/ LogUpload \/ LogPayment \/ DeliverBackup \/ BackoffExpires
  \/ LogsSave \/ LogGroupEntered
  \/ \E t \in LogTasks :
       EnsureTopic(t) \/ TopicKept(t) \/ EmitSends(t) \/ EmitFails(t) \/ GroupConnected(t)

TenantLogSpec == TenantLogInit /\ [][TenantLogNext]_lgVars

-----------------------------------------------------------------------------
\* The topics in the row are topics of the connected group for their category,
\* and no event has landed under another one, unless a topic was being kept
\* while a group was being connected: two events that create the topic of one
\* category at once, failures and reconnections alone lead no event astray.
LogsStayInTopic ==
  ~lgOverlap =>
    /\ ~lgAstray
    /\ \A c \in Categories :
         lgRow.group # NoGroup /\ lgRow.topic[c] # NoTopic =>
           /\ lgRow.topic[c] <= Len(lgForum[lgRow.group])
           /\ lgForum[lgRow.group][lgRow.topic[c]] = c
=============================================================================
