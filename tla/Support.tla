------------------------------ MODULE Support -------------------------------
(***************************************************************************)
(* Support tickets: a user writes to the bot, an operator of the tenant's  *)
(* panel or of the platform's answers, either side may close.  A message   *)
(* loads the ticket, sets its status in memory and commits: the UPDATE     *)
(* holds the status only if it differs from the loaded one.                *)
(***************************************************************************)
EXTENDS Naturals, FiniteSets

CONSTANTS Tickets,   \* rows of support_tickets, all of one opener
          DeskTasks, \* requests served at the same time
          MaxDesk    \* bound: requests that ever arrive

ASSUME DeskAssumption == MaxDesk \in Nat /\ "none" \notin Tickets

VARIABLES dkStatus,  \* [Tickets -> status, or "none"]
          dkTarget,  \* [Tickets -> "tenant_admin" or "platform"]
          dkLast,    \* [Tickets -> sender_kind of the newest message]
          dkForm,    \* the opener's form: its state and the ticket_id in its data
          dkAdmin,   \* the opener is an admin of the bot
          dkTask,    \* [DeskTasks -> the request being served]
          dkOverlap, \* history: tickets that had two requests at once
          dkArrived  \* spent bound

dkVars == <<dkStatus, dkTarget, dkLast, dkForm, dkAdmin, dkTask, dkOverlap, dkArrived>>

ACTIVE == {"open", "answered"}
Targeted == {"tenant_admin", "platform"}
NoForm == [state |-> "none", ticket |-> "none", target |-> "tenant_admin"]
NoDeskTask == [kind |-> "idle", ticket |-> "none"]
Clearing == [kind |-> "clear", ticket |-> "none"]

DeskTypeOK ==
  /\ dkStatus \in [Tickets -> ACTIVE \cup {"none", "closed"}]
  /\ dkTarget \in [Tickets -> Targeted]
  /\ dkLast \in [Tickets -> {"none", "user", "admin"}]
  /\ dkForm \in [state : {"none", "subject", "message"}, ticket : Tickets \cup {"none"},
                 target : Targeted]
  /\ dkAdmin \in BOOLEAN /\ dkOverlap \subseteq Tickets /\ dkArrived \in 0..MaxDesk

DeskInit ==
  /\ dkStatus = [k \in Tickets |-> "none"]
  /\ dkTarget = [k \in Tickets |-> "tenant_admin"]
  /\ dkLast = [k \in Tickets |-> "none"]
  /\ dkForm = NoForm /\ dkAdmin \in BOOLEAN
  /\ dkTask = [t \in DeskTasks |-> NoDeskTask]
  /\ dkOverlap = {} /\ dkArrived = 0

Active(target) == {k \in Tickets : dkStatus[k] \in ACTIVE /\ dkTarget[k] = target}

DeskArrives(task) ==
  /\ dkArrived < MaxDesk /\ dkArrived' = dkArrived + 1
  /\ \E t \in DeskTasks : dkTask[t] = NoDeskTask /\ dkTask' = [dkTask EXCEPT ![t] = task]
  /\ dkOverlap' = dkOverlap \cup {k \in {task.ticket} \cap Tickets :
                                    \E t \in DeskTasks : dkTask[t].ticket = k}
  /\ UNCHANGED <<dkStatus, dkTarget, dkLast, dkAdmin>>

\* The session loads the ticket: its status is what the handler goes on with.
Loads(kind, k) ==
  /\ dkStatus[k] # "none"
  /\ DeskArrives([kind |-> kind, ticket |-> k, status |-> dkStatus[k]])

OnlyForm == UNCHANGED <<dkStatus, dkTarget, dkLast, dkAdmin, dkTask, dkOverlap, dkArrived>>

-----------------------------------------------------------------------------
(* The opener's side. *)

\* support_menu: an active ticket of the target is shown instead of a form.
SupportMenu ==
  LET target == IF dkAdmin THEN "platform" ELSE "tenant_admin"
  IN /\ dkForm' = IF Active(target) # {} THEN NoForm
                  ELSE [state |-> "subject", ticket |-> "none", target |-> target]
     /\ OnlyForm

SupportSubject ==
  /\ dkForm.state = "subject" /\ dkForm' = [dkForm EXCEPT !.state = "message"] /\ OnlyForm

\* support_reply: the button under the ticket's messages, closed or not.
SupportReply ==
  /\ \E k \in Tickets :
       /\ dkStatus[k] # "none"
       /\ dkForm' = [state |-> "message", ticket |-> k, target |-> dkTarget[k]]
  /\ OnlyForm

\* support_message: a new ticket, or one more message on the ticket of the form.  The
\* form is cleared only after the commit: a second message opens a second ticket.
SupportMessage ==
  /\ dkForm.state = "message" /\ UNCHANGED dkForm
  /\ IF dkForm.ticket = "none"
     THEN DeskArrives([kind |-> "open", ticket |-> "none", target |-> dkForm.target])
     ELSE Loads("user", dkForm.ticket)

SupportClose == \E k \in Tickets : Loads("close", k) /\ UNCHANGED dkForm

\* The opener is made an admin of the bot, or is one no longer.
OpenerChanges ==
  /\ dkAdmin' = ~dkAdmin
  /\ dkArrived < MaxDesk /\ dkArrived' = dkArrived + 1
  /\ UNCHANGED <<dkStatus, dkTarget, dkLast, dkForm, dkTask, dkOverlap>>

-----------------------------------------------------------------------------
(* The operators' side: each inbox answers its own target only. *)

Operator(kind, target) ==
  /\ \E k \in Tickets : dkTarget[k] = target /\ Loads(kind, k)
  /\ UNCHANGED dkForm

TicketReply == Operator("admin", "tenant_admin")
TicketClose == Operator("close", "tenant_admin")
PlatformSupportReply == Operator("admin", "platform")
PlatformSupportClose == Operator("close", "platform")

-----------------------------------------------------------------------------
(* SupportService. *)

\* A column is written only if it differs from what was loaded.
Written(k, loaded, status) ==
  dkStatus' = IF loaded = status THEN dkStatus ELSE [dkStatus EXCEPT ![k] = status]

OpenTicket(t) ==
  /\ dkTask[t].kind = "open"
  /\ \E k \in Tickets :
       /\ dkStatus[k] = "none"
       /\ dkStatus' = [dkStatus EXCEPT ![k] = "open"]
       /\ dkTarget' = [dkTarget EXCEPT ![k] = dkTask[t].target]
       /\ dkLast' = [dkLast EXCEPT ![k] = "user"]
  /\ dkTask' = [dkTask EXCEPT ![t] = Clearing]
  /\ UNCHANGED <<dkForm, dkAdmin, dkOverlap, dkArrived>>

\* Mutant: only the first reply of an operator moves the status.
StatusAfter_Kept(sender, loaded) == IF sender = "admin" THEN "answered" ELSE loaded

\* add_message: a user's message opens the thread again.
StatusAfter(sender, loaded) == IF sender = "admin" THEN "answered" ELSE "open"

AddMessage(t) ==
  /\ dkTask[t].kind \in {"user", "admin"}
  /\ LET k == dkTask[t].ticket
         sender == dkTask[t].kind
     IN /\ Written(k, dkTask[t].status, StatusAfter(sender, dkTask[t].status))
        /\ dkLast' = [dkLast EXCEPT ![k] = sender]
        /\ dkTask' = [dkTask EXCEPT ![t] = IF sender = "user" THEN Clearing ELSE NoDeskTask]
  /\ UNCHANGED <<dkTarget, dkForm, dkAdmin, dkOverlap, dkArrived>>

CloseTicket(t) ==
  /\ dkTask[t].kind = "close"
  /\ Written(dkTask[t].ticket, dkTask[t].status, "closed")
  /\ dkTask' = [dkTask EXCEPT ![t] = NoDeskTask]
  /\ UNCHANGED <<dkTarget, dkLast, dkForm, dkAdmin, dkOverlap, dkArrived>>

\* The rest of support_message.
FormCleared(t) ==
  /\ dkTask[t] = Clearing
  /\ dkForm' = NoForm
  /\ dkTask' = [dkTask EXCEPT ![t] = NoDeskTask]
  /\ UNCHANGED <<dkStatus, dkTarget, dkLast, dkAdmin, dkOverlap, dkArrived>>

DeskNext ==
  \/ SupportMenu \/ SupportSubject \/ SupportReply \/ SupportMessage \/ SupportClose
  \/ OpenerChanges \/ TicketReply \/ TicketClose \/ PlatformSupportReply
  \/ PlatformSupportClose
  \/ \E t \in DeskTasks : OpenTicket(t) \/ AddMessage(t) \/ CloseTicket(t) \/ FormCleared(t)

DeskSpec == DeskInit /\ [][DeskNext]_dkVars

-----------------------------------------------------------------------------
\* An inbox lists the open tickets: one whose last word is the user's is never
\* filed as answered, and one an operator answered is not left open, unless two
\* requests worked on the ticket at the same time (each then writes over the
\* status the other did not see).
LastWordDecides ==
  \A k \in Tickets \ dkOverlap :
    /\ dkStatus[k] = "answered" => dkLast[k] = "admin"
    /\ dkStatus[k] = "open" => dkLast[k] = "user"
=============================================================================
