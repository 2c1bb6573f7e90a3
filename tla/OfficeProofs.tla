--------------------------- MODULE OfficeProofs ---------------------------
(***************************************************************************)
(* Proofs about the parts of the office that serve the installation: its   *)
(* panel sessions, its desk, its readers' reactions, its license, its      *)
(* backups and its bot's forms, one section for each.                      *)
(***************************************************************************)
EXTENDS PanelAuth, Support, Community, License, Backups, Forms,
        FiniteSetTheorems, SequenceTheorems, TLAPS

-----------------------------------------------------------------------------
(* Panel authentication: a session that was ended is not accepted again. *)

Kinds == {"mint", "twofa_start", "twofa_enable", "twofa_disable", "team_twofa_disable",
          "team_toggle", "team_set_role"} \cup Bumps

AuRow == [epoch : Nat, active : BOOLEAN, totp : BOOLEAN, twofa : BOOLEAN,
          role : {"admin", "support"}]

\* A busy handler with the row it loaded.
AuTask == [kind : Kinds, row : AuRow, after : Nat]

AuTypes ==
  /\ PanelAuthTypeOK
  /\ auTask \in [AuTasks -> AuTask \cup {NoRequestNow}]

\* As long as no two bumps overlap, the epoch of a row, loaded or committed, or in the
\* record of a session, is the number of bumps that were committed before it was read.
EpochsCount ==
  ~ auOverlap =>
    /\ auRow.epoch = auBumps
    /\ \A t \in AuTasks : auTask[t] # NoRequestNow => auTask[t].row.epoch = auTask[t].after
    /\ \A s \in Sids : auSession[s].epoch = auSession[s].after

AuInv == AuTypes /\ EpochsCount

\* A handler that loads the row sees as many bumps as its epoch says.
LEMMA BeginKeepsInv ==
  ASSUME AuInv, NEW kind \in Kinds, AuBegin(kind),
         UNCHANGED <<auRow, auSession, auBumps, auOverlap>>,
         auPending' \in 0..1, auLinks' \in 0..1, auFails' \in {0, auFails}
  PROVE  AuInv'
<1> DEFINE new == [kind |-> kind, row |-> auRow, after |-> auBumps]
<1>1. PICK t \in AuTasks : auTask' = [auTask EXCEPT ![t] = new]
  BY DEF AuBegin
<1>2. AuTypes /\ EpochsCount /\ new \in AuTask /\ new.row = auRow /\ new.after = auBumps
  BY DEF AuInv, AuTypes, PanelAuthTypeOK, AuRow, AuTask
<1> HIDE DEF new
<1>3. auTask' \in [AuTasks -> AuTask \cup {NoRequestNow}] /\ auTask'[t] = new
      /\ \A u \in AuTasks \ {t} : auTask'[u] = auTask[u]
  BY <1>1, <1>2 DEF AuTypes
<1>4. auMade' \in 0..MaxRequestsAu /\ auFails' \in 0..(MaxFailures + MaxRequestsAu)
  BY <1>2, PanelAuthAssumption DEF AuBegin, AuTypes, PanelAuthTypeOK
<1>5. AuTypes'
  BY <1>2, <1>3, <1>4 DEF AuTypes, PanelAuthTypeOK
<1>6. EpochsCount'
  BY <1>2, <1>3 DEF EpochsCount
<1> QED BY <1>5, <1>6 DEF AuInv

\* The steps that load no row: failures, links, expiries, the password before the code.
LEMMA OutsideKeepsInv ==
  ASSUME AuInv, UNCHANGED <<auRow, auSession, auTask, auBumps, auOverlap>>,
         auPending' \in 0..1, auLinks' \in 0..1,
         auFails' \in 0..(MaxFailures + MaxRequestsAu), auMade' \in 0..MaxRequestsAu
  PROVE  AuInv'
BY DEF AuInv, AuTypes, EpochsCount, PanelAuthTypeOK

\* A handler that is over.
LEMMA DoneKeepsTasks ==
  ASSUME AuTypes, EpochsCount, NEW t \in AuTasks, AuDone(t)
  PROVE  /\ auTask' \in [AuTasks -> AuTask \cup {NoRequestNow}]
         /\ \A u \in AuTasks : auTask'[u] # NoRequestNow => auTask'[u] = auTask[u]
BY DEF AuDone, AuTypes

\* _mint_session: the session gets the epoch its login loaded.
LEMMA MintKeepsInv == ASSUME AuInv, NEW t \in AuTasks, MintSession(t) PROVE AuInv'
<1>1. AuTypes /\ EpochsCount /\ auTask[t] # NoRequestNow /\ auTask[t] \in AuTask
  BY DEF AuInv, AuTypes, MintSession, AuIs, NoRequestNow
<1> DEFINE new == [epoch |-> auTask[t].row.epoch, after |-> auTask[t].after, live |-> TRUE]
<1>2. PICK s \in Sids : auSession' = [auSession EXCEPT ![s] = new]
  BY DEF MintSession
<1>3. new \in [epoch : Nat, after : Nat, live : BOOLEAN]
      /\ new.epoch = auTask[t].row.epoch /\ new.after = auTask[t].after
  BY <1>1 DEF AuTask, AuRow
<1> HIDE DEF new
<1>4. /\ auSession' \in [Sids -> [epoch : Nat, after : Nat, live : BOOLEAN]]
      /\ auSession'[s] = new /\ \A r \in Sids \ {s} : auSession'[r] = auSession[r]
  BY <1>1, <1>2, <1>3 DEF AuTypes, PanelAuthTypeOK
<1>5. UNCHANGED <<auRow, auPending, auLinks, auFails, auBumps, auOverlap, auMade>> /\ AuDone(t)
  BY DEF MintSession
<1>6. /\ auTask' \in [AuTasks -> AuTask \cup {NoRequestNow}]
      /\ \A u \in AuTasks : auTask'[u] # NoRequestNow => auTask'[u] = auTask[u]
  BY <1>1, <1>5, DoneKeepsTasks
<1>7. AuTypes'
  BY <1>1, <1>4, <1>5, <1>6 DEF AuTypes, PanelAuthTypeOK
<1>8. EpochsCount'
  BY <1>1, <1>3, <1>4, <1>5, <1>6 DEF EpochsCount
<1> QED BY <1>7, <1>8 DEF AuInv

\* Logout: the empty record counts nothing.
LEMMA LogoutKeepsInv == ASSUME AuInv, Logout PROVE AuInv'
<1>1. AuTypes /\ EpochsCount
  BY DEF AuInv
<1>2. PICK s \in Sids : auSession' = [auSession EXCEPT ![s] = NoSession]
  BY DEF Logout
<1>3. NoSession \in [epoch : Nat, after : Nat, live : BOOLEAN] /\ NoSession.epoch = NoSession.after
  BY DEF NoSession
<1>4. /\ auSession' \in [Sids -> [epoch : Nat, after : Nat, live : BOOLEAN]]
      /\ auSession'[s] = NoSession /\ \A r \in Sids \ {s} : auSession'[r] = auSession[r]
  BY <1>1, <1>2, <1>3 DEF AuTypes, PanelAuthTypeOK
<1>5. UNCHANGED <<auRow, auPending, auLinks, auFails, auTask, auBumps, auOverlap, auMade>>
  BY DEF Logout
<1>6. AuTypes'
  BY <1>1, <1>4, <1>5 DEF AuTypes, PanelAuthTypeOK
<1>7. EpochsCount'
  BY <1>1, <1>3, <1>4, <1>5 DEF EpochsCount
<1> QED BY <1>6, <1>7 DEF AuInv

\* The columns a handler writes over the committed row: the epoch only by a bump, one
\* above the epoch it loaded.
LEMMA ChangesOverRow ==
  ASSUME NEW kind \in Kinds \ {"mint"}, NEW row \in AuRow, NEW old \in AuRow
  PROVE  /\ Changes(kind, row, old) \in AuRow
         /\ Changes(kind, row, old).epoch =
              IF kind \in Bumps THEN row.epoch + 1 ELSE old.epoch
<1>1. CASE kind \in Bumps
  <2>1. Changes(kind, row, old) = [old EXCEPT !.epoch = row.epoch + 1]
    BY <1>1 DEF Changes, Bumps
  <2> QED BY <1>1, <2>1 DEF AuRow
<1>2. CASE kind = "twofa_start"
  <2>1. Changes(kind, row, old) = [old EXCEPT !.totp = TRUE] /\ kind \notin Bumps
    BY <1>2 DEF Changes, Bumps
  <2> QED BY <2>1 DEF AuRow
<1>3. CASE kind = "twofa_enable"
  <2>1. Changes(kind, row, old) = [old EXCEPT !.twofa = TRUE] /\ kind \notin Bumps
    BY <1>3 DEF Changes, Bumps
  <2> QED BY <2>1 DEF AuRow
<1>4. CASE kind \in {"twofa_disable", "team_twofa_disable"}
  <2>1. kind \notin Bumps /\ kind # "twofa_start" /\ kind # "twofa_enable"
    BY <1>4 DEF Bumps
  <2>2. Changes(kind, row, old) =
          [old EXCEPT !.twofa = @ /\ ~row.twofa, !.totp = @ /\ ~row.totp]
    BY <1>4, <2>1 DEF Changes
  <2> QED BY <2>1, <2>2 DEF AuRow
<1>5. CASE kind = "team_toggle"
  <2>1. Changes(kind, row, old) = [old EXCEPT !.active = ~row.active] /\ kind \notin Bumps
    BY <1>5 DEF Changes, Bumps
  <2> QED BY <2>1 DEF AuRow
<1>6. CASE kind = "team_set_role"
  <2>1. kind \notin Bumps /\ Changes(kind, row, old) =
          [old EXCEPT !.role = IF row.role = "admin" THEN "support" ELSE "admin"]
    BY <1>6 DEF Changes, Bumps
  <2> QED BY <2>1 DEF AuRow
<1> QED BY <1>1, <1>2, <1>3, <1>4, <1>5, <1>6 DEF Kinds

\* The commit of a handler: a bump over a row with as many bumps as it loaded counts one
\* more; one over a newer row is an overlap.
LEMMA CommitKeepsInv == ASSUME AuInv, NEW t \in AuTasks, RowCommits(t) PROVE AuInv'
<1> DEFINE kind == auTask[t].kind
           new == Changes(kind, auTask[t].row, auRow)
<1>1. AuTypes /\ EpochsCount
  BY DEF AuInv
<1>2. auTask[t] # NoRequestNow /\ auTask[t] \in AuTask /\ kind \in Kinds \ {"mint"}
  BY <1>1 DEF AuTypes, AuTask, RowCommits, AuIs, NoRequestNow
<1>3. auRow \in AuRow /\ auTask[t].row \in AuRow /\ auTask[t].after \in Nat /\ auBumps \in Nat
  BY <1>1, <1>2 DEF AuTypes, PanelAuthTypeOK, AuRow, AuTask
<1>4. new \in AuRow
      /\ new.epoch = IF kind \in Bumps THEN auTask[t].row.epoch + 1 ELSE auRow.epoch
  BY <1>2, <1>3, ChangesOverRow
<1>5. /\ auRow' = new /\ AuDone(t)
      /\ UNCHANGED <<auSession, auPending, auLinks, auFails, auMade>>
      /\ IF kind \in Bumps
         THEN auBumps' = auBumps + 1 /\ auOverlap' = (auOverlap \/ auTask[t].after # auBumps)
         ELSE UNCHANGED <<auBumps, auOverlap>>
  BY DEF RowCommits
<1> HIDE DEF new, kind
<1>6. /\ auTask' \in [AuTasks -> AuTask \cup {NoRequestNow}]
      /\ \A u \in AuTasks : auTask'[u] # NoRequestNow => auTask'[u] = auTask[u]
  BY <1>1, <1>5, DoneKeepsTasks
<1>7. auBumps' \in Nat /\ auOverlap' \in BOOLEAN
  <2>1. auOverlap \in BOOLEAN
    BY <1>1 DEF AuTypes, PanelAuthTypeOK
  <2>2. CASE kind \in Bumps
    <3>1. auBumps' \in Nat
      BY <1>3, <1>5, <2>2
    <3>2. auOverlap' \in BOOLEAN
      BY <1>5, <2>2, Zenon
    <3> QED BY <3>1, <3>2
  <2>3. CASE kind \notin Bumps
    BY <1>3, <1>5, <2>1, <2>3
  <2> QED BY <2>2, <2>3
<1>8. AuTypes'
  BY <1>1, <1>4, <1>5, <1>6, <1>7 DEF AuTypes, PanelAuthTypeOK, AuRow
<1>9. EpochsCount'
  <2>1. CASE kind \in Bumps
    BY <1>1, <1>2, <1>3, <1>4, <1>5, <1>6, <2>1 DEF EpochsCount
  <2>2. CASE kind \notin Bumps
    BY <1>1, <1>4, <1>5, <1>6, <2>2 DEF EpochsCount
  <2> QED BY <2>1, <2>2
<1> QED BY <1>8, <1>9 DEF AuInv

\* Every step keeps the invariant.
LEMMA NextKeepsInv == ASSUME AuInv, [PanelAuthNext]_auVars PROVE AuInv'
<1>0. /\ auPending \in 0..1 /\ auLinks \in 0..1
      /\ auFails \in 0..(MaxFailures + MaxRequestsAu) /\ auMade \in 0..MaxRequestsAu
      /\ MaxFailures \in Nat \ {0} /\ MaxRequestsAu \in Nat
  BY PanelAuthAssumption DEF AuInv, AuTypes, PanelAuthTypeOK
<1>1. CASE UNCHANGED auVars
  BY <1>0, <1>1, OutsideKeepsInv DEF auVars
<1>2. CASE RecordLoginFailure
  <2>1. auFails' \in 0..(MaxFailures + MaxRequestsAu) /\ auMade' \in 0..MaxRequestsAu
    BY <1>0, <1>2 DEF RecordLoginFailure, LoginLocked
  <2> QED BY <1>0, <1>2, <2>1, OutsideKeepsInv DEF RecordLoginFailure, OnlyTasks
<1>3. CASE LoginSubmit
  <2>1. auFails' = 0 /\ UNCHANGED <<auRow, auSession, auLinks, auBumps, auOverlap>>
    BY <1>3 DEF LoginSubmit
  <2>2. CASE auRow.twofa /\ auRow.totp
    <3>1. UNCHANGED auTask /\ auPending' = 1 /\ auMade' \in 0..MaxRequestsAu
      BY <1>0, <1>3, <2>2 DEF LoginSubmit
    <3>2. auFails' \in 0..(MaxFailures + MaxRequestsAu)
      BY <1>0, <2>1
    <3> QED BY <1>0, <2>1, <3>1, <3>2, OutsideKeepsInv
  <2>3. CASE ~(auRow.twofa /\ auRow.totp)
    <3>1. AuBegin("mint") /\ UNCHANGED auPending
      BY <1>3, <2>3 DEF LoginSubmit
    <3> QED BY <1>0, <2>1, <3>1, BeginKeepsInv DEF Kinds
  <2> QED BY <2>2, <2>3
<1>4. CASE Login2faSubmit
  BY <1>0, <1>4, BeginKeepsInv DEF Login2faSubmit, Kinds
<1>5. CASE PanelLinks
  BY <1>0, <1>5, OutsideKeepsInv DEF PanelLinks
<1>6. CASE PanelLinkLogin
  BY <1>0, <1>6, BeginKeepsInv DEF PanelLinkLogin, Kinds
<1>7. CASE RedisExpires
  BY <1>0, <1>7, OutsideKeepsInv DEF RedisExpires
<1>8. CASE Logout
  BY <1>8, LogoutKeepsInv
<1>9. CASE \/ AccountPassword \/ TwofaStart \/ TwofaEnable \/ TwofaDisable
           \/ TeamSetPassword \/ TeamLogoutAll \/ TeamTwofaDisable \/ TeamToggle \/ TeamSetRole
  <2>1. OnlyTasks /\ UNCHANGED auFails /\ \E kind \in Kinds : AuBegin(kind)
    BY <1>9 DEF AccountPassword, TwofaStart, TwofaEnable, TwofaDisable, TeamSetPassword,
                TeamLogoutAll, TeamTwofaDisable, TeamToggle, TeamSetRole, Kinds, Bumps
  <2> QED BY <1>0, <2>1, BeginKeepsInv DEF OnlyTasks
<1>10. CASE \E t \in AuTasks : MintSession(t) \/ RowCommits(t)
  BY <1>10, MintKeepsInv, CommitKeepsInv
<1> QED BY <1>1, <1>2, <1>3, <1>4, <1>5, <1>6, <1>7, <1>8, <1>9, <1>10 DEF PanelAuthNext

\* A new member of the team: nothing was bumped, no session is live.
LEMMA InitHasInv == ASSUME PanelAuthInit PROVE AuInv
<1>1. NoSession \in [epoch : Nat, after : Nat, live : BOOLEAN] /\ NoSession.epoch = NoSession.after
  BY DEF NoSession
<1>2. auRow \in AuRow /\ auRow.epoch = 0
  BY DEF PanelAuthInit, AuRow
<1>3. auSession \in [Sids -> [epoch : Nat, after : Nat, live : BOOLEAN]]
      /\ auTask \in [AuTasks -> AuTask \cup {NoRequestNow}]
  BY <1>1 DEF PanelAuthInit
<1>4. /\ auPending \in 0..1 /\ auLinks \in 0..1
      /\ auFails \in 0..(MaxFailures + MaxRequestsAu) /\ auMade \in 0..MaxRequestsAu
      /\ auBumps \in Nat /\ auOverlap \in BOOLEAN
  <2>1. /\ auPending = 0 /\ auLinks = 0 /\ auFails = 0 /\ auBumps = 0 /\ auMade = 0
        /\ auOverlap = FALSE
    BY DEF PanelAuthInit
  <2>2. 0 \in 0..1 /\ 0 \in 0..(MaxFailures + MaxRequestsAu) /\ 0 \in 0..MaxRequestsAu
    BY PanelAuthAssumption
  <2> QED BY <2>1, <2>2
<1>5. AuTypes
  BY <1>2, <1>3, <1>4 DEF AuTypes, PanelAuthTypeOK, AuRow
<1>6. EpochsCount
  BY <1>1, <1>2 DEF PanelAuthInit, EpochsCount
<1> QED BY <1>5, <1>6 DEF AuInv

\* The epochs count the bumps in every run.
LEMMA EpochsAlwaysCount == PanelAuthSpec => []AuInv
<1>1. PanelAuthInit => AuInv
  BY InitHasInv
<1>2. AuInv /\ [PanelAuthNext]_auVars => AuInv'
  BY NextKeepsInv
<1> QED BY <1>1, <1>2, PTL DEF PanelAuthSpec

\* The rows, records and handlers of the panel's login have their types.
THEOREM PanelAuthTypeCorrect == PanelAuthSpec => []PanelAuthTypeOK
<1>1. AuInv => PanelAuthTypeOK
  BY DEF AuInv, AuTypes
<1> QED BY <1>1, EpochsAlwaysCount, PTL

\* require_panel_user accepts no session whose login loaded the row before the last
\* password change or logout-all, however many handlers run at the same time.
THEOREM EndedSessionsAlwaysStayEnded == PanelAuthSpec => []EndedSessionsStayEnded
<1>1. AuInv => EndedSessionsStayEnded
  BY DEF AuInv, EpochsCount, EndedSessionsStayEnded, Accepted
<1> QED BY <1>1, EpochsAlwaysCount, PTL

-----------------------------------------------------------------------------
(* Support: the last word decides. *)

TicketStatus == ACTIVE \cup {"none", "closed"}

\* A request that is being served, by its kind.
OpeningTask == [kind : {"open"}, ticket : {"none"}, target : Targeted]
TicketTask == [kind : {"user", "admin", "close"}, ticket : Tickets, status : TicketStatus]
DeskTaskSet == OpeningTask \cup TicketTask \cup {NoDeskTask, Clearing}

\* A ticket some request works on exists.  Until two worked on it at once, the request
\* has its committed status, and status and last word agree.
TicketOK(k) ==
  /\ \A t \in DeskTasks : dkTask[t].ticket = k => dkStatus[k] # "none"
  /\ k \notin dkOverlap =>
       /\ dkStatus[k] = "answered" => dkLast[k] = "admin"
       /\ dkStatus[k] = "open" => dkLast[k] = "user"
       /\ \A t \in DeskTasks : dkTask[t].ticket = k => dkTask[t].status = dkStatus[k]
       /\ \A t, r \in DeskTasks : dkTask[t].ticket = k /\ dkTask[r].ticket = k => t = r

DeskInv ==
  /\ DeskTypeOK
  /\ dkTask \in [DeskTasks -> DeskTaskSet]
  /\ \A k \in Tickets : TicketOK(k)

\* What a request works on.
LEMMA DeskTaskTypes ==
  ASSUME DeskInv, NEW t \in DeskTasks
  PROVE  /\ dkTask[t].kind \in {"user", "admin", "close"} =>
              dkTask[t].ticket \in Tickets /\ dkTask[t].status \in TicketStatus
         /\ dkTask[t].kind \notin {"user", "admin", "close"} => dkTask[t].ticket = "none"
         /\ dkTask[t].kind = "open" => dkTask[t].target \in Targeted
<1>1. dkTask[t] \in DeskTaskSet
  BY DEF DeskInv
<1> QED BY <1>1 DEF DeskTaskSet, OpeningTask, TicketTask, NoDeskTask, Clearing

\* A request that arrives finds a ticket alone, or makes it overlapped.
LEMMA ArrivalKeepsInv ==
  ASSUME DeskInv, NEW task \in OpeningTask \cup TicketTask, DeskArrives(task),
         dkForm' \in [state : {"none", "subject", "message"}, ticket : Tickets \cup {"none"},
                      target : Targeted],
         task \in TicketTask => dkStatus[task.ticket] # "none" /\ task.status = dkStatus[task.ticket]
  PROVE  DeskInv'
<1>1. PICK t \in DeskTasks :
        dkTask[t] = NoDeskTask /\ dkTask' = [dkTask EXCEPT ![t] = task]
  BY DEF DeskArrives
<1>2. /\ UNCHANGED <<dkStatus, dkTarget, dkLast, dkAdmin>> /\ dkArrived' \in 0..MaxDesk
      /\ dkOverlap' = dkOverlap \cup {k \in {task.ticket} \cap Tickets :
                                        \E r \in DeskTasks : dkTask[r].ticket = k}
  BY DeskAssumption DEF DeskArrives, DeskInv, DeskTypeOK
<1>3. DeskTypeOK'
  BY <1>2 DEF DeskInv, DeskTypeOK
<1>4. /\ dkTask' \in [DeskTasks -> DeskTaskSet]
      /\ dkTask'[t] = task /\ \A r \in DeskTasks \ {t} : dkTask'[r] = dkTask[r]
  BY <1>1 DEF DeskInv, DeskTaskSet
<1>5. ASSUME NEW k \in Tickets PROVE TicketOK(k)'
  <2>1. TicketOK(k)
    BY DEF DeskInv
  <2>2. CASE task.ticket # k
    <3>1. \A r \in DeskTasks : dkTask'[r].ticket = k => r # t /\ dkTask'[r] = dkTask[r]
      BY <1>4, <2>2
    <3>2. k \in dkOverlap <=> k \in dkOverlap'
      BY <1>2, <2>2
    <3> QED BY <1>2, <2>1, <3>1, <3>2 DEF TicketOK
  <2>3. CASE task.ticket = k
    <3>1. task \in TicketTask
      BY <2>3, DeskAssumption DEF OpeningTask
    <3>2. dkStatus[k] # "none" /\ task.status = dkStatus[k]
      BY <2>3, <3>1
    <3>3. CASE \E r \in DeskTasks : dkTask[r].ticket = k
      <4>1. k \in dkOverlap'
        BY <1>2, <2>3, <3>3
      <4> QED BY <1>2, <3>2, <4>1 DEF TicketOK
    <3>4. CASE \A r \in DeskTasks : dkTask[r].ticket # k
      <4>1. \A r \in DeskTasks : dkTask'[r].ticket = k => r = t
        BY <1>4, <3>4
      <4>2. k \in dkOverlap <=> k \in dkOverlap'
        BY <1>2, <3>4
      <4> QED BY <1>2, <1>4, <2>1, <3>2, <4>1, <4>2 DEF TicketOK
    <3> QED BY <3>3, <3>4
  <2> QED BY <2>2, <2>3
<1> QED BY <1>3, <1>4, <1>5 DEF DeskInv

\* A request that loads a ticket (support_message, support_close, the panels).
LEMMA LoadKeepsInv ==
  ASSUME DeskInv, NEW k \in Tickets, NEW kind \in {"user", "admin", "close"}, Loads(kind, k),
         dkForm' \in [state : {"none", "subject", "message"}, ticket : Tickets \cup {"none"},
                      target : Targeted]
  PROVE  DeskInv'
<1> DEFINE task == [kind |-> kind, ticket |-> k, status |-> dkStatus[k]]
<1>1. task \in TicketTask /\ task.ticket = k /\ task.status = dkStatus[k]
  BY DEF TicketTask, DeskInv, DeskTypeOK, TicketStatus
<1>2. DeskArrives(task) /\ dkStatus[k] # "none"
  BY DEF Loads
<1> HIDE DEF task
<1> QED BY <1>1, <1>2, ArrivalKeepsInv

\* The steps of the form (support_menu, support_subject, support_reply) and of the role.
LEMMA FormKeepsInv ==
  ASSUME DeskInv, SupportMenu \/ SupportSubject \/ SupportReply \/ OpenerChanges PROVE DeskInv'
<1>1. UNCHANGED <<dkStatus, dkTarget, dkLast, dkTask, dkOverlap>>
  BY DEF SupportMenu, SupportSubject, SupportReply, OpenerChanges, OnlyForm
<1>2. dkArrived' \in 0..MaxDesk
  BY DeskAssumption DEF SupportMenu, SupportSubject, SupportReply, OpenerChanges, OnlyForm,
                        DeskInv, DeskTypeOK
<1>4. dkAdmin' = dkAdmin \/ dkAdmin' = ~dkAdmin
  BY DEF SupportMenu, SupportSubject, SupportReply, OpenerChanges, OnlyForm
<1>5. dkAdmin' \in BOOLEAN
  BY <1>4, Zenon DEF DeskInv, DeskTypeOK
<1>3. dkForm' \in [state : {"none", "subject", "message"}, ticket : Tickets \cup {"none"},
                   target : Targeted]
  BY DEF SupportMenu, SupportSubject, SupportReply, OpenerChanges, DeskInv, DeskTypeOK,
         NoForm, Targeted
<1> QED BY <1>1, <1>2, <1>3, <1>5 DEF DeskInv, DeskTypeOK, TicketOK

\* The opener's button (support_message) hands the form's ticket to a request.
LEMMA MessageKeepsInv == ASSUME DeskInv, SupportMessage PROVE DeskInv'
<1>1. dkForm' \in [state : {"none", "subject", "message"}, ticket : Tickets \cup {"none"},
                   target : Targeted]
  BY DEF SupportMessage, DeskInv, DeskTypeOK
<1>2. dkForm.ticket \in Tickets \cup {"none"} /\ dkForm.target \in Targeted
  BY DEF DeskInv, DeskTypeOK
<1>3. CASE dkForm.ticket = "none"
  <2> DEFINE task == [kind |-> "open", ticket |-> "none", target |-> dkForm.target]
  <2>1. DeskArrives(task)
    BY <1>3 DEF SupportMessage
  <2>2. task \in OpeningTask /\ task \notin TicketTask
    BY <1>2, DeskAssumption DEF OpeningTask, TicketTask
  <2> HIDE DEF task
  <2> QED BY <1>1, <2>1, <2>2, ArrivalKeepsInv
<1>4. CASE dkForm.ticket # "none"
  <2>1. Loads("user", dkForm.ticket)
    BY <1>4 DEF SupportMessage
  <2> QED BY <1>1, <1>2, <1>4, <2>1, LoadKeepsInv
<1> QED BY <1>3, <1>4

\* A ticket is opened: a free row, which nobody works on (SupportService.create).
LEMMA OpenKeepsInv == ASSUME DeskInv, NEW t \in DeskTasks, OpenTicket(t) PROVE DeskInv'
<1>1. PICK k \in Tickets :
        /\ dkStatus[k] = "none"
        /\ dkStatus' = [dkStatus EXCEPT ![k] = "open"]
        /\ dkTarget' = [dkTarget EXCEPT ![k] = dkTask[t].target]
        /\ dkLast' = [dkLast EXCEPT ![k] = "user"]
  BY DEF OpenTicket
<1>2. dkTask' = [dkTask EXCEPT ![t] = Clearing] /\ dkTask[t].target \in Targeted
      /\ UNCHANGED <<dkForm, dkAdmin, dkOverlap, dkArrived>>
  BY DeskTaskTypes DEF OpenTicket
<1>3. DeskTypeOK'
  BY <1>1, <1>2 DEF DeskInv, DeskTypeOK, ACTIVE
<1>4. /\ dkTask' \in [DeskTasks -> DeskTaskSet]
      /\ \A r \in DeskTasks : dkTask'[r].ticket \in Tickets => dkTask'[r] = dkTask[r]
  BY <1>2, DeskAssumption DEF DeskInv, DeskTaskSet, Clearing
<1>5. ASSUME NEW j \in Tickets PROVE TicketOK(j)'
  <2>1. TicketOK(j)
    BY DEF DeskInv
  <2>2. CASE j = k
    <3>1. \A r \in DeskTasks : dkTask'[r].ticket # k
      BY <1>1, <1>4, <2>1, <2>2 DEF TicketOK
    <3>2. dkStatus'[k] = "open" /\ dkLast'[k] = "user"
      BY <1>1 DEF DeskInv, DeskTypeOK
    <3> QED BY <2>2, <3>1, <3>2 DEF TicketOK
  <2>3. CASE j # k
    <3>1. dkStatus'[j] = dkStatus[j] /\ dkLast'[j] = dkLast[j]
      BY <1>1, <2>3 DEF DeskInv, DeskTypeOK
    <3> QED BY <1>2, <1>4, <2>1, <3>1 DEF TicketOK
  <2> QED BY <2>2, <2>3
<1> QED BY <1>3, <1>4, <1>5 DEF DeskInv

\* The commit of a message or of a closing, whose UPDATE holds the status only if it
\* differs from the loaded one (add_message, close).
LEMMA WriteKeepsInv ==
  ASSUME DeskInv, NEW t \in DeskTasks, dkTask[t].kind \in {"user", "admin", "close"},
         NEW status \in {"open", "answered", "closed"}, NEW last \in {"user", "admin"},
         Written(dkTask[t].ticket, dkTask[t].status, status),
         NEW rest \in {NoDeskTask, Clearing}, dkTask' = [dkTask EXCEPT ![t] = rest],
         \/ dkLast' = [dkLast EXCEPT ![dkTask[t].ticket] = last]
              /\ status = (IF last = "admin" THEN "answered" ELSE "open")
         \/ dkLast' = dkLast /\ status = "closed",
         UNCHANGED <<dkTarget, dkForm, dkAdmin, dkOverlap, dkArrived>>
  PROVE  DeskInv'
<1> DEFINE k == dkTask[t].ticket
<1>1. k \in Tickets /\ dkTask[t].status \in TicketStatus
  BY DeskTaskTypes
<1>2. dkStatus \in [Tickets -> TicketStatus] /\ dkLast \in [Tickets -> {"none", "user", "admin"}]
  BY DEF DeskInv, DeskTypeOK, TicketStatus
<1>3. /\ dkStatus' \in [Tickets -> TicketStatus]
      /\ \A j \in Tickets \ {k} : dkStatus'[j] = dkStatus[j]
      /\ dkTask[t].status = dkStatus[k] => dkStatus'[k] = status
      /\ dkStatus'[k] \in {status, dkStatus[k]}
  BY <1>1, <1>2 DEF Written, TicketStatus, ACTIVE
<1>4. /\ dkLast' \in [Tickets -> {"none", "user", "admin"}]
      /\ \A j \in Tickets \ {k} : dkLast'[j] = dkLast[j]
      /\ status # "closed" => dkLast'[k] = (IF status = "answered" THEN "admin" ELSE "user")
  BY <1>1, <1>2
<1>5. DeskTypeOK'
  BY <1>3, <1>4 DEF DeskInv, DeskTypeOK, TicketStatus
<1>6. /\ dkTask' \in [DeskTasks -> DeskTaskSet]
      /\ \A r \in DeskTasks :
           dkTask'[r].ticket \in Tickets => r # t /\ dkTask'[r] = dkTask[r]
  BY DeskAssumption DEF DeskInv, DeskTaskSet, NoDeskTask, Clearing
<1> HIDE DEF k
<1>7. ASSUME NEW j \in Tickets PROVE TicketOK(j)'
  <2>1. TicketOK(j)
    BY DEF DeskInv
  <2>2. CASE j # k
    BY <1>3, <1>4, <1>6, <2>1, <2>2 DEF TicketOK
  <2>3. CASE j = k
    <3>1. dkStatus[k] # "none" /\ dkStatus'[k] # "none"
      BY <1>3, <2>1, <2>3 DEF TicketOK, k
    <3>2. CASE k \in dkOverlap
      BY <2>3, <3>1, <3>2 DEF TicketOK
    <3>3. CASE k \notin dkOverlap
      <4>1. dkTask[t].status = dkStatus[k] /\ \A r \in DeskTasks : dkTask[r].ticket = k => r = t
        BY <2>1, <2>3, <3>3 DEF TicketOK, k
      <4>2. dkStatus'[k] = status /\ \A r \in DeskTasks : dkTask'[r].ticket # k
        BY <1>1, <1>3, <1>6, <4>1 DEF k
      <4> QED BY <1>4, <2>3, <3>1, <4>2 DEF TicketOK
    <3> QED BY <3>2, <3>3
  <2> QED BY <2>2, <2>3
<1> QED BY <1>5, <1>6, <1>7 DEF DeskInv

\* What every ticket is like, in every run.
LEMMA TicketsAreOK == DeskSpec => []DeskInv
<1>1. DeskInit => DeskInv
  <2> SUFFICES ASSUME DeskInit PROVE DeskInv
    OBVIOUS
  <2>1. DeskTypeOK
    BY DeskAssumption DEF DeskInit, DeskTypeOK, NoForm, Targeted, ACTIVE
  <2>2. dkTask \in [DeskTasks -> DeskTaskSet]
        /\ \A t \in DeskTasks : dkTask[t].ticket = "none"
    BY DEF DeskInit, DeskTaskSet, NoDeskTask
  <2>3. ASSUME NEW k \in Tickets PROVE TicketOK(k)
    <3>1. dkStatus[k] = "none" /\ k # "none"
      BY DeskAssumption DEF DeskInit
    <3> QED BY <2>2, <3>1 DEF TicketOK
  <2> QED BY <2>1, <2>2, <2>3 DEF DeskInv
<1>2. DeskInv /\ [DeskNext]_dkVars => DeskInv'
  <2> SUFFICES ASSUME DeskInv, [DeskNext]_dkVars PROVE DeskInv'
    OBVIOUS
  <2>1. CASE UNCHANGED dkVars
    BY <2>1 DEF dkVars, DeskInv, DeskTypeOK, TicketOK
  <2>2. CASE SupportClose \/ TicketReply \/ TicketClose \/ PlatformSupportReply
             \/ PlatformSupportClose
    <3>1. dkForm' = dkForm
          /\ \E k \in Tickets, kind \in {"user", "admin", "close"} : Loads(kind, k)
      BY <2>2 DEF SupportClose, TicketReply, TicketClose, PlatformSupportReply,
                  PlatformSupportClose, Operator
    <3> QED BY <3>1, LoadKeepsInv DEF DeskInv, DeskTypeOK
  <2>3. ASSUME NEW t \in DeskTasks, AddMessage(t) PROVE DeskInv'
    <3>1. CASE dkTask[t].kind = "admin"
      BY <2>3, <3>1, WriteKeepsInv DEF AddMessage, StatusAfter
    <3>2. CASE dkTask[t].kind = "user"
      BY <2>3, <3>2, WriteKeepsInv DEF AddMessage, StatusAfter
    <3> QED BY <2>3, <3>1, <3>2 DEF AddMessage
  <2>4. ASSUME NEW t \in DeskTasks, CloseTicket(t) PROVE DeskInv'
    BY <2>4, WriteKeepsInv DEF CloseTicket
  <2>5. ASSUME NEW t \in DeskTasks, FormCleared(t) PROVE DeskInv'
    <3>1. NoForm \in [state : {"none", "subject", "message"}, ticket : Tickets \cup {"none"},
                      target : Targeted]
      BY DEF NoForm, Targeted
    <3>2. /\ dkForm' = NoForm /\ dkTask' = [dkTask EXCEPT ![t] = NoDeskTask]
          /\ UNCHANGED <<dkStatus, dkTarget, dkLast, dkAdmin, dkOverlap, dkArrived>>
      BY <2>5 DEF FormCleared
    <3>3. DeskTypeOK'
      BY <3>1, <3>2 DEF DeskInv, DeskTypeOK
    <3>4. /\ dkTask' \in [DeskTasks -> DeskTaskSet]
          /\ \A r \in DeskTasks : dkTask'[r].ticket \in Tickets => dkTask'[r] = dkTask[r]
      BY <3>2, DeskAssumption DEF DeskInv, DeskTaskSet, NoDeskTask
    <3>5. \A k \in Tickets : TicketOK(k)'
      BY <3>2, <3>4 DEF DeskInv, TicketOK
    <3> QED BY <3>3, <3>4, <3>5 DEF DeskInv
  <2> QED BY <2>1, <2>2, <2>3, <2>4, <2>5, FormKeepsInv, MessageKeepsInv, OpenKeepsInv
          DEF DeskNext
<1> QED BY <1>1, <1>2, PTL DEF DeskSpec

\* Types of the tickets, the opener's form and the requests.
THEOREM DeskTypeCorrect == DeskSpec => []DeskTypeOK
<1>1. DeskInv => DeskTypeOK
  BY DEF DeskInv
<1> QED BY <1>1, TicketsAreOK, PTL

\* A ticket only one request at a time worked on is filed by whoever spoke last
\* (add_message), for any number of tickets and requests.
THEOREM LastWordAlwaysDecides == DeskSpec => []LastWordDecides
<1>1. DeskInv => LastWordDecides
  BY DEF DeskInv, TicketOK, LastWordDecides
<1> QED BY <1>1, TicketsAreOK, PTL

-----------------------------------------------------------------------------
(* Community: the counters of a file are the rows of its reactions. *)

Pairs == Fans \X Reactions
TapTask == [kind : {"set", "insert", "clear"}, pair : Pairs]
           \cup [kind : {"accept", "dismiss"}, user : Fans] \cup {NoTap}

\* The rows a tap has locked exist, are the user's opposites of what it inserts, and
\* nobody else's.
LocksOK ==
  /\ \A t \in Taps :
       /\ cmLocked[t] \subseteq cmRows
       /\ cmLocked[t] # {} => cmTap[t].kind = "insert"
       /\ \A p \in cmLocked[t] : p[1] = cmTap[t].pair[1]
  /\ \A t, r \in Taps : t # r => cmLocked[t] \cap cmLocked[r] = {}

CmInv ==
  /\ CommunityTypeOK /\ cmTap \in [Taps -> TapTask]
  /\ LocksOK /\ IsFiniteSet(cmRows) /\ CountersMatchRows

RowsOf(rows, k) == {p \in rows : p[2] = k}

\* Deleting rows of one user lowers the counters of their kinds by one each (_remove).
LEMMA LowerCounts ==
  ASSUME CmInv, NEW u, NEW gone \in SUBSET cmRows, \A p \in gone : p[1] = u
  PROVE  /\ Lower(gone) \in [Reactions -> Nat]
         /\ \A k \in Reactions : Lower(gone)[k] = Cardinality(RowsOf(cmRows \ gone, k))
<1>1. ASSUME NEW k \in Reactions
      PROVE  /\ Lower(gone)[k] \in Nat
             /\ Lower(gone)[k] = Cardinality(RowsOf(cmRows \ gone, k))
  <2>1. /\ IsFiniteSet(RowsOf(cmRows, k)) /\ cmCount[k] = Cardinality(RowsOf(cmRows, k))
        /\ cmCount[k] \in Nat
    <3>1. RowsOf(cmRows, k) \subseteq cmRows
      BY DEF RowsOf
    <3>2. IsFiniteSet(RowsOf(cmRows, k))
      BY <3>1, FS_Subset DEF CmInv
    <3> QED BY <3>2 DEF CmInv, CountersMatchRows, RowsOf, CommunityTypeOK
  <2>2. Lower(gone)[k] = IF (\E p \in gone : p[2] = k) /\ cmCount[k] > 0
                         THEN cmCount[k] - 1 ELSE cmCount[k]
    BY DEF Lower
  <2>3. CASE \E p \in gone : p[2] = k
    <3>1. PICK p \in gone : p[2] = k
      BY <2>3
    <3>2. \A q \in gone : q[2] = k => q = p
      BY <3>1 DEF CmInv, CommunityTypeOK
    <3>3. RowsOf(cmRows \ gone, k) = RowsOf(cmRows, k) \ {p} /\ p \in RowsOf(cmRows, k)
      BY <3>1, <3>2 DEF RowsOf
    <3>4. cmCount[k] # 0
      BY <2>1, <3>3, FS_EmptySet
    <3> DEFINE S == RowsOf(cmRows, k)
    <3>5. IsFiniteSet(S) /\ p \in S /\ cmCount[k] = Cardinality(S)
      BY <2>1, <3>3
    <3> HIDE DEF S
    <3>6. Cardinality(S \ {p}) = Cardinality(S) - 1
      BY <3>5, FS_RemoveElement
    <3>7. cmCount[k] > 0 /\ cmCount[k] - 1 \in Nat
      BY <2>1, <3>4
    <3>8. Lower(gone)[k] = cmCount[k] - 1
      BY <2>2, <2>3, <3>7
    <3>9. Cardinality(RowsOf(cmRows \ gone, k)) = cmCount[k] - 1
      BY <3>3, <3>5, <3>6 DEF S
    <3> QED BY <3>7, <3>8, <3>9
  <2>4. CASE ~ \E p \in gone : p[2] = k
    <3>1. RowsOf(cmRows \ gone, k) = RowsOf(cmRows, k)
      BY <2>4 DEF RowsOf
    <3> QED BY <2>1, <2>2, <2>4, <3>1
  <2> QED BY <2>3, <2>4
<1> QED BY <1>1 DEF Lower

\* What the rows and counters of a step have to be.
LEMMA CountersHold ==
  ASSUME \A k \in Reactions : cmCount'[k] = Cardinality(RowsOf(cmRows', k))
  PROVE  CountersMatchRows'
BY DEF CountersMatchRows, RowsOf

\* The tap on a reaction that was there.
LEMMA ClearKeepsInv == ASSUME CmInv, NEW t \in Taps, ReactionCleared(t) PROVE CmInv'
<1> DEFINE pair == cmTap[t].pair
           gone == {pair} \cap cmRows
<1>1. /\ Unlocked({pair}) /\ cmCount' = Lower(gone) /\ cmRows' = cmRows \ {pair}
      /\ cmTap' = [cmTap EXCEPT ![t] = NoTap]
      /\ UNCHANGED <<cmLocked, cmComment, cmReport, cmActive, cmArrived>>
  BY DEF ReactionCleared, TapEnds, OnlyReactions, Removed
<1>2. CommunityTypeOK /\ cmTap \in [Taps -> TapTask] /\ LocksOK /\ IsFiniteSet(cmRows)
      /\ cmTap[t].kind = "clear"
  BY DEF CmInv, ReactionCleared
<1>3. gone \in SUBSET cmRows /\ (\A p \in gone : p[1] = pair[1]) /\ cmRows' = cmRows \ gone
  BY <1>1
<1>4. Lower(gone) \in [Reactions -> Nat]
      /\ \A k \in Reactions : Lower(gone)[k] = Cardinality(RowsOf(cmRows \ gone, k))
  BY <1>3, LowerCounts
<1> HIDE DEF gone, pair
<1>5. CountersMatchRows'
  BY <1>1, <1>3, <1>4, CountersHold
<1>6. cmTap' \in [Taps -> TapTask] /\ \A r \in Taps \ {t} : cmTap'[r] = cmTap[r]
  BY <1>1, <1>2 DEF TapTask
<1>7. LocksOK'
  <2>1. cmLocked[t] = {} /\ \A r \in Taps : cmLocked[r] \subseteq cmRows'
    BY <1>1, <1>2 DEF LocksOK, Unlocked
  <2> QED BY <1>1, <1>2, <1>6, <2>1 DEF LocksOK
<1>8. IsFiniteSet(cmRows')
  BY <1>2, <1>3, FS_Subset
<1>9. CommunityTypeOK'
  BY <1>1, <1>2, <1>3, <1>4 DEF CommunityTypeOK
<1> QED BY <1>5, <1>6, <1>7, <1>8, <1>9 DEF CmInv

\* The DELETE of the opposite locks what it found.
LEMMA OppositeKeepsInv == ASSUME CmInv, NEW t \in Taps, OppositeCleared(t) PROVE CmInv'
<1> DEFINE p == {<<cmTap[t].pair[1], k>> : k \in Opposite(cmTap[t].pair[2])}
<1>1. CommunityTypeOK /\ cmTap \in [Taps -> TapTask] /\ LocksOK /\ cmTap[t].kind = "set"
      /\ IsFiniteSet(cmRows) /\ CountersMatchRows
  BY DEF CmInv, OppositeCleared
<1>2. /\ Unlocked(p) /\ cmLocked' = [cmLocked EXCEPT ![t] = p \cap cmRows]
      /\ cmTap' = [cmTap EXCEPT ![t].kind = "insert"]
      /\ UNCHANGED <<cmRows, cmCount, cmComment, cmReport, cmActive, cmArrived>>
  BY DEF OppositeCleared, TapGoes, OnlyReactions
<1>3. \A q \in p : q[1] = cmTap[t].pair[1]
  OBVIOUS
<1> HIDE DEF p
<1>4. /\ cmTap' \in [Taps -> TapTask] /\ cmTap'[t].kind = "insert"
      /\ cmTap'[t].pair = cmTap[t].pair /\ \A r \in Taps \ {t} : cmTap'[r] = cmTap[r]
  <2>1. cmTap[t] \in [kind : {"set", "insert", "clear"}, pair : Pairs]
    BY <1>1 DEF TapTask, NoTap
  <2>2. [cmTap[t] EXCEPT !.kind = "insert"] \in [kind : {"set", "insert", "clear"}, pair : Pairs]
        /\ [cmTap[t] EXCEPT !.kind = "insert"].kind = "insert"
        /\ [cmTap[t] EXCEPT !.kind = "insert"].pair = cmTap[t].pair
    BY <2>1
  <2> QED BY <1>1, <1>2, <2>2 DEF TapTask
<1>5. /\ cmLocked' \in [Taps -> SUBSET Pairs] /\ cmLocked'[t] = p \cap cmRows
      /\ \A r \in Taps \ {t} : cmLocked'[r] = cmLocked[r] /\ cmLocked[r] \cap p = {}
  BY <1>1, <1>2 DEF CommunityTypeOK, Unlocked, Pairs
<1>6. LocksOK'
  BY <1>1, <1>2, <1>3, <1>4, <1>5 DEF LocksOK
<1>7. CommunityTypeOK' /\ CountersMatchRows'
  BY <1>1, <1>2, <1>5 DEF CommunityTypeOK, CountersMatchRows, Pairs
<1> QED BY <1>1, <1>2, <1>4, <1>6, <1>7 DEF CmInv

\* The INSERT, and the commit of all of it.
LEMMA InsertKeepsInv == ASSUME CmInv, NEW t \in Taps, ReactionSet(t) PROVE CmInv'
<1> DEFINE pair == cmTap[t].pair
           rest == cmRows \ cmLocked[t]
<1>1. CommunityTypeOK /\ cmTap \in [Taps -> TapTask] /\ LocksOK /\ IsFiniteSet(cmRows)
      /\ cmTap[t].kind = "insert" /\ pair \notin cmRows
  BY DEF CmInv, ReactionSet
<1>2. /\ cmRows' = rest \cup {pair}
      /\ cmCount' = [Lower(cmLocked[t]) EXCEPT ![pair[2]] = @ + 1]
      /\ cmLocked' = [cmLocked EXCEPT ![t] = {}]
      /\ cmTap' = [cmTap EXCEPT ![t] = NoTap]
      /\ UNCHANGED <<cmComment, cmReport, cmActive, cmArrived>>
  BY DEF ReactionSet, TapEnds, OnlyReactions
<1>3. pair \in Pairs /\ pair[2] \in Reactions
  BY <1>1 DEF TapTask, NoTap, Pairs
<1>4. /\ Lower(cmLocked[t]) \in [Reactions -> Nat]
      /\ \A k \in Reactions : Lower(cmLocked[t])[k] = Cardinality(RowsOf(rest, k))
  <2>1. cmLocked[t] \in SUBSET cmRows /\ \A p \in cmLocked[t] : p[1] = pair[1]
    BY <1>1 DEF LocksOK
  <2> QED BY <2>1, LowerCounts
<1>5. IsFiniteSet(rest) /\ rest \subseteq Pairs /\ pair \notin rest
  BY <1>1, FS_Subset DEF CommunityTypeOK, Pairs
<1> HIDE DEF pair, rest
<1>6. ASSUME NEW k \in Reactions PROVE cmCount'[k] = Cardinality(RowsOf(cmRows', k))
  <2>1. RowsOf(rest, k) \subseteq rest /\ pair \notin RowsOf(rest, k)
    BY <1>5 DEF RowsOf
  <2>2. IsFiniteSet(RowsOf(rest, k))
    BY <1>5, <2>1, FS_Subset
  <2>3. CASE k = pair[2]
    <3>1. RowsOf(cmRows', k) = RowsOf(rest, k) \cup {pair}
      BY <1>2, <2>3 DEF RowsOf
    <3>2. Cardinality(RowsOf(cmRows', k)) = Cardinality(RowsOf(rest, k)) + 1
      BY <2>1, <2>2, <3>1, FS_AddElement
    <3> QED BY <1>2, <1>4, <2>3, <3>2
  <2>4. CASE k # pair[2]
    <3>1. RowsOf(cmRows', k) = RowsOf(rest, k)
      BY <1>2, <2>4 DEF RowsOf
    <3> QED BY <1>2, <1>4, <2>4, <3>1
  <2> QED BY <2>3, <2>4
<1>7. CountersMatchRows'
  BY <1>6, CountersHold
<1>8. cmCount' \in [Reactions -> Nat]
  BY <1>2, <1>3, <1>4
<1>9. IsFiniteSet(cmRows') /\ cmRows' \subseteq Pairs
  BY <1>2, <1>3, <1>5, FS_AddElement
<1>10. /\ cmTap' \in [Taps -> TapTask] /\ \A r \in Taps \ {t} : cmTap'[r] = cmTap[r]
       /\ cmLocked' \in [Taps -> SUBSET Pairs] /\ cmLocked'[t] = {}
       /\ \A r \in Taps \ {t} : cmLocked'[r] = cmLocked[r]
  BY <1>1, <1>2 DEF TapTask, CommunityTypeOK, Pairs
<1>11. LocksOK'
  <2>1. \A r \in Taps \ {t} : cmLocked[r] \subseteq cmRows'
    BY <1>1, <1>2 DEF LocksOK, rest
  <2> QED BY <1>1, <1>10, <2>1 DEF LocksOK
<1>12. CommunityTypeOK'
  BY <1>1, <1>2, <1>8, <1>9, <1>10 DEF CommunityTypeOK, Pairs
<1> QED BY <1>7, <1>9, <1>10, <1>11, <1>12 DEF CmInv

\* The steps that touch no reaction: a tap that arrives or ends, comments, reports.
LEMMA NoReactionKeepsInv ==
  ASSUME CmInv, UNCHANGED <<cmRows, cmCount>>,
         cmTap' \in [Taps -> TapTask],
         cmLocked' \in [Taps -> SUBSET Pairs],
         \A r \in Taps : /\ cmLocked'[r] \in {cmLocked[r], {}}
                         /\ cmLocked'[r] # {} => cmTap'[r] = cmTap[r],
         cmComment' \in [Fans -> {"none", "pending", "approved", "rejected"}],
         cmReport' \in [Fans -> {"none", "pending", "reviewed", "dismissed"}],
         cmActive' \in BOOLEAN, cmArrived' \in 0..MaxTaps
  PROVE  CmInv'
<1>1. LocksOK'
  BY DEF CmInv, LocksOK
<1>2. CommunityTypeOK'
  BY DEF CmInv, CommunityTypeOK, Pairs
<1> QED BY <1>1, <1>2 DEF CmInv, CountersMatchRows

\* A tap that arrives takes a free place, which has locked nothing.
LEMMA TapKeepsInv ==
  ASSUME CmInv, NEW task \in TapTask, TapArrives(task), OnlyTaps PROVE CmInv'
<1>1. PICK t \in Taps : cmTap[t] = NoTap /\ cmTap' = [cmTap EXCEPT ![t] = task]
  BY DEF TapArrives
<1>2. cmTap' \in [Taps -> TapTask] /\ (\A r \in Taps \ {t} : cmTap'[r] = cmTap[r])
      /\ cmLocked[t] = {}
  BY <1>1 DEF CmInv, LocksOK, NoTap
<1>3. cmArrived' \in 0..MaxTaps
  BY CommunityAssumption DEF TapArrives, CmInv, CommunityTypeOK
<1> QED BY <1>2, <1>3, NoReactionKeepsInv DEF OnlyTaps, CmInv, CommunityTypeOK, Pairs

\* Comments and reports from the bot and the panel.
LEMMA WordsKeepInv ==
  ASSUME CmInv, CommentCreate \/ CommentSetStatus \/ CommentDelete \/ ReportCreate PROVE CmInv'
<1>1. UNCHANGED <<cmRows, cmCount, cmLocked, cmTap, cmActive>> /\ cmArrived' \in 0..MaxTaps
  BY CommunityAssumption DEF CommentCreate, CommentSetStatus, CommentDelete, ReportCreate,
                             NoReaction, CmInv, CommunityTypeOK
<1>2. cmComment' \in [Fans -> {"none", "pending", "approved", "rejected"}]
      /\ cmReport' \in [Fans -> {"none", "pending", "reviewed", "dismissed"}]
  BY DEF CommentCreate, CommentSetStatus, CommentDelete, ReportCreate, CmInv, CommunityTypeOK
<1> QED BY <1>1, <1>2, NoReactionKeepsInv DEF CmInv, CommunityTypeOK, Pairs

\* The ends of requests that leave the reactions as they are: the twin of an INSERT,
\* the verdicts on a report.
LEMMA EndKeepsInv ==
  ASSUME CmInv, NEW t \in Taps, ReactionTwin(t) \/ ReviewDeactivate(t) \/ Dismiss(t)
  PROVE  CmInv'
<1>1. cmTap' = [cmTap EXCEPT ![t] = NoTap] /\ UNCHANGED <<cmRows, cmCount, cmArrived, cmComment>>
  BY DEF ReactionTwin, ReviewDeactivate, Dismiss, TapEnds, OnlyReactions, NoReaction
<1>2. cmTap' \in [Taps -> TapTask] /\ \A r \in Taps \ {t} : cmTap'[r] = cmTap[r]
  BY <1>1 DEF CmInv, TapTask
<1>3. cmReport' \in [Fans -> {"none", "pending", "reviewed", "dismissed"}]
      /\ cmActive' \in BOOLEAN
  BY DEF ReactionTwin, ReviewDeactivate, Dismiss, OnlyReactions, CmInv, CommunityTypeOK
<1>4. /\ cmLocked' \in [Taps -> SUBSET Pairs] /\ cmLocked'[t] = {}
      /\ \A r \in Taps \ {t} : cmLocked'[r] = cmLocked[r]
  <2>1. CASE ReactionTwin(t)
    BY <2>1 DEF ReactionTwin, CmInv, CommunityTypeOK, Pairs
  <2>2. CASE ReviewDeactivate(t) \/ Dismiss(t)
    BY <2>2 DEF ReviewDeactivate, Dismiss, NoReaction, CmInv, CommunityTypeOK, LocksOK, Pairs
  <2> QED BY <2>1, <2>2
<1> QED BY <1>1, <1>2, <1>3, <1>4, NoReactionKeepsInv DEF CmInv, CommunityTypeOK

\* Locks and counters, in every run.
LEMMA CountersAlwaysMatch == CommunitySpec => []CmInv
<1>1. CommunityInit => CmInv
  <2> SUFFICES ASSUME CommunityInit PROVE CmInv
    OBVIOUS
  <2>1. CommunityTypeOK /\ LocksOK /\ cmTap \in [Taps -> TapTask]
    BY CommunityAssumption DEF CommunityInit, CommunityTypeOK, LocksOK, TapTask
  <2>2. IsFiniteSet(cmRows) /\ \A k \in Reactions : {p \in cmRows : p[2] = k} = {}
    BY FS_EmptySet DEF CommunityInit
  <2>3. CountersMatchRows
    BY <2>2, FS_EmptySet DEF CommunityInit, CountersMatchRows
  <2> QED BY <2>1, <2>2, <2>3 DEF CmInv
<1>2. CmInv /\ [CommunityNext]_cmVars => CmInv'
  <2> SUFFICES ASSUME CmInv, [CommunityNext]_cmVars PROVE CmInv'
    OBVIOUS
  <2>1. CASE UNCHANGED cmVars
    BY <2>1 DEF cmVars, CmInv, CommunityTypeOK, LocksOK, CountersMatchRows
  <2>2. CASE ReactToggle
    <3>1. PICK u \in Fans, k \in Reactions :
            TapArrives([kind |-> IF <<u, k>> \in cmRows THEN "clear" ELSE "set",
                        pair |-> <<u, k>>])
      BY <2>2 DEF ReactToggle
    <3> DEFINE task == [kind |-> IF <<u, k>> \in cmRows THEN "clear" ELSE "set",
                        pair |-> <<u, k>>]
    <3>2. task \in TapTask
      BY DEF TapTask, Pairs
    <3>3. TapArrives(task) /\ OnlyTaps
      BY <2>2, <3>1 DEF ReactToggle
    <3> HIDE DEF task
    <3> QED BY <3>2, <3>3, TapKeepsInv
  <2>3. CASE ReportsDeactivate \/ ReportsDismiss
    <3>1. PICK verdict \in {"accept", "dismiss"}, u \in Fans :
            TapArrives([kind |-> verdict, user |-> u])
      BY <2>3 DEF ReportsDeactivate, ReportsDismiss, ReportBegins
    <3> DEFINE task == [kind |-> verdict, user |-> u]
    <3>2. task \in TapTask
      BY DEF TapTask
    <3>3. TapArrives(task) /\ OnlyTaps
      BY <2>3, <3>1 DEF ReportsDeactivate, ReportsDismiss, ReportBegins
    <3> HIDE DEF task
    <3> QED BY <3>2, <3>3, TapKeepsInv
  <2> QED BY <2>1, <2>2, <2>3, WordsKeepInv, ClearKeepsInv, OppositeKeepsInv, InsertKeepsInv,
             EndKeepsInv DEF CommunityNext
<1> QED BY <1>1, <1>2, PTL DEF CommunitySpec

\* Types of rows, counters, locks, comments and reports.
THEOREM CommunityTypeCorrect == CommunitySpec => []CommunityTypeOK
<1>1. CmInv => CommunityTypeOK
  BY DEF CmInv
<1> QED BY <1>1, CountersAlwaysMatch, PTL

\* The counters on a file are the reactions to it, for any users and overlaps of taps
\* (ReactionService.toggle).
THEOREM CountersAlwaysMatchRows == CommunitySpec => []CountersMatchRows
<1>1. CmInv => CountersMatchRows
  BY DEF CmInv
<1> QED BY <1>1, CountersAlwaysMatch, PTL

-----------------------------------------------------------------------------
(* Licensing: paid actions end with the grace period. *)

\* A row of license, and a request in flight with the row it loaded.
LiRow == [status : Answers \cup {"inactive"}, expires : Nat, ok : Nat, checked : Nat]
LiCall == [at : {"activate", "check", "bind", "answered"}, install : Installs, seen : LiRow,
           answer : Answers \cup {"none", "bind"}, until : Nat]

LiTypes ==
  /\ LicenseTypeOK
  /\ liCall \in [LiCalls -> LiCall \cup {NoCall}]

\* The day of the last good check is a day on which the key was good, and an active row
\* has one.
RowsKnowADay ==
  \A i \in Installs : /\ liRow[i].ok = Never \/ liRow[i].ok <= liLive
                      /\ liRow[i].status = "active" => liRow[i].ok # Never

\* An answer that says active, or a seat about to be taken, is from a day on which the
\* key was good, and that day is not over.
AnswersAreOfToday ==
  \A c \in LiCalls :
    liCall[c] # NoCall /\ (liCall[c].at = "bind" \/ liCall[c].answer = "active") => liLive = liDay

LiInv ==
  /\ LiTypes /\ RowsKnowADay /\ AnswersAreOfToday
  /\ liLive <= liDay
  /\ LicenseState = "active" => liLive = liDay

\* Commands of the seller: the key changes, and if it is good it is good today.
LEMMA KeyKeepsInv ==
  ASSUME LiInv, liKey' \in [status : {"active", "revoked"}, expires : Nat, seats : Nat],
         liMade' \in 0..MaxLiCalls, UNCHANGED <<liDay, liSeats, liRow, liCall>>,
         liLive' = IF LicenseState' = "active" THEN liDay' ELSE liLive
  PROVE  LiInv'
<1>1. LiTypes /\ LicenseTypeOK /\ liLive <= liDay
  BY DEF LiInv, LiTypes
<1>2. liLive' \in 0..MaxDays /\ (liLive' = liLive \/ liLive' = liDay) /\ liLive <= liLive'
      /\ liLive' <= liDay
  BY <1>1 DEF LicenseTypeOK
<1>3. LiTypes'
  BY <1>1, <1>2 DEF LiTypes, LicenseTypeOK
<1>4. RowsKnowADay'
  <2>1. \A i \in Installs : liRow[i].ok \in Nat
    BY <1>1 DEF LicenseTypeOK
  <2>2. liLive \in Nat /\ liLive' \in Nat
    BY <1>1, <1>2 DEF LicenseTypeOK
  <2> QED BY <1>2, <2>1, <2>2 DEF LiInv, RowsKnowADay, Never
<1>5. AnswersAreOfToday'
  BY <1>1, <1>2 DEF LiInv, AnswersAreOfToday, LicenseTypeOK
<1>6. LicenseState' = "active" => liLive' = liDay'
  OBVIOUS
<1> QED BY <1>2, <1>3, <1>4, <1>5, <1>6 DEF LiInv

\* The seller issues or renews a key.
LEMMA IssueKeepsInv == ASSUME LiInv, Issue PROVE LiInv'
<1>1. LicenseTypeOK /\ MaxDays \in Nat /\ MaxLiCalls \in Nat
  BY LicenseAssumption DEF LiInv, LiTypes
<1>2. PICK n \in 1..2, e \in {liDay + 1, Never} :
        liKey' = [status |-> "active", expires |-> e, seats |-> n]
  BY DEF Issue
<1>3. e \in Nat /\ n \in Nat
  BY <1>1 DEF LicenseTypeOK, Never
<1>4. liKey' \in [status : {"active", "revoked"}, expires : Nat, seats : Nat]
  BY <1>2, <1>3
<1>5. liMade' \in 0..MaxLiCalls
  BY <1>1 DEF Issue, Spent, LicenseTypeOK
<1> QED BY <1>4, <1>5, KeyKeepsInv DEF Issue, LiveNow

\* The seller revokes it: the day it was last good on stays.
LEMMA RevokeKeepsInv == ASSUME LiInv, Revoke PROVE LiInv'
<1>1. LicenseTypeOK /\ MaxLiCalls \in Nat
  BY LicenseAssumption DEF LiInv, LiTypes
<1>2. liKey' \in [status : {"active", "revoked"}, expires : Nat, seats : Nat]
      /\ liKey'.status = "revoked"
  BY <1>1 DEF Revoke, LicenseTypeOK
<1>3. liMade' \in 0..MaxLiCalls
  BY <1>1 DEF Revoke, Spent, LicenseTypeOK
<1>4. LicenseState' = "revoked"
  BY <1>2 DEF LicenseState
<1> QED BY <1>2, <1>3, <1>4, KeyKeepsInv DEF Revoke

\* The day ends with no request in flight: what was good yesterday may not be today.
LEMMA NextDayKeepsInv == ASSUME LiInv, NextDay PROVE LiInv'
<1>1. LiTypes /\ LicenseTypeOK /\ RowsKnowADay /\ liLive <= liDay /\ MaxDays \in Nat
  BY LicenseAssumption DEF LiInv, LiTypes
<1>2. liDay' \in 0..MaxDays /\ liLive' \in 0..MaxDays /\ liLive <= liLive' /\ liLive' <= liDay'
      /\ liLive \in Nat /\ liLive' \in Nat
      /\ UNCHANGED <<liKey, liSeats, liRow, liCall, liMade>>
  BY <1>1 DEF NextDay, LiveNow, LicenseTypeOK
<1>3. LiTypes'
  BY <1>1, <1>2 DEF LiTypes, LicenseTypeOK
<1>4. RowsKnowADay'
  <2>1. \A i \in Installs : liRow[i].ok \in Nat
    BY <1>1 DEF LicenseTypeOK
  <2> QED BY <1>1, <1>2, <2>1 DEF RowsKnowADay, Never
<1>5. AnswersAreOfToday'
  <2>1. \A c \in LiCalls : liCall'[c] = NoCall
    <3> SUFFICES ASSUME NEW c \in LiCalls PROVE liCall[c] = NoCall
      BY <1>2
    <3>1. liCall[c] \in LiCall \cup {NoCall} /\ liCall[c].at = "idle"
      BY <1>1 DEF NextDay, CallIs, LiTypes
    <3> QED BY <3>1 DEF LiCall
  <2> QED BY <2>1 DEF AnswersAreOfToday
<1>6. LicenseState' = "active" => liLive' = liDay'
  BY DEF NextDay, LiveNow
<1> QED BY <1>2, <1>3, <1>4, <1>5, <1>6 DEF LiInv

\* A request moves: the new call is one of today, or is over.
LEMMA CallKeepsInv ==
  ASSUME LiInv, NEW c \in LiCalls, NEW call \in LiCall \cup {NoCall}, CallGoes(c, call),
         call # NoCall /\ (call.at = "bind" \/ call.answer = "active") => liLive = liDay,
         liSeats' \subseteq Installs, liMade' \in 0..MaxLiCalls,
         liRow' \in [Installs -> LiRow],
         \A i \in Installs : /\ liRow'[i].ok = Never \/ liRow'[i].ok <= liLive
                             /\ liRow'[i].status = "active" => liRow'[i].ok # Never,
         UNCHANGED <<liDay, liKey, liLive>>
  PROVE  LiInv'
<1>1. LiTypes /\ LicenseTypeOK /\ AnswersAreOfToday
  BY DEF LiInv, LiTypes
<1>2. liCall' \in [LiCalls -> LiCall \cup {NoCall}] /\ liCall'[c] = call
      /\ \A d \in LiCalls \ {c} : liCall'[d] = liCall[d]
  BY <1>1 DEF CallGoes, LiTypes
<1>3. LiTypes'
  BY <1>1, <1>2 DEF LiTypes, LicenseTypeOK, LiRow
<1>4. RowsKnowADay'
  BY DEF RowsKnowADay, Never
<1>5. AnswersAreOfToday'
  <2> SUFFICES ASSUME NEW d \in LiCalls, liCall'[d] # NoCall,
                      liCall'[d].at = "bind" \/ liCall'[d].answer = "active"
               PROVE  liLive = liDay
    BY DEF AnswersAreOfToday
  <2>1. CASE d = c
    BY <1>2, <2>1
  <2>2. CASE d # c
    BY <1>1, <1>2, <2>2 DEF AnswersAreOfToday
  <2> QED BY <2>1, <2>2
<1>6. LicenseState' = LicenseState
  BY DEF LicenseState
<1> QED BY <1>3, <1>4, <1>5, <1>6 DEF LiInv

\* The rows stay.
LEMMA RowsStay ==
  ASSUME LiInv, UNCHANGED liRow
  PROVE  /\ liRow' \in [Installs -> LiRow]
         /\ \A i \in Installs : /\ liRow'[i].ok = Never \/ liRow'[i].ok <= liLive
                                /\ liRow'[i].status = "active" => liRow'[i].ok # Never
BY DEF LiInv, LiTypes, LicenseTypeOK, LiRow, RowsKnowADay

\* A request starts from the row that is there.
LEMMA CallBeginsKeepsInv ==
  ASSUME LiInv, NEW i \in Installs, NEW at \in {"activate", "check"}, CallBegins(i, at)
  PROVE  LiInv'
<1> DEFINE call == [at |-> at, install |-> i, seen |-> liRow[i], answer |-> "none", until |-> Never]
<1>1. PICK c \in LiCalls : CallGoes(c, call)
  BY DEF CallBegins
<1>2. LicenseTypeOK /\ MaxLiCalls \in Nat /\ Never \in Nat
  BY LicenseAssumption DEF LiInv, LiTypes, Never
<1>3. liRow[i] \in LiRow
  BY <1>2 DEF LicenseTypeOK, LiRow
<1>4. call \in LiCall /\ call.at # "bind" /\ call.answer # "active"
  BY <1>2, <1>3 DEF LiCall
<1> HIDE DEF call
<1>5. liMade' \in 0..MaxLiCalls /\ liSeats' \subseteq Installs
      /\ UNCHANGED <<liDay, liKey, liRow, liLive>>
  BY <1>2 DEF CallBegins, Spent, LicenseTypeOK
<1> QED BY <1>1, <1>4, <1>5, RowsStay, CallKeepsInv

\* A call that is not idle has all its fields.
LEMMA BusyCall ==
  ASSUME LiInv, NEW c \in LiCalls, ~CallIs(c, "idle")
  PROVE  liCall[c] \in LiCall /\ liCall[c] # NoCall /\ liRow[liCall[c].install] \in LiRow
<1>1. liCall[c] \in LiCall \cup {NoCall} /\ liCall[c] # NoCall
  BY DEF LiInv, LiTypes, CallIs, NoCall
<1> QED BY <1>1 DEF LiInv, LiTypes, LicenseTypeOK, LiCall, LiRow

\* The server looks the key up: it refuses, confirms a seat, or goes on to take one.
LEMMA ServerActivateKeepsInv == ASSUME LiInv, NEW c \in LiCalls, ServerActivate(c) PROVE LiInv'
<1> DEFINE next == IF LicenseState # "active" THEN LicenseState
                   ELSE IF liCall[c].install \in liSeats THEN "active"
                   ELSE IF Cardinality(liSeats) >= liKey.seats THEN "seat_limit" ELSE "bind"
           call == [liCall[c] EXCEPT !.answer = next, !.until = liKey.expires,
                                     !.at = IF next = "bind" THEN "bind" ELSE "answered"]
<1>1. liCall[c] \in LiCall /\ liKey.expires \in Nat
  BY BusyCall DEF ServerActivate, CallIs, LiInv, LiTypes, LicenseTypeOK
<1>2. next \in Answers \cup {"none", "bind"}
      /\ (next = "bind" \/ next = "active" => LicenseState = "active")
  BY DEF LicenseState, Answers
<1>3. call \in LiCall /\ call.answer = next /\ (call.at = "bind" => next = "bind")
  <2> HIDE DEF next
  <2> QED BY <1>1, <1>2 DEF LiCall
<1>4. CallGoes(c, call)
  BY DEF ServerActivate
<1> HIDE DEF call, next
<1>5. liMade' \in 0..MaxLiCalls /\ liSeats' \subseteq Installs
      /\ UNCHANGED <<liDay, liKey, liRow, liLive>>
  BY DEF ServerActivate, OnlyCalls, LiInv, LiTypes, LicenseTypeOK
<1>6. call.at = "bind" \/ call.answer = "active" => liLive = liDay
  BY <1>2, <1>3 DEF LiInv
<1> QED BY <1>3, <1>4, <1>5, <1>6, RowsStay, CallKeepsInv

\* The seat is taken on the day the key was found good.
LEMMA ServerBindsKeepsInv == ASSUME LiInv, NEW c \in LiCalls, ServerBinds(c) PROVE LiInv'
<1> DEFINE says == IF liCall[c].install \in liSeats THEN "none" ELSE "active"
           call == [liCall[c] EXCEPT !.at = "answered", !.answer = says]
<1>1. liCall[c] \in LiCall /\ liCall[c] # NoCall
  BY BusyCall DEF ServerBinds, CallIs
<1>2. liLive = liDay
  BY <1>1 DEF ServerBinds, CallIs, LiInv, AnswersAreOfToday
<1>3. says \in Answers \cup {"none", "bind"}
  BY DEF Answers
<1>4. call \in LiCall /\ CallGoes(c, call)
  BY <1>1, <1>3 DEF LiCall, ServerBinds
<1> HIDE DEF call
<1>5. liMade' \in 0..MaxLiCalls /\ liSeats' \subseteq Installs
      /\ UNCHANGED <<liDay, liKey, liRow, liLive>>
  BY <1>1 DEF ServerBinds, OnlyCalls, LiInv, LiTypes, LicenseTypeOK, LiCall
<1> QED BY <1>2, <1>4, <1>5, RowsStay, CallKeepsInv

\* The server answers a daily check.
LEMMA ServerCheckKeepsInv == ASSUME LiInv, NEW c \in LiCalls, ServerCheck(c) PROVE LiInv'
<1> DEFINE says == IF LicenseState # "active" THEN LicenseState
                   ELSE IF liCall[c].install \in liSeats THEN "active" ELSE "unknown"
           call == [liCall[c] EXCEPT !.at = "answered", !.until = liKey.expires, !.answer = says]
<1>1. liCall[c] \in LiCall /\ liKey.expires \in Nat
  BY BusyCall DEF ServerCheck, CallIs, LiInv, LiTypes, LicenseTypeOK
<1>2. says \in Answers \cup {"none", "bind"} /\ (says = "active" => LicenseState = "active")
  BY DEF LicenseState, Answers
<1>3. call \in LiCall /\ call.answer = says /\ call.at = "answered"
  <2> HIDE DEF says
  <2> QED BY <1>1, <1>2 DEF LiCall
<1>4. CallGoes(c, call)
  BY DEF ServerCheck
<1> HIDE DEF call, says
<1>5. liMade' \in 0..MaxLiCalls /\ liSeats' \subseteq Installs
      /\ UNCHANGED <<liDay, liKey, liRow, liLive>>
  BY DEF ServerCheck, OnlyCalls, LiInv, LiTypes, LicenseTypeOK
<1>6. call.at = "bind" \/ call.answer = "active" => liLive = liDay
  BY <1>2, <1>3 DEF LiInv
<1> QED BY <1>3, <1>4, <1>5, <1>6, RowsStay, CallKeepsInv

\* A call that ends and leaves a row of its installation.
LEMMA CallEndsKeepsInv ==
  ASSUME LiInv, NEW c \in LiCalls, ~CallIs(c, "idle"), CallEnds(c), NEW row \in LiRow,
         row.ok = Never \/ row.ok <= liLive, row.status = "active" => row.ok # Never,
         RowGoes(c, row)
  PROVE  LiInv'
<1>1. liCall[c].install \in Installs /\ liRow \in [Installs -> LiRow]
  BY BusyCall DEF LiInv, LiTypes, LicenseTypeOK, LiCall, LiRow
<1>2. /\ liRow' \in [Installs -> LiRow]
      /\ \A i \in Installs : liRow'[i] = row \/ liRow'[i] = liRow[i]
  BY <1>1 DEF RowGoes
<1>3. \A i \in Installs : /\ liRow'[i].ok = Never \/ liRow'[i].ok <= liLive
                          /\ liRow'[i].status = "active" => liRow'[i].ok # Never
  BY <1>2 DEF LiInv, RowsKnowADay
<1>4. liMade' \in 0..MaxLiCalls /\ liSeats' \subseteq Installs /\ UNCHANGED <<liDay, liKey, liLive>>
      /\ CallGoes(c, NoCall)
  BY DEF CallEnds, LiInv, LiTypes, LicenseTypeOK
<1> QED BY <1>2, <1>3, <1>4, CallKeepsInv

\* _apply_server_state, a refusal, no answer.
LEMMA AnswerKeepsInv ==
  ASSUME LiInv, NEW c \in LiCalls, ApplyServerState(c) \/ Refused(c) \/ Offline(c)
  PROVE  LiInv'
<1>1. ~CallIs(c, "idle") /\ CallEnds(c)
  BY DEF ApplyServerState, Refused, Offline, CallIs
<1>2. liCall[c] \in LiCall /\ liRow[liCall[c].install] \in LiRow /\ liCall[c] # NoCall
  BY <1>1, BusyCall
<1> DEFINE old == liRow[liCall[c].install]
<1>3. /\ old \in LiRow /\ (old.ok = Never \/ old.ok <= liLive)
      /\ old.status = "active" => old.ok # Never
      /\ liDay \in 0..MaxDays /\ MaxDays \in Nat /\ liLive \in Nat
  BY <1>2, LicenseAssumption DEF LiInv, RowsKnowADay, LiCall, LiTypes, LicenseTypeOK
<1>4. CASE ApplyServerState(c)
  <2> DEFINE row == [status |-> Stored(c, "status", "active"),
                     expires |-> Stored(c, "expires", liCall[c].until),
                     ok |-> liDay, checked |-> liDay]
  <2>1. Stored(c, "status", "active") \in {"active", old.status}
        /\ Stored(c, "expires", liCall[c].until) \in {liCall[c].until, old.expires}
    BY DEF Stored
  <2>2. row \in LiRow /\ row.ok = liDay
    BY <1>2, <1>3, <2>1 DEF LiRow, LiCall, Answers
  <2>3. liLive = liDay
    BY <1>2, <1>4 DEF ApplyServerState, LiInv, AnswersAreOfToday
  <2>4. RowGoes(c, row)
    BY <1>4 DEF ApplyServerState
  <2> HIDE DEF row
  <2>5. row.ok <= liLive /\ row.ok # Never
    BY <1>3, <2>2, <2>3 DEF Never
  <2> QED BY <1>1, <2>2, <2>4, <2>5, CallEndsKeepsInv
<1>5. CASE Refused(c)
  <2> DEFINE said == Stored(c, "status", liCall[c].answer)
             row == [old EXCEPT !.status = said, !.checked = liDay]
  <2>1. said \in {liCall[c].answer, old.status} /\ liCall[c].answer \in Answers \ {"active"}
    BY <1>5 DEF Refused, Stored
  <2>2. said \in Answers \cup {"inactive"} /\ (said = "active" => old.status = "active")
    BY <1>3, <2>1 DEF LiRow
  <2>3. old \in LiRow /\ liDay \in Nat
    BY <1>3
  <2>4. RowGoes(c, row)
    BY <1>5 DEF Refused
  <2> HIDE DEF old, said
  <2>5. row \in LiRow /\ row.ok = old.ok /\ row.status = said
    BY <2>2, <2>3 DEF LiRow
  <2> HIDE DEF row
  <2> QED BY <1>1, <1>3, <2>2, <2>4, <2>5, CallEndsKeepsInv
<1>6. CASE Offline(c)
  <2> DEFINE row == [old EXCEPT !.checked = liDay]
  <2>1. row \in LiRow /\ row.ok = old.ok /\ row.status = old.status
    <3> HIDE DEF old
    <3> QED BY <1>3 DEF LiRow
  <2>2. RowGoes(c, row)
    BY <1>6 DEF Offline
  <2> HIDE DEF row, old
  <2> QED BY <1>1, <1>3, <2>1, <2>2, CallEndsKeepsInv
<1> QED BY <1>4, <1>5, <1>6

\* A process that dies forgets its request.
LEMMA CallDiesKeepsInv == ASSUME LiInv, NEW c \in LiCalls, CallDies(c) PROVE LiInv'
<1>1. liMade' \in 0..MaxLiCalls /\ liSeats' \subseteq Installs
      /\ UNCHANGED <<liDay, liKey, liLive, liRow>> /\ CallGoes(c, NoCall)
  BY DEF CallDies, CallEnds, LiInv, LiTypes, LicenseTypeOK
<1> QED BY <1>1, RowsStay, CallKeepsInv

\* It holds at first.
LEMMA LicenseInitInv == ASSUME LicenseInit PROVE LiInv
<1>1. Never \in Nat /\ MaxDays \in Nat /\ MaxLiCalls \in Nat /\ Never # 0
  BY LicenseAssumption DEF Never
<1>2. LicenseTypeOK
  BY <1>1 DEF LicenseInit, LicenseTypeOK
<1>3. LiTypes
  BY <1>2 DEF LiTypes, LicenseInit
<1>4. RowsKnowADay /\ AnswersAreOfToday
  BY DEF LicenseInit, RowsKnowADay, AnswersAreOfToday
<1>5. liLive <= liDay /\ (LicenseState = "active" => liLive = liDay)
  BY DEF LicenseInit
<1> QED BY <1>3, <1>4, <1>5 DEF LiInv

\* It is kept by every step.
LEMMA LicenseNextKeepsInv == ASSUME LiInv, [LicenseNext]_liVars PROVE LiInv'
<1>1. CASE UNCHANGED liVars
  BY <1>1 DEF LiInv, LiTypes, LicenseTypeOK, RowsKnowADay, AnswersAreOfToday, LicenseState, liVars
<1>2. CASE Issue
  BY <1>2, IssueKeepsInv
<1>3. CASE Revoke
  BY <1>3, RevokeKeepsInv
<1>4. CASE LicenseActivate \/ MaybeDailyCheck
  BY <1>4, CallBeginsKeepsInv DEF LicenseActivate, MaybeDailyCheck
<1>5. CASE NextDay
  BY <1>5, NextDayKeepsInv
<1>6. ASSUME NEW c \in LiCalls,
             ServerActivate(c) \/ ServerBinds(c) \/ ServerCheck(c) \/ ApplyServerState(c)
               \/ Refused(c) \/ Offline(c) \/ CallDies(c)
      PROVE  LiInv'
  BY <1>6, ServerActivateKeepsInv, ServerBindsKeepsInv, ServerCheckKeepsInv, AnswerKeepsInv,
     CallDiesKeepsInv
<1> QED BY <1>1, <1>2, <1>3, <1>4, <1>5, <1>6 DEF LicenseNext

\* An active row has a good check behind it that is no later than the key's last good day.
LEMMA LiInvKeepsGrace == ASSUME LiInv PROVE GraceIsKept
<1> SUFFICES ASSUME NEW i \in Installs, Evaluate(liRow[i]) PROVE liDay <= liLive + GraceDays
  BY DEF GraceIsKept
<1>1. liRow[i].ok # Never /\ liRow[i].ok <= liLive /\ liDay <= liRow[i].ok + GraceDays
  BY DEF Evaluate, LiInv, RowsKnowADay
<1>2. liDay \in Nat /\ liLive \in Nat /\ liRow[i].ok \in Nat /\ GraceDays \in Nat
  BY LicenseAssumption DEF LiInv, LiTypes, LicenseTypeOK
<1> QED BY <1>1, <1>2

\* LicenseService.evaluate with the requests of an installation, LicenseSpec: no schedule of
\* checks, lost answers, revocations and re-issues allows paid actions longer than
\* LICENSE_GRACE_DAYS after the last day the key was good.
THEOREM GraceKept == LicenseSpec => []GraceIsKept
<1>1. LicenseInit => LiInv
  BY LicenseInitInv
<1>2. LiInv /\ [LicenseNext]_liVars => LiInv'
  BY LicenseNextKeepsInv
<1>3. LiInv => GraceIsKept
  BY LiInvKeepsGrace
<1> QED BY <1>1, <1>2, <1>3, PTL DEF LicenseSpec

\* The columns, days, seats and bounds of LicenseSpec keep their types.
THEOREM LicenseTypeCorrect == LicenseSpec => []LicenseTypeOK
<1>1. LicenseInit => LiInv
  BY LicenseInitInv
<1>2. LiInv /\ [LicenseNext]_liVars => LiInv'
  BY LicenseNextKeepsInv
<1>3. LiInv => LicenseTypeOK
  BY DEF LiInv, LiTypes
<1> QED BY <1>1, <1>2, <1>3, PTL DEF LicenseSpec

-----------------------------------------------------------------------------
(* Backups: rows, files and the worker add up. *)

\* The files are numbered as they were made.
Made == DOMAIN bkDump
FilesNumbered == Cardinality(Made) \in Nat /\ Made = 1..Cardinality(Made)

\* A file belongs to the job in its name.
Owns(f, i) == f # 0 => f \in Made /\ bkDump[f].job = i

\* A table, today's or a dumped one: a row names a file of its own job, a success names one.
RowAddsUp(row, i) == Owns(row.file, i) /\ (row.status = "success" => row.file # 0)
TableAddsUp(rows) == \A i \in DOMAIN rows : RowAddsUp(rows[i], i)
DumpsAddUp == \A f \in Made : TableAddsUp(bkDump[f].rows)

\* A removal was loaded from a row; the file it has removed does not come back.
RemovalsAddUp ==
  \A r \in bkRemoval : /\ Owns(r.file, r.id)
                       /\ r.gone => r.file \notin bkDisk
                       /\ r.by = "panel" => r.gone

\* The file the worker has made and not recorded is named nowhere.
Runs == bkWorker.at \in {"dumping", "dumped", "refused"}
WorkerAddsUp ==
  /\ Runs \/ bkWorker.at = "starting" => bkWorker.id \in BackupIds
  /\ bkWorker.at # "dumped" => bkWorker.file = 0
DumpedIsNew ==
  bkWorker.at = "dumped" =>
    /\ bkWorker.file \in Made /\ bkDump[bkWorker.file].job = bkWorker.id
    /\ bkWorker.file \in bkDisk \cup bkExcused
    /\ bkWorker.file \notin Named(bkRow)
    /\ \A f \in Made : bkWorker.file \notin Named(bkDump[f].rows)
    /\ \A r \in bkRemoval : r.file # bkWorker.file

\* The three parts of BackupsAddUp.
SuccessesHaveFiles ==
  \A i \in Succeeded : bkRow[i].file \in bkDisk \cup bkExcused \cup FilesGone(bkRemoval)
FilesHaveRows == \A f \in bkDisk : f \in Named(bkRow) \/ f \in bkExcused \/ f = bkWorker.file
RunningIsRun ==
  \A i \in DOMAIN bkRow :
    bkRow[i].status = "running" => (Runs /\ bkWorker.id = i) \/ i \in bkStuck

BackupsInv ==
  /\ BackupsTypeOK /\ FilesNumbered
  /\ TableAddsUp(bkRow) /\ DumpsAddUp /\ RemovalsAddUp
  /\ WorkerAddsUp /\ DumpedIsNew
  /\ SuccessesHaveFiles /\ FilesHaveRows /\ RunningIsRun

-----------------------------------------------------------------------------
\* A table is typed row by row.
LEMMA TypedByRows ==
  ASSUME NEW rows
  PROVE  rows \in Tables <=> DOMAIN rows \subseteq BackupIds /\ rows \in [DOMAIN rows -> BackupRow]
<1>1. ASSUME rows \in Tables PROVE DOMAIN rows \subseteq BackupIds /\ rows \in [DOMAIN rows -> BackupRow]
  <2>1. PICK ids \in SUBSET BackupIds : rows \in [ids -> BackupRow]
    BY <1>1 DEF Tables
  <2> QED BY <2>1
<1>2. ASSUME DOMAIN rows \subseteq BackupIds, rows \in [DOMAIN rows -> BackupRow] PROVE rows \in Tables
  BY <1>2 DEF Tables
<1> QED BY <1>1, <1>2

\* Put changes one row.
LEMMA PutOne ==
  ASSUME NEW rows, NEW i, NEW r
  PROVE  /\ DOMAIN Put(rows, i, r) = (DOMAIN rows) \cup {i}
         /\ Put(rows, i, r)[i] = r
         /\ \A k \in (DOMAIN rows) \ {i} : Put(rows, i, r)[k] = rows[k]
BY DEF Put

\* A table with a row more is one.
LEMMA PutIsTable ==
  ASSUME NEW rows \in Tables, NEW i \in BackupIds, NEW r \in BackupRow
  PROVE  Put(rows, i, r) \in Tables
<1>1. DOMAIN rows \subseteq BackupIds /\ rows \in [DOMAIN rows -> BackupRow]
  BY TypedByRows
<1>2. Put(rows, i, r) \in [(DOMAIN rows) \cup {i} -> BackupRow]
  BY <1>1 DEF Put
<1> QED BY <1>1, <1>2 DEF Tables

\* Without takes rows out, and what is left is a table.
LEMMA WithoutIsTable ==
  ASSUME NEW rows \in Tables, NEW ids
  PROVE  /\ Without(rows, ids) \in Tables
         /\ DOMAIN Without(rows, ids) = (DOMAIN rows) \ ids
         /\ \A k \in (DOMAIN rows) \ ids : Without(rows, ids)[k] = rows[k]
<1>1. DOMAIN rows \subseteq BackupIds /\ rows \in [DOMAIN rows -> BackupRow]
  BY TypedByRows
<1>2. Without(rows, ids) \in [(DOMAIN rows) \ ids -> BackupRow]
  BY <1>1 DEF Without
<1> QED BY <1>1, <1>2 DEF Tables, Without

\* A row of the table of today.
LEMMA RowTyped ==
  ASSUME BackupsTypeOK, NEW i \in DOMAIN bkRow
  PROVE  /\ i \in BackupIds /\ bkRow[i] \in BackupRow /\ bkRow[i].file \in 0..MaxBackups
         /\ bkRow[i].file # 0 => bkRow[i].file \in BackupIds
<1>1. i \in BackupIds /\ bkRow[i] \in BackupRow
  BY TypedByRows DEF BackupsTypeOK
<1> QED BY <1>1, BackupsAreBounded DEF BackupRow, BackupIds

\* What holds at first.
LEMMA BackupsBegin ==
  ASSUME BackupsInit
  PROVE  BackupsInv
<1>1. DOMAIN bkRow = {} /\ bkRow \in Tables
  <2>1. DOMAIN bkRow = {} /\ bkRow \in [{} -> BackupRow]
    BY DEF BackupsInit, NoRows
  <2> QED BY <2>1 DEF Tables
<1>2. Made = {} /\ bkRemoval = {} /\ bkDisk = {} /\ bkExcused = {} /\ bkStuck = {}
  BY DEF BackupsInit, Made
<1>3. FilesNumbered
  <2>1. Cardinality(Made) = 0
    BY <1>2, FS_EmptySet
  <2> QED BY <1>2, <2>1 DEF FilesNumbered
<1>4. bkWorker.at = "idle" /\ bkWorker.id = 0 /\ bkWorker.file = 0 /\ bkWorker \in BackupTurn
  BY BackupsAreBounded DEF BackupsInit, NoBackup, BackupTurn
<1>5. BackupsTypeOK
  <2>1. bkSettings \in Settings \cup {Unset} /\ bkAsked \in Settings \cup {Unset}
    BY BackupsAreBounded DEF BackupsInit, Settings
  <2>2. bkNextId \in 1..(MaxBackups + 1) /\ bkTrouble \in 0..MaxBackupTrouble /\ bkRestore = 0
    BY BackupsAreBounded DEF BackupsInit
  <2> QED BY <1>1, <1>2, <1>4, <2>1, <2>2 DEF BackupsTypeOK, Made
<1>6. TableAddsUp(bkRow) /\ DumpsAddUp /\ RemovalsAddUp
  BY <1>1, <1>2 DEF TableAddsUp, DumpsAddUp, RemovalsAddUp
<1>7. WorkerAddsUp /\ DumpedIsNew
  BY <1>4 DEF WorkerAddsUp, Runs, DumpedIsNew
<1>8. SuccessesHaveFiles /\ FilesHaveRows /\ RunningIsRun
  BY <1>1, <1>2 DEF SuccessesHaveFiles, FilesHaveRows, RunningIsRun, Succeeded
<1> QED BY <1>3, <1>5, <1>6, <1>7, <1>8 DEF BackupsInv

\* The invariant gives what was meant.
LEMMA BackupsInvShows ==
  ASSUME BackupsInv
  PROVE  BackupsAddUp
BY DEF BackupsInv, BackupsAddUp, SuccessesHaveFiles, FilesHaveRows, RunningIsRun, Named, FilesOf

\* No file was made: those there are keep their numbers and their jobs.
LEMMA DumpsStand ==
  ASSUME FilesNumbered, DumpsAddUp, bkDump' = bkDump
  PROVE  /\ FilesNumbered' /\ DumpsAddUp' /\ Made' = Made
         /\ \A f, i : Owns(f, i)' <=> Owns(f, i)
         /\ \A row, i : RowAddsUp(row, i)' <=> RowAddsUp(row, i)
BY DEF FilesNumbered, DumpsAddUp, Made, Owns, TableAddsUp, RowAddsUp

\* A new file gets the next number, which nothing names, and the dump is of today's table.
LEMMA MakingKeepsDumps ==
  ASSUME BackupsInv, NEW f \in BackupIds, MakeFile(f), bkWorker.at = "dumping"
  PROVE  /\ FilesNumbered' /\ DumpsAddUp'
         /\ \A g \in Made' : bkDump'[g] \in Dump
         /\ f \notin Made /\ f # 0 /\ Made' = Made \cup {f} /\ Made' \subseteq BackupIds
         /\ bkDump'[f].job = bkWorker.id /\ bkDump'[f].rows = bkRow
         /\ \A g \in Made : bkDump'[g] = bkDump[g]
         /\ \A g, i : Owns(g, i) => Owns(g, i)'
         /\ \A row, i : RowAddsUp(row, i) => RowAddsUp(row, i)'
<1> DEFINE dump == [job |-> bkWorker.id, rows |-> bkRow, next |-> bkNextId, settings |-> bkSettings]
<1>1. /\ BackupsTypeOK /\ FilesNumbered /\ TableAddsUp(bkRow) /\ DumpsAddUp /\ WorkerAddsUp
      /\ bkWorker.id \in BackupIds
  BY DEF BackupsInv, WorkerAddsUp, Runs
<1>2. f = Cardinality(Made) + 1 /\ bkDump' = Put(bkDump, f, dump)
  BY DEF MakeFile, Made
<1>3. /\ dump.job = bkWorker.id /\ dump.rows = bkRow /\ dump \in Dump
  BY <1>1 DEF BackupsTypeOK, Dump
<1> HIDE DEF dump
<1>4. Made' = Made \cup {f} /\ bkDump'[f] = dump /\ \A g \in Made \ {f} : bkDump'[g] = bkDump[g]
  BY <1>2, PutOne DEF Made, Put
<1>5. Cardinality(Made) \in Nat /\ Made = 1..Cardinality(Made) /\ f \notin Made /\ f # 0
  BY <1>1, <1>2 DEF FilesNumbered
<1>6. FilesNumbered'
  <2>1. IsFiniteSet(Made)
    BY <1>5, FS_Interval
  <2>2. Cardinality(Made') = Cardinality(Made) + 1
    BY <1>4, <1>5, <2>1, FS_AddElement
  <2>3. PICK n \in Nat : n = Cardinality(Made)
    BY <1>5
  <2>4. Made' = 1..n \cup {n + 1} /\ Cardinality(Made') = n + 1
    BY <1>2, <1>4, <1>5, <2>2, <2>3
  <2>5. 1..n \cup {n + 1} = 1..(n + 1)
    OBVIOUS
  <2> QED BY <2>4, <2>5 DEF FilesNumbered
<1>7. Made \subseteq BackupIds /\ \A g \in Made : bkDump[g] \in Dump
  BY <1>1 DEF BackupsTypeOK, Made
<1>8. \A g, i : Owns(g, i) => Owns(g, i)'
  BY <1>4, <1>5 DEF Owns
<1>9. \A row, i : RowAddsUp(row, i) => RowAddsUp(row, i)'
  BY <1>8 DEF RowAddsUp
<1>10. DumpsAddUp'
  <2> SUFFICES ASSUME NEW g \in Made', NEW i \in DOMAIN bkDump'[g].rows,
                      NEW row, row = bkDump'[g].rows[i]
               PROVE  RowAddsUp(row, i)'
    BY DEF DumpsAddUp, TableAddsUp, RowAddsUp, Owns, Made
  <2>1. CASE g = f
    BY <1>1, <1>3, <1>4, <1>9, <2>1 DEF TableAddsUp
  <2>2. CASE g # f
    BY <1>1, <1>4, <1>9, <2>2 DEF DumpsAddUp, TableAddsUp
  <2> QED BY <2>1, <2>2
<1> QED BY <1>3, <1>4, <1>5, <1>6, <1>7, <1>8, <1>9, <1>10

\* Rows and dumps stand: what is left is about files, removals and the worker.
LEMMA RowsStand ==
  ASSUME BackupsInv, BackupsTypeOK', RemovalsAddUp', WorkerAddsUp', DumpedIsNew',
         SuccessesHaveFiles', FilesHaveRows', RunningIsRun', UNCHANGED <<bkRow, bkDump>>
  PROVE  BackupsInv'
<1>1. /\ FilesNumbered' /\ DumpsAddUp' /\ \A row, i : RowAddsUp(row, i)' <=> RowAddsUp(row, i)
  BY DumpsStand DEF BackupsInv
<1>2. TableAddsUp(bkRow)'
  BY <1>1 DEF BackupsInv, TableAddsUp
<1> QED BY <1>1, <1>2 DEF BackupsInv

\* The worker goes on, with rows and files as they were.
LEMMA WorkerGoesOn ==
  ASSUME BackupsInv, bkWorker' \in BackupTurn, bkWorker.at # "dumped", bkWorker'.at # "dumped",
         bkWorker'.file = 0, Runs => Runs' /\ bkWorker'.id = bkWorker.id,
         Runs' \/ bkWorker'.at = "starting" => bkWorker'.id \in BackupIds,
         UNCHANGED <<bkRow, bkNextId, bkDisk, bkDump, bkSettings, bkAsked, bkRemoval, bkRestore,
                     bkExcused, bkStuck, bkTrouble>>
  PROVE  BackupsInv'
<1>1. bkWorker.file = 0
  BY DEF BackupsInv, WorkerAddsUp
<1>2. BackupsTypeOK'
  BY DEF BackupsInv, BackupsTypeOK
<1>3. RemovalsAddUp'
  BY DEF BackupsInv, RemovalsAddUp, Owns, Made
<1>4. WorkerAddsUp' /\ DumpedIsNew'
  BY DEF WorkerAddsUp, DumpedIsNew
<1>5. SuccessesHaveFiles' /\ FilesHaveRows'
  BY <1>1 DEF BackupsInv, SuccessesHaveFiles, Succeeded, FilesHaveRows, Named
<1>6. RunningIsRun'
  BY DEF BackupsInv, RunningIsRun
<1> QED BY <1>2, <1>3, <1>4, <1>5, <1>6, RowsStand

\* Steps that move neither rows, files, removals nor the worker.
LEMMA AllStands ==
  ASSUME BackupsInv, BackupsTypeOK',
         UNCHANGED <<bkRow, bkDisk, bkDump, bkWorker, bkRemoval, bkExcused, bkStuck>>
  PROVE  BackupsInv'
<1>1. Made' = Made /\ (Runs' <=> Runs)
  BY DEF Made, Runs
<1>2. RemovalsAddUp'
  BY <1>1 DEF BackupsInv, RemovalsAddUp, Owns
<1>3. WorkerAddsUp' /\ DumpedIsNew'
  BY <1>1 DEF BackupsInv, WorkerAddsUp, DumpedIsNew, Named
<1>4. SuccessesHaveFiles' /\ FilesHaveRows' /\ RunningIsRun'
  BY <1>1 DEF BackupsInv, SuccessesHaveFiles, Succeeded, FilesHaveRows, RunningIsRun, Named
<1> QED BY <1>2, <1>3, <1>4, RowsStand

\* A new job: the number is new, and no file is named.
LEMMA CreatingKeepsInv ==
  ASSUME BackupsInv, CreateBackup, bkWorker' \in BackupTurn, bkWorker'.file = bkWorker.file,
         bkWorker'.id = bkWorker.id,
         \/ bkWorker'.at = bkWorker.at
         \/ bkWorker.at = "idle" /\ bkWorker'.at = "scheduled",
         UNCHANGED <<bkDisk, bkDump, bkSettings, bkAsked, bkRemoval, bkRestore, bkExcused, bkStuck,
                     bkTrouble>>
  PROVE  BackupsInv'
<1> DEFINE new == [status |-> "pending", file |-> 0]
<1>1. /\ bkRow' = Put(bkRow, bkNextId, new) /\ bkNextId \in BackupIds /\ bkNextId \notin DOMAIN bkRow
      /\ bkNextId' = bkNextId + 1
      /\ new \in BackupRow /\ new.status = "pending" /\ new.file = 0
  BY BackupsAreBounded DEF CreateBackup, BackupRow
<1> HIDE DEF new
<1>2. /\ DOMAIN bkRow' = (DOMAIN bkRow) \cup {bkNextId} /\ bkRow'[bkNextId] = new
      /\ \A k \in DOMAIN bkRow : bkRow'[k] = bkRow[k]
  <2> DEFINE put == Put(bkRow, bkNextId, new)
  <2>1. /\ DOMAIN put = (DOMAIN bkRow) \cup {bkNextId} /\ put[bkNextId] = new
        /\ \A k \in (DOMAIN bkRow) \ {bkNextId} : put[k] = bkRow[k]
    BY DEF Put
  <2>2. bkRow' = put
    BY <1>1
  <2> HIDE DEF put
  <2> QED BY <1>1, <2>1, <2>2
<1>3. /\ BackupsTypeOK /\ FilesNumbered /\ TableAddsUp(bkRow) /\ DumpsAddUp /\ RemovalsAddUp
      /\ WorkerAddsUp /\ DumpedIsNew /\ SuccessesHaveFiles /\ FilesHaveRows /\ RunningIsRun
  BY DEF BackupsInv
<1>4. BackupsTypeOK'
  <2>1. bkRow' \in Tables /\ bkNextId' \in 1..(MaxBackups + 1)
    BY <1>1, <1>3, PutIsTable, BackupsAreBounded DEF BackupsTypeOK, BackupIds
  <2> QED BY <1>3, <2>1 DEF BackupsTypeOK
<1>5. /\ FilesNumbered' /\ DumpsAddUp' /\ Made' = Made /\ \A row, i : RowAddsUp(row, i)' <=> RowAddsUp(row, i)
  BY <1>3, DumpsStand
<1>6. TableAddsUp(bkRow)'
  <2> SUFFICES ASSUME NEW i \in DOMAIN bkRow', NEW row, row = bkRow'[i]
               PROVE  RowAddsUp(row, i)
    BY <1>5 DEF TableAddsUp
  <2>1. CASE i = bkNextId
    BY <1>1, <1>2, <2>1 DEF RowAddsUp, Owns
  <2>2. CASE i # bkNextId
    BY <1>2, <1>3, <2>2 DEF TableAddsUp
  <2> QED BY <2>1, <2>2
<1>7. (Runs' <=> Runs) /\ (bkWorker'.at = "starting" <=> bkWorker.at = "starting")
      /\ (bkWorker'.at = "dumped" <=> bkWorker.at = "dumped")
  BY DEF Runs
<1>8. WorkerAddsUp' /\ RemovalsAddUp'
  BY <1>3, <1>7 DEF WorkerAddsUp, RemovalsAddUp, Owns, Made
<1>9. Named(bkRow)' \subseteq Named(bkRow) \cup {0} /\ Named(bkRow) \subseteq Named(bkRow)'
  BY <1>1, <1>2 DEF Named
<1>10. DumpedIsNew'
  <2>1. bkWorker.at = "dumped" => bkWorker.file # 0
    BY <1>3 DEF DumpedIsNew, FilesNumbered
  <2> QED BY <1>3, <1>5, <1>7, <1>9, <2>1 DEF DumpedIsNew, Named
<1>11. SuccessesHaveFiles'
  BY <1>1, <1>2, <1>3 DEF SuccessesHaveFiles, Succeeded
<1>12. FilesHaveRows' /\ RunningIsRun'
  BY <1>1, <1>2, <1>3, <1>7, <1>9 DEF FilesHaveRows, RunningIsRun
<1> QED BY <1>4, <1>5, <1>6, <1>8, <1>10, <1>11, <1>12 DEF BackupsInv

\* The settings say how many backups are kept, nothing of what there is.
LEMMA SettingsKeepInv ==
  ASSUME BackupsInv, BackupsSettings
  PROVE  BackupsInv'
<1>1. bkAsked' \in Settings
  <2>1. PICK schedule \in {"off", "on"}, keep \in 0..MaxKeep :
           bkAsked' = [schedule |-> schedule, keep |-> IF keep < 1 THEN 1 ELSE keep]
    BY DEF BackupsSettings
  <2>2. (IF keep < 1 THEN 1 ELSE keep) \in 1..MaxKeep
    BY BackupsAreBounded
  <2> QED BY <2>1, <2>2 DEF Settings
<1>2. BackupsTypeOK'
  BY <1>1, BackupsAreBounded DEF BackupsInv, BackupsTypeOK, BackupsSettings, BackupTrouble
<1> QED BY <1>2, AllStands DEF BackupsSettings

\* A job asked for by hand.
LEMMA TriggerKeepsInv ==
  ASSUME BackupsInv, BackupsTrigger
  PROVE  BackupsInv'
<1>1. bkWorker \in BackupTurn
  BY DEF BackupsInv, BackupsTypeOK
<1> QED BY <1>1, CreatingKeepsInv DEF BackupsTrigger

\* The turn begins, with a job of the schedule or without.
LEMMA TurnBeginKeepsInv ==
  ASSUME BackupsInv, BeginBackupTurn
  PROVE  BackupsInv'
<1>1. /\ bkWorker.at = "idle" /\ bkWorker.id = 0 /\ bkWorker.file = 0
      /\ bkWorker'.at = "scheduled" /\ bkWorker'.id = 0 /\ bkWorker'.file = 0
      /\ bkWorker' \in BackupTurn /\ ~ Runs
  BY BackupsAreBounded DEF BeginBackupTurn, NoBackup, BackupTurn, Runs
<1>2. CASE CreateBackup
  BY <1>1, <1>2, CreatingKeepsInv DEF BeginBackupTurn
<1>3. CASE UNCHANGED <<bkRow, bkNextId>>
  <2>1. ~ Runs'
    BY <1>1 DEF Runs
  <2> QED BY <1>1, <1>3, <2>1, WorkerGoesOn DEF BeginBackupTurn
<1> QED BY <1>2, <1>3 DEF BeginBackupTurn

\* The oldest pending job.
LEMMA NextPendingKeepsInv ==
  ASSUME BackupsInv, NextPending
  PROVE  BackupsInv'
<1>1. bkWorker.at = "scheduled" /\ ~ Runs
  BY DEF NextPending, Runs
<1>2. CASE bkWorker' = NoBackup
  <2>1. bkWorker'.at = "idle" /\ bkWorker'.file = 0 /\ bkWorker' \in BackupTurn
    BY <1>2, BackupsAreBounded DEF NoBackup, BackupTurn
  <2>2. ~ Runs'
    BY <2>1 DEF Runs
  <2> QED BY <1>1, <2>1, <2>2, WorkerGoesOn DEF NextPending
<1>3. ASSUME NEW i \in PendingBackups, bkWorker' = [at |-> "starting", id |-> i, file |-> 0]
      PROVE  BackupsInv'
  <2>1. i \in BackupIds
    BY RowTyped DEF PendingBackups, BackupsInv
  <2>2. bkWorker'.at = "starting" /\ bkWorker'.id = i /\ bkWorker'.file = 0 /\ bkWorker' \in BackupTurn
    BY <1>3, <2>1, BackupsAreBounded DEF BackupTurn, BackupIds
  <2> QED BY <1>1, <2>1, <2>2, WorkerGoesOn DEF NextPending
<1> QED BY <1>2, <1>3 DEF NextPending

\* The file to restore is one that was made.
LEMMA RestoreBeginKeepsInv ==
  ASSUME BackupsInv, NEW i, BackupsRestore(i)
  PROVE  BackupsInv'
<1>1. i \in DOMAIN bkRow /\ bkRow[i].file \in bkDisk
  BY DEF BackupsRestore, Succeeded
<1>2. BackupsTypeOK'
  BY <1>1, BackupsAreBounded DEF BackupsInv, BackupsTypeOK, BackupsRestore, BackupTrouble
<1> QED BY <1>2, AllStands DEF BackupsRestore

\* What a commit of the worker says.
Commits(status, file, next) ==
  /\ status = "success" => bkWorker.at = "dumped" /\ file = bkWorker.file
  /\ status = "running" => /\ Runs' /\ next.id = bkWorker.id
                           /\ next.at # "dumped"
  /\ status # "success" => bkWorker.at # "dumped" /\ file = bkRow[bkWorker.id].file
  /\ next \in BackupTurn /\ next.file = 0 /\ next.at # "dumped" /\ next.at # "starting"
  /\ next.id \in {0, bkWorker.id}

\* The worker writes the row of its job, and the file this row named before, if it is
\* another, is excused.  Where the row is gone it stops, and its file is excused.
LEMMA CommitKeepsBackups ==
  ASSUME BackupsInv, NEW status \in {"running", "success", "failed"}, NEW file, NEW next,
         CommitBackup(status, file, next), Runs \/ bkWorker.at = "starting",
         Commits(status, file, next), Runs' => status = "running",
         IF status = "running" THEN bkStuck' = bkStuck \ {bkWorker.id} ELSE bkStuck' = bkStuck,
         UNCHANGED <<bkNextId, bkDisk, bkDump, bkSettings, bkAsked, bkRemoval, bkRestore, bkTrouble>>
  PROVE  BackupsInv'
<1> DEFINE w == bkWorker.id
<1>1. /\ BackupsTypeOK /\ FilesNumbered /\ TableAddsUp(bkRow) /\ DumpsAddUp /\ RemovalsAddUp
      /\ WorkerAddsUp /\ DumpedIsNew /\ SuccessesHaveFiles /\ FilesHaveRows /\ RunningIsRun
  BY DEF BackupsInv
<1>2. /\ FilesNumbered' /\ DumpsAddUp' /\ Made' = Made
      /\ \A row, i : RowAddsUp(row, i)' <=> RowAddsUp(row, i)
  BY <1>1, DumpsStand
<1>3. RemovalsAddUp'
  BY <1>1 DEF RemovalsAddUp, Owns, Made
<1>4. w \in BackupIds /\ bkWorker.file \in 0..MaxBackups
  BY <1>1 DEF WorkerAddsUp, BackupsTypeOK, BackupTurn
<1>5. bkStuck' \subseteq bkStuck /\ bkStuck \subseteq bkStuck' \cup {w}
  OBVIOUS
<1>6. ASSUME w \notin DOMAIN bkRow PROVE BackupsInv'
  <2>1. /\ bkExcused' = bkExcused \cup ({bkWorker.file} \ {0}) /\ bkWorker' = NoBackup
        /\ UNCHANGED bkRow
    BY <1>6 DEF CommitBackup
  <2>2. /\ bkWorker'.at = "idle" /\ bkWorker'.file = 0 /\ bkWorker' \in BackupTurn
    BY <2>1, BackupsAreBounded DEF NoBackup, BackupTurn
  <2>3. BackupsTypeOK'
    <3>1. {bkWorker.file} \ {0} \subseteq BackupIds
      BY <1>4, BackupsAreBounded DEF BackupIds
    <3>2. bkExcused' \subseteq BackupIds /\ bkStuck' \subseteq BackupIds
      BY <1>1, <1>5, <2>1, <3>1 DEF BackupsTypeOK
    <3> QED BY <1>1, <2>1, <2>2, <3>2 DEF BackupsTypeOK
  <2>4. WorkerAddsUp' /\ DumpedIsNew'
    BY <2>2 DEF WorkerAddsUp, DumpedIsNew, Runs
  <2>5. SuccessesHaveFiles'
    BY <1>1, <2>1 DEF SuccessesHaveFiles, Succeeded
  <2>6. 0 \notin bkDisk
    BY <1>1 DEF BackupsTypeOK, BackupIds
  <2>7. FilesHaveRows'
    BY <1>1, <2>1, <2>6 DEF FilesHaveRows
  <2>8. RunningIsRun'
    BY <1>1, <1>5, <1>6, <2>1 DEF RunningIsRun
  <2> QED BY <1>3, <2>1, <2>3, <2>4, <2>5, <2>7, <2>8, RowsStand
<1>7. ASSUME w \in DOMAIN bkRow PROVE BackupsInv'
  <2> DEFINE row == [status |-> status, file |-> file]
  <2>1. /\ bkRow' = [bkRow EXCEPT ![w] = row]
        /\ bkExcused' = bkExcused \cup ({bkRow[w].file} \ {0, file}) /\ bkWorker' = next
    BY <1>7 DEF CommitBackup
  <2>2. /\ bkRow \in Tables /\ DOMAIN bkRow \subseteq BackupIds /\ bkRow \in [DOMAIN bkRow -> BackupRow]
        /\ bkRow[w].file \in 0..MaxBackups /\ (bkRow[w].file # 0 => bkRow[w].file \in BackupIds)
    BY <1>1, <1>7, TypedByRows, RowTyped DEF BackupsTypeOK
  <2>3. row \in BackupRow /\ row.status = status /\ row.file = file
    BY <1>4, <2>2 DEF Commits, BackupRow
  <2> HIDE DEF row
  <2>4. /\ DOMAIN bkRow' = DOMAIN bkRow /\ bkRow'[w] = row
        /\ \A k \in (DOMAIN bkRow) \ {w} : bkRow'[k] = bkRow[k]
        /\ bkRow' \in Tables
    <3>1. /\ DOMAIN bkRow' = DOMAIN bkRow /\ bkRow'[w] = row
          /\ \A k \in (DOMAIN bkRow) \ {w} : bkRow'[k] = bkRow[k]
          /\ bkRow' \in [DOMAIN bkRow -> BackupRow]
      BY <1>7, <2>1, <2>2, <2>3
    <3> QED BY <2>2, <3>1 DEF Tables
  <2>5. BackupsTypeOK'
    BY <1>1, <1>5, <2>1, <2>2, <2>4 DEF BackupsTypeOK, Commits
  <2>6. RowAddsUp(row, w)
    <3>1. CASE status = "success"
      <4>1. file \in Made /\ bkDump[file].job = w /\ file # 0
        BY <1>1, <3>1 DEF Commits, DumpedIsNew, FilesNumbered
      <4> QED BY <2>3, <4>1 DEF RowAddsUp, Owns
    <3>2. CASE status # "success"
      BY <1>1, <1>7, <2>3, <3>2 DEF Commits, TableAddsUp, RowAddsUp, Owns
    <3> QED BY <3>1, <3>2
  <2>7. TableAddsUp(bkRow)'
    <3> SUFFICES ASSUME NEW i \in DOMAIN bkRow', NEW r, r = bkRow'[i] PROVE RowAddsUp(r, i)
      BY <1>2 DEF TableAddsUp
    <3> QED BY <1>1, <2>4, <2>6 DEF TableAddsUp
  <2>8. WorkerAddsUp' /\ DumpedIsNew'
    BY <1>4, <2>1 DEF WorkerAddsUp, DumpedIsNew, Commits, Runs
  <2>9. SuccessesHaveFiles'
    <3> SUFFICES ASSUME NEW i \in DOMAIN bkRow, bkRow'[i].status = "success"
                 PROVE  bkRow'[i].file \in bkDisk \cup bkExcused \cup FilesGone(bkRemoval)
      BY <2>1, <2>4 DEF SuccessesHaveFiles, Succeeded
    <3>1. CASE i # w
      BY <1>1, <2>4, <3>1 DEF SuccessesHaveFiles, Succeeded
    <3>2. CASE i = w
      BY <1>1, <2>3, <2>4, <3>2 DEF Commits, DumpedIsNew
    <3> QED BY <3>1, <3>2
  <2>10. FilesHaveRows'
    <3> SUFFICES ASSUME NEW f \in bkDisk PROVE f \in Named(bkRow)' \/ f \in bkExcused'
      BY DEF FilesHaveRows
    <3>1. f # 0 /\ file \in Named(bkRow)'
      BY <1>1, <1>7, <2>3, <2>4 DEF BackupsTypeOK, BackupIds, Named
    <3>2. CASE f = bkWorker.file
      BY <1>1, <3>1, <3>2 DEF Commits, WorkerAddsUp
    <3>3. CASE f \in Named(bkRow)
      <4>1. PICK k \in DOMAIN bkRow : bkRow[k].file = f
        BY <3>3 DEF Named
      <4>2. CASE k = w
        BY <2>1, <3>1, <4>1, <4>2
      <4>3. CASE k # w
        BY <2>4, <4>1, <4>3 DEF Named
      <4> QED BY <4>2, <4>3
    <3> QED BY <1>1, <2>1, <3>2, <3>3 DEF FilesHaveRows
  <2>11. RunningIsRun'
    <3> SUFFICES ASSUME NEW i \in DOMAIN bkRow, bkRow'[i].status = "running"
                 PROVE  (Runs' /\ bkWorker'.id = i) \/ i \in bkStuck'
      BY <2>4 DEF RunningIsRun
    <3>1. CASE i = w
      BY <2>1, <2>3, <2>4, <3>1 DEF Commits
    <3>2. CASE i # w
      BY <1>1, <1>5, <2>4, <3>2 DEF RunningIsRun
    <3> QED BY <3>1, <3>2
  <2> QED BY <1>2, <1>3, <2>5, <2>7, <2>8, <2>9, <2>10, <2>11 DEF BackupsInv
<1> QED BY <1>6, <1>7

\* The job is marked running.
LEMMA StartKeepsInv ==
  ASSUME BackupsInv, StartBackup
  PROVE  BackupsInv'
<1> DEFINE next == [bkWorker EXCEPT !.at = "dumping"]
<1>1. bkWorker.at = "starting" /\ bkWorker.file = 0 /\ bkWorker \in BackupTurn /\ ~ Runs
  BY DEF StartBackup, BackupsInv, WorkerAddsUp, BackupsTypeOK, Runs
<1>2. next.at = "dumping" /\ next.id = bkWorker.id /\ next.file = 0 /\ next \in BackupTurn
  BY <1>1 DEF BackupTurn
<1>3. CommitBackup("running", bkRow[bkWorker.id].file, next)
  BY DEF StartBackup
<1> HIDE DEF next
<1>4. CASE bkWorker.id \in DOMAIN bkRow
  <2>1. bkWorker' = next
    BY <1>3, <1>4 DEF CommitBackup
  <2>2. Runs' /\ Commits("running", bkRow[bkWorker.id].file, next)
    BY <1>1, <1>2, <2>1 DEF Runs, Commits
  <2> QED BY <1>1, <1>3, <2>2, CommitKeepsBackups DEF StartBackup
<1>5. CASE bkWorker.id \notin DOMAIN bkRow
  <2>1. /\ bkWorker' = NoBackup /\ UNCHANGED bkRow /\ bkExcused' = bkExcused
        /\ bkStuck' = bkStuck \ {bkWorker.id}
        /\ UNCHANGED <<bkNextId, bkDisk, bkDump, bkSettings, bkAsked, bkRemoval, bkRestore, bkTrouble>>
    BY <1>1, <1>3, <1>5 DEF CommitBackup, StartBackup
  <2>2. bkWorker'.at = "idle" /\ bkWorker'.file = 0 /\ bkWorker' \in BackupTurn
    BY <2>1, BackupsAreBounded DEF NoBackup, BackupTurn
  <2>3. WorkerAddsUp' /\ DumpedIsNew'
    BY <2>2 DEF WorkerAddsUp, DumpedIsNew, Runs
  <2>4. BackupsTypeOK' /\ RemovalsAddUp'
    BY <2>1, <2>2 DEF BackupsInv, BackupsTypeOK, RemovalsAddUp, Owns, Made
  <2>5. SuccessesHaveFiles' /\ FilesHaveRows'
    BY <1>1, <2>1, <2>2 DEF BackupsInv, SuccessesHaveFiles, Succeeded, FilesHaveRows, Named
  <2>6. RunningIsRun'
    BY <1>1, <1>5, <2>1 DEF BackupsInv, RunningIsRun
  <2> QED BY <2>1, <2>3, <2>4, <2>5, <2>6, RowsStand
<1> QED BY <1>4, <1>5

\* A success names the file that was made, a failure what its row named before.
LEMMA RecordKeepsInv ==
  ASSUME BackupsInv, RecordBackup
  PROVE  BackupsInv'
<1>1. bkWorker \in BackupTurn /\ WorkerAddsUp /\ Runs
  BY DEF RecordBackup, BackupsInv, BackupsTypeOK, Runs
<1>2. CASE bkWorker.at = "dumped"
  <2> DEFINE next == [NoBackup EXCEPT !.at = "pruning"]
  <2>1. CommitBackup("success", bkWorker.file, next)
    BY <1>2 DEF RecordBackup
  <2>2. next.at = "pruning" /\ next.id = 0 /\ next.file = 0 /\ next \in BackupTurn
    BY BackupsAreBounded DEF NoBackup, BackupTurn
  <2> HIDE DEF next
  <2>3. bkWorker' \in {next, NoBackup} /\ NoBackup.at = "idle"
    BY <2>1 DEF CommitBackup, NoBackup
  <2>4. ~ Runs' /\ Commits("success", bkWorker.file, next)
    BY <1>2, <2>2, <2>3 DEF Runs, Commits
  <2> QED BY <1>1, <2>1, <2>4, CommitKeepsBackups DEF RecordBackup
<1>3. CASE bkWorker.at = "refused"
  <2>1. CommitBackup("failed", bkRow[bkWorker.id].file, NoBackup)
    BY <1>3 DEF RecordBackup
  <2>2. NoBackup.at = "idle" /\ NoBackup.id = 0 /\ NoBackup.file = 0 /\ NoBackup \in BackupTurn
    BY BackupsAreBounded DEF NoBackup, BackupTurn
  <2>3. bkWorker' = NoBackup
    BY <2>1 DEF CommitBackup
  <2>4. ~ Runs' /\ Commits("failed", bkRow[bkWorker.id].file, NoBackup)
    BY <1>3, <2>2, <2>3 DEF Runs, Commits
  <2> QED BY <1>1, <2>1, <2>4, CommitKeepsBackups DEF RecordBackup
<1> QED BY <1>2, <1>3 DEF RecordBackup


\* What rows, dumps and removals name was made, or is no file.
LEMMA NamedAreMade ==
  ASSUME BackupsInv
  PROVE  /\ 0 \notin Made /\ Made \subseteq BackupIds /\ bkDisk \subseteq Made
         /\ Named(bkRow) \subseteq Made \cup {0}
         /\ \A g \in Made : Named(bkDump[g].rows) \subseteq Made \cup {0}
         /\ \A r \in bkRemoval : r.file \in Made \cup {0}
<1>1. 0 \notin Made /\ Made \subseteq BackupIds /\ bkDisk \subseteq Made
  BY DEF BackupsInv, FilesNumbered, BackupsTypeOK, Made
<1>2. /\ Named(bkRow) \subseteq Made \cup {0}
      /\ \A g \in Made : Named(bkDump[g].rows) \subseteq Made \cup {0}
      /\ \A r \in bkRemoval : r.file \in Made \cup {0}
  BY DEF BackupsInv, TableAddsUp, DumpsAddUp, RemovalsAddUp, RowAddsUp, Owns, Named
<1> QED BY <1>1, <1>2

\* A dump: the file is new, and the worker holds it.
LEMMA DumpKeepsInv ==
  ASSUME BackupsInv, DumpDatabase
  PROVE  BackupsInv'
<1>1. PICK f \in BackupIds : MakeFile(f) /\ bkWorker' = [bkWorker EXCEPT !.at = "dumped", !.file = f]
  BY DEF DumpDatabase
<1>2. /\ BackupsTypeOK /\ FilesNumbered /\ TableAddsUp(bkRow) /\ DumpsAddUp /\ RemovalsAddUp
      /\ WorkerAddsUp /\ DumpedIsNew /\ SuccessesHaveFiles /\ FilesHaveRows /\ RunningIsRun
  BY DEF BackupsInv
<1>3. /\ bkWorker.at = "dumping" /\ bkWorker.file = 0 /\ bkWorker.id \in BackupIds
      /\ bkWorker \in BackupTurn
  BY <1>2 DEF DumpDatabase, WorkerAddsUp, BackupsTypeOK, Runs
<1>4. /\ bkWorker'.at = "dumped" /\ bkWorker'.file = f /\ bkWorker'.id = bkWorker.id
      /\ bkWorker' \in BackupTurn
  <2>1. bkWorker' = [at |-> "dumped", id |-> bkWorker.id, file |-> f]
    BY <1>1, <1>3 DEF BackupTurn
  <2>2. f \in 0..MaxBackups /\ bkWorker.id \in 0..MaxBackups
    BY <1>3, BackupsAreBounded DEF BackupIds
  <2> QED BY <2>1, <2>2 DEF BackupTurn
<1>5. /\ FilesNumbered' /\ DumpsAddUp'
      /\ \A g \in Made' : bkDump'[g] \in Dump
      /\ f \notin Made /\ f # 0 /\ Made' = Made \cup {f} /\ Made' \subseteq BackupIds
      /\ bkDump'[f].job = bkWorker.id /\ bkDump'[f].rows = bkRow
      /\ \A g \in Made : bkDump'[g] = bkDump[g]
      /\ \A g, i : Owns(g, i) => Owns(g, i)'
      /\ \A row, i : RowAddsUp(row, i) => RowAddsUp(row, i)'
  BY <1>1, <1>3, MakingKeepsDumps
<1>6. bkDisk' = bkDisk \cup {f}
  BY <1>1 DEF MakeFile
<1>7. BackupsTypeOK'
  BY <1>2, <1>4, <1>5, <1>6 DEF BackupsTypeOK, Made, DumpDatabase
<1>8. TableAddsUp(bkRow)'
  BY <1>2, <1>5 DEF TableAddsUp, DumpDatabase
<1>9. RemovalsAddUp'
  BY <1>2, <1>5, <1>6, NamedAreMade DEF RemovalsAddUp, DumpDatabase
<1>10. WorkerAddsUp'
  BY <1>3, <1>4 DEF WorkerAddsUp
<1>11. DumpedIsNew'
  <2>1. f \notin Named(bkRow) /\ \A g \in Made : f \notin Named(bkDump[g].rows)
    BY <1>5, NamedAreMade
  <2>2. \A r \in bkRemoval : r.file # f
    BY <1>5, NamedAreMade
  <2>3. \A g \in Made' : bkDump'[g].rows = bkRow \/ (g \in Made /\ bkDump'[g] = bkDump[g])
    BY <1>5
  <2> QED BY <1>4, <1>5, <1>6, <2>1, <2>2, <2>3 DEF DumpedIsNew, Named, DumpDatabase
<1>12. SuccessesHaveFiles' /\ FilesHaveRows'
  BY <1>2, <1>3, <1>4, <1>6, NamedAreMade
  DEF SuccessesHaveFiles, Succeeded, FilesHaveRows, Named, DumpDatabase
<1>13. RunningIsRun'
  BY <1>2, <1>4 DEF RunningIsRun, Runs, DumpDatabase
<1> QED BY <1>5, <1>7, <1>8, <1>9, <1>10, <1>11, <1>12, <1>13 DEF BackupsInv

\* The part of a file a dump leaves is excused at once.
LEMMA TornKeepsInv ==
  ASSUME BackupsInv, bkWorker.at = "dumping", TornDump,
         bkWorker' \in BackupTurn, bkWorker'.at \in {"idle", "refused"}, bkWorker'.file = 0,
         Runs' => bkWorker'.id = bkWorker.id,
         bkStuck' = IF bkWorker'.at = "refused" THEN bkStuck ELSE bkStuck \cup {bkWorker.id},
         bkTrouble' \in 0..MaxBackupTrouble,
         UNCHANGED <<bkRow, bkNextId, bkSettings, bkAsked, bkRemoval, bkRestore>>
  PROVE  BackupsInv'
<1>1. /\ BackupsTypeOK /\ FilesNumbered /\ TableAddsUp(bkRow) /\ DumpsAddUp /\ RemovalsAddUp
      /\ WorkerAddsUp /\ DumpedIsNew /\ SuccessesHaveFiles /\ FilesHaveRows /\ RunningIsRun
  BY DEF BackupsInv
<1>2. bkWorker.id \in BackupIds /\ bkWorker.file = 0 /\ Runs
  BY <1>1 DEF WorkerAddsUp, Runs
<1>3. bkStuck' \subseteq BackupIds /\ bkStuck \subseteq bkStuck'
  BY <1>1, <1>2 DEF BackupsTypeOK
<1>4. RunningIsRun'
  BY <1>1, <1>3 DEF RunningIsRun, Runs
<1>5. WorkerAddsUp' /\ DumpedIsNew'
  BY <1>2 DEF WorkerAddsUp, DumpedIsNew, Runs
<1>6. CASE UNCHANGED <<bkDisk, bkDump, bkExcused>>
  <2>1. BackupsTypeOK'
    BY <1>1, <1>3, <1>6 DEF BackupsTypeOK
  <2>2. RemovalsAddUp'
    BY <1>1, <1>6 DEF RemovalsAddUp, Owns, Made
  <2>3. SuccessesHaveFiles' /\ FilesHaveRows'
    BY <1>1, <1>2, <1>6 DEF SuccessesHaveFiles, Succeeded, FilesHaveRows, Named
  <2> QED BY <1>4, <1>5, <1>6, <2>1, <2>2, <2>3, RowsStand
<1>7. ASSUME NEW f \in BackupIds, MakeFile(f), bkExcused' = bkExcused \cup {f}
      PROVE  BackupsInv'
  <2>1. /\ FilesNumbered' /\ DumpsAddUp'
        /\ \A g \in Made' : bkDump'[g] \in Dump
        /\ f \notin Made /\ f # 0 /\ Made' = Made \cup {f} /\ Made' \subseteq BackupIds
        /\ \A g, i : Owns(g, i) => Owns(g, i)'
        /\ \A row, i : RowAddsUp(row, i) => RowAddsUp(row, i)'
    BY <1>7, MakingKeepsDumps
  <2>2. bkDisk' = bkDisk \cup {f} /\ bkExcused' = bkExcused \cup {f}
    BY <1>7 DEF MakeFile
  <2>3. BackupsTypeOK'
    BY <1>1, <1>3, <2>1, <2>2 DEF BackupsTypeOK, Made
  <2>4. TableAddsUp(bkRow)'
    BY <1>1, <2>1 DEF TableAddsUp
  <2>5. RemovalsAddUp'
    BY <1>1, <2>1, <2>2, NamedAreMade DEF RemovalsAddUp
  <2>6. SuccessesHaveFiles' /\ FilesHaveRows'
    BY <1>1, <1>2, <2>2 DEF SuccessesHaveFiles, Succeeded, FilesHaveRows, Named
  <2> QED BY <1>4, <1>5, <2>1, <2>3, <2>4, <2>5, <2>6 DEF BackupsInv
<1> QED BY <1>6, <1>7 DEF TornDump

\* A dump that fails.
LEMMA FailureKeepsInv ==
  ASSUME BackupsInv, DumpFails
  PROVE  BackupsInv'
<1>1. bkWorker.at = "dumping" /\ bkWorker.file = 0 /\ bkWorker \in BackupTurn
  BY DEF DumpFails, BackupsInv, WorkerAddsUp, BackupsTypeOK
<1>2. /\ bkWorker'.at = "refused" /\ bkWorker'.file = 0 /\ bkWorker'.id = bkWorker.id
      /\ bkWorker' \in BackupTurn
  BY <1>1 DEF DumpFails, BackupTurn
<1>3. bkTrouble' \in 0..MaxBackupTrouble
  BY DEF DumpFails, BackupsInv, BackupsTypeOK
<1> QED BY <1>1, <1>2, <1>3, TornKeepsInv DEF DumpFails

-----------------------------------------------------------------------------
\* A job is loaded from a row, so its file is one of its own.
LEMMA LoadedAddsUp ==
  ASSUME BackupsInv, NEW i \in DOMAIN bkRow, NEW who \in {"worker", "panel"}
  PROVE  /\ Loaded(i, who) \in Removal /\ Gone(Loaded(i, who)) \in Removal
         /\ Loaded(i, who).id = i /\ Loaded(i, who).file = bkRow[i].file
         /\ Loaded(i, who).by = who /\ ~ Loaded(i, who).gone
         /\ Gone(Loaded(i, who)) = [id |-> i, file |-> bkRow[i].file, by |-> who, gone |-> TRUE]
         /\ Owns(bkRow[i].file, i)
<1>1. i \in BackupIds /\ bkRow[i].file \in 0..MaxBackups
  BY RowTyped DEF BackupsInv
<1>2. Owns(bkRow[i].file, i)
  BY DEF BackupsInv, TableAddsUp, RowAddsUp
<1>3. PICK f \in 0..MaxBackups : f = bkRow[i].file
  BY <1>1
<1>4. Loaded(i, who) = [id |-> i, file |-> f, by |-> who, gone |-> FALSE]
  BY <1>3 DEF Loaded
<1>5. Gone(Loaded(i, who)) = [id |-> i, file |-> f, by |-> who, gone |-> TRUE]
  BY <1>4 DEF Gone
<1>6. Loaded(i, who) \in Removal /\ Gone(Loaded(i, who)) \in Removal
  <2>1. \A gone \in BOOLEAN : [id |-> i, file |-> f, by |-> who, gone |-> gone] \in Removal
    BY <1>1 DEF Removal
  <2> QED BY <1>4, <1>5, <2>1
<1> QED BY <1>2, <1>3, <1>4, <1>5, <1>6

\* The pruning loads what it is to remove.
LEMMA SelectKeepsInv ==
  ASSUME BackupsInv, PruneSelect
  PROVE  BackupsInv'
<1>1. /\ BackupsTypeOK /\ TableAddsUp(bkRow) /\ RemovalsAddUp
      /\ WorkerAddsUp /\ SuccessesHaveFiles /\ FilesHaveRows /\ RunningIsRun
  BY DEF BackupsInv
<1>2. /\ bkWorker.at = "pruning" /\ bkWorker.file = 0 /\ ~ Runs
      /\ bkWorker'.at = "removing" /\ bkWorker'.file = 0 /\ bkWorker' \in BackupTurn
  BY <1>1, BackupsAreBounded DEF PruneSelect, WorkerAddsUp, NoBackup, BackupTurn, Runs
<1>3. \A i \in TooOld : /\ Loaded(i, "worker") \in Removal
                        /\ Loaded(i, "worker").id = i /\ Loaded(i, "worker").file = bkRow[i].file
                        /\ Loaded(i, "worker").by = "worker" /\ ~ Loaded(i, "worker").gone
                        /\ Owns(bkRow[i].file, i)
  BY LoadedAddsUp DEF TooOld, Succeeded
<1>4. BackupsTypeOK'
  BY <1>1, <1>2, <1>3 DEF BackupsTypeOK, PruneSelect
<1>5. RemovalsAddUp'
  BY <1>1, <1>3 DEF RemovalsAddUp, Owns, Made, PruneSelect
<1>6. WorkerAddsUp' /\ DumpedIsNew'
  BY <1>2 DEF WorkerAddsUp, DumpedIsNew, Runs
<1>7. SuccessesHaveFiles' /\ FilesHaveRows'
  BY <1>1, <1>2 DEF SuccessesHaveFiles, Succeeded, FilesGone, FilesHaveRows, Named, PruneSelect
<1>8. RunningIsRun'
  BY <1>1, <1>2 DEF RunningIsRun, PruneSelect
<1> QED BY <1>4, <1>5, <1>6, <1>7, <1>8, RowsStand DEF PruneSelect

\* A file goes before its row, and the removal says so.
LEMMA FileGoes ==
  ASSUME BackupsInv, NEW r, r \in Removal, r.gone, Owns(r.file, r.id),
         bkWorker.at = "dumped" => r.file # bkWorker.file,
         bkDisk' = bkDisk \ {r.file}, r \in bkRemoval', bkRemoval' \subseteq bkRemoval \cup {r},
         \A q \in bkRemoval : q.gone => q \in bkRemoval',
         UNCHANGED <<bkRow, bkNextId, bkDump, bkSettings, bkAsked, bkWorker, bkRestore, bkExcused,
                     bkStuck, bkTrouble>>
  PROVE  BackupsInv'
<1>1. /\ BackupsTypeOK /\ RemovalsAddUp /\ WorkerAddsUp /\ DumpedIsNew
      /\ SuccessesHaveFiles /\ FilesHaveRows /\ RunningIsRun
  BY DEF BackupsInv
<1>2. Runs' <=> Runs
  BY DEF Runs
<1>3. BackupsTypeOK'
  BY <1>1 DEF BackupsTypeOK
<1>4. RemovalsAddUp'
  BY <1>1 DEF RemovalsAddUp, Owns, Made
<1>5. WorkerAddsUp' /\ RunningIsRun'
  BY <1>1, <1>2 DEF WorkerAddsUp, RunningIsRun
<1>6. DumpedIsNew'
  BY <1>1 DEF DumpedIsNew, Named, Made
<1>7. FilesGone(bkRemoval) \cup {r.file} \subseteq FilesGone(bkRemoval)'
  BY DEF FilesGone
<1>8. SuccessesHaveFiles' /\ FilesHaveRows'
  BY <1>1, <1>7 DEF SuccessesHaveFiles, Succeeded, FilesHaveRows, Named
<1> QED BY <1>3, <1>4, <1>5, <1>6, <1>8, RowsStand

\* The pruning removes a file.
LEMMA PruneFileKeepsInv ==
  ASSUME BackupsInv, PruneFile
  PROVE  BackupsInv'
<1>1. PICK r \in Pruned : /\ ~ r.gone
                          /\ bkDisk' = bkDisk \ {r.file}
                          /\ bkRemoval' = (bkRemoval \ {r}) \cup {Gone(r)}
  BY DEF PruneFile
<1>2. r \in bkRemoval /\ r \in Removal /\ Owns(r.file, r.id) /\ bkWorker.at = "removing"
  BY <1>1 DEF Pruned, BackupsInv, BackupsTypeOK, RemovalsAddUp, PruneFile
<1>3. Gone(r) \in Removal /\ Gone(r).gone /\ Gone(r).file = r.file /\ Gone(r).id = r.id
  BY <1>2 DEF Gone, Removal
<1>4. /\ Gone(r) \in bkRemoval' /\ bkRemoval' \subseteq bkRemoval \cup {Gone(r)}
      /\ \A q \in bkRemoval : q.gone => q \in bkRemoval'
  BY <1>1
<1>5. /\ Owns(Gone(r).file, Gone(r).id) /\ bkDisk' = bkDisk \ {Gone(r).file}
      /\ bkWorker.at # "dumped"
  BY <1>1, <1>2, <1>3
<1> QED BY <1>3, <1>4, <1>5, FileGoes DEF PruneFile

\* The panel removes a file.
LEMMA DeleteFileKeepsInv ==
  ASSUME BackupsInv, NEW i, DeleteFile(i)
  PROVE  BackupsInv'
<1> DEFINE r == Gone(Loaded(i, "panel"))
<1>1. i \in DOMAIN bkRow
  BY DEF DeleteFile
<1>2. r \in Removal /\ r = [id |-> i, file |-> bkRow[i].file, by |-> "panel", gone |-> TRUE]
      /\ Owns(bkRow[i].file, i)
  BY <1>1, LoadedAddsUp
<1>3. bkDisk' = bkDisk \ {bkRow[i].file} /\ bkRemoval' = bkRemoval \cup {r}
  BY DEF DeleteFile, FilesOf
<1> HIDE DEF r
<1>4. r.gone /\ r.file = bkRow[i].file /\ r.id = i
  BY <1>2
<1>5. bkWorker.at = "dumped" => r.file # bkWorker.file
  BY <1>1, <1>4 DEF BackupsInv, DumpedIsNew, Named
<1> QED BY <1>2, <1>3, <1>4, <1>5, FileGoes DEF DeleteFile

\* Rows go whose files are removed: no other row named one of these, as a file is its
\* job's own.
LEMMA RowsGoKeepsInv ==
  ASSUME BackupsInv, NEW rs \in SUBSET bkRemoval, \A r \in rs : r.gone, RowsGo(rs),
         bkWorker' = bkWorker \/ (bkWorker.at = "removing" /\ bkWorker' = NoBackup),
         UNCHANGED <<bkNextId, bkDisk, bkDump, bkSettings, bkAsked, bkRestore, bkStuck, bkTrouble>>
  PROVE  BackupsInv'
<1> DEFINE ids == {r.id : r \in rs}
           left == FilesOf(ids \cap DOMAIN bkRow) \ ({0} \cup {r.file : r \in rs})
<1>1. /\ BackupsTypeOK /\ FilesNumbered /\ TableAddsUp(bkRow) /\ DumpsAddUp /\ RemovalsAddUp
      /\ WorkerAddsUp /\ DumpedIsNew /\ SuccessesHaveFiles /\ FilesHaveRows /\ RunningIsRun
  BY DEF BackupsInv
<1>2. bkRow' = Without(bkRow, ids) /\ bkRemoval' = bkRemoval \ rs /\ bkExcused' = bkExcused \cup left
  BY DEF RowsGo
<1>3. left \subseteq BackupIds
  BY <1>1, RowTyped DEF FilesOf
<1>4. \A r \in rs : r.id \in ids /\ r.file \notin bkDisk /\ Owns(r.file, r.id)
  BY <1>1 DEF RemovalsAddUp
<1>5. \A f \in bkDisk, k \in DOMAIN bkRow : bkRow[k].file = f /\ k \in ids => f \in left
  <2>1. 0 \notin bkDisk
    BY NamedAreMade
  <2> QED BY <1>4, <2>1 DEF FilesOf
<1> HIDE DEF left
<1>6. /\ bkRow' \in Tables /\ DOMAIN bkRow' = (DOMAIN bkRow) \ ids
      /\ \A k \in DOMAIN bkRow' : bkRow'[k] = bkRow[k]
  <2>1. bkRow \in Tables
    BY <1>1 DEF BackupsTypeOK
  <2> HIDE DEF ids
  <2> DEFINE rest == Without(bkRow, ids)
  <2>2. /\ rest \in Tables /\ DOMAIN rest = (DOMAIN bkRow) \ ids
        /\ \A k \in (DOMAIN bkRow) \ ids : rest[k] = bkRow[k]
    BY <2>1, WithoutIsTable
  <2> HIDE DEF rest
  <2>3. bkRow' = rest
    BY <1>2 DEF rest
  <2> QED BY <2>2, <2>3
<1> HIDE DEF ids
<1>7. /\ bkWorker' \in BackupTurn /\ bkWorker'.file = bkWorker.file /\ (Runs' <=> Runs)
      /\ (Runs' => bkWorker'.id = bkWorker.id)
  <2>1. NoBackup \in BackupTurn /\ NoBackup.at = "idle" /\ NoBackup.file = 0
    BY BackupsAreBounded DEF NoBackup, BackupTurn
  <2> QED BY <1>1, <2>1 DEF BackupsTypeOK, WorkerAddsUp, Runs
<1>8. BackupsTypeOK'
  BY <1>1, <1>2, <1>3, <1>6, <1>7 DEF BackupsTypeOK
<1>9. /\ FilesNumbered' /\ DumpsAddUp' /\ Made' = Made
      /\ \A row, i : RowAddsUp(row, i)' <=> RowAddsUp(row, i)
  BY <1>1, DumpsStand
<1>10. TableAddsUp(bkRow)'
  BY <1>1, <1>6, <1>9 DEF TableAddsUp
<1>11. RemovalsAddUp'
  BY <1>1, <1>2 DEF RemovalsAddUp, Owns, Made
<1>12. Named(bkRow)' \subseteq Named(bkRow)
  BY <1>6 DEF Named
<1>13. WorkerAddsUp' /\ DumpedIsNew'
  <2>1. CASE bkWorker' = bkWorker
    <3>1. WorkerAddsUp'
      BY <1>1, <1>7, <2>1 DEF WorkerAddsUp
    <3>2. DumpedIsNew'
      BY <1>1, <1>2, <1>9, <1>12, <2>1 DEF DumpedIsNew, Named
    <3> QED BY <3>1, <3>2
  <2>2. CASE bkWorker' = NoBackup
    <3>1. bkWorker'.at = "idle" /\ bkWorker'.file = 0
      BY <2>2 DEF NoBackup
    <3> QED BY <3>1 DEF WorkerAddsUp, DumpedIsNew, Runs
  <2> QED BY <2>1, <2>2
<1>14. SuccessesHaveFiles'
  <2> SUFFICES ASSUME NEW k \in DOMAIN bkRow', bkRow'[k].status = "success",
                      NEW f, f = bkRow[k].file, f \notin bkDisk, f \notin bkExcused
               PROVE  f \in FilesGone(bkRemoval')
    BY <1>2, <1>6 DEF SuccessesHaveFiles, Succeeded
  <2>1. k \in DOMAIN bkRow /\ k \notin ids /\ bkRow[k].status = "success"
    BY <1>6
  <2>2. f # 0 /\ Owns(f, k)
    BY <1>1, <2>1 DEF TableAddsUp, RowAddsUp
  <2>3. PICK q \in bkRemoval : q.gone /\ q.file = f
    BY <1>1, <2>1 DEF SuccessesHaveFiles, Succeeded, FilesGone
  <2>4. q \notin rs
    BY <1>4, <2>1, <2>2, <2>3 DEF Owns
  <2> QED BY <1>2, <2>3, <2>4 DEF FilesGone
<1>15. FilesHaveRows'
  <2> SUFFICES ASSUME NEW f \in bkDisk
               PROVE  f \in Named(bkRow)' \/ f \in bkExcused' \/ f = bkWorker'.file
    BY DEF FilesHaveRows
  <2>1. CASE f \in Named(bkRow)
    <3>1. PICK k \in DOMAIN bkRow : bkRow[k].file = f
      BY <2>1 DEF Named
    <3>2. CASE k \in ids
      BY <1>2, <1>5, <3>1, <3>2
    <3>3. CASE k \notin ids
      BY <1>6, <3>1, <3>3 DEF Named
    <3> QED BY <3>2, <3>3
  <2>2. CASE f \notin Named(bkRow)
    BY <1>1, <1>2, <1>7, <2>2 DEF FilesHaveRows
  <2> QED BY <2>1, <2>2
<1>16. RunningIsRun'
  BY <1>1, <1>6, <1>7 DEF RunningIsRun
<1> QED BY <1>8, <1>9, <1>10, <1>11, <1>13, <1>14, <1>15, <1>16 DEF BackupsInv

\* The pruning commits, and the panel does.
LEMMA RemovalCommitsKeepInv ==
  ASSUME BackupsInv, PruneCommit \/ \E r \in bkRemoval : DeleteRow(r)
  PROVE  BackupsInv'
<1>1. CASE PruneCommit
  <2>1. Pruned \in SUBSET bkRemoval /\ \A r \in Pruned : r.gone
    BY <1>1 DEF PruneCommit, Pruned
  <2>2. RowsGo(Pruned) /\ bkWorker.at = "removing" /\ bkWorker' = NoBackup
    BY <1>1 DEF PruneCommit
  <2> QED BY <1>1, <2>1, <2>2, RowsGoKeepsInv DEF PruneCommit
<1>2. ASSUME NEW r \in bkRemoval, DeleteRow(r) PROVE BackupsInv'
  <2>1. r.gone
    BY <1>2 DEF DeleteRow, BackupsInv, RemovalsAddUp
  <2> DEFINE rs == {r}
  <2>2. rs \in SUBSET bkRemoval /\ \A q \in rs : q.gone
    BY <2>1
  <2>3. RowsGo(rs) /\ bkWorker' = bkWorker
    BY <1>2 DEF DeleteRow
  <2> HIDE DEF rs
  <2>4. UNCHANGED <<bkNextId, bkDisk, bkDump, bkSettings, bkAsked, bkRestore, bkStuck, bkTrouble>>
    BY <1>2 DEF DeleteRow
  <2> QED BY <2>2, <2>3, <2>4, RowsGoKeepsInv
<1> QED BY <1>1, <1>2

\* A process ends that removed files: their rows miss them, and they are excused.
LEMMA RemovalEndsKeepsInv ==
  ASSUME BackupsInv, NEW rs \in SUBSET bkRemoval, RemovalEnds(rs),
         \/ bkWorker' = bkWorker /\ bkStuck' = bkStuck
         \/ /\ bkWorker.at # "dumped" /\ bkWorker' = NoBackup
            /\ bkStuck' = IF Runs THEN bkStuck \cup {bkWorker.id} ELSE bkStuck,
         bkTrouble' \in 0..MaxBackupTrouble,
         UNCHANGED <<bkRow, bkNextId, bkDisk, bkDump, bkSettings, bkAsked, bkRestore>>
  PROVE  BackupsInv'
<1>1. /\ BackupsTypeOK /\ TableAddsUp(bkRow) /\ RemovalsAddUp /\ WorkerAddsUp /\ DumpedIsNew
      /\ SuccessesHaveFiles /\ FilesHaveRows /\ RunningIsRun
  BY DEF BackupsInv
<1>2. bkRemoval' = bkRemoval \ rs /\ bkExcused' = bkExcused \cup (FilesGone(rs) \ {0})
  BY DEF RemovalEnds
<1>3. NoBackup \in BackupTurn /\ NoBackup.at = "idle" /\ NoBackup.file = 0
  BY BackupsAreBounded DEF NoBackup, BackupTurn
<1>4. bkWorker' \in BackupTurn /\ bkWorker'.file = bkWorker.file
  BY <1>1, <1>3 DEF BackupsTypeOK, WorkerAddsUp
<1>5. BackupsTypeOK'
  <2>1. FilesGone(rs) \ {0} \subseteq BackupIds
    BY NamedAreMade DEF FilesGone
  <2>2. bkStuck' \subseteq BackupIds
    BY <1>1 DEF BackupsTypeOK, WorkerAddsUp
  <2> QED BY <1>1, <1>2, <1>4, <2>1, <2>2 DEF BackupsTypeOK
<1>6. RemovalsAddUp'
  BY <1>1, <1>2 DEF RemovalsAddUp, Owns, Made
<1>7. WorkerAddsUp' /\ DumpedIsNew' /\ RunningIsRun'
  <2>1. CASE bkWorker' = bkWorker /\ bkStuck' = bkStuck
    <3>1. Runs' <=> Runs
      BY <2>1 DEF Runs
    <3> QED BY <1>1, <1>2, <2>1, <3>1 DEF WorkerAddsUp, DumpedIsNew, Named, Made, RunningIsRun
  <2>2. CASE /\ bkWorker.at # "dumped" /\ bkWorker' = NoBackup
             /\ bkStuck' = IF Runs THEN bkStuck \cup {bkWorker.id} ELSE bkStuck
    <3>1. WorkerAddsUp' /\ DumpedIsNew'
      BY <1>3, <2>2 DEF WorkerAddsUp, DumpedIsNew, Runs
    <3>2. RunningIsRun'
      BY <1>1, <2>2 DEF RunningIsRun
    <3> QED BY <3>1, <3>2
  <2> QED BY <2>1, <2>2
<1>8. SuccessesHaveFiles'
  <2> SUFFICES ASSUME NEW k \in Succeeded,
                      NEW f, f = bkRow[k].file, f \notin bkDisk, f \notin bkExcused'
               PROVE  f \in FilesGone(bkRemoval')
    BY DEF SuccessesHaveFiles, Succeeded
  <2>1. f # 0
    BY <1>1 DEF TableAddsUp, RowAddsUp, Succeeded
  <2>2. PICK q \in bkRemoval : q.gone /\ q.file = f
    BY <1>1, <1>2 DEF SuccessesHaveFiles, FilesGone
  <2>3. q \notin rs
    BY <1>2, <2>1, <2>2 DEF FilesGone
  <2> QED BY <1>2, <2>2, <2>3 DEF FilesGone
<1>9. FilesHaveRows'
  BY <1>1, <1>2, <1>4 DEF FilesHaveRows, Named
<1> QED BY <1>5, <1>6, <1>7, <1>8, <1>9, RowsStand

\* The API dies before the row is gone.
LEMMA DeletionDiesKeepsInv ==
  ASSUME BackupsInv, NEW r \in bkRemoval, DeletionDies(r)
  PROVE  BackupsInv'
<1>1. bkTrouble' \in 0..MaxBackupTrouble
  BY BackupsAreBounded DEF DeletionDies, BackupTrouble, BackupsInv, BackupsTypeOK
<1>2. {r} \in SUBSET bkRemoval
  OBVIOUS
<1> QED BY <1>1, <1>2, RemovalEndsKeepsInv DEF DeletionDies

\* The worker dies in a dump, after one, or elsewhere.
LEMMA WorkerDeathKeepsInv ==
  ASSUME BackupsInv, BackupWorkerDies
  PROVE  BackupsInv'
<1>1. /\ bkTrouble' \in 0..MaxBackupTrouble
      /\ bkWorker' = NoBackup /\ NoBackup \in BackupTurn /\ NoBackup.at = "idle" /\ NoBackup.file = 0
      /\ bkStuck' = IF Runs THEN bkStuck \cup {bkWorker.id} ELSE bkStuck
      /\ UNCHANGED <<bkRow, bkNextId, bkSettings, bkAsked, bkRestore>>
  <2>1. bkTrouble' \in 0..MaxBackupTrouble
    BY BackupsAreBounded DEF BackupWorkerDies, BackupTrouble, BackupsInv, BackupsTypeOK
  <2>2. NoBackup \in BackupTurn /\ NoBackup.at = "idle" /\ NoBackup.file = 0
    BY BackupsAreBounded DEF NoBackup, BackupTurn
  <2> QED BY <2>1, <2>2 DEF BackupWorkerDies, Runs
<1>2. CASE bkWorker.at = "dumping"
  <2>1. TornDump /\ UNCHANGED bkRemoval /\ bkStuck' = bkStuck \cup {bkWorker.id}
    BY <1>2 DEF BackupWorkerDies
  <2>2. ~ Runs'
    BY <1>1 DEF Runs
  <2> QED BY <1>1, <1>2, <2>1, <2>2, TornKeepsInv
<1>3. CASE bkWorker.at = "dumped"
  <2>1. /\ bkExcused' = bkExcused \cup {bkWorker.file} /\ UNCHANGED <<bkDisk, bkDump, bkRemoval>>
        /\ bkStuck' = bkStuck \cup {bkWorker.id}
    BY <1>3 DEF BackupWorkerDies
  <2>2. /\ BackupsTypeOK /\ RemovalsAddUp /\ WorkerAddsUp /\ DumpedIsNew /\ SuccessesHaveFiles
        /\ FilesHaveRows /\ RunningIsRun /\ Made \subseteq BackupIds
    BY NamedAreMade DEF BackupsInv
  <2>3. bkWorker.id \in BackupIds /\ bkWorker.file \in BackupIds
    BY <1>3, <2>2 DEF WorkerAddsUp, DumpedIsNew, Runs
  <2>4. BackupsTypeOK'
    BY <1>1, <2>1, <2>2, <2>3 DEF BackupsTypeOK
  <2>5. RemovalsAddUp' /\ WorkerAddsUp' /\ DumpedIsNew'
    BY <1>1, <2>1, <2>2 DEF RemovalsAddUp, Owns, Made, WorkerAddsUp, DumpedIsNew, Runs
  <2>6. SuccessesHaveFiles' /\ FilesHaveRows' /\ RunningIsRun'
    BY <1>1, <2>1, <2>2 DEF SuccessesHaveFiles, Succeeded, FilesHaveRows, Named, RunningIsRun
  <2> QED BY <1>1, <2>1, <2>4, <2>5, <2>6, RowsStand
<1>4. CASE bkWorker.at \notin {"dumping", "dumped"}
  <2>1. RemovalEnds(Pruned) /\ UNCHANGED <<bkDisk, bkDump>> /\ Pruned \in SUBSET bkRemoval
    BY <1>4 DEF BackupWorkerDies, Pruned
  <2> QED BY <1>1, <1>4, <2>1, RemovalEndsKeepsInv
<1> QED BY <1>2, <1>3, <1>4

-----------------------------------------------------------------------------
\* The table turns back to one that named only files made by then: what is at odds with
\* the disk of today is excused.
LEMMA TurnsBackKeepsInv ==
  ASSUME BackupsInv, NEW rows \in Tables, NEW next \in 1..(MaxBackups + 1),
         NEW settings \in Settings \cup {Unset},
         TableAddsUp(rows), bkWorker.at = "dumped" => bkWorker.file \notin Named(rows),
         TurnsBack(rows, next, settings), bkRestore' = 0,
         UNCHANGED <<bkDisk, bkDump, bkWorker, bkRemoval, bkTrouble>>
  PROVE  BackupsInv'
<1>1. /\ BackupsTypeOK /\ FilesNumbered /\ DumpsAddUp /\ RemovalsAddUp /\ WorkerAddsUp
      /\ DumpedIsNew /\ bkDisk \subseteq Made /\ Made \subseteq BackupIds
  BY NamedAreMade DEF BackupsInv
<1>2. /\ bkRow' = rows /\ bkNextId' = next /\ bkSettings' = settings /\ bkAsked' = settings
      /\ bkExcused' = bkExcused \cup (bkDisk \ (Named(rows) \cup {bkWorker.file}))
                                \cup (Named(rows) \ (bkDisk \cup {0}))
      /\ bkStuck' = bkStuck \cup {i \in DOMAIN rows : rows[i].status = "running"}
  BY DEF TurnsBack
<1>3. BackupsTypeOK'
  <2>1. DOMAIN rows \subseteq BackupIds
    BY TypedByRows
  <2>2. Named(rows) \subseteq Made \cup {0}
    BY DEF TableAddsUp, RowAddsUp, Owns, Named
  <2>3. bkExcused' \subseteq BackupIds /\ bkStuck' \subseteq BackupIds
    BY <1>1, <1>2, <2>1, <2>2 DEF BackupsTypeOK
  <2> QED BY <1>1, <1>2, <2>3 DEF BackupsTypeOK
<1>4. /\ FilesNumbered' /\ DumpsAddUp' /\ Made' = Made
      /\ \A row, i : RowAddsUp(row, i)' <=> RowAddsUp(row, i)
  BY <1>1, DumpsStand
<1>5. TableAddsUp(bkRow)'
  BY <1>2, <1>4 DEF TableAddsUp
<1>6. RemovalsAddUp' /\ WorkerAddsUp'
  BY <1>1 DEF RemovalsAddUp, Owns, Made, WorkerAddsUp, Runs
<1>7. DumpedIsNew'
  BY <1>1, <1>2, <1>4 DEF DumpedIsNew, Named
<1>8. SuccessesHaveFiles'
  BY <1>2 DEF SuccessesHaveFiles, Succeeded, TableAddsUp, RowAddsUp, Named
<1>9. FilesHaveRows' /\ RunningIsRun'
  BY <1>2 DEF FilesHaveRows, RunningIsRun, Named
<1> QED BY <1>3, <1>4, <1>5, <1>6, <1>7, <1>8, <1>9 DEF BackupsInv

\* A restore, through or stopped halfway.
LEMMA RestoreKeepsInv ==
  ASSUME BackupsInv, RestoreDone \/ RestoreFails
  PROVE  BackupsInv'
<1> DEFINE dump == bkDump[bkRestore]
<1>1. /\ bkRestore \in Made /\ bkRestore' = 0
      /\ UNCHANGED <<bkDisk, bkDump, bkWorker, bkRemoval, bkTrouble>>
  BY DEF RestoreDone, RestoreFails, BackupsInv, BackupsTypeOK, Made
<1>2. /\ dump.rows \in Tables /\ dump.next \in 1..(MaxBackups + 1)
      /\ dump.settings \in Settings \cup {Unset}
      /\ TableAddsUp(dump.rows)
      /\ bkWorker.at = "dumped" => bkWorker.file \notin Named(dump.rows)
  <2>1. dump \in Dump
    BY <1>1 DEF BackupsInv, BackupsTypeOK, Made
  <2>2. /\ TableAddsUp(dump.rows)
        /\ bkWorker.at = "dumped" => bkWorker.file \notin Named(dump.rows)
    BY <1>1 DEF BackupsInv, DumpsAddUp, DumpedIsNew
  <2> QED BY <2>1, <2>2 DEF Dump
<1>3. NoRows \in Tables /\ TableAddsUp(NoRows) /\ Named(NoRows) = {}
  <2>1. DOMAIN NoRows = {} /\ NoRows \in [{} -> BackupRow]
    BY DEF NoRows
  <2> QED BY <2>1 DEF Tables, TableAddsUp, Named
<1>4. 1 \in 1..(MaxBackups + 1) /\ Unset \in Settings \cup {Unset}
  BY BackupsAreBounded
<1>5. \/ TurnsBack(dump.rows, dump.next, dump.settings)
      \/ UNCHANGED <<bkRow, bkNextId, bkSettings, bkAsked, bkExcused, bkStuck>>
      \/ TurnsBack(NoRows, 1, Unset)
      \/ TurnsBack(dump.rows, 1, Unset)
      \/ TurnsBack(dump.rows, 1, dump.settings)
  BY DEF RestoreDone, RestoreFails
<1> HIDE DEF dump
<1>6. CASE UNCHANGED <<bkRow, bkNextId, bkSettings, bkAsked, bkExcused, bkStuck>>
  <2>1. BackupsTypeOK'
    BY <1>1, <1>6 DEF BackupsInv, BackupsTypeOK
  <2> QED BY <1>1, <1>6, <2>1, AllStands
<1>7. CASE TurnsBack(NoRows, 1, Unset)
  BY <1>1, <1>3, <1>4, <1>7, TurnsBackKeepsInv
<1>8. CASE TurnsBack(dump.rows, dump.next, dump.settings)
  BY <1>1, <1>2, <1>8, TurnsBackKeepsInv
<1>9. CASE TurnsBack(dump.rows, 1, Unset) \/ TurnsBack(dump.rows, 1, dump.settings)
  BY <1>1, <1>2, <1>4, <1>9, TurnsBackKeepsInv
<1> QED BY <1>5, <1>6, <1>7, <1>8, <1>9

\* Nothing moves.
LEMMA NothingBackedUp ==
  ASSUME BackupsInv, UNCHANGED bkVars
  PROVE  BackupsInv'
<1>1. BackupsTypeOK'
  BY DEF BackupsInv, BackupsTypeOK, bkVars
<1> QED BY <1>1, AllStands DEF bkVars

\* Every step keeps it.
LEMMA BackupsStepKeepsInv ==
  ASSUME BackupsInv, [BackupsNext]_bkVars
  PROVE  BackupsInv'
<1>1. CASE BackupsTrigger \/ BackupsSettings
  BY <1>1, TriggerKeepsInv, SettingsKeepInv
<1>2. CASE BeginBackupTurn \/ NextPending \/ StartBackup
  BY <1>2, TurnBeginKeepsInv, NextPendingKeepsInv, StartKeepsInv
<1>3. CASE DumpDatabase \/ DumpFails \/ RecordBackup
  BY <1>3, DumpKeepsInv, FailureKeepsInv, RecordKeepsInv
<1>4. CASE PruneSelect \/ PruneFile \/ PruneCommit
  BY <1>4, SelectKeepsInv, PruneFileKeepsInv, RemovalCommitsKeepInv
<1>5. CASE BackupWorkerDies \/ RestoreDone \/ RestoreFails
  BY <1>5, WorkerDeathKeepsInv, RestoreKeepsInv
<1>6. CASE \E i \in BackupIds : BackupsDelete(i) \/ BackupsRestore(i)
  BY <1>6, DeleteFileKeepsInv, RestoreBeginKeepsInv DEF BackupsDelete
<1>7. CASE \E r \in bkRemoval : DeleteRow(r) \/ DeletionDies(r)
  BY <1>7, RemovalCommitsKeepInv, DeletionDiesKeepsInv
<1>8. CASE UNCHANGED bkVars
  BY <1>8, NothingBackedUp
<1> QED BY <1>1, <1>2, <1>3, <1>4, <1>5, <1>6, <1>7, <1>8 DEF BackupsNext

\* The types of jobs, files, dumps, removals and the worker are kept (BackupsTypeOK), and
\* with them the whole invariant.
THEOREM BackupsTypeCorrect == BackupsSpec => []BackupsTypeOK
<1>1. BackupsInit => BackupsInv
  BY BackupsBegin
<1>2. BackupsInv /\ [BackupsNext]_bkVars => BackupsInv'
  BY BackupsStepKeepsInv
<1>3. BackupsInv => BackupsTypeOK
  BY DEF BackupsInv
<1> QED BY <1>1, <1>2, <1>3, PTL DEF BackupsSpec

\* BackupsAddUp: the file of a backup that succeeded is there or about to go with its
\* row, a file has its row or is being made, and a running job is being run, whatever
\* order the worker, the panel and a restore act in (process_backups_once, prune,
\* delete_job, restore): a removal takes the file before the row, and no other row named
\* that file.  Excused is only what a death, a failed dump, the deletion of the running
\* job or a restore left.
THEOREM BackupsAlwaysAddUp == BackupsSpec => []BackupsAddUp
<1>1. BackupsInit => BackupsInv
  BY BackupsBegin
<1>2. BackupsInv /\ [BackupsNext]_bkVars => BackupsInv'
  BY BackupsStepKeepsInv
<1>3. BackupsInv => BackupsAddUp
  BY BackupsInvShows
<1> QED BY <1>1, <1>2, <1>3, PTL DEF BackupsSpec

-----------------------------------------------------------------------------
(* Forms: one edit for each press. *)

FormCalls == [call : {"set", "put", "get", "close", "forget", "branch", "write"},
              on : FormStates \cup FormKeys]

\* The calls in a list.
In(list) == {list[i] : i \in 1..Len(list)}
Once(list) == \A i, k \in 1..Len(list) : list[i] = list[k] => i = k

\* The keys of the forms differ where their data does.
LEMMA KeysOfForms ==
  /\ DataKey["name"] = "parent_id" /\ DataKey["topup"] = "amount" /\ DataKey["broadcast"] = "message_id"
  /\ \A f \in FormNames : /\ f \in OnSettings <=> DataKey[f] = "none"
                          /\ DataKey[f] = "parent_id" => f = "name"
                          /\ DataKey[f] = "amount" => f = "topup"
                          /\ DataKey[f] = "message_id" => f = "broadcast"
                          /\ DataKey[f] # "method"
                          /\ DataKey[f] \in FormKeys
  /\ "method" \in FormKeys
BY DEF DataKey, FormNames, OnMedia, OnSettings, OnPlans, FormKeys

\* Calls are told apart by their name and what they are on.
LEMMA CallsDiffer ==
  /\ \A s, t : SetTo(s) = SetTo(t) => s = t
  /\ \A s, t : Remember(s) = Remember(t) => s = t
  /\ \A s, t : Get(s) = Get(t) => s = t
  /\ \A s, k : /\ SetTo(s) # Remember(k) /\ SetTo(s) # Get(k) /\ Remember(s) # Get(k)
  /\ \A s : /\ SetTo(s) \notin {Close, Forget, Branch, Write}
            /\ Remember(s) \notin {Close, Forget, Branch, Write}
            /\ Get(s) \notin {Close, Forget, Branch, Write}
  /\ Close # Forget /\ Close # Branch /\ Close # Write
  /\ Forget # Branch /\ Forget # Write /\ Branch # Write
<1>1. /\ \A s, t : SetTo(s) = SetTo(t) => s = t
      /\ \A s, t : Remember(s) = Remember(t) => s = t
      /\ \A s, t : Get(s) = Get(t) => s = t
  BY DEF SetTo, Remember, Get
<1>2. /\ \A s : SetTo(s).call = "set" /\ Remember(s).call = "put" /\ Get(s).call = "get"
      /\ Close.call = "close" /\ Forget.call = "forget" /\ Branch.call = "branch" /\ Write.call = "write"
  BY DEF SetTo, Remember, Get, Close, Forget, Branch, Write
<1> QED BY <1>1, <1>2

\* What a call is follows from its name.
LEMMA CallsByName ==
  ASSUME NEW c \in FormCalls
  PROVE  /\ c.call = "set" => c = SetTo(c.on)
         /\ c.call = "put" => c = Remember(c.on)
         /\ c.call = "get" => c = Get(c.on)
BY DEF FormCalls, SetTo, Remember, Get

\* A list without its first call.
LEMMA FirstCallMade ==
  ASSUME NEW list \in Seq(FormCalls), list # <<>>, Once(list)
  PROVE  /\ Tail(list) \in Seq(FormCalls) /\ Once(Tail(list))
         /\ In(Tail(list)) = In(list) \ {Head(list)} /\ Head(list) \in In(list)
         /\ Tail(list) = <<>> <=> In(Tail(list)) = {}
<1>1. Len(list) \in Nat /\ Len(list) >= 1 /\ Len(Tail(list)) = Len(list) - 1
      /\ Tail(list) \in Seq(FormCalls) /\ Head(list) = list[1]
  OBVIOUS
<1>2. \A i \in 1..Len(Tail(list)) : Tail(list)[i] = list[i + 1]
  OBVIOUS
<1>3. Once(Tail(list))
  BY <1>1, <1>2 DEF Once
<1>4. In(Tail(list)) \subseteq In(list) \ {Head(list)}
  BY <1>1, <1>2 DEF In, Once
<1>5. In(list) \ {Head(list)} \subseteq In(Tail(list))
  <2> SUFFICES ASSUME NEW i \in 1..Len(list), list[i] # list[1]
               PROVE  list[i] \in In(Tail(list))
    BY <1>1 DEF In
  <2>1. i # 1 /\ i - 1 \in 1..Len(Tail(list)) /\ (i - 1) + 1 = i
    BY <1>1
  <2>2. Tail(list)[i - 1] = list[i]
    BY <1>2, <2>1
  <2> QED BY <2>1, <2>2 DEF In
<1>6. Head(list) \in In(list)
  BY <1>1 DEF In
<1>7. Tail(list) = <<>> <=> In(Tail(list)) = {}
  <2>1. CASE Len(list) = 1
    <3>1. Len(Tail(list)) = 0
      BY <1>1, <2>1
    <3>2. Tail(list) = <<>>
      BY <1>1, <3>1, EmptySeq
    <3>3. 1..0 = {}
      OBVIOUS
    <3> QED BY <3>1, <3>2, <3>3 DEF In
  <2>2. CASE Len(list) # 1
    <3>1. 1 \in 1..Len(Tail(list)) /\ Tail(list) # <<>>
      BY <1>1, <2>2
    <3> QED BY <3>1 DEF In
  <2> QED BY <2>1, <2>2
<1> QED BY <1>1, <1>3, <1>4, <1>5, <1>6, <1>7

\* A list of one.
LEMMA ListOfOne ==
  ASSUME NEW a \in FormCalls
  PROVE  /\ <<a>> \in Seq(FormCalls) /\ Once(<<a>>) /\ In(<<a>>) = {a} /\ <<a>> # <<>>
         /\ Head(<<a>>) = a
<1>1. 1..1 = {1}
  OBVIOUS
<1> QED BY <1>1 DEF Once, In

\* A list of two.
LEMMA ListOfTwo ==
  ASSUME NEW a \in FormCalls, NEW b \in FormCalls,
         a # b
  PROVE  /\ <<a, b>> \in Seq(FormCalls) /\ Once(<<a, b>>) /\ In(<<a, b>>) = {a, b} /\ <<a, b>> # <<>>
         /\ Head(<<a, b>>) = a
<1>1. 1..2 = {1, 2}
  OBVIOUS
<1> QED BY <1>1 DEF Once, In

\* A list of three.
LEMMA ListOfThree ==
  ASSUME NEW a \in FormCalls, NEW b \in FormCalls, NEW c \in FormCalls,
         a # b, a # c, b # c
  PROVE  /\ <<a, b, c>> \in Seq(FormCalls) /\ Once(<<a, b, c>>) /\ In(<<a, b, c>>) = {a, b, c} /\ <<a, b, c>> # <<>>
         /\ Head(<<a, b, c>>) = a
<1>1. 1..3 = {1, 2, 3}
  OBVIOUS
<1> QED BY <1>1 DEF Once, In

\* A list of four.
LEMMA ListOfFour ==
  ASSUME NEW a \in FormCalls, NEW b \in FormCalls, NEW c \in FormCalls, NEW d \in FormCalls,
         a # b, a # c, a # d, b # c, b # d, c # d
  PROVE  /\ <<a, b, c, d>> \in Seq(FormCalls) /\ Once(<<a, b, c, d>>) /\ In(<<a, b, c, d>>) = {a, b, c, d} /\ <<a, b, c, d>> # <<>>
         /\ Head(<<a, b, c, d>>) = a
<1>1. 1..4 = {1, 2, 3, 4}
  OBVIOUS
<1> QED BY <1>1 DEF Once, In

-----------------------------------------------------------------------------
\* A handler and the calls it has left: it opens a form, ends one, reads what the form
\* is about before it ends it, or reads how a payment comes and goes on by that.
HandlerTarget == FormTargets \cup {"none", "online", "card"}
FormHandler == [todo : Seq(FormCalls), form : FormNames \cup {"none", "menu"}, target : HandlerTarget]
Left(h) == In(foHandler[h].todo)
Opens(h) == \E s \in FormStates \ {"none"}, k \in FormKeys : Left(h) \subseteq {SetTo(s), Remember(k)}
Ends(h) == Left(h) \subseteq {Close, Forget, Write} /\ (Write \in Left(h) => foHandler[h].form \in FormNames \ {"search"})
AsksFirst(h) ==
  /\ foHandler[h].form \in FormNames \ (OnSettings \cup {"search"})
  /\ Left(h) = {Get(DataKey[foHandler[h].form]), Close, Forget, Write}
  /\ Head(foHandler[h].todo) = Get(DataKey[foHandler[h].form])
Decides(h) ==
  foHandler[h].form = "topup" /\ Branch \in Left(h) /\ Left(h) \subseteq {Get("method"), Branch}
InOrder(h) ==
  /\ Once(foHandler[h].todo) /\ (foHandler[h].todo = <<>> => foHandler[h] = NoHandler)
  /\ Opens(h) \/ Ends(h) \/ AsksFirst(h) \/ Decides(h)
  /\ Remember("parent_id") \in Left(h) => foHandler[h].target # "none"
  /\ Remember("amount") \in Left(h) => foHandler[h].target = "sum"

FormTypes == FormsTypeOK /\ foHandler \in [Handlers -> FormHandler] /\ \A h \in Handlers : InOrder(h)

\* Handler h has only these calls left, for this form and target; the others stand.
HasLeft(h, calls, form, target) ==
  /\ foHandler' \in [Handlers -> FormHandler]
  /\ Left(h)' = calls
  /\ calls # {} => foHandler'[h].form = form /\ foHandler'[h].target = target
  /\ foHandler'[h] = NoHandler <=> calls = {}
  /\ \A g \in Handlers \ {h} : foHandler'[g] = foHandler[g] /\ Left(g)' = Left(g)

\* A handler is idle when it has no call left.
LEMMA IdleHasNothingLeft ==
  ASSUME FormTypes, NEW h \in Handlers
  PROVE  foHandler[h] = NoHandler <=> Left(h) = {}
<1>1. foHandler[h] \in FormHandler /\ InOrder(h)
  BY DEF FormTypes
<1>2. ASSUME foHandler[h] = NoHandler PROVE Left(h) = {}
  <2>1. Len(foHandler[h].todo) = 0
    BY <1>2 DEF NoHandler
  <2>2. 1..0 = {}
    OBVIOUS
  <2> QED BY <2>1, <2>2 DEF Left, In
<1>3. ASSUME Left(h) = {} PROVE foHandler[h] = NoHandler
  <2>1. foHandler[h].todo \in Seq(FormCalls)
    BY <1>1 DEF FormHandler
  <2>2. foHandler[h].todo = <<>>
    <3> SUFFICES ASSUME foHandler[h].todo # <<>> PROVE FALSE
      OBVIOUS
    <3>1. Len(foHandler[h].todo) \in Nat \ {0}
      BY <2>1, EmptySeq
    <3>2. 1 \in 1..Len(foHandler[h].todo)
      BY <3>1
    <3> QED BY <1>3, <3>2 DEF Left, In
  <2> QED BY <1>1, <2>2 DEF InOrder
<1> QED BY <1>2, <1>3

\* One call is made, other than the branch.
LEMMA CallIsMade ==
  ASSUME FormTypes, NEW h \in Handlers, NEW target \in HandlerTarget, foHandler[h].todo # <<>>,
         NextCall(h) # Branch, CallMade(h, target),
         target = foHandler[h].target \/ NextCall(h).call = "get"
  PROVE  /\ NextCall(h) \in Left(h) /\ NextCall(h) \in FormCalls
         /\ HasLeft(h, Left(h) \ {NextCall(h)}, foHandler[h].form, target)
         /\ \A g \in Handlers : InOrder(g)'
<1> DEFINE c == NextCall(h)
<1>1. foHandler[h] \in FormHandler /\ InOrder(h) /\ foHandler \in [Handlers -> FormHandler]
  BY DEF FormTypes
<1>2. foHandler[h].todo \in Seq(FormCalls) /\ Once(foHandler[h].todo)
  BY <1>1 DEF FormHandler, InOrder
<1>3. PICK rest : rest = Tail(foHandler[h].todo)
  OBVIOUS
<1>4. /\ rest \in Seq(FormCalls) /\ Once(rest) /\ In(rest) = Left(h) \ {c} /\ c \in Left(h)
      /\ (rest = <<>> <=> In(rest) = {})
  BY <1>2, <1>3, FirstCallMade DEF NextCall, Left
<1>5. c \in FormCalls
  <2>1. Len(foHandler[h].todo) \in Nat \ {0} /\ c = foHandler[h].todo[1]
    BY <1>2, EmptySeq DEF NextCall
  <2> QED BY <1>2, <2>1
<1>6. foHandler' = [foHandler EXCEPT ![h] =
         IF rest = <<>> THEN NoHandler ELSE [todo |-> rest, form |-> foHandler[h].form, target |-> target]]
  BY <1>1, <1>3 DEF CallMade, GoesOn
<1>7. \A g \in Handlers \ {h} : foHandler'[g] = foHandler[g] /\ Left(g)' = Left(g)
  BY <1>1, <1>6 DEF Left
<1>8. foHandler'[h] = IF rest = <<>> THEN NoHandler ELSE [todo |-> rest, form |-> foHandler[h].form, target |-> target]
  BY <1>1, <1>6
<1>9. NoHandler \in FormHandler /\ NoHandler.todo = <<>> /\ In(<<>>) = {} /\ Once(<<>>)
  <2>1. 1..0 = {} /\ Len(<<>>) = 0 /\ <<>> \in Seq(FormCalls)
    OBVIOUS
  <2> QED BY <2>1 DEF NoHandler, FormHandler, HandlerTarget, In, Once
<1>10. Left(h)' = In(rest) /\ foHandler'[h].todo = rest
  <2>1. CASE rest = <<>>
    BY <1>8, <1>9, <2>1 DEF Left
  <2>2. CASE rest # <<>>
    BY <1>8, <2>2 DEF Left
  <2> QED BY <2>1, <2>2
<1>11. foHandler'[h] \in FormHandler /\ (foHandler'[h] = NoHandler <=> rest = <<>>)
  <2>1. CASE rest = <<>>
    BY <1>8, <1>9, <2>1
  <2>2. CASE rest # <<>>
    <3>1. [todo |-> rest, form |-> foHandler[h].form, target |-> target] \in FormHandler
      BY <1>1, <1>4 DEF FormHandler
    <3>2. foHandler'[h].todo = rest
      BY <1>10
    <3> QED BY <1>8, <1>9, <2>2, <3>1, <3>2
  <2> QED BY <2>1, <2>2
<1>12. foHandler' \in [Handlers -> FormHandler]
  BY <1>1, <1>6, <1>11
<1>13. HasLeft(h, Left(h) \ {c}, foHandler[h].form, target)
  <2>1. Left(h) \ {c} # {} => foHandler'[h].form = foHandler[h].form /\ foHandler'[h].target = target
    BY <1>4, <1>8
  <2> QED BY <1>4, <1>7, <1>10, <1>11, <1>12, <2>1 DEF HasLeft
<1>14. InOrder(h)'
  <2>1. Once(foHandler'[h].todo) /\ (foHandler'[h].todo = <<>> => foHandler'[h] = NoHandler)
    BY <1>4, <1>10, <1>11
  <2>2. CASE rest = <<>>
    <3>1. Left(h)' = {}
      BY <1>4, <1>10, <2>2
    <3>2. Ends(h)'
      BY <3>1 DEF Ends
    <3> QED BY <2>1, <3>1, <3>2 DEF InOrder
  <2>3. CASE rest # <<>>
    <3>1. Left(h)' = Left(h) \ {c} /\ foHandler'[h].form = foHandler[h].form /\ foHandler'[h].target = target
      BY <1>4, <1>8, <1>10, <2>3
    <3>2. CASE Opens(h)
      <4>1. Opens(h)'
        BY <3>1, <3>2 DEF Opens
      <4>2. c.call # "get"
        BY <1>4, <3>2 DEF Opens, SetTo, Remember
      <4> QED BY <1>1, <2>1, <3>1, <4>1, <4>2 DEF InOrder
    <3>3. CASE Ends(h)
      <4>1. Ends(h)'
        BY <3>1, <3>3 DEF Ends
      <4>2. Remember("parent_id") \notin Left(h)' /\ Remember("amount") \notin Left(h)'
        BY <3>1, <3>3, CallsDiffer DEF Ends
      <4> QED BY <2>1, <4>1, <4>2 DEF InOrder
    <3>4. CASE AsksFirst(h)
      <4>1. Left(h)' = {Close, Forget, Write}
        BY <3>1, <3>4, CallsDiffer DEF AsksFirst, NextCall
      <4>2. Ends(h)'
        BY <3>1, <3>4, <4>1 DEF Ends, AsksFirst
      <4>3. Remember("parent_id") \notin Left(h)' /\ Remember("amount") \notin Left(h)'
        BY <4>1, CallsDiffer
      <4> QED BY <2>1, <4>2, <4>3 DEF InOrder
    <3>5. CASE Decides(h)
      <4>1. Decides(h)'
        BY <1>4, <3>1, <3>5 DEF Decides
      <4>2. Remember("parent_id") \notin Left(h)' /\ Remember("amount") \notin Left(h)'
        BY <3>1, <3>5, CallsDiffer DEF Decides
      <4> QED BY <2>1, <4>1, <4>2 DEF InOrder
    <3> QED BY <1>1, <3>2, <3>3, <3>4, <3>5 DEF InOrder
  <2> QED BY <2>2, <2>3
<1>15. \A g \in Handlers \ {h} : InOrder(g)'
  <2> SUFFICES ASSUME NEW g \in Handlers \ {h} PROVE InOrder(g)'
    OBVIOUS
  <2>1. InOrder(g) /\ foHandler'[g] = foHandler[g] /\ Left(g)' = Left(g)
    BY <1>7 DEF FormTypes
  <2> QED BY <2>1 DEF InOrder, Opens, Ends, AsksFirst, Decides
<1> QED BY <1>4, <1>5, <1>13, <1>14, <1>15

\* A handler takes a list of calls, in one of the four orders.
LEMMA CallsAreTaken ==
  ASSUME FormTypes, NEW h \in Handlers, NEW list \in Seq(FormCalls), list # <<>>, Once(list),
         NEW form \in FormNames \cup {"none", "menu"}, NEW target \in HandlerTarget,
         foHandler' = [foHandler EXCEPT ![h] = [todo |-> list, form |-> form, target |-> target]],
         \/ \E s \in FormStates \ {"none"}, k \in FormKeys : In(list) \subseteq {SetTo(s), Remember(k)}
         \/ In(list) \subseteq {Close, Forget, Write} /\ (Write \in In(list) => form \in FormNames \ {"search"})
         \/ /\ form \in FormNames \ (OnSettings \cup {"search"}) /\ Head(list) = Get(DataKey[form])
            /\ In(list) = {Get(DataKey[form]), Close, Forget, Write}
         \/ form = "topup" /\ Branch \in In(list) /\ In(list) \subseteq {Get("method"), Branch},
         Remember("parent_id") \in In(list) => target # "none",
         Remember("amount") \in In(list) => target = "sum"
  PROVE  HasLeft(h, In(list), form, target) /\ In(list) # {} /\ \A g \in Handlers : InOrder(g)'
<1> DEFINE task == [todo |-> list, form |-> form, target |-> target]
<1>1. foHandler \in [Handlers -> FormHandler] /\ \A g \in Handlers : InOrder(g)
  BY DEF FormTypes
<1>2. task \in FormHandler /\ task.todo = list /\ task.form = form /\ task.target = target
  BY DEF FormHandler
<1>3. foHandler' = [foHandler EXCEPT ![h] = task]
  OBVIOUS
<1> HIDE DEF task
<1>4. foHandler'[h] = task /\ \A g \in Handlers \ {h} : foHandler'[g] = foHandler[g] /\ Left(g)' = Left(g)
  BY <1>1, <1>3 DEF Left
<1>5. foHandler' \in [Handlers -> FormHandler]
  BY <1>1, <1>2, <1>3
<1>6. Left(h)' = In(list)
  BY <1>2, <1>4 DEF Left
<1>7. In(list) # {}
  <2>1. Len(list) \in Nat \ {0}
    BY EmptySeq
  <2>2. 1 \in 1..Len(list)
    BY <2>1
  <2> QED BY <2>2 DEF In
<1>8. foHandler'[h] # NoHandler
  BY <1>2, <1>4 DEF NoHandler
<1>9. HasLeft(h, In(list), form, target)
  BY <1>2, <1>4, <1>5, <1>6, <1>7, <1>8 DEF HasLeft
<1>10. Opens(h)' \/ Ends(h)' \/ AsksFirst(h)' \/ Decides(h)'
  BY <1>2, <1>4, <1>6 DEF Opens, Ends, AsksFirst, Decides
<1>11. InOrder(h)'
  BY <1>2, <1>4, <1>6, <1>10 DEF InOrder
<1>12. \A g \in Handlers \ {h} : InOrder(g)'
  <2> SUFFICES ASSUME NEW g \in Handlers \ {h} PROVE InOrder(g)'
    OBVIOUS
  <2>1. InOrder(g) /\ foHandler'[g] = foHandler[g] /\ Left(g)' = Left(g)
    BY <1>1, <1>4
  <2> QED BY <2>1 DEF InOrder, Opens, Ends, AsksFirst, Decides
<1> QED BY <1>7, <1>9, <1>11, <1>12

-----------------------------------------------------------------------------
\* What the handlers have left to do, together.
Busy == {h \in Handlers : foHandler[h] # NoHandler}
Someone(call) == \E h \in Handlers : call \in Left(h)
SomeoneSets == \E s \in FormStates : Someone(SetTo(s))
Putting(k, v) == \E h \in Handlers : Remember(k) \in Left(h) /\ foHandler[h].target = v
TwoBusy == \E g, h \in Handlers : g # h /\ Left(g) # {} /\ Left(h) # {}

\* The state, and what the form is about, that may be there when all have finished.
StateMayRest(s) ==
  Someone(SetTo(s)) \/ (foState = s /\ ~SomeoneSets /\ ~Someone(Close) /\ ~Someone(Branch))
DataMayRest(k, v) ==
  Putting(k, v) \/ (foData[k] = v /\ ~Someone(Remember(k)) /\ ~Someone(Forget))

\* A new folder without parent_id goes to the top, so that forgotten data opens a form
\* about the top too; a handler that sets the state may still find it forgotten.
AtTop == foData["parent_id"] \in {"none", "root"}
TopMayRest ==
  \/ Putting("parent_id", "root") \/ Someone(Forget) \/ Someone(Branch)
  \/ AtTop /\ ~Someone(Remember("parent_id"))
TopMayOpen ==
  \/ StateMayRest("name") /\ TopMayRest
  \/ Someone(SetTo("name")) /\ AtTop /\ (foState = "name" \/ TwoBusy)

StatesOf(f) == IF f = "ad" THEN {"ad", "ad.text", "ad.place"} ELSE {f}
IsTop(f, o) == f = "name" /\ o = "root"
IsSum(f, o) == f = "topup" /\ o = "sum"

\* The form may be left open about o: one more answer would be let in.
MayOpen(f, o) ==
  \/ f \in OnSettings /\ o = "settings" /\ \E s \in StatesOf(f) : StateMayRest(s)
  \/ f = "broadcast" /\ DataMayRest("message_id", o)
  \/ IsSum(f, o) /\ StateMayRest("topup")
  \/ f = "topup" /\ StateMayRest("receipt") /\ DataMayRest("amount", o)
  \/ IsTop(f, o) /\ TopMayOpen
  \/ /\ f \notin OnSettings \cup {"broadcast", "topup", "search"} /\ ~IsTop(f, o)
     /\ StateMayRest(f) /\ DataMayRest(DataKey[f], o)

\* The handlers that may still write to o through the form: those that know that they
\* do, those that will ask and may be told so, those that decide on a payment.
Knowing(f, o) ==
  {h \in Handlers : /\ foHandler[h].form = f /\ Write \in Left(h)
                    /\ Get(DataKey[f]) \notin Left(h) /\ WrittenTo(h) = o}
Asking(f) == {h \in Handlers : foHandler[h].form = f /\ f \notin OnSettings /\ Get(DataKey[f]) \in Left(h)}
Deciding == {h \in Handlers : Branch \in Left(h)}
MayBeTold(f, o) ==
  \/ foData[DataKey[f]] = o \/ Putting(DataKey[f], o) \/ IsTop(f, o)
  \/ IsSum(f, o) /\ (Deciding # {} \/ Someone(SetTo("topup")) \/ foState = "topup")
Writers(f, o) ==
  Knowing(f, o) \cup (IF MayBeTold(f, o) THEN Asking(f) ELSE {})
                \cup (IF IsSum(f, o) THEN Deciding ELSE {})

\* The first to ask is told of a folder, and only the others may find that forgotten.
TopIsTold ==
  \/ AtTop \/ Putting("parent_id", "root")
  \/ \E h \in Handlers \ Asking("name") : Forget \in Left(h) \/ Branch \in Left(h)
Spared(f, o) == IF IsTop(f, o) /\ Asking("name") # {} /\ ~TopIsTold THEN 1 ELSE 0
OneMore(f, o) == IF MayOpen(f, o) THEN 1 ELSE 0

\* The writes to come, with one more where the form may be left open, are paid for by
\* presses and overlaps.
PaidFor(f, o) ==
  foOwed[<<f, o>>] + foOverlaps + Spared(f, o) >= Cardinality(Writers(f, o)) + OneMore(f, o)

FormsInv == FormTypes /\ \A f \in FormNames, o \in FormTargets : PaidFor(f, o)

\* Handlers are counted in numbers.
LEMMA WritersAreFew ==
  ASSUME NEW f, NEW o
  PROVE  /\ IsFiniteSet(Writers(f, o)) /\ Cardinality(Writers(f, o)) \in Nat
         /\ IsFiniteSet(Asking(f)) /\ IsFiniteSet(Busy) /\ Cardinality(Busy) \in Nat
         /\ Spared(f, o) \in {0, 1} /\ OneMore(f, o) \in {0, 1}
<1>1. Writers(f, o) \subseteq Handlers /\ Asking(f) \subseteq Handlers /\ Busy \subseteq Handlers
  BY DEF Writers, Knowing, Asking, Deciding, Busy
<1>2. IsFiniteSet(Writers(f, o)) /\ IsFiniteSet(Asking(f)) /\ IsFiniteSet(Busy)
  BY <1>1, FormsAssumption, FS_Subset
<1>3. Cardinality(Writers(f, o)) \in Nat /\ Cardinality(Busy) \in Nat
  BY <1>2, FS_CardinalityType
<1>4. Spared(f, o) \in {0, 1} /\ OneMore(f, o) \in {0, 1}
  BY DEF Spared, OneMore
<1> QED BY <1>2, <1>3, <1>4

\* The invariant gives what was meant: whoever is spared is a writer.
LEMMA FormsInvShows ==
  ASSUME FormsInv
  PROVE  OneEditPerPress
<1> SUFFICES ASSUME NEW f \in FormNames, NEW o \in FormTargets
             PROVE  foOwed[<<f, o>>] >= -foOverlaps
  BY DEF OneEditPerPress
<1>1. foOwed[<<f, o>>] \in Int /\ foOverlaps \in Nat
  BY DEF FormsInv, FormTypes, FormsTypeOK
<1>2. Spared(f, o) <= Cardinality(Writers(f, o))
  <2>1. CASE Spared(f, o) = 0
    BY <2>1, WritersAreFew
  <2>2. CASE Spared(f, o) # 0
    <3>1. Spared(f, o) = 1 /\ IsTop(f, o) /\ Asking(f) # {}
      BY <2>2 DEF Spared, IsTop
    <3>2. Writers(f, o) # {}
      BY <3>1 DEF Writers, MayBeTold
    <3>3. Cardinality(Writers(f, o)) # 0
      BY <3>2, WritersAreFew, FS_EmptySet
    <3> QED BY <3>1, <3>3, WritersAreFew
  <2> QED BY <2>1, <2>2
<1>3. PaidFor(f, o)
  BY DEF FormsInv
<1> QED BY <1>1, <1>2, <1>3, WritersAreFew DEF PaidFor

\* Fewer writers, and no form opened that was not.
LEMMA PaidForStands ==
  ASSUME NEW f \in FormNames, NEW o \in FormTargets, FormTypes, FormTypes', PaidFor(f, o),
         foOwed'[<<f, o>>] >= foOwed[<<f, o>>], foOverlaps' >= foOverlaps,
         Writers(f, o)' \subseteq Writers(f, o), MayOpen(f, o)' => MayOpen(f, o),
         Spared(f, o)' >= Spared(f, o)
  PROVE  PaidFor(f, o)'
<1>1. /\ foOwed[<<f, o>>] \in Int /\ foOverlaps \in Nat /\ foOwed'[<<f, o>>] \in Int /\ foOverlaps' \in Nat
  BY DEF FormTypes, FormsTypeOK
<1>2. Cardinality(Writers(f, o)') <= Cardinality(Writers(f, o))
  BY WritersAreFew, FS_Subset
<1>3. /\ Cardinality(Writers(f, o)) \in Nat /\ Cardinality(Writers(f, o)') \in Nat
      /\ Spared(f, o) \in {0, 1} /\ Spared(f, o)' \in {0, 1} /\ OneMore(f, o) \in {0, 1}
      /\ OneMore(f, o)' \in {0, 1}
  <2>1. IsFiniteSet(Writers(f, o)')
    BY WritersAreFew, FS_Subset
  <2>2. Cardinality(Writers(f, o)') \in Nat
    BY <2>1, FS_CardinalityType
  <2>3. Spared(f, o)' \in {0, 1} /\ OneMore(f, o)' \in {0, 1}
    BY DEF Spared, OneMore
  <2> QED BY <2>2, <2>3, WritersAreFew
<1>4. OneMore(f, o)' <= OneMore(f, o)
  BY DEF OneMore
<1> QED BY <1>1, <1>2, <1>3, <1>4 DEF PaidFor

-----------------------------------------------------------------------------
\* What a handler's next call does to what is left: nothing of another kind.
LEMMA OneCallLess ==
  ASSUME FormTypes, NEW h \in Handlers, NEW c \in Left(h), c # Branch, NEW target,
         HasLeft(h, Left(h) \ {c}, foHandler[h].form, target),
         \/ target = foHandler[h].target
         \/ \A k \in FormKeys : Remember(k) \notin Left(h)
  PROVE  /\ \A x : Someone(x)' => Someone(x)
         /\ \A x : x # c => (Someone(x)' <=> Someone(x))
         /\ \A k \in FormKeys : \A v : Putting(k, v)' => Putting(k, v)
         /\ \A k \in FormKeys : \A v : Remember(k) # c => (Putting(k, v)' <=> Putting(k, v))
         /\ Deciding' = Deciding
         /\ TwoBusy' => TwoBusy
         /\ ~(\E s \in FormStates : c = SetTo(s)) => (SomeoneSets' <=> SomeoneSets)
<1>1. /\ Left(h)' = Left(h) \ {c} /\ \A g \in Handlers \ {h} : foHandler'[g] = foHandler[g] /\ Left(g)' = Left(g)
      /\ Left(h)' # {} => foHandler'[h].target = target
  BY DEF HasLeft
<1>2. \A x : Someone(x)' => Someone(x)
  BY <1>1 DEF Someone
<1>3. \A x : x # c => (Someone(x)' <=> Someone(x))
  BY <1>1 DEF Someone
<1>4. \A k \in FormKeys : \A v : Putting(k, v)' => Putting(k, v)
  BY <1>1 DEF Putting
<1>5. \A k \in FormKeys : \A v : Remember(k) # c => (Putting(k, v)' <=> Putting(k, v))
  BY <1>1 DEF Putting
<1>6. Deciding' = Deciding
  BY <1>1 DEF Deciding
<1>7. TwoBusy' => TwoBusy
  BY <1>1 DEF TwoBusy
<1>8. ~(\E s \in FormStates : c = SetTo(s)) => (SomeoneSets' <=> SomeoneSets)
  <2>1. ASSUME \A s \in FormStates : c # SetTo(s)
        PROVE  \A s \in FormStates : Someone(SetTo(s))' <=> Someone(SetTo(s))
    BY <1>3, <2>1
  <2>2. SomeoneSets' <=> \E s \in FormStates : Someone(SetTo(s))'
    BY DEF SomeoneSets
  <2> QED BY <2>1, <2>2 DEF SomeoneSets
<1> QED BY <1>2, <1>3, <1>4, <1>5, <1>6, <1>7, <1>8

\* Who writes and who asks, when the call is neither a write nor a read.
LEMMA SameWriters ==
  ASSUME FormTypes, NEW h \in Handlers, NEW c \in Left(h), c # Branch, c # Write, \A k \in FormKeys : c # Get(k),
         HasLeft(h, Left(h) \ {c}, foHandler[h].form, foHandler[h].target),
         NEW f \in FormNames, NEW o
  PROVE  /\ Knowing(f, o)' = Knowing(f, o) /\ Asking(f)' = Asking(f)
<1>1. /\ Left(h)' = Left(h) \ {c} /\ \A g \in Handlers \ {h} : foHandler'[g] = foHandler[g] /\ Left(g)' = Left(g)
      /\ Left(h)' # {} => foHandler'[h].target = foHandler[h].target /\ foHandler'[h].form = foHandler[h].form
  BY DEF HasLeft
<1>2. DataKey[f] \in FormKeys
  BY KeysOfForms
<1>3. Asking(f)' = Asking(f)
  BY <1>1, <1>2 DEF Asking
<1>4. \A g \in Handlers : Write \in Left(g)' => WrittenTo(g)' = WrittenTo(g)
  BY <1>1 DEF WrittenTo
<1>5. Knowing(f, o)' = Knowing(f, o)
  <2>1. \A g \in Handlers : g \in Knowing(f, o)' <=> g \in Knowing(f, o)
    BY <1>1, <1>2, <1>4 DEF Knowing
  <2> QED BY <2>1 DEF Knowing
<1> QED BY <1>3, <1>5

\* No form may be opened that might not, when neither the state nor the data is new.
LEMMA NoFormOpens ==
  ASSUME NEW f \in FormNames, NEW o \in FormTargets,
         \A s \in FormStates \ {"none"} : StateMayRest(s)' => StateMayRest(s),
         \A k \in FormKeys, v \in FormTargets : DataMayRest(k, v)' => DataMayRest(k, v),
         TopMayOpen' => TopMayOpen
  PROVE  MayOpen(f, o)' => MayOpen(f, o)
<1>1. StatesOf(f) \subseteq FormStates \ {"none"}
  BY DEF StatesOf, FormStates, FormNames, OnMedia, OnSettings, OnPlans
<1>2. f \in FormStates \ {"none"} /\ {"topup", "receipt"} \subseteq FormStates \ {"none"}
  BY DEF FormStates, FormNames, OnMedia, OnSettings, OnPlans
<1>3. DataKey[f] \in FormKeys /\ {"message_id", "amount"} \subseteq FormKeys
  BY KeysOfForms DEF FormNames
<1> QED BY <1>1, <1>2, <1>3 DEF MayOpen

\* No writer is added when nobody more knows, asks, decides or may be told.
LEMMA NoNewWriters ==
  ASSUME NEW f, NEW o, Knowing(f, o)' \subseteq Knowing(f, o), Asking(f)' \subseteq Asking(f),
         Deciding' \subseteq Deciding, MayBeTold(f, o)' => MayBeTold(f, o)
  PROVE  Writers(f, o)' \subseteq Writers(f, o)
BY DEF Writers

\* Nobody is spared less when the same handlers ask and nothing more may be told.
LEMMA StillSpared ==
  ASSUME NEW f, NEW o, IsTop(f, o) => Asking("name")' = Asking("name") /\ (TopIsTold' => TopIsTold)
  PROVE  Spared(f, o)' >= Spared(f, o)
<1>1. CASE IsTop(f, o)
  BY <1>1 DEF Spared
<1>2. CASE ~IsTop(f, o)
  BY <1>2 DEF Spared, IsTop
<1> QED BY <1>1, <1>2

\* The top is told by the same handlers, when one made a call other than a read.
LEMMA TopToldBefore ==
  ASSUME FormTypes, NEW h \in Handlers, NEW c \in Left(h), HasLeft(h, Left(h) \ {c}, foHandler[h].form, foHandler[h].target),
         Asking("name")' = Asking("name"), AtTop' => AtTop \/ Putting("parent_id", "root"),
         TopIsTold'
  PROVE  TopIsTold
<1>1. /\ Left(h)' = Left(h) \ {c} /\ \A g \in Handlers \ {h} : foHandler'[g] = foHandler[g] /\ Left(g)' = Left(g)
      /\ Left(h)' # {} => foHandler'[h].target = foHandler[h].target
  BY DEF HasLeft
<1>2. Putting("parent_id", "root")' => Putting("parent_id", "root")
  BY <1>1 DEF Putting
<1>3. \A g \in Handlers : Left(g)' \subseteq Left(g)
  BY <1>1
<1> QED BY <1>2, <1>3 DEF TopIsTold

-----------------------------------------------------------------------------
\* set_state: the state was going to be this one.
LEMMA SetStateIsPaid ==
  ASSUME FormTypes, FormTypes', NEW h \in Handlers, SetState(h), NEW f \in FormNames, NEW o \in FormTargets, PaidFor(f, o)
  PROVE  PaidFor(f, o)'
<1>1. PICK c : c = NextCall(h)
  OBVIOUS
<1>2. c \in Left(h) /\ c \in FormCalls /\ HasLeft(h, Left(h) \ {c}, foHandler[h].form, foHandler[h].target) /\ c.call = "set"
  <2>1. foHandler[h].target \in HandlerTarget
    BY DEF FormTypes, FormHandler
  <2>2. c.call = "set" /\ foHandler[h].todo # <<>> /\ CallMade(h, foHandler[h].target) /\ c # Branch
    BY <1>1 DEF SetState, Calls, Branch
  <2> QED BY <1>1, <2>1, <2>2, CallIsMade
<1>3. PICK s : s = c.on
  OBVIOUS
<1>4. c = SetTo(s) /\ foState' = s
  BY <1>1, <1>2, <1>3, CallsByName DEF SetState
<1>5. /\ c # Branch /\ c # Write /\ c # Close /\ c # Forget /\ (\A k \in FormKeys : c # Get(k) /\ c # Remember(k))
      /\ \A x : x # s => c # SetTo(x)
  BY <1>4, CallsDiffer
<1>6. foData' = foData /\ foOwed' = foOwed /\ foOverlaps' = foOverlaps
  BY DEF SetState
<1>7. Knowing(f, o)' = Knowing(f, o) /\ Asking(f)' = Asking(f) /\ Asking("name")' = Asking("name")
  BY <1>2, <1>5, SameWriters DEF FormNames
<1>8. /\ \A x : Someone(x)' => Someone(x)
      /\ \A x : x # c => (Someone(x)' <=> Someone(x))
      /\ \A k \in FormKeys : \A v : Putting(k, v)' <=> Putting(k, v)
      /\ Deciding' = Deciding /\ (TwoBusy' => TwoBusy)
  BY <1>2, <1>5, OneCallLess
<1>9. Someone(c)
  BY <1>2 DEF Someone
<1>10. \A x \in FormStates \ {"none"} : StateMayRest(x)' => StateMayRest(x)
  BY <1>4, <1>8, <1>9 DEF StateMayRest
<1>11. \A k \in FormKeys, v \in FormTargets : DataMayRest(k, v)' => DataMayRest(k, v)
  BY <1>5, <1>6, <1>8 DEF DataMayRest
<1>12. "parent_id" \in FormKeys /\ "name" \in FormStates \ {"none"} /\ DataKey[f] \in FormKeys
  BY KeysOfForms DEF FormStates, FormNames
<1>13. TopMayRest' => TopMayRest
  BY <1>5, <1>6, <1>8, <1>12 DEF TopMayRest, AtTop
<1>14. TopMayOpen' => TopMayOpen
  <2> SUFFICES ASSUME TopMayOpen' PROVE TopMayOpen
    OBVIOUS
  <2>1. CASE StateMayRest("name")' /\ TopMayRest'
    BY <1>10, <1>12, <1>13, <2>1 DEF TopMayOpen
  <2>2. CASE Someone(SetTo("name"))' /\ AtTop' /\ (foState' = "name" \/ TwoBusy')
    <3>1. PICK g \in Handlers : SetTo("name") \in Left(g)'
      BY <2>2 DEF Someone
    <3>2. g # h
      <4> SUFFICES ASSUME g = h PROVE FALSE
        OBVIOUS
      <4>1. SetTo("name") \in Left(h) /\ SetTo("name") # c
        BY <1>2, <3>1 DEF HasLeft
      <4>2. InOrder(h)
        BY DEF FormTypes
      <4>3. Opens(h)
        BY <4>1, <4>2, CallsDiffer DEF InOrder, Ends, AsksFirst, Decides
      <4> QED BY <1>2, <1>4, <4>1, <4>3, CallsDiffer DEF Opens
    <3>3. SetTo("name") \in Left(g)
      BY <1>2, <3>1, <3>2 DEF HasLeft
    <3>4. TwoBusy
      BY <1>2, <3>2, <3>3 DEF TwoBusy
    <3>5. AtTop
      BY <1>6, <2>2 DEF AtTop
    <3> QED BY <3>3, <3>4, <3>5 DEF TopMayOpen, Someone
  <2> QED BY <2>1, <2>2 DEF TopMayOpen
<1>15. MayOpen(f, o)' => MayOpen(f, o)
  BY <1>10, <1>11, <1>14, NoFormOpens
<1>16. MayBeTold(f, o)' => MayBeTold(f, o)
  BY <1>4, <1>6, <1>8, <1>9, <1>12 DEF MayBeTold
<1>17. Writers(f, o)' \subseteq Writers(f, o)
  BY <1>7, <1>8, <1>16, NoNewWriters
<1>18. TopIsTold' => TopIsTold
  BY <1>2, <1>6, <1>7, TopToldBefore DEF AtTop
<1>19. Spared(f, o)' >= Spared(f, o)
  BY <1>7, <1>18, StillSpared
<1>20. foOwed'[<<f, o>>] >= foOwed[<<f, o>>] /\ foOverlaps' >= foOverlaps
  BY <1>6 DEF FormTypes, FormsTypeOK
<1> QED BY <1>15, <1>17, <1>19, <1>20, PaidForStands

\* update_data: the form was going to be about this.
LEMMA UpdateDataIsPaid ==
  ASSUME FormTypes, FormTypes', NEW h \in Handlers, UpdateData(h), NEW f \in FormNames, NEW o \in FormTargets, PaidFor(f, o)
  PROVE  PaidFor(f, o)'
<1>1. PICK c : c = NextCall(h)
  OBVIOUS
<1>2. c \in Left(h) /\ c \in FormCalls /\ HasLeft(h, Left(h) \ {c}, foHandler[h].form, foHandler[h].target) /\ c.call = "put"
  <2>1. foHandler[h].target \in HandlerTarget
    BY DEF FormTypes, FormHandler
  <2>2. c.call = "put" /\ foHandler[h].todo # <<>> /\ CallMade(h, foHandler[h].target) /\ c # Branch
    BY <1>1 DEF UpdateData, Calls, Branch
  <2> QED BY <1>1, <2>1, <2>2, CallIsMade
<1>3. PICK key : key = c.on
  OBVIOUS
<1>4. PICK value : value = foHandler[h].target
  OBVIOUS
<1>5. c = Remember(key) /\ foData' = [foData EXCEPT ![key] = value] /\ foState' = foState
  BY <1>1, <1>2, <1>3, <1>4, CallsByName DEF UpdateData
<1>6. /\ c # Branch /\ c # Write /\ c # Close /\ c # Forget /\ (\A k \in FormKeys : c # Get(k))
      /\ \A x : c # SetTo(x)
      /\ \A x : x # key => c # Remember(x)
  BY <1>5, CallsDiffer
<1>7. foOwed' = foOwed /\ foOverlaps' = foOverlaps /\ foData \in [FormKeys -> FormTargets \cup {"none", "online", "card"}]
  BY DEF UpdateData, FormTypes, FormsTypeOK
<1>8. Knowing(f, o)' = Knowing(f, o) /\ Asking(f)' = Asking(f) /\ Asking("name")' = Asking("name")
  BY <1>2, <1>6, SameWriters DEF FormNames
<1>9. /\ \A x : Someone(x)' => Someone(x)
      /\ \A x : x # c => (Someone(x)' <=> Someone(x))
      /\ \A k \in FormKeys : \A v : Putting(k, v)' => Putting(k, v)
      /\ Deciding' = Deciding /\ (TwoBusy' => TwoBusy) /\ (SomeoneSets' <=> SomeoneSets)
  BY <1>2, <1>6, OneCallLess
<1>10. key \in FormKeys => Putting(key, value)
  BY <1>2, <1>4, <1>5 DEF Putting
<1>11. \A k \in FormKeys : foData'[k] = IF k = key THEN value ELSE foData[k]
  BY <1>5, <1>7
<1>12. \A x \in FormStates \ {"none"} : StateMayRest(x)' <=> StateMayRest(x)
  BY <1>5, <1>6, <1>9 DEF StateMayRest
<1>13. \A k \in FormKeys, v \in FormTargets : DataMayRest(k, v)' => DataMayRest(k, v)
  <2> SUFFICES ASSUME NEW k \in FormKeys, NEW v \in FormTargets, DataMayRest(k, v)' PROVE DataMayRest(k, v)
    OBVIOUS
  <2>1. CASE Putting(k, v)'
    BY <1>9, <2>1 DEF DataMayRest
  <2>2. CASE foData'[k] = v /\ ~Someone(Remember(k))' /\ ~Someone(Forget)' /\ k = key
    BY <1>10, <1>11, <2>2 DEF DataMayRest
  <2>3. CASE foData'[k] = v /\ ~Someone(Remember(k))' /\ ~Someone(Forget)' /\ k # key
    BY <1>6, <1>9, <1>11, <2>3, CallsDiffer DEF DataMayRest
  <2> QED BY <2>1, <2>2, <2>3 DEF DataMayRest
<1>14. "parent_id" \in FormKeys /\ "name" \in FormStates \ {"none"} /\ DataKey[f] \in FormKeys
  BY KeysOfForms DEF FormStates, FormNames
<1>15. key = "parent_id" => value # "none"
  <2>1. InOrder(h)
    BY DEF FormTypes
  <2> QED BY <1>2, <1>4, <1>5, <2>1 DEF InOrder
<1>16. AtTop' => AtTop \/ (key = "parent_id" /\ Putting("parent_id", "root"))
  BY <1>10, <1>11, <1>14, <1>15 DEF AtTop
<1>17. TopMayRest' => TopMayRest
  <2> SUFFICES ASSUME TopMayRest' PROVE TopMayRest
    OBVIOUS
  <2>1. CASE Putting("parent_id", "root")' \/ Someone(Forget)' \/ Someone(Branch)'
    BY <1>9, <1>14, <2>1 DEF TopMayRest
  <2>2. CASE AtTop' /\ ~Someone(Remember("parent_id"))'
    <3>1. CASE key = "parent_id"
      <4>1. Putting("parent_id", "root")
        BY <1>10, <1>11, <1>14, <1>15, <2>2, <3>1 DEF AtTop
      <4> QED BY <4>1 DEF TopMayRest
    <3>2. CASE key # "parent_id"
      <4>1. AtTop
        BY <1>16, <2>2, <3>2
      <4>2. ~Someone(Remember("parent_id"))
        BY <1>6, <1>9, <2>2, <3>2
      <4> QED BY <4>1, <4>2 DEF TopMayRest
    <3> QED BY <3>1, <3>2
  <2> QED BY <2>1, <2>2 DEF TopMayRest
<1>18. TopMayOpen' => TopMayOpen
  <2>1. CASE StateMayRest("name")' /\ TopMayRest'
    BY <1>12, <1>14, <1>17, <2>1 DEF TopMayOpen
  <2>2. CASE Someone(SetTo("name"))' /\ AtTop' /\ (foState' = "name" \/ TwoBusy')
    <3>1. Someone(SetTo("name")) /\ (foState = "name" \/ TwoBusy)
      BY <1>5, <1>9, <2>2
    <3>2. CASE AtTop
      BY <3>1, <3>2 DEF TopMayOpen
    <3>3. CASE Putting("parent_id", "root")
      BY <3>1, <3>3 DEF TopMayOpen, TopMayRest, StateMayRest
    <3> QED BY <1>16, <2>2, <3>2, <3>3
  <2> QED BY <2>1, <2>2 DEF TopMayOpen
<1>19. MayOpen(f, o)' => MayOpen(f, o)
  BY <1>12, <1>13, <1>18, NoFormOpens
<1>20. MayBeTold(f, o)' => MayBeTold(f, o)
  <2>1. foData'[DataKey[f]] = o => foData[DataKey[f]] = o \/ Putting(DataKey[f], o)
    BY <1>10, <1>11, <1>14
  <2> QED BY <1>5, <1>9, <1>14, <2>1 DEF MayBeTold
<1>21. Writers(f, o)' \subseteq Writers(f, o)
  BY <1>8, <1>9, <1>20, NoNewWriters
<1>22. TopIsTold' => TopIsTold
  BY <1>2, <1>8, <1>16, TopToldBefore
<1>23. Spared(f, o)' >= Spared(f, o)
  BY <1>8, <1>22, StillSpared
<1>24. foOwed'[<<f, o>>] >= foOwed[<<f, o>>] /\ foOverlaps' >= foOverlaps
  BY <1>7 DEF FormTypes, FormsTypeOK
<1> QED BY <1>19, <1>21, <1>23, <1>24, PaidForStands

\* The first half of clear: no form is open.
LEMMA ClearStateIsPaid ==
  ASSUME FormTypes, FormTypes', NEW h \in Handlers, ClearState(h), NEW f \in FormNames, NEW o \in FormTargets, PaidFor(f, o)
  PROVE  PaidFor(f, o)'
<1>1. PICK c : c = NextCall(h)
  OBVIOUS
<1>2. c \in Left(h) /\ c \in FormCalls /\ HasLeft(h, Left(h) \ {c}, foHandler[h].form, foHandler[h].target) /\ c.call = "close"
  <2>1. foHandler[h].target \in HandlerTarget
    BY DEF FormTypes, FormHandler
  <2>2. c.call = "close" /\ foHandler[h].todo # <<>> /\ CallMade(h, foHandler[h].target) /\ c # Branch
    BY <1>1 DEF ClearState, Calls, Branch
  <2> QED BY <1>1, <2>1, <2>2, CallIsMade
<1>3. /\ c # Branch /\ c # Write /\ c # Forget /\ (\A k : c # Get(k) /\ c # Remember(k))
      /\ \A x : c # SetTo(x)
  BY <1>2 DEF Branch, Write, Forget, Get, Remember, SetTo
<1>4. foData' = foData /\ foState' = "none" /\ foOwed' = foOwed /\ foOverlaps' = foOverlaps
  BY DEF ClearState, Cleared
<1>5. Knowing(f, o)' = Knowing(f, o) /\ Asking(f)' = Asking(f) /\ Asking("name")' = Asking("name")
  BY <1>2, <1>3, SameWriters DEF FormNames
<1>6. /\ \A x : Someone(x)' => Someone(x)
      /\ \A x : x # c => (Someone(x)' <=> Someone(x))
      /\ \A k \in FormKeys : \A v : Putting(k, v)' <=> Putting(k, v)
      /\ Deciding' = Deciding /\ (TwoBusy' => TwoBusy)
  BY <1>2, <1>3, OneCallLess
<1>7. \A x \in FormStates \ {"none"} : StateMayRest(x)' => StateMayRest(x)
  BY <1>4, <1>6 DEF StateMayRest
<1>8. \A k \in FormKeys, v \in FormTargets : DataMayRest(k, v)' => DataMayRest(k, v)
  BY <1>3, <1>4, <1>6 DEF DataMayRest
<1>9. "parent_id" \in FormKeys /\ "name" \in FormStates \ {"none"} /\ DataKey[f] \in FormKeys
  BY KeysOfForms DEF FormStates, FormNames
<1>10. TopMayRest' => TopMayRest
  BY <1>3, <1>4, <1>6, <1>9 DEF TopMayRest, AtTop
<1>11. TopMayOpen' => TopMayOpen
  BY <1>4, <1>6, <1>7, <1>9, <1>10 DEF TopMayOpen, AtTop
<1>12. MayOpen(f, o)' => MayOpen(f, o)
  BY <1>7, <1>8, <1>11, NoFormOpens
<1>13. MayBeTold(f, o)' => MayBeTold(f, o)
  BY <1>4, <1>6, <1>9 DEF MayBeTold
<1>14. Writers(f, o)' \subseteq Writers(f, o)
  BY <1>5, <1>6, <1>13, NoNewWriters
<1>15. TopIsTold' => TopIsTold
  BY <1>2, <1>4, <1>5, TopToldBefore DEF AtTop
<1>16. Spared(f, o)' >= Spared(f, o)
  BY <1>5, <1>15, StillSpared
<1>17. foOwed'[<<f, o>>] >= foOwed[<<f, o>>] /\ foOverlaps' >= foOverlaps
  BY <1>4 DEF FormTypes, FormsTypeOK
<1> QED BY <1>12, <1>14, <1>16, <1>17, PaidForStands

\* Nobody who will ask first is about to forget.
LEMMA WhoAsksReadsFirst ==
  ASSUME FormTypes, NEW h \in Handlers, foHandler[h].todo # <<>>, NEW f \in FormNames
  PROVE  /\ h \in Asking(f) => /\ AsksFirst(h) /\ foHandler[h].form = f /\ NextCall(h) = Get(DataKey[f])
                               /\ Forget \in Left(h)
         /\ Write \in Left(h) => Ends(h) \/ AsksFirst(h)
<1>1. InOrder(h)
  BY DEF FormTypes
<1>2. DataKey[f] \in FormKeys /\ DataKey[f] # "method"
  BY KeysOfForms
<1>3. h \in Asking(f) => /\ AsksFirst(h) /\ foHandler[h].form = f /\ NextCall(h) = Get(DataKey[f]) /\ Forget \in Left(h)
  <2> SUFFICES ASSUME h \in Asking(f)
               PROVE  /\ AsksFirst(h) /\ foHandler[h].form = f /\ NextCall(h) = Get(DataKey[f]) /\ Forget \in Left(h)
    OBVIOUS
  <2>1. Get(DataKey[f]) \in Left(h) /\ foHandler[h].form = f
    BY DEF Asking
  <2>2. ~Opens(h) /\ ~Ends(h)
    BY <2>1, CallsDiffer DEF Opens, Ends
  <2>3. ~Decides(h)
    BY <1>2, <2>1, CallsDiffer DEF Decides
  <2>4. AsksFirst(h)
    BY <1>1, <2>2, <2>3 DEF InOrder
  <2> QED BY <2>1, <2>4 DEF AsksFirst, NextCall
<1>4. Write \in Left(h) => Ends(h) \/ AsksFirst(h)
  BY <1>1, CallsDiffer DEF InOrder, Opens, Decides
<1> QED BY <1>3, <1>4

\* The second half of clear: what any form is about is forgotten.
LEMMA ClearDataIsPaid ==
  ASSUME FormTypes, FormTypes', NEW h \in Handlers, ClearData(h), NEW f \in FormNames, NEW o \in FormTargets, PaidFor(f, o)
  PROVE  PaidFor(f, o)'
<1>1. PICK c : c = NextCall(h)
  OBVIOUS
<1>2. /\ c \in Left(h) /\ c \in FormCalls /\ HasLeft(h, Left(h) \ {c}, foHandler[h].form, foHandler[h].target)
      /\ c.call = "forget" /\ foHandler[h].todo # <<>>
  <2>1. foHandler[h].target \in HandlerTarget
    BY DEF FormTypes, FormHandler
  <2>2. c.call = "forget" /\ foHandler[h].todo # <<>> /\ CallMade(h, foHandler[h].target) /\ c # Branch
    BY <1>1 DEF ClearData, Calls, Branch
  <2> QED BY <1>1, <2>1, <2>2, CallIsMade
<1>3. /\ c # Branch /\ c # Write /\ c # Close /\ (\A k : c # Get(k) /\ c # Remember(k))
      /\ \A x : c # SetTo(x)
  BY <1>2 DEF Branch, Write, Close, Get, Remember, SetTo
<1>4. c = Forget
  <2>1. InOrder(h)
    BY DEF FormTypes
  <2> QED BY <1>2, <1>3, <2>1 DEF InOrder, Opens, Ends, AsksFirst, Decides
<1>5. foData' = NoData /\ foState' = foState /\ foOwed' = foOwed /\ foOverlaps' = foOverlaps
  BY DEF ClearData
<1>6. Knowing(f, o)' = Knowing(f, o) /\ Asking(f)' = Asking(f) /\ Asking("name")' = Asking("name")
  BY <1>2, <1>3, SameWriters DEF FormNames
<1>7. /\ \A x : Someone(x)' => Someone(x)
      /\ \A x : x # c => (Someone(x)' <=> Someone(x))
      /\ \A k \in FormKeys : \A v : Putting(k, v)' <=> Putting(k, v)
      /\ Deciding' = Deciding /\ (TwoBusy' => TwoBusy) /\ (SomeoneSets' <=> SomeoneSets)
  BY <1>2, <1>3, OneCallLess
<1>8. Someone(Forget)
  BY <1>2, <1>4 DEF Someone
<1>9. \A x \in FormStates \ {"none"} : StateMayRest(x)' <=> StateMayRest(x)
  BY <1>3, <1>5, <1>7 DEF StateMayRest
<1>10. "none" \notin FormTargets
  BY FormsAssumption DEF FormTargets
<1>11. \A k \in FormKeys : foData'[k] = "none"
  BY <1>5 DEF NoData
<1>12. \A k \in FormKeys, v \in FormTargets : DataMayRest(k, v)' => DataMayRest(k, v)
  BY <1>7, <1>10, <1>11 DEF DataMayRest
<1>13. "parent_id" \in FormKeys /\ "name" \in FormStates \ {"none"} /\ DataKey[f] \in FormKeys
  BY KeysOfForms DEF FormStates, FormNames
<1>14. TopMayRest
  BY <1>8 DEF TopMayRest
<1>15. TopMayOpen' => TopMayOpen
  <2>1. TopMayOpen' => StateMayRest("name")'
    BY DEF TopMayOpen, StateMayRest
  <2> QED BY <1>9, <1>13, <1>14, <2>1 DEF TopMayOpen
<1>16. MayOpen(f, o)' => MayOpen(f, o)
  BY <1>9, <1>12, <1>15, NoFormOpens
<1>17. MayBeTold(f, o)' => MayBeTold(f, o)
  BY <1>3, <1>5, <1>7, <1>10, <1>11, <1>13 DEF MayBeTold
<1>18. Writers(f, o)' \subseteq Writers(f, o)
  BY <1>6, <1>7, <1>17, NoNewWriters
<1>19. h \notin Asking("name")
  BY <1>1, <1>2, <1>3, WhoAsksReadsFirst DEF FormNames
<1>20. TopIsTold
  BY <1>2, <1>4, <1>19 DEF TopIsTold
<1>21. Spared(f, o)' >= Spared(f, o)
  BY <1>6, <1>20, StillSpared
<1>22. foOwed'[<<f, o>>] >= foOwed[<<f, o>>] /\ foOverlaps' >= foOverlaps
  BY <1>5 DEF FormTypes, FormsTypeOK
<1> QED BY <1>16, <1>18, <1>21, <1>22, PaidForStands

\* get_data: who is told knows, and might have been told before.
LEMMA GetDataIsPaid ==
  ASSUME FormTypes, FormTypes', NEW h \in Handlers, GetData(h), NEW f \in FormNames, NEW o \in FormTargets, PaidFor(f, o)
  PROVE  PaidFor(f, o)'
<1>1. PICK c : c = NextCall(h)
  OBVIOUS
<1>2. c.call = "get" /\ foHandler[h].todo # <<>> /\ c \in Left(h) /\ InOrder(h)
  <2>1. InOrder(h) /\ foHandler[h].todo \in Seq(FormCalls)
    BY DEF FormTypes, FormHandler
  <2>2. c.call = "get" /\ foHandler[h].todo # <<>>
    BY <1>1 DEF GetData, Calls
  <2> QED BY <1>1, <2>1, <2>2, FirstCallMade DEF InOrder, NextCall, Left
<1>3. AsksFirst(h) \/ Decides(h)
  <2>1. ~Opens(h) /\ ~Ends(h)
    BY <1>2 DEF Opens, Ends, SetTo, Remember, Close, Forget, Write
  <2> QED BY <1>2, <2>1 DEF InOrder
<1>4. PICK key : key = c.on
  OBVIOUS
<1>5. c = Get(key) /\ key \in FormKeys
  <2>1. CASE AsksFirst(h)
    <3>1. c = Get(DataKey[foHandler[h].form]) /\ foHandler[h].form \in FormNames
      BY <1>1, <2>1 DEF AsksFirst, NextCall
    <3> QED BY <1>4, <3>1, KeysOfForms DEF Get
  <2>2. CASE Decides(h)
    <3>1. c = Get("method")
      BY <1>2, <2>2 DEF Decides, Branch
    <3> QED BY <1>4, <3>1, KeysOfForms DEF Get
  <2> QED BY <1>3, <2>1, <2>2
<1>6. PICK value : value = foData[key]
  OBVIOUS
<1>7. /\ c \in FormCalls /\ HasLeft(h, Left(h) \ {c}, foHandler[h].form, value)
  <2>1. value \in HandlerTarget
    BY <1>5, <1>6 DEF FormTypes, FormsTypeOK, HandlerTarget
  <2>2. CallMade(h, value) /\ c # Branch
    BY <1>1, <1>2, <1>4, <1>6 DEF GetData, Branch
  <2> QED BY <1>1, <1>2, <2>1, <2>2, CallIsMade
<1>8. /\ c # Branch /\ c # Write /\ c # Close /\ c # Forget /\ (\A k : c # Remember(k))
      /\ \A x : c # SetTo(x)
  BY <1>5, CallsDiffer
<1>9. foData' = foData /\ foState' = foState /\ foOwed' = foOwed /\ foOverlaps' = foOverlaps
  BY DEF GetData
<1>10. /\ \A x : Someone(x)' => Someone(x)
       /\ \A x : x # c => (Someone(x)' <=> Someone(x))
       /\ \A k \in FormKeys : \A v : Putting(k, v)' <=> Putting(k, v)
       /\ Deciding' = Deciding /\ (TwoBusy' => TwoBusy) /\ (SomeoneSets' <=> SomeoneSets)
  <2>1. \A k : Remember(k) \notin Left(h)
    BY <1>3, CallsDiffer DEF AsksFirst, Decides
  <2>2. HasLeft(h, Left(h) \ {c}, foHandler[h].form, value) /\ c \in Left(h) /\ c # Branch
    BY <1>2, <1>7, <1>8
  <2> QED BY <1>8, <2>1, <2>2, OneCallLess
<1>11. \A x \in FormStates \ {"none"} : StateMayRest(x)' <=> StateMayRest(x)
  BY <1>8, <1>9, <1>10 DEF StateMayRest
<1>12. \A k \in FormKeys, v \in FormTargets : DataMayRest(k, v)' => DataMayRest(k, v)
  BY <1>8, <1>9, <1>10 DEF DataMayRest
<1>13. "parent_id" \in FormKeys /\ "name" \in FormStates \ {"none"} /\ DataKey[f] \in FormKeys
  BY KeysOfForms DEF FormStates, FormNames
<1>14. AtTop' <=> AtTop
  BY <1>9 DEF AtTop
<1>15. TopMayRest' => TopMayRest
  BY <1>8, <1>10, <1>13, <1>14 DEF TopMayRest
<1>16. TopMayOpen' => TopMayOpen
  BY <1>9, <1>10, <1>11, <1>13, <1>14, <1>15 DEF TopMayOpen
<1>17. MayOpen(f, o)' => MayOpen(f, o)
  BY <1>11, <1>12, <1>16, NoFormOpens
<1>18. MayBeTold(f, o)' => MayBeTold(f, o)
  BY <1>9, <1>10, <1>13 DEF MayBeTold
<1>19. /\ Left(h)' = Left(h) \ {c} /\ \A g \in Handlers \ {h} : foHandler'[g] = foHandler[g] /\ Left(g)' = Left(g)
       /\ Left(h)' # {} => foHandler'[h].target = value /\ foHandler'[h].form = foHandler[h].form
  BY <1>7 DEF HasLeft
<1>20. \A g \in Handlers \ {h} : Write \in Left(g)' => WrittenTo(g)' = WrittenTo(g)
  BY <1>19 DEF WrittenTo
<1>21. \A e \in FormNames : Asking(e)' \subseteq Asking(e) /\ Asking(e) \subseteq Asking(e)' \cup {h}
  BY <1>19 DEF Asking
<1>22. \A g \in Handlers \ {h} : g \in Knowing(f, o)' <=> g \in Knowing(f, o)
  BY <1>19, <1>20 DEF Knowing
<1>23. \A g \in Handlers \ {h} : g \in Asking("name") <=> g \in Asking("name")'
  BY <1>19 DEF Asking
<1>24. foOwed'[<<f, o>>] >= foOwed[<<f, o>>] /\ foOverlaps' >= foOverlaps
  BY <1>9 DEF FormTypes, FormsTypeOK
<1>25. TopIsTold' /\ Asking("name")' = Asking("name") => TopIsTold
  <2>1. \A g \in Handlers : Left(g)' \subseteq Left(g)
    BY <1>19
  <2> QED BY <1>10, <1>13, <1>14, <2>1 DEF TopIsTold
<1>26. CASE h \notin Asking(f)
  <2>1. h \notin Knowing(f, o)'
    <3> SUFFICES ASSUME h \in Knowing(f, o)' PROVE FALSE
      OBVIOUS
    <3>1. Write \in Left(h) /\ foHandler[h].form = f
      BY <1>19 DEF Knowing
    <3>2. AsksFirst(h)
      BY <1>3, <3>1, CallsDiffer DEF Decides
    <3>3. f \notin OnSettings /\ Get(DataKey[f]) \in Left(h)
      BY <3>1, <3>2 DEF AsksFirst
    <3> QED BY <1>26, <3>1, <3>3 DEF Asking
  <2>2. Knowing(f, o)' \subseteq Knowing(f, o)
    BY <1>22, <2>1 DEF Knowing
  <2>3. Writers(f, o)' \subseteq Writers(f, o)
    BY <1>10, <1>18, <1>21, <2>2, NoNewWriters
  <2>4. Spared(f, o)' >= Spared(f, o)
    <3>1. IsTop(f, o) => Asking("name")' = Asking("name")
      BY <1>21, <1>26 DEF IsTop
    <3> QED BY <1>25, <3>1, StillSpared
  <2> QED BY <1>17, <1>24, <2>3, <2>4, PaidForStands
<1>27. CASE h \in Asking(f)
  <2>1. c = Get(DataKey[f]) /\ key = DataKey[f] /\ foHandler[h].form = f /\ f \notin OnSettings
    BY <1>1, <1>2, <1>5, <1>27, WhoAsksReadsFirst, CallsDiffer DEF Asking
  <2>2. h \notin Asking(f)'
    BY <1>19, <2>1 DEF Asking
  <2>3. h \in Knowing(f, o)' => o = IF f = "name" /\ value = "none" THEN "root" ELSE value
    BY <1>19, <2>1 DEF Knowing, WrittenTo
  <2>4. h \in Knowing(f, o)' => MayBeTold(f, o)
    BY <1>6, <2>1, <2>3 DEF MayBeTold, IsTop
  <2>5. Writers(f, o)' \subseteq Writers(f, o)
    BY <1>10, <1>18, <1>21, <1>22, <1>27, <2>4 DEF Writers, Knowing
  <2>6. CASE Spared(f, o)' >= Spared(f, o)
    BY <1>17, <1>24, <2>5, <2>6, PaidForStands
  <2>7. CASE ~(Spared(f, o)' >= Spared(f, o))
    <3>1. Spared(f, o) = 1 /\ IsTop(f, o) /\ ~TopIsTold /\ Spared(f, o)' = 0
      BY <2>7 DEF Spared
    <3>2. value \notin {"none", "root"}
      BY <1>6, <2>1, <3>1, KeysOfForms DEF TopIsTold, AtTop, IsTop
    <3>3. h \notin Knowing(f, o)'
      BY <2>3, <3>1, <3>2 DEF IsTop
    <3>4. h \notin Deciding
      BY <1>2, <1>27, WhoAsksReadsFirst, CallsDiffer DEF AsksFirst, Deciding
    <3>5. Writers(f, o)' \subseteq Writers(f, o) \ {h} /\ h \in Writers(f, o)
      <4>1. h \notin Writers(f, o)'
        BY <1>10, <2>2, <3>3, <3>4 DEF Writers
      <4>2. h \in Writers(f, o)
        BY <1>27, <3>1 DEF Writers, MayBeTold
      <4> QED BY <2>5, <4>1, <4>2
    <3>6. Cardinality(Writers(f, o)') <= Cardinality(Writers(f, o)) - 1 /\ Cardinality(Writers(f, o)') \in Nat
      <4>1. IsFiniteSet(Writers(f, o) \ {h}) /\ Cardinality(Writers(f, o) \ {h}) = Cardinality(Writers(f, o)) - 1
        BY <3>5, WritersAreFew, FS_RemoveElement
      <4>2. IsFiniteSet(Writers(f, o)')
        BY <3>5, <4>1, FS_Subset
      <4> QED BY <3>5, <4>1, <4>2, FS_Subset, FS_CardinalityType
    <3>7. OneMore(f, o)' <= OneMore(f, o) /\ OneMore(f, o) \in {0, 1} /\ OneMore(f, o)' \in {0, 1}
      BY <1>17 DEF OneMore
    <3>8. foOwed[<<f, o>>] \in Int /\ foOverlaps \in Nat
      BY DEF FormTypes, FormsTypeOK
    <3> QED BY <1>9, <3>1, <3>6, <3>7, <3>8, WritersAreFew DEF PaidFor
  <2> QED BY <2>6, <2>7
<1> QED BY <1>26, <1>27

\* The write: one is owed less, and the writer is one less.
LEMMA WriteObjectIsPaid ==
  ASSUME FormTypes, FormTypes', NEW h \in Handlers, WriteObject(h), NEW f \in FormNames, NEW o \in FormTargets, PaidFor(f, o)
  PROVE  PaidFor(f, o)'
<1>1. PICK c : c = NextCall(h)
  OBVIOUS
<1>2. /\ c \in Left(h) /\ c \in FormCalls /\ HasLeft(h, Left(h) \ {c}, foHandler[h].form, foHandler[h].target)
      /\ c.call = "write" /\ foHandler[h].todo # <<>>
  <2>1. foHandler[h].target \in HandlerTarget
    BY DEF FormTypes, FormHandler
  <2>2. c.call = "write" /\ foHandler[h].todo # <<>> /\ CallMade(h, foHandler[h].target) /\ c # Branch
    BY <1>1 DEF WriteObject, Calls, Branch
  <2> QED BY <1>1, <2>1, <2>2, CallIsMade
<1>3. /\ c # Branch /\ c # Forget /\ c # Close /\ (\A k : c # Get(k) /\ c # Remember(k))
      /\ \A x : c # SetTo(x)
  BY <1>2 DEF Branch, Forget, Close, Get, Remember, SetTo
<1>4. InOrder(h)
  BY DEF FormTypes
<1>5. c = Write /\ Ends(h)
  <2>1. ~Opens(h) /\ ~AsksFirst(h) /\ ~Decides(h)
    BY <1>1, <1>2, <1>3 DEF Opens, AsksFirst, Decides, NextCall
  <2>2. Ends(h)
    BY <1>4, <2>1 DEF InOrder
  <2> QED BY <1>2, <1>3, <2>2 DEF Ends
<1>6. foData' = foData /\ foState' = foState /\ foOverlaps' = foOverlaps
  BY DEF WriteObject
<1>7. /\ \A x : Someone(x)' => Someone(x)
      /\ \A x : x # c => (Someone(x)' <=> Someone(x))
      /\ \A k \in FormKeys : \A v : Putting(k, v)' <=> Putting(k, v)
      /\ Deciding' = Deciding /\ (TwoBusy' => TwoBusy) /\ (SomeoneSets' <=> SomeoneSets)
  BY <1>2, <1>3, OneCallLess
<1>8. /\ Left(h)' = Left(h) \ {c} /\ \A g \in Handlers \ {h} : foHandler'[g] = foHandler[g] /\ Left(g)' = Left(g)
      /\ Left(h)' # {} => foHandler'[h].target = foHandler[h].target /\ foHandler'[h].form = foHandler[h].form
  BY <1>2 DEF HasLeft
<1>9. Asking(f)' = Asking(f) /\ Asking("name")' = Asking("name")
  BY <1>3, <1>8 DEF Asking
<1>10. \A g \in Handlers : Write \in Left(g)' => WrittenTo(g)' = WrittenTo(g) /\ g # h
  BY <1>5, <1>8 DEF WrittenTo
<1>11. Knowing(f, o)' = Knowing(f, o) \ {h}
  <2>1. \A g \in Handlers : g \in Knowing(f, o)' <=> g \in Knowing(f, o) \ {h}
    BY <1>5, <1>8, <1>10 DEF Knowing
  <2> QED BY <2>1 DEF Knowing
<1>12. \A x \in FormStates \ {"none"} : StateMayRest(x)' <=> StateMayRest(x)
  BY <1>3, <1>6, <1>7 DEF StateMayRest
<1>13. \A k \in FormKeys, v \in FormTargets : DataMayRest(k, v)' => DataMayRest(k, v)
  BY <1>3, <1>6, <1>7 DEF DataMayRest
<1>14. "parent_id" \in FormKeys /\ "name" \in FormStates \ {"none"} /\ DataKey[f] \in FormKeys
  BY KeysOfForms DEF FormStates, FormNames
<1>15. AtTop' <=> AtTop
  BY <1>6 DEF AtTop
<1>16. TopMayRest' => TopMayRest
  BY <1>3, <1>7, <1>14, <1>15 DEF TopMayRest
<1>17. TopMayOpen' => TopMayOpen
  BY <1>6, <1>7, <1>12, <1>14, <1>15, <1>16 DEF TopMayOpen
<1>18. MayOpen(f, o)' => MayOpen(f, o)
  BY <1>12, <1>13, <1>17, NoFormOpens
<1>19. MayBeTold(f, o)' => MayBeTold(f, o)
  BY <1>6, <1>7, <1>14 DEF MayBeTold
<1>20. Writers(f, o)' \subseteq Writers(f, o)
  BY <1>7, <1>9, <1>11, <1>19, NoNewWriters
<1>21. TopIsTold' => TopIsTold
  BY <1>2, <1>9, <1>15, TopToldBefore
<1>22. Spared(f, o)' >= Spared(f, o)
  BY <1>9, <1>21, StillSpared
<1>23. foOwed[<<f, o>>] \in Int /\ foOverlaps \in Nat
  BY DEF FormTypes, FormsTypeOK
<1>24. CASE foOwed'[<<f, o>>] = foOwed[<<f, o>>]
  BY <1>6, <1>18, <1>20, <1>22, <1>23, <1>24, PaidForStands
<1>25. CASE foOwed'[<<f, o>>] # foOwed[<<f, o>>]
  <2>1. foOwed \in [FormNames \X FormTargets -> Int]
    BY DEF FormTypes, FormsTypeOK
  <2>2. /\ foHandler[h].form = f /\ WrittenTo(h) = o /\ foOwed'[<<f, o>>] = foOwed[<<f, o>>] - 1
    <3>1. foOwed' = IF WrittenTo(h) \in foHere \cup {"root", "settings", "sum"}
                    THEN [foOwed EXCEPT ![<<foHandler[h].form, WrittenTo(h)>>] = @ - 1] ELSE foOwed
      BY DEF WriteObject
    <3>2. foOwed' = [foOwed EXCEPT ![<<foHandler[h].form, WrittenTo(h)>>] = @ - 1]
      BY <1>25, <3>1
    <3>3. <<f, o>> \in FormNames \X FormTargets
      OBVIOUS
    <3>4. <<f, o>> = <<foHandler[h].form, WrittenTo(h)>>
      BY <1>25, <2>1, <3>2, <3>3
    <3>5. foOwed'[<<f, o>>] = foOwed[<<f, o>>] - 1
      BY <2>1, <3>2, <3>3, <3>4
    <3> QED BY <3>4, <3>5
  <2>3. h \in Knowing(f, o)
    <3>1. Get(DataKey[f]) \notin Left(h)
      BY <1>5, CallsDiffer DEF Ends
    <3> QED BY <1>2, <1>5, <2>2, <3>1 DEF Knowing
  <2>4. h \notin Asking(f) /\ h \notin Deciding
    BY <1>5, CallsDiffer DEF Ends, Asking, Deciding
  <2>5. Writers(f, o)' \subseteq Writers(f, o) \ {h} /\ h \in Writers(f, o)
    BY <1>7, <1>9, <1>11, <1>20, <2>3, <2>4 DEF Writers
  <2>6. Cardinality(Writers(f, o)') <= Cardinality(Writers(f, o)) - 1 /\ Cardinality(Writers(f, o)') \in Nat
    <3>1. IsFiniteSet(Writers(f, o) \ {h}) /\ Cardinality(Writers(f, o) \ {h}) = Cardinality(Writers(f, o)) - 1
      BY <2>5, WritersAreFew, FS_RemoveElement
    <3>2. IsFiniteSet(Writers(f, o)')
      BY <2>5, <3>1, FS_Subset
    <3> QED BY <2>5, <3>1, <3>2, FS_Subset, FS_CardinalityType
  <2>7. OneMore(f, o)' <= OneMore(f, o) /\ OneMore(f, o) \in {0, 1} /\ OneMore(f, o)' \in {0, 1}
    BY <1>18 DEF OneMore
  <2>8. Spared(f, o) \in {0, 1} /\ Spared(f, o)' \in {0, 1}
    BY DEF Spared
  <2> QED BY <1>6, <1>22, <1>23, <2>2, <2>6, <2>7, <2>8, WritersAreFew DEF PaidFor
<1> QED BY <1>24, <1>25

\* The calls are calls.
LEMMA CallsAreCalls ==
  /\ \A s \in FormStates : SetTo(s) \in FormCalls
  /\ \A k \in FormKeys : Remember(k) \in FormCalls /\ Get(k) \in FormCalls
  /\ {Close, Forget, Branch, Write} \subseteq FormCalls
<1>1. "none" \in FormStates
  BY DEF FormStates
<1> QED BY <1>1 DEF SetTo, Remember, Get, Close, Forget, Branch, Write, FormCalls

\* What a top-up goes on with: online, by card, or not at all.
LEMMA BranchIsTaken ==
  ASSUME FormTypes, NEW h \in Handlers, TopupBranch(h)
  PROVE  /\ Decides(h) /\ \A g \in Handlers : InOrder(g)'
         /\ \/ HasLeft(h, {Close, Forget, Write}, "topup", "sum")
            \/ HasLeft(h, {Remember("amount"), SetTo("receipt")}, "topup", "sum")
            \/ HasLeft(h, {Close, Forget}, "topup", "none")
<1>1. InOrder(h) /\ foHandler[h] \in FormHandler /\ foHandler \in [Handlers -> FormHandler]
  BY DEF FormTypes
<1>2. NextCall(h) \in Left(h) /\ NextCall(h).call = "branch" /\ foHandler[h].todo # <<>>
  BY <1>1, FirstCallMade DEF TopupBranch, Calls, InOrder, NextCall, Left, FormHandler
<1>3. Decides(h) /\ foHandler[h].form = "topup"
  <2>1. ~Opens(h) /\ ~Ends(h) /\ ~AsksFirst(h)
    BY <1>2 DEF Opens, Ends, AsksFirst, SetTo, Remember, Get, Close, Forget, Write
  <2> QED BY <1>1, <2>1 DEF InOrder, Decides
<1>4. {"topup", "receipt"} \subseteq FormStates /\ "amount" \in FormKeys /\ "topup" \in FormNames \ {"search"}
  BY KeysOfForms DEF FormStates, FormNames
<1>5. "sum" \in HandlerTarget /\ "none" \in HandlerTarget
  BY DEF HandlerTarget, FormTargets
<1>6. /\ Close \in FormCalls /\ Forget \in FormCalls /\ Write \in FormCalls /\ Branch \in FormCalls
      /\ Remember("amount") \in FormCalls /\ SetTo("receipt") \in FormCalls
  BY <1>4, CallsAreCalls
<1>7. \A list, target : GoesOn(h, list, target) /\ list # <<>>
        => foHandler' = [foHandler EXCEPT ![h] = [todo |-> list, form |-> "topup", target |-> target]]
  BY <1>1, <1>3 DEF GoesOn
<1>8. CASE GoesOn(h, <<Close, Forget, Write>>, "sum")
  <2>1. /\ <<Close, Forget, Write>> \in Seq(FormCalls) /\ Once(<<Close, Forget, Write>>)
        /\ In(<<Close, Forget, Write>>) = {Close, Forget, Write} /\ <<Close, Forget, Write>> # <<>>
    BY <1>6, CallsDiffer, ListOfThree
  <2>2. PICK list : list = <<Close, Forget, Write>>
    OBVIOUS
  <2>3. foHandler' = [foHandler EXCEPT ![h] = [todo |-> list, form |-> "topup", target |-> "sum"]]
    BY <1>7, <1>8, <2>1, <2>2
  <2>4. In(list) = {Close, Forget, Write}
    BY <2>1, <2>2
  <2>5. Remember("parent_id") \notin In(list) /\ Remember("amount") \notin In(list)
    BY <2>4, CallsDiffer
  <2>6. HasLeft(h, In(list), "topup", "sum") /\ \A g \in Handlers : InOrder(g)'
    BY <1>4, <1>5, <2>1, <2>2, <2>3, <2>4, <2>5, CallsAreTaken
  <2> QED BY <1>3, <2>4, <2>6
<1>9. CASE GoesOn(h, <<Remember("amount"), SetTo("receipt")>>, "sum")
  <2>1. PICK a : a = Remember("amount")
    OBVIOUS
  <2>2. PICK b : b = SetTo("receipt")
    OBVIOUS
  <2>3. a # b /\ a \in FormCalls /\ b \in FormCalls
    BY <1>6, <2>1, <2>2, CallsDiffer
  <2>4. /\ <<a, b>> \in Seq(FormCalls) /\ Once(<<a, b>>) /\ In(<<a, b>>) = {a, b} /\ <<a, b>> # <<>>
    BY <2>3, ListOfTwo
  <2>5. PICK list : list = <<a, b>>
    OBVIOUS
  <2>6. foHandler' = [foHandler EXCEPT ![h] = [todo |-> list, form |-> "topup", target |-> "sum"]]
    BY <1>7, <1>9, <2>1, <2>2, <2>4, <2>5
  <2>7. In(list) = {Remember("amount"), SetTo("receipt")}
    BY <2>1, <2>2, <2>4, <2>5
  <2>8. \E s \in FormStates \ {"none"}, k \in FormKeys : In(list) \subseteq {SetTo(s), Remember(k)}
    BY <1>4, <2>7
  <2>9. HasLeft(h, In(list), "topup", "sum") /\ \A g \in Handlers : InOrder(g)'
    BY <1>4, <1>5, <2>4, <2>5, <2>6, <2>8, CallsAreTaken
  <2> QED BY <1>3, <2>7, <2>9
<1>10. CASE GoesOn(h, <<Close, Forget>>, "none")
  <2>1. /\ <<Close, Forget>> \in Seq(FormCalls) /\ Once(<<Close, Forget>>)
        /\ In(<<Close, Forget>>) = {Close, Forget} /\ <<Close, Forget>> # <<>>
    BY <1>6, CallsDiffer, ListOfTwo
  <2>2. PICK list : list = <<Close, Forget>>
    OBVIOUS
  <2>3. foHandler' = [foHandler EXCEPT ![h] = [todo |-> list, form |-> "topup", target |-> "none"]]
    BY <1>7, <1>10, <2>1, <2>2
  <2>4. In(list) = {Close, Forget}
    BY <2>1, <2>2
  <2>5. Remember("parent_id") \notin In(list) /\ Remember("amount") \notin In(list) /\ Write \notin In(list)
    BY <2>4, CallsDiffer
  <2>6. HasLeft(h, In(list), "topup", "none") /\ \A g \in Handlers : InOrder(g)'
    BY <1>4, <1>5, <2>1, <2>2, <2>3, <2>4, <2>5, CallsAreTaken
  <2> QED BY <1>3, <2>4, <2>6
<1> QED BY <1>8, <1>9, <1>10 DEF TopupBranch

\* The branch of a top-up: whoever decided may write or leave the receipt to be asked for.
LEMMA TopupBranchIsPaid ==
  ASSUME FormTypes, FormTypes', NEW h \in Handlers, TopupBranch(h), NEW f \in FormNames, NEW o \in FormTargets, PaidFor(f, o)
  PROVE  PaidFor(f, o)'
<1>1. /\ Decides(h) /\ foHandler[h].form = "topup" /\ Branch \in Left(h) /\ Left(h) \subseteq {Get("method"), Branch}
  BY BranchIsTaken DEF Decides
<1>2. PICK calls, target :
        /\ HasLeft(h, calls, "topup", target)
        /\ \/ calls = {Close, Forget, Write} /\ target = "sum"
           \/ calls = {Remember("amount"), SetTo("receipt")} /\ target = "sum"
           \/ calls = {Close, Forget} /\ target = "none"
  BY BranchIsTaken
<1>3. /\ Left(h)' = calls /\ \A g \in Handlers \ {h} : foHandler'[g] = foHandler[g] /\ Left(g)' = Left(g)
      /\ foHandler'[h].target = target /\ foHandler'[h].form = "topup"
  BY <1>2 DEF HasLeft
<1>4. foData' = foData /\ foState' = foState /\ foOwed' = foOwed /\ foOverlaps' = foOverlaps
  BY DEF TopupBranch
<1>5. Branch \notin calls /\ (\A k : Get(k) \notin calls) /\ (\A s : SetTo(s) \in calls => s = "receipt")
      /\ (\A k : Remember(k) \in calls => k = "amount" /\ target = "sum" /\ SetTo("receipt") \in calls)
      /\ (SetTo("receipt") \in calls => calls = {Remember("amount"), SetTo("receipt")})
      /\ (SetTo("receipt") \notin calls => Close \in calls /\ Forget \in calls)
      /\ (Write \in calls => target = "sum")
  BY <1>2, CallsDiffer
<1>6. Someone(Branch)
  BY <1>1 DEF Someone
<1>7. \A x : Someone(x)' => Someone(x) \/ x \in calls
  BY <1>3 DEF Someone
<1>8. \A x : x \in calls => Someone(x)'
  BY <1>3 DEF Someone
<1>9. \A k, v : Putting(k, v)' => Putting(k, v) \/ (Remember(k) \in calls /\ v = target)
  BY <1>3 DEF Putting
<1>10. \A s \in FormStates \ {"none"} : StateMayRest(s)' => StateMayRest(s) \/ (s = "receipt" /\ SetTo("receipt") \in calls)
  <2> SUFFICES ASSUME NEW s \in FormStates \ {"none"}, StateMayRest(s)'
               PROVE  StateMayRest(s) \/ (s = "receipt" /\ SetTo("receipt") \in calls)
    OBVIOUS
  <2>1. CASE Someone(SetTo(s))'
    BY <1>5, <1>7, <2>1 DEF StateMayRest
  <2>2. CASE ~SomeoneSets' /\ ~Someone(Close)'
    <3>1. SetTo("receipt") \notin calls
      <4>1. "receipt" \in FormStates
        BY DEF FormStates
      <4> QED BY <1>8, <2>2, <4>1 DEF SomeoneSets
    <3> QED BY <1>5, <1>8, <2>2, <3>1
  <2> QED BY <2>1, <2>2 DEF StateMayRest
<1>11. \A k \in FormKeys, v \in FormTargets :
          DataMayRest(k, v)' => DataMayRest(k, v) \/ (k = "amount" /\ v = "sum")
  <2> SUFFICES ASSUME NEW k \in FormKeys, NEW v \in FormTargets, DataMayRest(k, v)'
               PROVE  DataMayRest(k, v) \/ (k = "amount" /\ v = "sum")
    OBVIOUS
  <2>1. CASE Putting(k, v)'
    BY <1>5, <1>9, <2>1 DEF DataMayRest
  <2>2. CASE foData'[k] = v /\ ~Someone(Remember(k))' /\ ~Someone(Forget)'
    <3>1. ~Someone(Forget) /\ ~Someone(Remember(k))
      <4>1. \A x : x # Branch /\ (\A e : x # Get(e)) => (Someone(x) => Someone(x)')
        BY <1>1, <1>3 DEF Someone
      <4> QED BY <2>2, <4>1, CallsDiffer
    <3> QED BY <1>4, <2>2, <3>1 DEF DataMayRest
  <2> QED BY <2>1, <2>2 DEF DataMayRest
<1>12. "parent_id" \in FormKeys /\ "name" \in FormStates \ {"none"} /\ DataKey[f] \in FormKeys
  BY KeysOfForms DEF FormStates, FormNames
<1>13. TopMayRest
  BY <1>6 DEF TopMayRest
<1>14. TopMayOpen' => TopMayOpen
  <2>1. TopMayOpen' => StateMayRest("name")'
    BY DEF TopMayOpen, StateMayRest
  <2> QED BY <1>10, <1>12, <1>13, <2>1 DEF TopMayOpen
<1>15. IsSum(f, o) \/ (MayOpen(f, o)' => MayOpen(f, o))
  <2> SUFFICES ASSUME ~IsSum(f, o), MayOpen(f, o)' PROVE MayOpen(f, o)
    OBVIOUS
  <2>1. CASE f \in OnSettings /\ o = "settings" /\ \E s \in StatesOf(f) : StateMayRest(s)'
    <3>1. StatesOf(f) \subseteq FormStates \ {"none", "receipt"}
      BY DEF StatesOf, FormStates, FormNames, OnMedia, OnSettings, OnPlans
    <3> QED BY <1>10, <2>1, <3>1 DEF MayOpen
  <2>2. CASE f = "broadcast" /\ DataMayRest("message_id", o)'
    BY <1>11, <2>2, KeysOfForms DEF MayOpen
  <2>3. CASE f = "topup" /\ StateMayRest("receipt")' /\ DataMayRest("amount", o)'
    <3>1. o # "sum"
      BY <2>3 DEF IsSum
    <3>2. DataMayRest("amount", o)
      BY <1>11, <2>3, <3>1, KeysOfForms DEF FormNames
    <3>3. CASE StateMayRest("receipt")
      BY <2>3, <3>2, <3>3 DEF MayOpen
    <3>4. CASE SetTo("receipt") \in calls
      <4>1. Remember("amount") \in calls
        BY <1>5, <3>4
      <4>2. Putting("amount", o)'
        BY <1>8, <2>3, <4>1 DEF DataMayRest
      <4>3. PICK g \in Handlers : Remember("amount") \in Left(g)' /\ foHandler'[g].target = o
        BY <4>2 DEF Putting
      <4>4. foHandler'[g].target = "sum"
        BY <4>3 DEF FormTypes, InOrder
      <4> QED BY <3>1, <4>3, <4>4
    <3> QED BY <1>10, <2>3, <3>3, <3>4 DEF FormStates
  <2>4. CASE IsTop(f, o) /\ TopMayOpen'
    BY <1>14, <2>4 DEF MayOpen
  <2>5. CASE /\ f \notin OnSettings \cup {"broadcast", "topup", "search"} /\ ~IsTop(f, o)
             /\ StateMayRest(f)' /\ DataMayRest(DataKey[f], o)'
    <3>1. f \in FormStates \ {"none", "receipt"} /\ DataKey[f] # "amount"
      BY <2>5, KeysOfForms DEF FormStates, FormNames, OnMedia, OnSettings, OnPlans
    <3> QED BY <1>10, <1>11, <1>12, <2>5, <3>1 DEF MayOpen
  <2> QED BY <2>1, <2>2, <2>3, <2>4, <2>5 DEF MayOpen, IsSum
<1>16. Deciding' = Deciding \ {h} /\ h \in Deciding
  BY <1>1, <1>3, <1>5 DEF Deciding
<1>17. MayBeTold(f, o)' => MayBeTold(f, o)
  <2>1. CASE IsSum(f, o)
    BY <1>16, <2>1 DEF MayBeTold
  <2>2. CASE ~IsSum(f, o)
    <3>1. Putting(DataKey[f], o)' => Putting(DataKey[f], o)
      BY <1>5, <1>9, <2>2, KeysOfForms DEF IsSum
    <3> QED BY <1>4, <2>2, <3>1 DEF MayBeTold
  <2> QED BY <2>1, <2>2
<1>18. \A e \in FormNames : Asking(e)' = Asking(e)
  <2>1. \A e \in FormNames : h \notin Asking(e) /\ h \notin Asking(e)'
    BY <1>1, <1>3, <1>5, KeysOfForms, CallsDiffer DEF Asking
  <2>2. \A e \in FormNames : \A g \in Handlers \ {h} : g \in Asking(e)' <=> g \in Asking(e)
    BY <1>3 DEF Asking
  <2> QED BY <2>1, <2>2 DEF Asking
<1>19. Knowing(f, o)' \subseteq Knowing(f, o) \cup (IF IsSum(f, o) /\ Write \in calls THEN {h} ELSE {})
  <2>1. h \in Knowing(f, o)' => IsSum(f, o) /\ Write \in calls
    <3> SUFFICES ASSUME h \in Knowing(f, o)' PROVE IsSum(f, o) /\ Write \in calls
      OBVIOUS
    <3>1. f = "topup" /\ Write \in calls /\ o = WrittenTo(h)'
      BY <1>3 DEF Knowing
    <3>2. WrittenTo(h)' = foHandler'[h].target
      BY <1>3 DEF WrittenTo, OnSettings
    <3> QED BY <1>3, <1>5, <3>1, <3>2 DEF IsSum
  <2>2. \A g \in Handlers \ {h} : WrittenTo(g)' = WrittenTo(g)
    BY <1>3 DEF WrittenTo
  <2>3. \A g \in Handlers \ {h} : g \in Knowing(f, o)' <=> g \in Knowing(f, o)
    BY <1>3, <2>2 DEF Knowing
  <2> QED BY <2>1, <2>3 DEF Knowing
<1>20. Writers(f, o)' \subseteq Writers(f, o)
  <2>1. CASE IsSum(f, o)
    BY <1>16, <1>17, <1>18, <1>19, <2>1 DEF Writers
  <2>2. CASE ~IsSum(f, o)
    BY <1>17, <1>18, <1>19, <2>2 DEF Writers
  <2> QED BY <2>1, <2>2
<1>21. Spared(f, o)' >= Spared(f, o)
  <2>1. "name" \in FormNames
    BY DEF FormNames
  <2>2. h \notin Asking("name")
    BY <1>1, KeysOfForms, CallsDiffer DEF Asking
  <2>3. TopIsTold
    BY <1>1, <2>2 DEF TopIsTold
  <2> QED BY <1>18, <2>1, <2>3, StillSpared
<1>22. foOwed'[<<f, o>>] >= foOwed[<<f, o>>] /\ foOverlaps' >= foOverlaps
  BY <1>4 DEF FormTypes, FormsTypeOK
<1>23. CASE MayOpen(f, o)' => MayOpen(f, o)
  BY <1>20, <1>21, <1>22, <1>23, PaidForStands
<1>24. CASE ~(MayOpen(f, o)' => MayOpen(f, o))
  <2>1. IsSum(f, o) /\ OneMore(f, o) = 0 /\ OneMore(f, o)' = 1
    BY <1>15, <1>24 DEF OneMore
  <2>2. SetTo("receipt") \in calls
    <3> SUFFICES ASSUME SetTo("receipt") \notin calls PROVE MayOpen(f, o)' => MayOpen(f, o)
      BY <1>24
    <3>1. \A s \in FormStates \ {"none"} : StateMayRest(s)' => StateMayRest(s)
      BY <1>10
    <3>2. \A k \in FormKeys, v \in FormTargets : DataMayRest(k, v)' => DataMayRest(k, v)
      <4> SUFFICES ASSUME NEW k \in FormKeys, NEW v \in FormTargets, DataMayRest(k, v)' PROVE DataMayRest(k, v)
        OBVIOUS
      <4>1. Someone(Forget)'
        BY <1>5, <1>8
      <4>2. Putting(k, v)'
        BY <4>1 DEF DataMayRest
      <4> QED BY <1>5, <1>9, <4>2 DEF DataMayRest
    <3> QED BY <1>14, <3>1, <3>2, NoFormOpens
  <2>3. Write \notin calls
    BY <1>5, <2>2, CallsDiffer
  <2>4. Writers(f, o)' \subseteq Writers(f, o) \ {h} /\ h \in Writers(f, o)
    <3>1. h \notin Asking(f)' /\ h \notin Knowing(f, o)' /\ h \notin Deciding'
      BY <1>3, <1>5, <1>16, <2>3 DEF Asking, Knowing
    <3>2. h \notin Writers(f, o)'
      BY <3>1 DEF Writers
    <3>3. h \in Writers(f, o)
      BY <1>16, <2>1 DEF Writers
    <3> QED BY <1>20, <3>2, <3>3
  <2>5. Cardinality(Writers(f, o)') <= Cardinality(Writers(f, o)) - 1 /\ Cardinality(Writers(f, o)') \in Nat
    <3>1. IsFiniteSet(Writers(f, o) \ {h}) /\ Cardinality(Writers(f, o) \ {h}) = Cardinality(Writers(f, o)) - 1
      BY <2>4, WritersAreFew, FS_RemoveElement
    <3>2. IsFiniteSet(Writers(f, o)')
      BY <2>4, <3>1, FS_Subset
    <3> QED BY <2>4, <3>1, <3>2, FS_Subset, FS_CardinalityType
  <2>6. foOwed[<<f, o>>] \in Int /\ foOverlaps \in Nat
    BY DEF FormTypes, FormsTypeOK
  <2>7. Spared(f, o) \in {0, 1} /\ Spared(f, o)' \in {0, 1}
    BY DEF Spared
  <2> QED BY <1>4, <1>21, <2>1, <2>5, <2>6, <2>7, WritersAreFew DEF PaidFor
<1> QED BY <1>23, <1>24

\* A step that moves neither the state, nor the data, nor a handler.
LEMMA NothingMoves ==
  ASSUME FormTypes, FormTypes', UNCHANGED <<foState, foData, foHandler, foOwed, foOverlaps>>,
         NEW f \in FormNames, NEW o \in FormTargets, PaidFor(f, o)
  PROVE  PaidFor(f, o)'
<1>1. foState' = foState /\ foData' = foData /\ foHandler' = foHandler /\ foOwed' = foOwed /\ foOverlaps' = foOverlaps
  OBVIOUS
<1>2. \A h : Left(h)' = Left(h) /\ WrittenTo(h)' = WrittenTo(h)
  BY <1>1 DEF Left, WrittenTo
<1>3. (\A x : Someone(x)' <=> Someone(x)) /\ \A k, v : Putting(k, v)' <=> Putting(k, v)
  BY <1>1, <1>2 DEF Someone, Putting
<1>4. SomeoneSets' <=> SomeoneSets
  BY <1>3 DEF SomeoneSets
<1>5. TwoBusy' <=> TwoBusy
  BY <1>2 DEF TwoBusy
<1>6. (\A s : StateMayRest(s)' <=> StateMayRest(s)) /\ \A k, v : DataMayRest(k, v)' <=> DataMayRest(k, v)
  BY <1>1, <1>3, <1>4 DEF StateMayRest, DataMayRest
<1>7. TopMayOpen' <=> TopMayOpen
  BY <1>1, <1>3, <1>5, <1>6 DEF TopMayOpen, TopMayRest, AtTop
<1>8. MayOpen(f, o)' => MayOpen(f, o)
  BY <1>6, <1>7 DEF MayOpen
<1>9. Knowing(f, o)' = Knowing(f, o) /\ Deciding' = Deciding /\ \A e : Asking(e)' = Asking(e)
  BY <1>1, <1>2 DEF Knowing, Deciding, Asking
<1>10. MayBeTold(f, o)' => MayBeTold(f, o)
  BY <1>1, <1>3, <1>9 DEF MayBeTold
<1>11. Writers(f, o)' \subseteq Writers(f, o)
  BY <1>9, <1>10, NoNewWriters
<1>12. TopIsTold' => TopIsTold
  BY <1>1, <1>2, <1>3, <1>9 DEF TopIsTold, AtTop
<1>13. Spared(f, o)' >= Spared(f, o)
  BY <1>9, <1>12, StillSpared
<1>14. foOwed'[<<f, o>>] >= foOwed[<<f, o>>] /\ foOverlaps' >= foOverlaps
  BY <1>1 DEF FormTypes, FormsTypeOK
<1> QED BY <1>8, <1>11, <1>13, <1>14, PaidForStands

-----------------------------------------------------------------------------
\* An idle handler begins with these calls, beside the busy ones.
Begins(h, calls, form, target) ==
  /\ Left(h) = {} /\ calls # {} /\ HasLeft(h, calls, form, target)
  /\ foState' = foState /\ foData' = foData /\ foOverlaps' = foOverlaps + Cardinality(Busy)

\* An update that arrives begins in one of the four orders.
LEMMA ArrivesBegins ==
  ASSUME FormTypes, NEW list \in Seq(FormCalls), list # <<>>, Once(list),
         NEW form \in FormNames \cup {"none", "menu"}, NEW target \in HandlerTarget, Arrives(form, target, list),
         \/ \E s \in FormStates \ {"none"}, k \in FormKeys : In(list) \subseteq {SetTo(s), Remember(k)}
         \/ In(list) \subseteq {Close, Forget, Write} /\ (Write \in In(list) => form \in FormNames \ {"search"})
         \/ /\ form \in FormNames \ (OnSettings \cup {"search"}) /\ Head(list) = Get(DataKey[form])
            /\ In(list) = {Get(DataKey[form]), Close, Forget, Write}
         \/ form = "topup" /\ Branch \in In(list) /\ In(list) \subseteq {Get("method"), Branch},
         Remember("parent_id") \in In(list) => target # "none",
         Remember("amount") \in In(list) => target = "sum"
  PROVE  /\ \E h \in Handlers : Begins(h, In(list), form, target)
         /\ foHandler' \in [Handlers -> FormHandler] /\ \A g \in Handlers : InOrder(g)'
<1>1. PICK h \in Handlers :
        /\ foHandler[h] = NoHandler
        /\ foHandler' = [foHandler EXCEPT ![h] = [todo |-> list, form |-> form, target |-> target]]
  BY DEF Arrives
<1>2. Left(h) = {}
  BY <1>1, IdleHasNothingLeft
<1>3. HasLeft(h, In(list), form, target) /\ In(list) # {} /\ \A g \in Handlers : InOrder(g)'
  BY <1>1, CallsAreTaken
<1>4. foState' = foState /\ foData' = foData /\ foOverlaps' = foOverlaps + Cardinality(Busy)
  BY DEF Arrives, Busy
<1> QED BY <1>2, <1>3, <1>4 DEF Begins, HasLeft

\* What a handler that begins adds.
LEMMA WhatBegins ==
  ASSUME FormTypes, NEW h \in Handlers, NEW calls, NEW form, NEW target, Begins(h, calls, form, target)
  PROVE  /\ Left(h)' = calls /\ foHandler'[h].form = form /\ foHandler'[h].target = target
         /\ \A g \in Handlers \ {h} : foHandler'[g] = foHandler[g] /\ Left(g)' = Left(g)
         /\ \A x : Someone(x)' <=> Someone(x) \/ x \in calls
         /\ \A k, v : Putting(k, v)' <=> Putting(k, v) \/ (Remember(k) \in calls /\ v = target)
         /\ Deciding' = Deciding \cup (IF Branch \in calls THEN {h} ELSE {})
         /\ h \notin Deciding
         /\ SomeoneSets => SomeoneSets'
<1>1. /\ Left(h)' = calls /\ foHandler'[h].form = form /\ foHandler'[h].target = target
      /\ \A g \in Handlers \ {h} : foHandler'[g] = foHandler[g] /\ Left(g)' = Left(g)
      /\ Left(h) = {}
  BY DEF Begins, HasLeft
<1>2. \A x : Someone(x)' <=> Someone(x) \/ x \in calls
  BY <1>1 DEF Someone
<1>3. \A k, v : Putting(k, v)' <=> Putting(k, v) \/ (Remember(k) \in calls /\ v = target)
  BY <1>1 DEF Putting
<1>4. Deciding' = Deciding \cup (IF Branch \in calls THEN {h} ELSE {}) /\ h \notin Deciding
  BY <1>1 DEF Deciding
<1>5. SomeoneSets => SomeoneSets'
  BY <1>2 DEF SomeoneSets
<1> QED BY <1>1, <1>2, <1>3, <1>4, <1>5

\* Who writes and who asks besides those before, when a handler begins.
LEMMA WhoBegins ==
  ASSUME FormTypes, NEW h \in Handlers, NEW calls, NEW form, NEW target, Begins(h, calls, form, target),
         NEW f \in FormNames, NEW o
  PROVE  /\ Asking(f)' = Asking(f) \cup (IF form = f /\ f \notin OnSettings /\ Get(DataKey[f]) \in calls THEN {h} ELSE {})
         /\ h \notin Asking(f) /\ h \notin Knowing(f, o)
         /\ Knowing(f, o)' \subseteq Knowing(f, o) \cup {h}
         /\ h \in Knowing(f, o)' => Write \in calls /\ form = f /\ Get(DataKey[f]) \notin calls /\ WrittenTo(h)' = o
<1>1. /\ Left(h)' = calls /\ foHandler'[h].form = form /\ foHandler'[h].target = target
      /\ \A g \in Handlers \ {h} : foHandler'[g] = foHandler[g] /\ Left(g)' = Left(g)
      /\ Left(h) = {}
  BY WhatBegins DEF Begins
<1>2. h \notin Asking(f) /\ h \notin Knowing(f, o)
  BY <1>1 DEF Asking, Knowing
<1>3. Asking(f)' = Asking(f) \cup (IF form = f /\ f \notin OnSettings /\ Get(DataKey[f]) \in calls THEN {h} ELSE {})
  <2>1. \A g \in Handlers \ {h} : g \in Asking(f)' <=> g \in Asking(f)
    BY <1>1 DEF Asking
  <2>2. h \in Asking(f)' <=> form = f /\ f \notin OnSettings /\ Get(DataKey[f]) \in calls
    BY <1>1 DEF Asking
  <2> QED BY <1>2, <2>1, <2>2 DEF Asking
<1>4. \A g \in Handlers \ {h} : WrittenTo(g)' = WrittenTo(g)
  BY <1>1 DEF WrittenTo
<1>5. \A g \in Handlers \ {h} : g \in Knowing(f, o)' <=> g \in Knowing(f, o)
  BY <1>1, <1>4 DEF Knowing
<1>6. Knowing(f, o)' \subseteq Knowing(f, o) \cup {h}
  BY <1>5 DEF Knowing
<1>7. h \in Knowing(f, o)' => Write \in calls /\ form = f /\ Get(DataKey[f]) \notin calls /\ WrittenTo(h)' = o
  BY <1>1 DEF Knowing
<1> QED BY <1>2, <1>3, <1>6, <1>7

\* When nobody is busy there is nothing left.
LEMMA NobodyBusy ==
  ASSUME FormTypes, NEW f, NEW o
  PROVE  /\ Busy = {} => /\ \A x : ~Someone(x)
                         /\ \A k, v : ~Putting(k, v)
                         /\ ~SomeoneSets
                         /\ Asking(f) = {} /\ Knowing(f, o) = {} /\ Deciding = {} /\ Writers(f, o) = {}
         /\ Asking(f) \subseteq Busy
         /\ \A x : Someone(x) => \E g \in Busy : x \in Left(g)
<1>1. \A g \in Handlers : g \in Busy <=> Left(g) # {}
  BY IdleHasNothingLeft DEF Busy
<1>2. Asking(f) \subseteq Busy
  BY <1>1 DEF Asking
<1>3. \A x : Someone(x) => \E g \in Busy : x \in Left(g)
  BY <1>1 DEF Someone
<1>4. ASSUME Busy = {}
      PROVE  /\ \A x : ~Someone(x)
             /\ \A k, v : ~Putting(k, v)
             /\ ~SomeoneSets
             /\ Asking(f) = {} /\ Knowing(f, o) = {} /\ Deciding = {} /\ Writers(f, o) = {}
  <2>1. \A g \in Handlers : Left(g) = {}
    BY <1>1, <1>4
  <2>2. (\A x : ~Someone(x)) /\ (\A k, v : ~Putting(k, v))
    BY <2>1 DEF Someone, Putting
  <2>3. Asking(f) = {} /\ Knowing(f, o) = {} /\ Deciding = {}
    BY <2>1 DEF Asking, Knowing, Deciding
  <2> QED BY <2>2, <2>3 DEF SomeoneSets, Writers
<1> QED BY <1>2, <1>3, <1>4

\* What a button that opens a form does for f and o: it is pressed for what the form may
\* then be left about.
OpensFor(calls, target, state, f, o, pressed) ==
  /\ state \in FormStates \ {"none"} /\ SetTo(state) \in calls
  /\ \A x \in calls : x = SetTo(state) \/ \E k \in FormKeys : x = Remember(k)
  /\ pressed \in {0, 1} /\ foOwed'[<<f, o>>] >= foOwed[<<f, o>>] + pressed
  /\ Busy = {} /\ MayOpen(f, o)' => MayOpen(f, o) \/ pressed = 1
  /\ Remember(DataKey[f]) \in calls /\ o = target => pressed = 1 \/ (state # f /\ f \notin {"broadcast", "topup"})
  /\ IsSum(f, o) /\ state = "topup" => pressed = 1
  /\ IsTop(f, o) /\ Remember("parent_id") \in calls /\ target = "root" => pressed = 1

\* It keeps the pair paid for: what others are told instead is paid for by the overlap.
LEMMA OpeningIsPaid ==
  ASSUME FormTypes, FormTypes', NEW h \in Handlers, NEW calls, NEW form, NEW target, Begins(h, calls, form, target),
         NEW state, NEW f \in FormNames, NEW o \in FormTargets, NEW pressed, PaidFor(f, o),
         OpensFor(calls, target, state, f, o, pressed)
  PROVE  PaidFor(f, o)'
<1>1. /\ Left(h)' = calls /\ \A g \in Handlers \ {h} : foHandler'[g] = foHandler[g] /\ Left(g)' = Left(g)
      /\ \A x : Someone(x)' <=> Someone(x) \/ x \in calls
      /\ \A k, v : Putting(k, v)' <=> Putting(k, v) \/ (Remember(k) \in calls /\ v = target)
  BY WhatBegins
<1>2. calls \cap {Close, Forget, Branch, Write} = {} /\ (\A k : Get(k) \notin calls) /\ \A s : SetTo(s) \in calls => s = state
  BY CallsDiffer DEF OpensFor
<1>3. Deciding' = Deciding
  <2>1. Branch \notin calls
    BY <1>2
  <2>2. Deciding' = Deciding \cup (IF Branch \in calls THEN {h} ELSE {})
    BY WhatBegins
  <2> QED BY <2>1, <2>2, Zenon
<1>4. \A e \in FormNames : Asking(e)' = Asking(e)
  BY <1>2, WhoBegins
<1>5. Knowing(f, o)' \subseteq Knowing(f, o)
  BY <1>2, WhoBegins
<1>6. foState' = foState /\ foData' = foData /\ foOverlaps' = foOverlaps + Cardinality(Busy)
  BY DEF Begins
<1>7. /\ foOwed[<<f, o>>] \in Int /\ foOverlaps \in Nat /\ foOwed'[<<f, o>>] \in Int
      /\ Spared(f, o) \in {0, 1} /\ Spared(f, o)' \in {0, 1} /\ OneMore(f, o) \in {0, 1} /\ OneMore(f, o)' \in {0, 1}
      /\ Cardinality(Writers(f, o)) \in Nat /\ Cardinality(Busy) \in Nat
  <2>1. /\ foOwed[<<f, o>>] \in Int /\ foOverlaps \in Nat /\ foOwed'[<<f, o>>] \in Int
    BY DEF FormTypes, FormsTypeOK
  <2>2. /\ Spared(f, o) \in {0, 1} /\ Spared(f, o)' \in {0, 1} /\ OneMore(f, o) \in {0, 1} /\ OneMore(f, o)' \in {0, 1}
    BY DEF Spared, OneMore
  <2> QED BY <2>1, <2>2, WritersAreFew
<1>8. "name" \in FormNames
  BY DEF FormNames
<1>9. CASE Busy = {}
  <2>1. Asking("name") = {} /\ Asking(f) = {} /\ Knowing(f, o) = {} /\ Deciding = {} /\ Writers(f, o) = {}
    BY <1>9, NobodyBusy
  <2>2. Spared(f, o) = 0
    BY <2>1 DEF Spared
  <2>3. Writers(f, o)' = {}
    BY <1>3, <1>4, <1>5, <2>1 DEF Writers
  <2>4. Cardinality(Writers(f, o)) = 0 /\ Cardinality(Writers(f, o)') = 0 /\ Cardinality(Busy) = 0
    BY <1>9, <2>1, <2>3, FS_EmptySet
  <2>5. OneMore(f, o)' <= OneMore(f, o) + pressed
    BY <1>9 DEF OneMore, OpensFor
  <2> QED BY <1>6, <1>7, <2>2, <2>4, <2>5 DEF PaidFor, OpensFor
<1>10. ASSUME Busy # {} PROVE Cardinality(Busy) >= 1
  BY <1>7, <1>10, WritersAreFew, FS_EmptySet
<1>11. CASE Busy # {} /\ (MayBeTold(f, o)' => MayBeTold(f, o))
  <2>1. Writers(f, o)' \subseteq Writers(f, o)
    BY <1>3, <1>4, <1>5, <1>11, NoNewWriters
  <2>2. Cardinality(Writers(f, o)') <= Cardinality(Writers(f, o)) /\ Cardinality(Writers(f, o)') \in Nat
    <3>1. IsFiniteSet(Writers(f, o)')
      BY <2>1, WritersAreFew, FS_Subset
    <3> QED BY <2>1, <3>1, WritersAreFew, FS_Subset, FS_CardinalityType
  <2>3. CASE Spared(f, o)' >= Spared(f, o)
    BY <1>6, <1>7, <1>10, <1>11, <2>2, <2>3 DEF PaidFor, OpensFor
  <2>4. CASE ~(Spared(f, o)' >= Spared(f, o))
    <3>1. IsTop(f, o) /\ ~TopIsTold /\ TopIsTold'
      BY <1>4, <1>8, <2>4 DEF Spared
    <3>2. ~AtTop' /\ ~Putting("parent_id", "root")
      BY <1>6, <3>1 DEF TopIsTold, AtTop
    <3>3. \A g \in Handlers \ Asking("name") : Forget \notin Left(g)' /\ Branch \notin Left(g)'
      BY <1>1, <1>2, <3>1 DEF TopIsTold
    <3>4. Putting("parent_id", "root")'
      BY <1>4, <1>8, <3>1, <3>2, <3>3 DEF TopIsTold
    <3>5. pressed = 1
      BY <1>1, <3>1, <3>2, <3>4 DEF OpensFor
    <3> QED BY <1>6, <1>7, <1>10, <1>11, <2>2, <3>5 DEF PaidFor, OpensFor
  <2> QED BY <2>3, <2>4
<1>12. CASE Busy # {} /\ MayBeTold(f, o)' /\ ~MayBeTold(f, o)
  <2>1. ~IsTop(f, o) /\ Spared(f, o) = 0 /\ Spared(f, o)' = 0
    BY <1>12 DEF MayBeTold, Spared
  <2>2. (Remember(DataKey[f]) \in calls /\ o = target) \/ (IsSum(f, o) /\ state = "topup")
    BY <1>1, <1>2, <1>3, <1>6, <1>12 DEF MayBeTold
  <2>3. Writers(f, o)' \subseteq Writers(f, o) \cup Asking(f)
    BY <1>3, <1>4, <1>5 DEF Writers
  <2>4. /\ Cardinality(Writers(f, o)') <= Cardinality(Writers(f, o)) + Cardinality(Asking(f))
        /\ Cardinality(Writers(f, o)') \in Nat /\ Cardinality(Asking(f)) \in Nat
    <3>1. /\ IsFiniteSet(Writers(f, o) \cup Asking(f)) /\ Cardinality(Asking(f)) \in Nat
          /\ Cardinality(Writers(f, o) \cup Asking(f)) <= Cardinality(Writers(f, o)) + Cardinality(Asking(f))
      <4>1. IsFiniteSet(Writers(f, o)) /\ IsFiniteSet(Asking(f))
        BY WritersAreFew
      <4>2. IsFiniteSet(Writers(f, o) \cap Asking(f))
        BY <4>1, FS_Subset
      <4>3. Cardinality(Writers(f, o) \cap Asking(f)) \in Nat /\ Cardinality(Asking(f)) \in Nat
        BY <4>1, <4>2, FS_CardinalityType
      <4>4. /\ IsFiniteSet(Writers(f, o) \cup Asking(f))
            /\ Cardinality(Writers(f, o) \cup Asking(f)) =
                 Cardinality(Writers(f, o)) + Cardinality(Asking(f)) - Cardinality(Writers(f, o) \cap Asking(f))
        BY <4>1, FS_Union
      <4> QED BY <1>7, <4>3, <4>4
    <3>2. IsFiniteSet(Writers(f, o)') /\ Cardinality(Writers(f, o)') <= Cardinality(Writers(f, o) \cup Asking(f))
      BY <2>3, <3>1, FS_Subset
    <3>3. Cardinality(Writers(f, o)') \in Nat /\ Cardinality(Writers(f, o) \cup Asking(f)) \in Nat
      BY <3>1, <3>2, FS_CardinalityType
    <3> QED BY <1>7, <3>1, <3>2, <3>3
  <2>5. Asking(f) \subseteq Busy /\ Cardinality(Asking(f)) <= Cardinality(Busy)
    BY NobodyBusy, WritersAreFew, FS_Subset
  <2>6. CASE pressed = 1
    BY <1>6, <1>7, <2>1, <2>4, <2>5, <2>6 DEF PaidFor, OpensFor
  <2>7. CASE ~MayOpen(f, o)'
    <3>1. OneMore(f, o)' = 0
      BY <2>7 DEF OneMore
    <3> QED BY <1>6, <1>7, <2>1, <2>4, <2>5, <3>1 DEF PaidFor, OpensFor
  <2>8. CASE pressed # 1 /\ MayOpen(f, o)'
    <3>1. state # f /\ f \notin {"broadcast", "topup"}
      BY <2>2, <2>8 DEF OpensFor
    <3>2. Cardinality(Asking(f)) <= Cardinality(Busy) - 1
      <4>1. CASE f \in OnSettings
        <5>1. Asking(f) = {}
          BY <4>1 DEF Asking
        <5> QED BY <1>7, <1>10, <1>12, <5>1, FS_EmptySet
      <4>2. CASE f \notin OnSettings
        <5>1. StateMayRest(f)'
          BY <2>1, <2>8, <3>1, <4>2 DEF MayOpen, IsSum
        <5>2. SomeoneSets'
          BY <1>1 DEF SomeoneSets, OpensFor
        <5>3. Someone(SetTo(f))
          BY <1>1, <1>2, <3>1, <5>1, <5>2 DEF StateMayRest
        <5>4. PICK g \in Busy : SetTo(f) \in Left(g)
          BY <5>3, NobodyBusy
        <5>5. g \notin Asking(f)
          <6>1. g \in Handlers /\ foHandler[g].todo # <<>>
            BY <5>4 DEF Busy, FormTypes, InOrder
          <6> QED BY <5>4, <6>1, WhoAsksReadsFirst, CallsDiffer DEF AsksFirst
        <5>6. IsFiniteSet(Busy \ {g}) /\ Cardinality(Busy \ {g}) = Cardinality(Busy) - 1
          BY <5>4, WritersAreFew, FS_RemoveElement
        <5>7. Asking(f) \subseteq Busy \ {g}
          BY <2>5, <5>5
        <5> QED BY <5>6, <5>7, FS_Subset
      <4> QED BY <4>1, <4>2
    <3> QED BY <1>6, <1>7, <2>1, <2>4, <3>2 DEF PaidFor, OpensFor
  <2> QED BY <2>6, <2>7, <2>8
<1> QED BY <1>9, <1>11, <1>12

\* What a handler that ends a form, or decides on a payment, does for f and o: the form was
\* open, unless others were busy; a folder's name may also wait for data that one of them
\* still forgets.
AnswersFor(h, calls, form, f, o) ==
  /\ \A x : SetTo(x) \notin calls /\ Remember(x) \notin calls
  /\ Branch \in calls \/ (Close \in calls /\ Forget \in calls)
  /\ Branch \in calls => form = "topup" /\ foState = "topup"
  /\ form = "name" => Get("parent_id") \in calls /\ foState = "name"
  /\ foOwed'[<<f, o>>] = foOwed[<<f, o>>]
  /\ Busy = {} /\ h \in Writers(f, o)' => MayOpen(f, o) \/ (form = "name" /\ IsTop(f, o) /\ ~AtTop)

\* It keeps the pair paid for: the press that opened the form pays for its answer.
LEMMA AnswerIsPaid ==
  ASSUME FormTypes, FormTypes', NEW h \in Handlers, NEW calls, NEW form, NEW target, Begins(h, calls, form, target),
         NEW f \in FormNames, NEW o \in FormTargets, PaidFor(f, o), AnswersFor(h, calls, form, f, o)
  PROVE  PaidFor(f, o)'
<1> USE DEF AnswersFor
<1>1. /\ Left(h)' = calls /\ \A g \in Handlers \ {h} : foHandler'[g] = foHandler[g] /\ Left(g)' = Left(g)
      /\ foHandler'[h].form = form
      /\ \A x : Someone(x)' <=> Someone(x) \/ x \in calls
      /\ \A k, v : Putting(k, v)' <=> Putting(k, v)
      /\ Deciding' = Deciding \cup (IF Branch \in calls THEN {h} ELSE {}) /\ h \notin Deciding
  BY WhatBegins
<1>2. foState' = foState /\ foData' = foData /\ foOverlaps' = foOverlaps + Cardinality(Busy)
  BY DEF Begins
<1>3. /\ foOwed[<<f, o>>] \in Int /\ foOverlaps \in Nat /\ foOwed'[<<f, o>>] \in Int
      /\ Spared(f, o) \in {0, 1} /\ Spared(f, o)' \in {0, 1} /\ OneMore(f, o) \in {0, 1} /\ OneMore(f, o)' \in {0, 1}
      /\ Cardinality(Writers(f, o)) \in Nat /\ Cardinality(Busy) \in Nat
  <2>1. /\ foOwed[<<f, o>>] \in Int /\ foOverlaps \in Nat /\ foOwed'[<<f, o>>] \in Int
    BY DEF FormTypes, FormsTypeOK
  <2>2. /\ Spared(f, o) \in {0, 1} /\ Spared(f, o)' \in {0, 1} /\ OneMore(f, o) \in {0, 1} /\ OneMore(f, o)' \in {0, 1}
    BY DEF Spared, OneMore
  <2> QED BY <2>1, <2>2, WritersAreFew
<1>4. /\ "name" \in FormNames \ OnSettings /\ "name" \in FormStates \ {"none"} /\ DataKey["name"] = "parent_id"
      /\ DataKey[f] \in FormKeys
  BY KeysOfForms DEF FormNames, FormStates, OnMedia, OnSettings, OnPlans
<1>5. \A s \in FormStates : StateMayRest(s)' => StateMayRest(s) /\ Someone(SetTo(s))
  <2>1. Someone(Close)' \/ Someone(Branch)'
    BY <1>1
  <2> QED BY <1>1, <2>1 DEF StateMayRest
<1>6. \A k, v : DataMayRest(k, v)' => DataMayRest(k, v)
  BY <1>1, <1>2 DEF DataMayRest
<1>7. TopMayOpen' => Someone(SetTo("name"))
  BY <1>1, <1>4, <1>5 DEF TopMayOpen
<1>8. MayBeTold(f, o)' => MayBeTold(f, o)
  BY <1>1, <1>2, <1>4 DEF MayBeTold
<1>9. /\ Asking(f)' = Asking(f) \cup (IF form = f /\ f \notin OnSettings /\ Get(DataKey[f]) \in calls THEN {h} ELSE {})
      /\ Asking("name")' = Asking("name") \cup (IF form = "name" THEN {h} ELSE {})
      /\ h \notin Asking("name") /\ h \notin Asking(f) /\ h \notin Knowing(f, o)
      /\ Knowing(f, o)' \subseteq Knowing(f, o) \cup {h}
      /\ h \in Knowing(f, o)' => Write \in calls /\ form = f
  <2>1. /\ Asking("name")' = Asking("name") \cup (IF form = "name" /\ "name" \notin OnSettings /\ Get(DataKey["name"]) \in calls THEN {h} ELSE {})
        /\ h \notin Asking("name")
    BY <1>4, WhoBegins
  <2>2. Asking("name")' = Asking("name") \cup (IF form = "name" THEN {h} ELSE {})
    BY <1>4, <2>1
  <2> QED BY <2>1, <2>2, WhoBegins
<1>10. h \in Writers(f, o)' => form = f
  BY <1>1, <1>9 DEF Writers, IsSum
<1>11. Writers(f, o)' \subseteq Writers(f, o) \cup {h}
  BY <1>1, <1>8, <1>9 DEF Writers
<1>12. /\ IsFiniteSet(Writers(f, o)') /\ Cardinality(Writers(f, o)') \in Nat
       /\ Cardinality(Writers(f, o)') <= Cardinality(Writers(f, o)) + 1
       /\ h \notin Writers(f, o)' => Cardinality(Writers(f, o)') <= Cardinality(Writers(f, o))
  <2>1. /\ IsFiniteSet(Writers(f, o) \cup {h}) /\ Cardinality(Writers(f, o) \cup {h}) \in Nat
        /\ Cardinality(Writers(f, o) \cup {h}) <= Cardinality(Writers(f, o)) + 1
    <3>1. IsFiniteSet(Writers(f, o))
      BY WritersAreFew
    <3>2. /\ IsFiniteSet(Writers(f, o) \cup {h})
          /\ Cardinality(Writers(f, o) \cup {h}) =
               IF h \in Writers(f, o) THEN Cardinality(Writers(f, o)) ELSE Cardinality(Writers(f, o)) + 1
      BY <3>1, FS_AddElement
    <3> QED BY <1>3, <3>2
  <2>2. IsFiniteSet(Writers(f, o)') /\ Cardinality(Writers(f, o)') <= Cardinality(Writers(f, o) \cup {h})
    BY <1>11, <2>1, FS_Subset
  <2>3. Cardinality(Writers(f, o)') \in Nat
    BY <2>2, FS_CardinalityType
  <2>4. ASSUME h \notin Writers(f, o)' PROVE Cardinality(Writers(f, o)') <= Cardinality(Writers(f, o))
    <3>1. Writers(f, o)' \subseteq Writers(f, o)
      BY <1>11, <2>4
    <3> QED BY <3>1, WritersAreFew, FS_Subset
  <2> QED BY <1>3, <2>1, <2>2, <2>3, <2>4
<1>13. ~IsTop(f, o) => (MayOpen(f, o)' => MayOpen(f, o))
  <2>1. StatesOf(f) \subseteq FormStates /\ {"topup", "receipt"} \subseteq FormStates /\ f \in FormStates
    BY DEF StatesOf, FormStates, FormNames, OnMedia, OnSettings, OnPlans
  <2> QED BY <1>5, <1>6, <2>1 DEF MayOpen
<1>14. IsTop(f, o) => (MayOpen(f, o)' => Someone(SetTo("name")) /\ StateMayRest("name"))
  BY <1>7 DEF IsTop, MayOpen, IsSum, StateMayRest, OnSettings
<1>15. (\E g \in Handlers : Forget \in Left(g)) /\ IsTop(f, o) => (MayOpen(f, o)' => MayOpen(f, o))
  BY <1>14 DEF MayOpen, TopMayOpen, TopMayRest, Someone
<1>16. \A g \in Asking("name") : Forget \in Left(g) /\ g \in Handlers
  <2> SUFFICES ASSUME NEW g \in Asking("name") PROVE Forget \in Left(g) /\ g \in Handlers
    OBVIOUS
  <2>1. g \in Handlers /\ Left(g) # {}
    BY DEF Asking
  <2>2. foHandler[g].todo # <<>>
    BY <2>1, IdleHasNothingLeft DEF FormTypes, InOrder
  <2> QED BY <1>4, <2>1, <2>2, WhoAsksReadsFirst
<1>17. CASE Busy = {}
  <2>1. /\ Asking("name") = {} /\ Writers(f, o) = {} /\ (\A x : ~Someone(x)) /\ (\A k, v : ~Putting(k, v))
        /\ Knowing(f, o) = {} /\ Deciding = {} /\ Asking(f) = {}
    BY <1>17, NobodyBusy
  <2>2. Spared(f, o) = 0
    BY <2>1 DEF Spared
  <2>3. Cardinality(Writers(f, o)) = 0 /\ Cardinality(Busy) = 0
    BY <1>17, <2>1, FS_EmptySet
  <2>4. MayOpen(f, o)' => f = "broadcast" /\ Forget \notin calls /\ MayOpen(f, o)
    <3>1. \A s \in FormStates : ~StateMayRest(s)'
      BY <1>5, <2>1
    <3>2. ~TopMayOpen'
      BY <1>7, <2>1
    <3>3. StatesOf(f) \subseteq FormStates /\ {"topup", "receipt"} \subseteq FormStates /\ f \in FormStates
      BY DEF StatesOf, FormStates, FormNames, OnMedia, OnSettings, OnPlans
    <3>4. MayOpen(f, o)' => f = "broadcast" /\ DataMayRest("message_id", o)'
      BY <3>1, <3>2, <3>3 DEF MayOpen
    <3>5. DataMayRest("message_id", o)' => Forget \notin calls
      BY <1>1, <2>1 DEF DataMayRest
    <3> QED BY <1>6, <3>4, <3>5 DEF MayOpen
  <2>5. CASE h \notin Writers(f, o)'
    <3>1. OneMore(f, o)' <= OneMore(f, o)
      BY <2>4 DEF OneMore
    <3> QED BY <1>2, <1>3, <1>12, <2>2, <2>3, <2>5, <3>1 DEF PaidFor
  <2>6. CASE h \in Writers(f, o)'
    <3>1. ~MayOpen(f, o)'
      BY <1>10, <2>4, <2>6
    <3>2. OneMore(f, o)' = 0
      BY <3>1 DEF OneMore
    <3>3. CASE MayOpen(f, o)
      <4>1. OneMore(f, o) = 1
        BY <3>3 DEF OneMore
      <4> QED BY <1>2, <1>3, <1>12, <2>2, <2>3, <3>2, <4>1 DEF PaidFor
    <3>4. CASE form = "name" /\ IsTop(f, o) /\ ~AtTop
      <4>1. Asking("name")' = {h}
        BY <1>9, <2>1, <3>4
      <4>2. ~TopIsTold'
        <5>1. \A g \in Handlers \ {h} : Left(g)' = {}
          BY <1>1, <1>17, IdleHasNothingLeft DEF Busy
        <5>2. ~AtTop' /\ ~Putting("parent_id", "root")'
          BY <1>1, <1>2, <2>1, <3>4 DEF AtTop
        <5> QED BY <4>1, <5>1, <5>2 DEF TopIsTold
      <4>3. Spared(f, o)' = 1
        BY <3>4, <4>1, <4>2 DEF Spared
      <4> QED BY <1>2, <1>3, <1>12, <2>2, <2>3, <3>2, <4>3 DEF PaidFor
    <3> QED BY <1>17, <2>6, <3>3, <3>4
  <2> QED BY <2>5, <2>6
<1>18. CASE Busy # {}
  <2>1. Cardinality(Busy) >= 1
    BY <1>3, <1>18, WritersAreFew, FS_EmptySet
  <2>2. CASE ~IsTop(f, o)
    <3>1. Spared(f, o) = 0 /\ Spared(f, o)' = 0 /\ OneMore(f, o)' <= OneMore(f, o)
      BY <1>13, <2>2 DEF Spared, OneMore
    <3> QED BY <1>2, <1>3, <1>12, <2>1, <3>1 DEF PaidFor
  <2>3. CASE IsTop(f, o) /\ form = "name"
    <3>1. TopIsTold' <=> TopIsTold
      <4>1. \A g \in Handlers \ {h} : g \in Handlers \ Asking("name")' <=> g \in Handlers \ Asking("name")
        BY <1>9
      <4>2. h \in Asking("name")' /\ Left(h) = {}
        BY <1>9, <2>3 DEF Begins
      <4>3. AtTop' <=> AtTop
        BY <1>2 DEF AtTop
      <4> QED BY <1>1, <4>1, <4>2, <4>3 DEF TopIsTold
    <3>2. CASE TopIsTold
      <4>1. MayOpen(f, o)' => MayOpen(f, o)
        <5> SUFFICES ASSUME MayOpen(f, o)' PROVE MayOpen(f, o)
          OBVIOUS
        <5>1. Someone(SetTo("name")) /\ StateMayRest("name") /\ foState = "name"
          BY <1>14, <2>3
        <5>2. CASE AtTop
          BY <2>3, <5>1, <5>2 DEF MayOpen, TopMayOpen
        <5>3. CASE Putting("parent_id", "root")
          BY <2>3, <5>1, <5>3 DEF MayOpen, TopMayOpen, TopMayRest
        <5>4. CASE \E g \in Handlers : Forget \in Left(g) \/ Branch \in Left(g)
          BY <2>3, <5>1, <5>4 DEF MayOpen, TopMayOpen, TopMayRest, Someone
        <5> QED BY <3>2, <5>2, <5>3, <5>4 DEF TopIsTold
      <4>2. Spared(f, o) = 0 /\ OneMore(f, o)' <= OneMore(f, o)
        BY <3>2, <4>1 DEF Spared, OneMore
      <4> QED BY <1>2, <1>3, <1>12, <2>1, <4>2 DEF PaidFor
    <3>3. CASE ~TopIsTold
      <4>1. Spared(f, o)' = 1
        BY <1>9, <2>3, <3>1, <3>3 DEF Spared
      <4>2. CASE Asking("name") = {}
        <5>1. Spared(f, o) = 0
          BY <4>2 DEF Spared
        <5> QED BY <1>2, <1>3, <1>12, <2>1, <4>1, <5>1 DEF PaidFor
      <4>3. CASE Asking("name") # {}
        <5>1. OneMore(f, o)' <= OneMore(f, o)
          BY <1>15, <1>16, <2>3, <4>3 DEF OneMore
        <5> QED BY <1>2, <1>3, <1>12, <2>1, <4>1, <5>1 DEF PaidFor
      <4> QED BY <4>2, <4>3
    <3> QED BY <3>2, <3>3
  <2>4. CASE IsTop(f, o) /\ form # "name"
    <3>1. h \notin Writers(f, o)'
      BY <1>10, <2>4 DEF IsTop
    <3>2. TopIsTold'
      BY <1>1, <1>9, <2>4 DEF TopIsTold
    <3>3. Spared(f, o)' = 0
      BY <3>2 DEF Spared
    <3>4. CASE Spared(f, o) = 0
      BY <1>2, <1>3, <1>12, <2>1, <3>1, <3>3, <3>4 DEF PaidFor
    <3>5. CASE Spared(f, o) = 1
      <4>1. Asking("name") # {}
        BY <3>5 DEF Spared
      <4>2. OneMore(f, o)' <= OneMore(f, o)
        BY <1>15, <1>16, <2>4, <4>1 DEF OneMore
      <4> QED BY <1>2, <1>3, <1>12, <2>1, <3>1, <3>3, <3>5, <4>2 DEF PaidFor
    <3> QED BY <1>3, <3>4, <3>5
  <2> QED BY <2>2, <2>3, <2>4
<1> QED BY <1>17, <1>18

-----------------------------------------------------------------------------
\* The types after a call.
LEMMA CallsKeepTypes ==
  ASSUME FormTypes, NEW h \in Handlers,
         \/ SetState(h) \/ UpdateData(h) \/ GetData(h) \/ ClearState(h) \/ ClearData(h) \/ WriteObject(h) \/ TopupBranch(h)
  PROVE  FormTypes'
<1> USE DEF FormsTypeOK
<1>1. /\ foHandler[h] \in FormHandler /\ InOrder(h) /\ FormsTypeOK
      /\ foHandler[h].target \in HandlerTarget /\ foHandler[h].todo \in Seq(FormCalls)
  BY DEF FormTypes, FormHandler
<1>2. NextCall(h).call \in {"set", "put", "get", "close", "forget", "branch", "write"} /\ foHandler[h].todo # <<>>
  BY DEF SetState, UpdateData, GetData, ClearState, ClearData, WriteObject, TopupBranch, Calls
<1>3. NextCall(h) \in Left(h)
  BY <1>1, <1>2, FirstCallMade DEF NextCall, Left, InOrder
<1>4. CASE TopupBranch(h)
  <2>1. foHandler' \in [Handlers -> FormHandler] /\ \A g \in Handlers : InOrder(g)'
    BY <1>4, BranchIsTaken DEF HasLeft, FormTypes
  <2>2. FormsTypeOK'
    BY <1>1, <1>4 DEF TopupBranch
  <2> QED BY <2>1, <2>2 DEF FormTypes
<1>5. ASSUME NEW target \in HandlerTarget, CallMade(h, target), NextCall(h).call # "branch",
             target = foHandler[h].target \/ NextCall(h).call = "get"
      PROVE  foHandler' \in [Handlers -> FormHandler] /\ \A g \in Handlers : InOrder(g)'
  <2>1. NextCall(h) # Branch
    BY <1>5 DEF Branch
  <2>2. HasLeft(h, Left(h) \ {NextCall(h)}, foHandler[h].form, target) /\ \A g \in Handlers : InOrder(g)'
    BY <1>2, <1>5, <2>1, CallIsMade
  <2> QED BY <2>2 DEF HasLeft
<1>6. CASE SetState(h)
  <2>1. CallMade(h, foHandler[h].target) /\ NextCall(h).call = "set" /\ foState' = NextCall(h).on
    BY <1>6 DEF SetState, Calls
  <2>2. Opens(h)
    <3>1. ~Ends(h)
      BY <1>3, <2>1 DEF Ends, Close, Forget, Write
    <3>2. ~AsksFirst(h)
      BY <1>3, <2>1 DEF AsksFirst, Get, Close, Forget, Write
    <3>3. ~Decides(h)
      BY <1>3, <2>1 DEF Decides, Get, Branch
    <3> QED BY <1>1, <3>1, <3>2, <3>3 DEF InOrder
  <2>3. NextCall(h).on \in FormStates
    BY <1>3, <2>1, <2>2 DEF Opens, SetTo, Remember
  <2>4. FormsTypeOK'
    BY <1>1, <1>6, <2>1, <2>3 DEF SetState
  <2> QED BY <1>1, <1>5, <2>1, <2>4 DEF FormTypes
<1>7. CASE UpdateData(h)
  <2>1. CallMade(h, foHandler[h].target) /\ NextCall(h).call = "put" /\ foData' = [foData EXCEPT ![NextCall(h).on] = foHandler[h].target]
    BY <1>7 DEF UpdateData, Calls
  <2>2. foData' \in [FormKeys -> FormTargets \cup {"none", "online", "card"}]
    BY <1>1, <2>1 DEF HandlerTarget
  <2>3. FormsTypeOK'
    BY <1>1, <1>7, <2>2 DEF UpdateData
  <2> QED BY <1>1, <1>5, <2>1, <2>3 DEF FormTypes
<1>8. CASE GetData(h)
  <2>1. CallMade(h, foData[NextCall(h).on]) /\ NextCall(h).call = "get"
    BY <1>8 DEF GetData, Calls
  <2>2. NextCall(h).on \in FormKeys
    <3>1. AsksFirst(h) \/ Decides(h)
      BY <1>1, <1>3, <2>1 DEF InOrder, Opens, Ends, SetTo, Remember, Close, Forget, Write
    <3> QED BY <1>3, <2>1, <3>1, KeysOfForms DEF AsksFirst, Decides, Get, Close, Forget, Write, Branch
  <2>3. foData[NextCall(h).on] \in HandlerTarget
    BY <1>1, <2>2 DEF HandlerTarget
  <2>4. FormsTypeOK'
    BY <1>1, <1>8 DEF GetData
  <2> QED BY <1>5, <2>1, <2>3, <2>4 DEF FormTypes
<1>9. CASE ClearState(h)
  <2>1. CallMade(h, foHandler[h].target) /\ NextCall(h).call = "close" /\ foState' = "none"
    BY <1>9 DEF ClearState, Calls, Cleared
  <2>2. FormsTypeOK'
    BY <1>1, <1>9, <2>1 DEF ClearState, FormStates
  <2> QED BY <1>1, <1>5, <2>1, <2>2 DEF FormTypes
<1>10. CASE ClearData(h)
  <2>1. CallMade(h, foHandler[h].target) /\ NextCall(h).call = "forget" /\ foData' = NoData
    BY <1>10 DEF ClearData, Calls
  <2>2. FormsTypeOK'
    BY <1>1, <1>10, <2>1 DEF ClearData, NoData
  <2> QED BY <1>1, <1>5, <2>1, <2>2 DEF FormTypes
<1>11. CASE WriteObject(h)
  <2>1. CallMade(h, foHandler[h].target) /\ NextCall(h).call = "write"
    BY <1>11 DEF WriteObject, Calls
  <2>2. PICK o : o = WrittenTo(h)
    OBVIOUS
  <2>3. foOwed' = [foOwed EXCEPT ![<<foHandler[h].form, o>>] = @ - 1] \/ foOwed' = foOwed
    BY <1>11, <2>2 DEF WriteObject
  <2>4. foOwed' \in [FormNames \X FormTargets -> Int]
    <3>1. PICK p : p = <<foHandler[h].form, o>>
      OBVIOUS
    <3>2. foOwed' = [foOwed EXCEPT ![p] = foOwed[p] - 1] \/ foOwed' = foOwed
      BY <2>3, <3>1
    <3>3. p \in FormNames \X FormTargets => foOwed[p] \in Int
      BY <1>1
    <3> QED BY <1>1, <3>2, <3>3
  <2>5. FormsTypeOK'
    BY <1>1, <1>11, <2>4 DEF WriteObject
  <2> QED BY <1>1, <1>5, <2>1, <2>5 DEF FormTypes
<1> QED BY <1>4, <1>6, <1>7, <1>8, <1>9, <1>10, <1>11

\* The types after an arrival.
LEMMA ArrivalKeepsTypes ==
  ASSUME FormTypes, NEW form, NEW target, NEW list, Arrives(form, target, list),
         foHandler' \in [Handlers -> FormHandler], \A g \in Handlers : InOrder(g)',
         foOwed' \in [FormNames \X FormTargets -> Int]
  PROVE  FormTypes'
<1>1. Cardinality(Busy) \in Nat /\ foOverlaps' = foOverlaps + Cardinality(Busy)
  BY WritersAreFew DEF Arrives, Busy
<1>2. foArrived' \in 0..MaxUpdates
  BY FormsAssumption DEF Arrives, FormTypes, FormsTypeOK
<1> QED BY <1>1, <1>2 DEF Arrives, FormTypes, FormsTypeOK

\* A button pressed while nobody is busy opens its form and no other.
LEMMA OpensAlone ==
  ASSUME FormTypes, NEW h \in Handlers, NEW calls, NEW form, NEW target, Begins(h, calls, form, target),
         NEW state \in FormStates \ {"none"}, SetTo(state) \in calls,
         \A x \in calls : x = SetTo(state) \/ \E k \in FormKeys : x = Remember(k),
         Busy = {}
  PROVE  /\ \A s \in FormStates : StateMayRest(s)' => s = state
         /\ \A k, v : DataMayRest(k, v)' => \/ Remember(k) \in calls /\ v = target
                                            \/ Remember(k) \notin calls /\ DataMayRest(k, v)
         /\ TopMayOpen' => state = "name" /\ (TopMayOpen \/ Remember("parent_id") \notin calls \/ target = "root")
         /\ StateMayRest(foState)
<1>1. /\ Left(h)' = calls /\ \A g \in Handlers \ {h} : foHandler'[g] = foHandler[g] /\ Left(g)' = Left(g)
      /\ \A x : Someone(x)' <=> Someone(x) \/ x \in calls
      /\ \A k, v : Putting(k, v)' <=> Putting(k, v) \/ (Remember(k) \in calls /\ v = target)
  BY WhatBegins
<1>2. calls \cap {Close, Forget, Branch, Write} = {} /\ (\A k : Get(k) \notin calls) /\ \A s : SetTo(s) \in calls => s = state
  BY CallsDiffer
<1>3. foState' = foState /\ foData' = foData
  BY DEF Begins
<1>4. (\A x : ~Someone(x)) /\ (\A k, v : ~Putting(k, v)) /\ ~SomeoneSets
  BY NobodyBusy
<1>5. SomeoneSets'
  BY <1>1 DEF SomeoneSets
<1>6. \A s \in FormStates : StateMayRest(s)' => s = state
  BY <1>1, <1>2, <1>4, <1>5 DEF StateMayRest
<1>7. \A k, v : DataMayRest(k, v)' => \/ Remember(k) \in calls /\ v = target
                                      \/ Remember(k) \notin calls /\ DataMayRest(k, v)
  BY <1>1, <1>3, <1>4 DEF DataMayRest
<1>8. StateMayRest(foState)
  BY <1>4 DEF StateMayRest
<1>9. ~TwoBusy'
  <2>1. \A g \in Handlers \ {h} : Left(g)' = {}
    BY <1>1, IdleHasNothingLeft DEF Busy
  <2> QED BY <2>1 DEF TwoBusy
<1>10. "name" \in FormStates /\ "parent_id" \in FormKeys
  BY KeysOfForms DEF FormStates, FormNames
<1>11. TopMayOpen' => state = "name" /\ (TopMayOpen \/ Remember("parent_id") \notin calls \/ target = "root")
  <2> SUFFICES ASSUME TopMayOpen', Remember("parent_id") \in calls, target # "root"
               PROVE  state = "name" /\ TopMayOpen
    <3>1. TopMayOpen' => StateMayRest("name")'
      BY DEF TopMayOpen, StateMayRest
    <3> QED BY <1>6, <1>10, <3>1
  <2>1. ~TopMayRest'
    BY <1>1, <1>2, <1>4 DEF TopMayRest
  <2>2. Someone(SetTo("name"))' /\ AtTop' /\ foState' = "name"
    BY <1>9, <2>1 DEF TopMayOpen
  <2>3. state = "name"
    BY <1>1, <1>2, <1>4, <2>2
  <2>4. AtTop /\ foState = "name"
    BY <1>3, <2>2 DEF AtTop
  <2>5. StateMayRest("name") /\ TopMayRest
    BY <1>4, <1>8, <2>4 DEF TopMayRest
  <2> QED BY <2>3, <2>5 DEF TopMayOpen
<1> QED BY <1>6, <1>7, <1>8, <1>11

\* Most buttons: one more press for what the form may then be left about.
LEMMA PromptIsKept ==
  ASSUME FormsInv, NEW form \in FormNames \ {"topup", "broadcast", "search"}, NEW target \in FormTargets,
         form \in OnSettings => target = "settings", Prompt(form, target)
  PROVE  FormsInv'
<1>1. FormTypes /\ \A f \in FormNames, o \in FormTargets : PaidFor(f, o)
  BY DEF FormsInv
<1>2. /\ form \in FormStates \ {"none"} /\ form # "receipt" /\ DataKey[form] \in FormKeys /\ DataKey[form] # "message_id"
      /\ DataKey[form] # "amount" /\ (form \in OnSettings <=> DataKey[form] = "none")
      /\ (form = "name" <=> DataKey[form] = "parent_id")
  BY KeysOfForms DEF FormStates, FormNames, OnMedia, OnSettings, OnPlans
<1>3. target # "none" /\ target \in HandlerTarget
  BY FormsAssumption DEF FormTargets, HandlerTarget
<1>4. PICK list : list = IF form \in OnSettings THEN <<SetTo(form)>> ELSE <<SetTo(form), Remember(DataKey[form])>>
  OBVIOUS
<1>5. /\ list \in Seq(FormCalls) /\ list # <<>> /\ Once(list)
      /\ In(list) = IF form \in OnSettings THEN {SetTo(form)} ELSE {SetTo(form), Remember(DataKey[form])}
  <2>1. SetTo(form) \in FormCalls /\ Remember(DataKey[form]) \in FormCalls /\ SetTo(form) # Remember(DataKey[form])
    BY <1>2, CallsAreCalls, CallsDiffer
  <2>2. CASE form \in OnSettings
    BY <1>4, <2>1, <2>2, ListOfOne
  <2>3. CASE form \notin OnSettings
    <3>1. PICK a : a = SetTo(form)
      OBVIOUS
    <3>2. PICK b : b = Remember(DataKey[form])
      OBVIOUS
    <3>3. <<a, b>> \in Seq(FormCalls) /\ Once(<<a, b>>) /\ In(<<a, b>>) = {a, b} /\ <<a, b>> # <<>>
      BY <2>1, <3>1, <3>2, ListOfTwo
    <3> QED BY <1>4, <2>3, <3>1, <3>2, <3>3
  <2> QED BY <2>2, <2>3
<1>6. PICK calls : calls = In(list)
  OBVIOUS
<1>7. /\ SetTo(form) \in calls /\ \A x \in calls : x = SetTo(form) \/ x = Remember(DataKey[form])
      /\ \A k : Remember(k) \in calls => k = DataKey[form] /\ form \notin OnSettings
      /\ form \notin OnSettings => Remember(DataKey[form]) \in calls
  BY <1>5, <1>6, CallsDiffer
<1>8. Arrives(form, target, list) /\ foOwed' = [foOwed EXCEPT ![<<form, target>>] = @ + 1]
  BY <1>4 DEF Prompt, Press
<1>9. PICK h \in Handlers : Begins(h, calls, form, target)
  <2>1. calls \subseteq {SetTo(form), Remember(DataKey[form])}
    BY <1>7
  <2> QED BY <1>1, <1>2, <1>3, <1>5, <1>6, <1>7, <1>8, <2>1, ArrivesBegins
<1>10. foHandler' \in [Handlers -> FormHandler] /\ \A g \in Handlers : InOrder(g)'
  <2>1. calls \subseteq {SetTo(form), Remember(DataKey[form])}
    BY <1>7
  <2> QED BY <1>1, <1>2, <1>3, <1>5, <1>6, <1>7, <1>8, <2>1, ArrivesBegins
<1>11. foOwed \in [FormNames \X FormTargets -> Int] /\ <<form, target>> \in FormNames \X FormTargets
  BY <1>1 DEF FormTypes, FormsTypeOK
<1>12. foOwed' \in [FormNames \X FormTargets -> Int]
  <2>1. foOwed[<<form, target>>] + 1 \in Int
    BY <1>11
  <2> QED BY <1>8, <1>11, <2>1
<1>13. FormTypes'
  BY <1>1, <1>8, <1>10, <1>12, ArrivalKeepsTypes
<1>14. ASSUME NEW f \in FormNames, NEW o \in FormTargets PROVE PaidFor(f, o)'
  <2>1. PICK pressed \in {0, 1} : pressed = 1 <=> f = form /\ o = target
    <3>1. CASE f = form /\ o = target
      <4> WITNESS 1 \in {0, 1}
      <4> QED BY <3>1
    <3>2. CASE ~(f = form /\ o = target)
      <4> WITNESS 0 \in {0, 1}
      <4> QED BY <3>2
    <3> QED BY <3>1, <3>2
  <2>2. foOwed'[<<f, o>>] >= foOwed[<<f, o>>] + pressed
    <3>1. <<f, o>> \in FormNames \X FormTargets /\ foOwed[<<f, o>>] \in Int
      BY <1>11
    <3>2. CASE f = form /\ o = target
      <4>1. foOwed'[<<f, o>>] = foOwed[<<f, o>>] + 1
        BY <1>8, <1>11, <3>2
      <4> QED BY <2>1, <3>1, <3>2, <4>1
    <3>3. CASE ~(f = form /\ o = target)
      <4>1. foOwed'[<<f, o>>] = foOwed[<<f, o>>]
        BY <1>8, <1>11, <3>1, <3>3
      <4> QED BY <2>1, <3>1, <3>3, <4>1
    <3> QED BY <3>2, <3>3
  <2>3. \A x \in calls : x = SetTo(form) \/ \E k \in FormKeys : x = Remember(k)
    BY <1>2, <1>7
  <2>4. ASSUME Busy = {}, MayOpen(f, o)' PROVE MayOpen(f, o) \/ pressed = 1
    <3>1. /\ \A s \in FormStates : StateMayRest(s)' => s = form
          /\ \A k, v : DataMayRest(k, v)' => \/ Remember(k) \in calls /\ v = target
                                             \/ Remember(k) \notin calls /\ DataMayRest(k, v)
          /\ TopMayOpen' => form = "name" /\ (TopMayOpen \/ Remember("parent_id") \notin calls \/ target = "root")
      BY <1>1, <1>2, <1>7, <1>9, <2>3, <2>4, OpensAlone
    <3>2. /\ StatesOf(f) \subseteq FormStates /\ {"topup", "receipt"} \subseteq FormStates /\ f \in FormStates
          /\ \A s \in StatesOf(f) : s \in FormNames => s = f
      BY DEF StatesOf, FormStates, FormNames, OnMedia, OnSettings, OnPlans
    <3>3. CASE f \in OnSettings /\ o = "settings" /\ \E s \in StatesOf(f) : StateMayRest(s)'
      BY <2>1, <3>1, <3>2, <3>3
    <3>4. CASE f = "broadcast" /\ DataMayRest("message_id", o)'
      BY <1>2, <1>7, <3>1, <3>4 DEF MayOpen
    <3>5. CASE f = "topup" /\ (StateMayRest("topup")' \/ StateMayRest("receipt")')
      BY <1>2, <3>1, <3>2, <3>5
    <3>6. CASE IsTop(f, o) /\ TopMayOpen'
      BY <1>2, <1>7, <2>1, <3>1, <3>6, KeysOfForms DEF MayOpen, IsTop
    <3>7. CASE f \notin OnSettings /\ StateMayRest(f)' /\ DataMayRest(DataKey[f], o)'
      BY <1>7, <2>1, <3>1, <3>2, <3>7
    <3> QED BY <2>4, <3>3, <3>4, <3>5, <3>6, <3>7 DEF MayOpen, IsSum
  <2>5. Remember(DataKey[f]) \in calls /\ o = target => pressed = 1 \/ (form # f /\ f \notin {"broadcast", "topup"})
    BY <1>2, <1>7, <2>1, KeysOfForms
  <2>6. IsTop(f, o) /\ Remember("parent_id") \in calls /\ target = "root" => pressed = 1
    BY <1>2, <1>7, <2>1, KeysOfForms DEF IsTop
  <2>7. OpensFor(calls, target, form, f, o, pressed)
    <3>1. form \in FormStates \ {"none"} /\ SetTo(form) \in calls
      BY <1>2, <1>7
    <3>2. Busy = {} /\ MayOpen(f, o)' => MayOpen(f, o) \/ pressed = 1
      BY <2>4
    <3>3. IsSum(f, o) /\ form = "topup" => pressed = 1
      BY <1>2
    <3> QED BY <2>1, <2>2, <2>3, <2>5, <2>6, <3>1, <3>2, <3>3 DEF OpensFor
  <2> QED BY <1>1, <1>9, <1>13, <2>7, OpeningIsPaid
<1> QED BY <1>13, <1>14 DEF FormsInv

\* The other buttons that open something: a search, a top-up, a broadcast, the next page of
\* an ad; pressed holds what they are pressed for.
OpeningStep(state, list, form, target, pressed) ==
  /\ list \in Seq(FormCalls) /\ list # <<>> /\ Once(list)
  /\ form \in FormNames /\ target \in HandlerTarget /\ Arrives(form, target, list)
  /\ SetTo(state) \in In(list)
  /\ In(list) \subseteq {SetTo(state), Remember("message_id"), Remember("method"), Remember("query")}
  /\ \E k \in FormKeys : In(list) \subseteq {SetTo(state), Remember(k)}
  /\ pressed \in SUBSET (FormNames \X FormTargets) /\ foOwed' \in [FormNames \X FormTargets -> Int]
  /\ \A p \in FormNames \X FormTargets : foOwed'[p] = foOwed[p] + (IF p \in pressed THEN 1 ELSE 0)
  /\ state \in FormStates /\ state \in {"search", "topup", "broadcast", "confirming", "ad.text", "ad.place"}
  /\ state \in {"ad.text", "ad.place"} => foState \in StatesOf("ad")
  /\ state = "topup" => <<"topup", "sum">> \in pressed
  /\ Remember("message_id") \in In(list) => <<"broadcast", target>> \in pressed
  /\ Remember("query") \in In(list) => target = "none"

\* They keep every pair paid for.
LEMMA OpeningIsKept ==
  ASSUME FormsInv, NEW state, NEW list, NEW form, NEW target, NEW pressed,
         OpeningStep(state, list, form, target, pressed)
  PROVE  FormsInv'
<1> USE DEF OpeningStep
<1>1. FormTypes /\ \A f \in FormNames, o \in FormTargets : PaidFor(f, o)
  BY DEF FormsInv
<1>2. PICK calls : calls = In(list)
  OBVIOUS
<1>3. /\ SetTo(state) \in calls
      /\ \A k : Remember(k) \in calls => k \in {"message_id", "method", "query"}
      /\ {"message_id", "method", "query"} \subseteq FormKeys
      /\ \A x \in calls : x = SetTo(state) \/ \E k \in FormKeys : x = Remember(k)
      /\ state \in FormStates \ {"none"}
  <2>1. {"message_id", "method", "query"} \subseteq FormKeys
    <3>1. "query" = DataKey["search"] /\ "search" \in FormNames /\ "broadcast" \in FormNames
      BY DEF DataKey, FormNames, OnMedia, OnSettings, OnPlans
    <3> QED BY <3>1, KeysOfForms
  <2>2. \A k : Remember(k) \in calls => k \in {"message_id", "method", "query"}
    BY <1>2, CallsDiffer
  <2>3. \A x \in calls : x = SetTo(state) \/ \E k \in FormKeys : x = Remember(k)
    BY <1>2, <2>1
  <2> QED BY <1>2, <2>1, <2>2, <2>3
<1>4. /\ \E h \in Handlers : Begins(h, In(list), form, target)
      /\ foHandler' \in [Handlers -> FormHandler] /\ \A g \in Handlers : InOrder(g)'
  <2>1. Remember("parent_id") \notin In(list) /\ Remember("amount") \notin In(list)
    BY <1>2, <1>3
  <2>2. \E s \in FormStates \ {"none"}, k \in FormKeys : In(list) \subseteq {SetTo(s), Remember(k)}
    BY <1>3
  <2> QED BY <1>1, <2>1, <2>2, ArrivesBegins
<1>5. PICK h \in Handlers : Begins(h, calls, form, target)
  BY <1>2, <1>4
<1>6. FormTypes'
  BY <1>1, <1>4, ArrivalKeepsTypes
<1>7. ASSUME NEW f \in FormNames, NEW o \in FormTargets PROVE PaidFor(f, o)'
  <2>1. PICK once \in {0, 1} : once = 1 <=> <<f, o>> \in pressed
    <3>1. CASE <<f, o>> \in pressed
      <4> WITNESS 1 \in {0, 1}
      <4> QED BY <3>1
    <3>2. CASE <<f, o>> \notin pressed
      <4> WITNESS 0 \in {0, 1}
      <4> QED BY <3>2
    <3> QED BY <3>1, <3>2
  <2>2. foOwed'[<<f, o>>] >= foOwed[<<f, o>>] + once
    <3>1. <<f, o>> \in FormNames \X FormTargets /\ foOwed[<<f, o>>] \in Int
      BY <1>1 DEF FormTypes, FormsTypeOK
    <3>2. foOwed'[<<f, o>>] = foOwed[<<f, o>>] + once
      BY <2>1, <3>1
    <3> QED BY <3>1, <3>2
  <2>3. o # "none"
    BY FormsAssumption DEF FormTargets
  <2>4. ASSUME Busy = {}, MayOpen(f, o)' PROVE MayOpen(f, o) \/ once = 1
    <3>1. /\ \A s \in FormStates : StateMayRest(s)' => s = state
          /\ \A k, v : DataMayRest(k, v)' => \/ Remember(k) \in calls /\ v = target
                                             \/ Remember(k) \notin calls /\ DataMayRest(k, v)
          /\ TopMayOpen' => state = "name"
          /\ StateMayRest(foState)
      BY <1>1, <1>3, <1>5, <2>4, OpensAlone
    <3>2. /\ StatesOf(f) \subseteq FormStates /\ {"topup", "receipt"} \subseteq FormStates /\ f \in FormStates
      BY DEF StatesOf, FormStates, FormNames, OnMedia, OnSettings, OnPlans
    <3>3. CASE f \in OnSettings /\ o = "settings" /\ \E s \in StatesOf(f) : StateMayRest(s)'
      <4>1. state \in StatesOf(f)
        BY <3>1, <3>2, <3>3
      <4>2. f = "ad" /\ state \in {"ad.text", "ad.place"}
        BY <3>3, <4>1 DEF StatesOf, OnSettings
      <4> QED BY <3>1, <3>3, <4>2 DEF MayOpen
    <3>4. CASE f = "broadcast" /\ DataMayRest("message_id", o)'
      BY <1>2, <2>1, <3>1, <3>4 DEF MayOpen
    <3>5. CASE f = "topup" /\ StateMayRest("receipt")'
      BY <3>1, <3>2, <3>5
    <3>6. CASE IsSum(f, o) /\ StateMayRest("topup")'
      BY <2>1, <3>1, <3>2, <3>6 DEF IsSum
    <3>7. CASE TopMayOpen'
      BY <3>1, <3>7
    <3>8. CASE f \notin OnSettings \cup {"broadcast", "topup", "search"} /\ StateMayRest(f)'
      <4>1. state = f
        BY <3>1, <3>2, <3>8
      <4> QED BY <3>8, <4>1 DEF FormNames, OnMedia, OnPlans
    <3> QED BY <2>4, <3>3, <3>4, <3>5, <3>6, <3>7, <3>8 DEF MayOpen
  <2>5. Remember(DataKey[f]) \in calls /\ o = target => once = 1 \/ (state # f /\ f \notin {"broadcast", "topup"})
    <3> SUFFICES ASSUME Remember(DataKey[f]) \in calls, o = target PROVE once = 1
      OBVIOUS
    <3>1. DataKey[f] = "message_id"
      BY <1>2, <1>3, <2>3, KeysOfForms
    <3> QED BY <1>2, <2>1, <3>1, KeysOfForms
  <2>6. IsSum(f, o) /\ state = "topup" => once = 1
    BY <2>1 DEF IsSum
  <2>7. Remember("parent_id") \notin calls
    BY <1>3
  <2>8. PaidFor(f, o)
    BY <1>1
  <2>9. Busy = {} /\ MayOpen(f, o)' => MayOpen(f, o) \/ once = 1
    BY <2>4
  <2>10. IsTop(f, o) /\ Remember("parent_id") \in calls /\ target = "root" => once = 1
    BY <2>7
  <2>11. OpensFor(calls, target, state, f, o, once)
    BY <1>3, <2>1, <2>2, <2>5, <2>6, <2>9, <2>10 DEF OpensFor
  <2> QED BY <1>1, <1>5, <1>6, <2>8, <2>11, OpeningIsPaid
<1> QED BY <1>6, <1>7 DEF FormsInv

\* One more is owed for the pair that is pressed, or for none.
LEMMA OneMoreOwed ==
  ASSUME FormTypes, NEW p \in FormNames \X FormTargets, foOwed' = [foOwed EXCEPT ![p] = @ + 1]
  PROVE  /\ foOwed' \in [FormNames \X FormTargets -> Int]
         /\ \A q \in FormNames \X FormTargets : foOwed'[q] = foOwed[q] + (IF q \in {p} THEN 1 ELSE 0)
<1>1. foOwed \in [FormNames \X FormTargets -> Int]
  BY DEF FormTypes, FormsTypeOK
<1>2. foOwed[p] + 1 \in Int
  BY <1>1
<1>3. foOwed' \in [FormNames \X FormTargets -> Int]
  BY <1>1, <1>2
<1>4. ASSUME NEW q \in FormNames \X FormTargets PROVE foOwed'[q] = foOwed[q] + (IF q \in {p} THEN 1 ELSE 0)
  <2>1. foOwed[q] \in Int
    BY <1>1
  <2> QED BY <1>1, <2>1
<1> QED BY <1>3, <1>4

\* A button that asks for no write leaves what is owed.
LEMMA NoMoreOwed ==
  ASSUME FormTypes, foOwed' = foOwed
  PROVE  /\ foOwed' \in [FormNames \X FormTargets -> Int]
         /\ \A q \in FormNames \X FormTargets : foOwed'[q] = foOwed[q] + (IF q \in {} THEN 1 ELSE 0)
<1>1. foOwed \in [FormNames \X FormTargets -> Int]
  BY DEF FormTypes, FormsTypeOK
<1>2. ASSUME NEW q \in FormNames \X FormTargets PROVE foOwed'[q] = foOwed[q] + 0
  BY <1>1
<1> QED BY <1>1, <1>2

\* A list that sets the state, and remembers at most one thing.
LEMMA OpeningLists ==
  ASSUME NEW state \in FormStates, NEW key \in FormKeys
  PROVE  /\ /\ <<SetTo(state)>> \in Seq(FormCalls) /\ <<SetTo(state)>> # <<>> /\ Once(<<SetTo(state)>>)
            /\ In(<<SetTo(state)>>) = {SetTo(state)}
         /\ /\ <<SetTo(state), Remember(key)>> \in Seq(FormCalls) /\ <<SetTo(state), Remember(key)>> # <<>>
            /\ Once(<<SetTo(state), Remember(key)>>) /\ In(<<SetTo(state), Remember(key)>>) = {SetTo(state), Remember(key)}
         /\ /\ <<Remember(key), SetTo(state)>> \in Seq(FormCalls) /\ <<Remember(key), SetTo(state)>> # <<>>
            /\ Once(<<Remember(key), SetTo(state)>>) /\ In(<<Remember(key), SetTo(state)>>) = {SetTo(state), Remember(key)}
<1>1. PICK a : a = SetTo(state)
  OBVIOUS
<1>2. PICK b : b = Remember(key)
  OBVIOUS
<1>3. a \in FormCalls /\ b \in FormCalls /\ a # b
  BY <1>1, <1>2, CallsAreCalls, CallsDiffer
<1>4. <<a>> \in Seq(FormCalls) /\ <<a>> # <<>> /\ Once(<<a>>) /\ In(<<a>>) = {a}
  BY <1>3, ListOfOne
<1>5. <<a, b>> \in Seq(FormCalls) /\ <<a, b>> # <<>> /\ Once(<<a, b>>) /\ In(<<a, b>>) = {a, b}
  BY <1>3, ListOfTwo
<1>6. <<b, a>> \in Seq(FormCalls) /\ <<b, a>> # <<>> /\ Once(<<b, a>>) /\ In(<<b, a>>) = {b, a}
  BY <1>3, ListOfTwo
<1> QED BY <1>1, <1>2, <1>4, <1>5, <1>6

\* What the buttons below set, remember and are pressed for is known.
LEMMA OpeningNames ==
  /\ {"search", "topup", "broadcast", "confirming", "ad.text", "ad.place"} \subseteq FormStates
  /\ {"message_id", "method", "query"} \subseteq FormKeys
  /\ {"search", "topup", "broadcast", "ad"} \subseteq FormNames
  /\ {"none", "card", "online", "sum"} \subseteq HandlerTarget /\ "sum" \in FormTargets
<1>1. {"message_id", "method", "query"} \subseteq FormKeys
  <2>1. "query" = DataKey["search"] /\ "search" \in FormNames /\ "broadcast" \in FormNames
    BY DEF DataKey, FormNames, OnMedia, OnSettings, OnPlans
  <2> QED BY <2>1, KeysOfForms
<1> QED BY <1>1 DEF FormStates, FormNames, OnSettings, HandlerTarget, FormTargets

\* The search asks for no write.
LEMMA SearchIsKept ==
  ASSUME FormsInv, SearchButton
  PROVE  FormsInv'
<1>1. PICK list : list = <<SetTo("search"), Remember("query")>>
  OBVIOUS
<1>2. /\ list \in Seq(FormCalls) /\ list # <<>> /\ Once(list) /\ In(list) = {SetTo("search"), Remember("query")}
      /\ Arrives("search", "none", list) /\ foOwed' = foOwed
  BY <1>1, OpeningNames, OpeningLists DEF SearchButton
<1>3. Remember("message_id") \notin In(list)
  BY <1>2, CallsDiffer
<1>4. FormTypes
  BY DEF FormsInv
<1>5. {} \in SUBSET (FormNames \X FormTargets)
  OBVIOUS
<1>9. PICK pressed \in SUBSET (FormNames \X FormTargets) : pressed = {}
  BY <1>5
<1>10. /\ foOwed' \in [FormNames \X FormTargets -> Int]
       /\ \A q \in FormNames \X FormTargets : foOwed'[q] = foOwed[q] + (IF q \in pressed THEN 1 ELSE 0)
  BY <1>2, <1>4, <1>9, NoMoreOwed
<1>13. PICK state, target : state = "search" /\ target = "none"
  OBVIOUS
<1>14. PICK form : form = "search"
  OBVIOUS
<1>11. /\ SetTo(state) \in In(list)
       /\ In(list) \subseteq {SetTo(state), Remember("message_id"), Remember("method"), Remember("query")}
       /\ \E k \in FormKeys : In(list) \subseteq {SetTo(state), Remember(k)}
  BY <1>2, <1>13, OpeningNames
<1>12. /\ state \in {"ad.text", "ad.place"} => foState \in StatesOf("ad")
       /\ state = "topup" => <<"topup", "sum">> \in pressed
       /\ Remember("message_id") \in In(list) => <<"broadcast", target>> \in pressed
       /\ Remember("query") \in In(list) => target = "none"
  BY <1>2, <1>3, <1>4, <1>9, <1>13
<1>15. Arrives(form, target, list) /\ form \in FormNames /\ target \in HandlerTarget
  BY <1>2, <1>13, <1>14, OpeningNames
<1>16. state \in FormStates /\ state \in {"search", "topup", "broadcast", "confirming", "ad.text", "ad.place"}
  BY <1>13, OpeningNames
<1>17. list \in Seq(FormCalls) /\ list # <<>> /\ Once(list)
  BY <1>2
<1>18. OpeningStep(state, list, form, target, pressed)
  BY <1>10, <1>11, <1>12, <1>15, <1>16, <1>17 DEF OpeningStep
<1> QED BY <1>18, OpeningIsKept

\* A top-up asks for one payment, by card or online.
LEMMA TopupIsKept ==
  ASSUME FormsInv, NEW method \in {"card", "online"}, TopupBy(method)
  PROVE  FormsInv'
<1>1. PICK list : list = <<Remember("method"), SetTo("topup")>>
  OBVIOUS
<1>2. /\ list \in Seq(FormCalls) /\ list # <<>> /\ Once(list) /\ In(list) = {SetTo("topup"), Remember("method")}
      /\ Arrives("topup", method, list) /\ foOwed' = [foOwed EXCEPT ![<<"topup", "sum">>] = @ + 1]
  BY <1>1, OpeningNames, OpeningLists DEF TopupBy
<1>3. Remember("message_id") \notin In(list) /\ Remember("query") \notin In(list)
  BY <1>2, CallsDiffer
<1>4. FormTypes
  BY DEF FormsInv
<1>5. PICK p \in FormNames \X FormTargets : p = <<"topup", "sum">>
  BY OpeningNames
<1>6. /\ foOwed' \in [FormNames \X FormTargets -> Int]
      /\ \A q \in FormNames \X FormTargets : foOwed'[q] = foOwed[q] + (IF q \in {p} THEN 1 ELSE 0)
  BY <1>2, <1>4, <1>5, OneMoreOwed
<1>7. {p} \in SUBSET (FormNames \X FormTargets) /\ <<"topup", "sum">> \in {p}
  BY <1>5
<1>8. method \in HandlerTarget
  BY OpeningNames
<1>9. PICK pressed \in SUBSET (FormNames \X FormTargets) : pressed = {p}
  BY <1>7
<1>10. /\ foOwed' \in [FormNames \X FormTargets -> Int]
       /\ \A q \in FormNames \X FormTargets : foOwed'[q] = foOwed[q] + (IF q \in pressed THEN 1 ELSE 0)
  BY <1>2, <1>4, <1>9, <1>6
<1>13. PICK state, target : state = "topup" /\ target = method
  OBVIOUS
<1>14. PICK form : form = "topup"
  OBVIOUS
<1>11. /\ SetTo(state) \in In(list)
       /\ In(list) \subseteq {SetTo(state), Remember("message_id"), Remember("method"), Remember("query")}
       /\ \E k \in FormKeys : In(list) \subseteq {SetTo(state), Remember(k)}
  BY <1>2, <1>13, OpeningNames
<1>12. /\ state \in {"ad.text", "ad.place"} => foState \in StatesOf("ad")
       /\ state = "topup" => <<"topup", "sum">> \in pressed
       /\ Remember("message_id") \in In(list) => <<"broadcast", target>> \in pressed
       /\ Remember("query") \in In(list) => target = "none"
  BY <1>2, <1>3, <1>4, <1>9, <1>13, <1>7
<1>15. Arrives(form, target, list) /\ form \in FormNames /\ target \in HandlerTarget
  BY <1>2, <1>13, <1>14, OpeningNames
<1>16. state \in FormStates /\ state \in {"search", "topup", "broadcast", "confirming", "ad.text", "ad.place"}
  BY <1>13, OpeningNames
<1>17. list \in Seq(FormCalls) /\ list # <<>> /\ Once(list)
  BY <1>2
<1>18. OpeningStep(state, list, form, target, pressed)
  BY <1>10, <1>11, <1>12, <1>15, <1>16, <1>17 DEF OpeningStep
<1> QED BY <1>18, OpeningIsKept


\* The start of a broadcast asks for none yet: there is nothing to send.
LEMMA BroadcastStartIsKept ==
  ASSUME FormsInv, BroadcastStart
  PROVE  FormsInv'
<1>1. PICK list : list = <<SetTo("broadcast")>>
  OBVIOUS
<1>2. /\ list \in Seq(FormCalls) /\ list # <<>> /\ Once(list) /\ In(list) = {SetTo("broadcast")}
      /\ Arrives("broadcast", "none", list) /\ foOwed' = foOwed
  BY <1>1, OpeningNames, OpeningLists DEF BroadcastStart
<1>3. Remember("message_id") \notin In(list) /\ Remember("query") \notin In(list)
  BY <1>2, CallsDiffer
<1>4. FormTypes
  BY DEF FormsInv
<1>5. {} \in SUBSET (FormNames \X FormTargets)
  OBVIOUS
<1>9. PICK pressed \in SUBSET (FormNames \X FormTargets) : pressed = {}
  BY <1>5
<1>10. /\ foOwed' \in [FormNames \X FormTargets -> Int]
       /\ \A q \in FormNames \X FormTargets : foOwed'[q] = foOwed[q] + (IF q \in pressed THEN 1 ELSE 0)
  BY <1>2, <1>4, <1>9, NoMoreOwed
<1>13. PICK state, target : state = "broadcast" /\ target = "none"
  OBVIOUS
<1>14. PICK form : form = "broadcast"
  OBVIOUS
<1>11. /\ SetTo(state) \in In(list)
       /\ In(list) \subseteq {SetTo(state), Remember("message_id"), Remember("method"), Remember("query")}
       /\ \E k \in FormKeys : In(list) \subseteq {SetTo(state), Remember(k)}
  BY <1>2, <1>13, OpeningNames
<1>12. /\ state \in {"ad.text", "ad.place"} => foState \in StatesOf("ad")
       /\ state = "topup" => <<"topup", "sum">> \in pressed
       /\ Remember("message_id") \in In(list) => <<"broadcast", target>> \in pressed
       /\ Remember("query") \in In(list) => target = "none"
  BY <1>2, <1>3, <1>4, <1>9, <1>13
<1>15. Arrives(form, target, list) /\ form \in FormNames /\ target \in HandlerTarget
  BY <1>2, <1>13, <1>14, OpeningNames
<1>16. state \in FormStates /\ state \in {"search", "topup", "broadcast", "confirming", "ad.text", "ad.place"}
  BY <1>13, OpeningNames
<1>17. list \in Seq(FormCalls) /\ list # <<>> /\ Once(list)
  BY <1>2
<1>18. OpeningStep(state, list, form, target, pressed)
  BY <1>10, <1>11, <1>12, <1>15, <1>16, <1>17 DEF OpeningStep
<1> QED BY <1>18, OpeningIsKept


\* The next page of an ad stands for the page before.
LEMMA AdPageIsKept ==
  ASSUME FormsInv, NEW from \in {"ad", "ad.text"}, NEW next \in {"ad.text", "ad.place"},
         Answer(from, "ad", <<SetTo(next)>>)
  PROVE  FormsInv'
<1>1. PICK list : list = <<SetTo(next)>>
  OBVIOUS
<1>2. /\ list \in Seq(FormCalls) /\ list # <<>> /\ Once(list) /\ In(list) = {SetTo(next)}
      /\ Arrives("ad", "none", list) /\ foOwed' = foOwed /\ foState = from
  BY <1>1, OpeningNames, OpeningLists DEF Answer
<1>3. Remember("message_id") \notin In(list) /\ Remember("query") \notin In(list)
  BY <1>2, CallsDiffer
<1>4. FormTypes /\ foState \in StatesOf("ad")
  BY <1>2 DEF FormsInv, StatesOf
<1>5. {} \in SUBSET (FormNames \X FormTargets)
  OBVIOUS
<1>9. PICK pressed \in SUBSET (FormNames \X FormTargets) : pressed = {}
  BY <1>5
<1>10. /\ foOwed' \in [FormNames \X FormTargets -> Int]
       /\ \A q \in FormNames \X FormTargets : foOwed'[q] = foOwed[q] + (IF q \in pressed THEN 1 ELSE 0)
  BY <1>2, <1>4, <1>9, NoMoreOwed
<1>11. /\ SetTo(next) \in In(list)
       /\ In(list) \subseteq {SetTo(next), Remember("message_id"), Remember("method"), Remember("query")}
       /\ \E k \in FormKeys : In(list) \subseteq {SetTo(next), Remember(k)}
  BY <1>2, OpeningNames
<1>12. /\ next \in {"ad.text", "ad.place"} => foState \in StatesOf("ad")
       /\ next = "topup" => <<"topup", "sum">> \in pressed
       /\ Remember("message_id") \in In(list) => <<"broadcast", "none">> \in pressed
       /\ Remember("query") \in In(list) => "none" = "none"
  BY <1>2, <1>3, <1>4, <1>9
<1>18. OpeningStep(next, list, "ad", "none", pressed)
  BY <1>2, <1>10, <1>11, <1>12, OpeningNames DEF OpeningStep
<1> QED BY <1>18, OpeningIsKept


\* The message to send is asked for once.
LEMMA BroadcastCaptureIsKept ==
  ASSUME FormsInv, BroadcastCapture
  PROVE  FormsInv'
<1>1. PICK list : list = <<Remember("message_id"), SetTo("confirming")>>
  OBVIOUS
<1>2. /\ list \in Seq(FormCalls) /\ list # <<>> /\ Once(list) /\ In(list) = {SetTo("confirming"), Remember("message_id")}
      /\ Arrives("broadcast", "sum", list) /\ foOwed' = [foOwed EXCEPT ![<<"broadcast", "sum">>] = @ + 1]
  BY <1>1, OpeningNames, OpeningLists DEF BroadcastCapture
<1>3. Remember("query") \notin In(list)
  BY <1>2, CallsDiffer
<1>4. FormTypes
  BY DEF FormsInv
<1>5. PICK p \in FormNames \X FormTargets : p = <<"broadcast", "sum">>
  BY OpeningNames
<1>6. /\ foOwed' \in [FormNames \X FormTargets -> Int]
      /\ \A q \in FormNames \X FormTargets : foOwed'[q] = foOwed[q] + (IF q \in {p} THEN 1 ELSE 0)
  BY <1>2, <1>4, <1>5, OneMoreOwed
<1>7. {p} \in SUBSET (FormNames \X FormTargets) /\ <<"broadcast", "sum">> \in {p}
  BY <1>5
<1>9. PICK pressed \in SUBSET (FormNames \X FormTargets) : pressed = {p}
  BY <1>7
<1>10. /\ foOwed' \in [FormNames \X FormTargets -> Int]
       /\ \A q \in FormNames \X FormTargets : foOwed'[q] = foOwed[q] + (IF q \in pressed THEN 1 ELSE 0)
  BY <1>2, <1>4, <1>9, <1>6
<1>13. PICK state, target : state = "confirming" /\ target = "sum"
  OBVIOUS
<1>14. PICK form : form = "broadcast"
  OBVIOUS
<1>11. /\ SetTo(state) \in In(list)
       /\ In(list) \subseteq {SetTo(state), Remember("message_id"), Remember("method"), Remember("query")}
       /\ \E k \in FormKeys : In(list) \subseteq {SetTo(state), Remember(k)}
  BY <1>2, <1>13, OpeningNames
<1>12. /\ state \in {"ad.text", "ad.place"} => foState \in StatesOf("ad")
       /\ state = "topup" => <<"topup", "sum">> \in pressed
       /\ Remember("message_id") \in In(list) => <<"broadcast", target>> \in pressed
       /\ Remember("query") \in In(list) => target = "none"
  BY <1>2, <1>3, <1>4, <1>9, <1>13, <1>7
<1>15. Arrives(form, target, list) /\ form \in FormNames /\ target \in HandlerTarget
  BY <1>2, <1>13, <1>14, OpeningNames
<1>16. state \in FormStates /\ state \in {"search", "topup", "broadcast", "confirming", "ad.text", "ad.place"}
  BY <1>13, OpeningNames
<1>17. list \in Seq(FormCalls) /\ list # <<>> /\ Once(list)
  BY <1>2
<1>18. OpeningStep(state, list, form, target, pressed)
  BY <1>10, <1>11, <1>12, <1>15, <1>16, <1>17 DEF OpeningStep
<1> QED BY <1>18, OpeningIsKept


\* A menu button ends whatever form is open and writes nothing.
LEMMA MenuIsKept ==
  ASSUME FormsInv, MenuButton
  PROVE  FormsInv'
<1>1. FormTypes /\ \A f \in FormNames, o \in FormTargets : PaidFor(f, o)
  BY DEF FormsInv
<1>2. PICK list : list = <<Close, Forget>>
  OBVIOUS
<1>3. Arrives("menu", "none", list) /\ foOwed' = foOwed
  BY <1>2 DEF MenuButton
<1>4. list \in Seq(FormCalls) /\ list # <<>> /\ Once(list) /\ In(list) = {Close, Forget}
  BY <1>2, CallsAreCalls, CallsDiffer, ListOfTwo
<1>5. PICK calls : calls = In(list)
  OBVIOUS
<1>6. \A x : SetTo(x) \notin calls /\ Remember(x) \notin calls /\ Get(x) \notin calls /\ Write \notin calls /\ Branch \notin calls
  BY <1>4, <1>5, CallsDiffer
<1>7. /\ \E h \in Handlers : Begins(h, In(list), "menu", "none")
      /\ foHandler' \in [Handlers -> FormHandler] /\ \A g \in Handlers : InOrder(g)'
  <2>1. In(list) \subseteq {Close, Forget, Write} /\ Write \notin In(list)
    BY <1>4, <1>5, <1>6
  <2>2. Remember("parent_id") \notin In(list) /\ Remember("amount") \notin In(list)
    BY <1>5, <1>6
  <2> QED BY <1>1, <1>3, <1>4, <2>1, <2>2, OpeningNames, ArrivesBegins
<1>8. PICK h \in Handlers : Begins(h, calls, "menu", "none")
  BY <1>5, <1>7
<1>9. FormTypes'
  BY <1>1, <1>3, <1>7, NoMoreOwed, ArrivalKeepsTypes
<1>10. ASSUME NEW f \in FormNames, NEW o \in FormTargets PROVE PaidFor(f, o)'
  <2>1. h \notin Writers(f, o)'
    <3>1. h \notin Asking(f)' /\ h \notin Knowing(f, o)' /\ h \notin Deciding'
      BY <1>1, <1>6, <1>8, WhatBegins, WhoBegins
    <3> QED BY <3>1 DEF Writers
  <2>2. PaidFor(f, o) /\ foOwed'[<<f, o>>] = foOwed[<<f, o>>]
    BY <1>1, <1>3
  <2>3. Close \in calls /\ Forget \in calls
    BY <1>4, <1>5
  <2>4. AnswersFor(h, calls, "menu", f, o)
    BY <1>6, <2>1, <2>2, <2>3 DEF AnswersFor
  <2> QED BY <1>1, <1>8, <1>9, <2>2, <2>4, AnswerIsPaid
<1> QED BY <1>9, <1>10 DEF FormsInv

\* An answer that writes through a form of the settings: it was let in by that form's state.
LEMMA SettingsAnswerIsKept ==
  ASSUME FormsInv, NEW form \in OnSettings, NEW state \in StatesOf(form), NEW list,
         list = <<Close, Forget, Write>> \/ list = <<Write, Close, Forget>>, Answer(state, form, list)
  PROVE  FormsInv'
<1>1. FormTypes /\ \A f \in FormNames, o \in FormTargets : PaidFor(f, o)
  BY DEF FormsInv
<1>2. form \in FormNames /\ form \notin {"name", "topup", "search"}
  BY DEF FormNames, OnSettings
<1>3. Arrives(form, "none", list) /\ foOwed' = foOwed /\ foState = state
  BY DEF Answer
<1>4. list \in Seq(FormCalls) /\ list # <<>> /\ Once(list) /\ In(list) = {Close, Forget, Write}
  <2>1. Close \in FormCalls /\ Forget \in FormCalls /\ Write \in FormCalls /\ Close # Forget /\ Close # Write /\ Forget # Write
    BY CallsAreCalls, CallsDiffer
  <2>2. CASE list = <<Close, Forget, Write>>
    BY <2>1, <2>2, ListOfThree
  <2>3. CASE list = <<Write, Close, Forget>>
    <3>1. /\ <<Write, Close, Forget>> \in Seq(FormCalls) /\ Once(<<Write, Close, Forget>>)
          /\ In(<<Write, Close, Forget>>) = {Write, Close, Forget} /\ <<Write, Close, Forget>> # <<>>
      BY <2>1, ListOfThree
    <3> QED BY <2>3, <3>1
  <2> QED BY <2>2, <2>3
<1>5. PICK calls : calls = In(list)
  OBVIOUS
<1>6. \A x : SetTo(x) \notin calls /\ Remember(x) \notin calls /\ Get(x) \notin calls /\ Branch \notin calls
  BY <1>4, <1>5, CallsDiffer
<1>7. /\ \E h \in Handlers : Begins(h, In(list), form, "none")
      /\ foHandler' \in [Handlers -> FormHandler] /\ \A g \in Handlers : InOrder(g)'
  <2>1. In(list) \subseteq {Close, Forget, Write} /\ form \in FormNames \ {"search"}
    BY <1>2, <1>4
  <2>2. Remember("parent_id") \notin In(list) /\ Remember("amount") \notin In(list)
    BY <1>5, <1>6
  <2> QED BY <1>1, <1>3, <1>4, <2>1, <2>2, OpeningNames, ArrivesBegins
<1>8. PICK h \in Handlers : Begins(h, calls, form, "none")
  BY <1>5, <1>7
<1>9. FormTypes'
  BY <1>1, <1>3, <1>7, NoMoreOwed, ArrivalKeepsTypes
<1>10. ASSUME NEW f \in FormNames, NEW o \in FormTargets PROVE PaidFor(f, o)'
  <2>1. ASSUME Busy = {}, h \in Writers(f, o)' PROVE MayOpen(f, o)
    <3>1. h \notin Asking(f)' /\ h \notin Deciding'
      BY <1>1, <1>6, <1>8, WhatBegins, WhoBegins
    <3>2. h \in Knowing(f, o)'
      BY <2>1, <3>1 DEF Writers
    <3>3. form = f /\ WrittenTo(h)' = o
      BY <1>1, <1>8, <3>2, WhoBegins
    <3>4. foHandler'[h].form = form
      BY <1>1, <1>8, WhatBegins
    <3>5. o = "settings"
      <4>1. foHandler'[h].form \in OnSettings /\ foHandler'[h].form # "name"
        BY <1>2, <3>4
      <4>2. WrittenTo(h)' = "settings"
        BY <4>1 DEF WrittenTo
      <4> QED BY <3>3, <4>2
    <3>6. StateMayRest(state)
      BY <1>1, <1>3, <2>1, NobodyBusy DEF StateMayRest
    <3> QED BY <3>3, <3>5, <3>6 DEF MayOpen
  <2>2. PaidFor(f, o) /\ foOwed'[<<f, o>>] = foOwed[<<f, o>>]
    BY <1>1, <1>3
  <2>3. Close \in calls /\ Forget \in calls
    BY <1>4, <1>5
  <2>4. AnswersFor(h, calls, form, f, o)
    BY <1>2, <1>6, <2>1, <2>2, <2>3 DEF AnswersFor
  <2> QED BY <1>1, <1>2, <1>8, <1>9, <2>2, <2>4, AnswerIsPaid
<1> QED BY <1>9, <1>10 DEF FormsInv

\* An answer that reads what it is about: the form was open, or is let in by its data.
LEMMA KeyedAnswerIsKept ==
  ASSUME FormsInv, NEW form \in FormNames \ (OnSettings \cup {"search"}), NEW list,
         \/ list = <<Get(DataKey[form]), Close, Forget, Write>>
         \/ list = <<Get(DataKey[form]), Write, Close, Forget>>,
         Arrives(form, "none", list), foOwed' = foOwed,
         \/ form = "broadcast"
         \/ form = "topup" /\ foState = "receipt"
         \/ form \notin {"broadcast", "topup"} /\ foState = form
  PROVE  FormsInv'
<1>1. FormTypes /\ \A f \in FormNames, o \in FormTargets : PaidFor(f, o)
  BY DEF FormsInv
<1>2. PICK get : get = Get(DataKey[form])
  OBVIOUS
<1>3. get \in FormCalls /\ get \notin {Close, Forget, Write, Branch} /\ \A x : get # SetTo(x) /\ get # Remember(x)
  BY <1>2, KeysOfForms, CallsAreCalls, CallsDiffer
<1>4. /\ list \in Seq(FormCalls) /\ list # <<>> /\ Once(list) /\ In(list) = {get, Close, Forget, Write} /\ Head(list) = get
  <2>1. Close \in FormCalls /\ Forget \in FormCalls /\ Write \in FormCalls /\ Close # Forget /\ Close # Write /\ Forget # Write
    BY CallsAreCalls, CallsDiffer
  <2>2. CASE list = <<get, Close, Forget, Write>>
    <3>1. /\ <<get, Close, Forget, Write>> \in Seq(FormCalls) /\ Once(<<get, Close, Forget, Write>>)
          /\ In(<<get, Close, Forget, Write>>) = {get, Close, Forget, Write} /\ <<get, Close, Forget, Write>> # <<>>
          /\ Head(<<get, Close, Forget, Write>>) = get
      BY <1>3, <2>1, ListOfFour
    <3> QED BY <2>2, <3>1
  <2>3. CASE list = <<get, Write, Close, Forget>>
    <3>1. /\ <<get, Write, Close, Forget>> \in Seq(FormCalls) /\ Once(<<get, Write, Close, Forget>>)
          /\ In(<<get, Write, Close, Forget>>) = {get, Write, Close, Forget} /\ <<get, Write, Close, Forget>> # <<>>
          /\ Head(<<get, Write, Close, Forget>>) = get
      BY <1>3, <2>1, ListOfFour
    <3> QED BY <2>3, <3>1
  <2> QED BY <1>2, <2>2, <2>3
<1>5. PICK calls : calls = In(list)
  OBVIOUS
<1>6. /\ Close \in calls /\ Forget \in calls /\ Get(DataKey[form]) \in calls /\ Branch \notin calls
      /\ \A x : SetTo(x) \notin calls /\ Remember(x) \notin calls
  BY <1>2, <1>3, <1>4, <1>5, CallsDiffer
<1>7. /\ \E h \in Handlers : Begins(h, In(list), form, "none")
      /\ foHandler' \in [Handlers -> FormHandler] /\ \A g \in Handlers : InOrder(g)'
  <2>1. /\ form \in FormNames \ (OnSettings \cup {"search"}) /\ Head(list) = Get(DataKey[form])
        /\ In(list) = {Get(DataKey[form]), Close, Forget, Write}
    BY <1>2, <1>4
  <2>2. Remember("parent_id") \notin In(list) /\ Remember("amount") \notin In(list)
    BY <1>5, <1>6
  <2> QED BY <1>1, <1>4, <2>1, <2>2, OpeningNames, ArrivesBegins
<1>8. PICK h \in Handlers : Begins(h, calls, form, "none")
  BY <1>5, <1>7
<1>9. FormTypes'
  BY <1>1, <1>7, NoMoreOwed, ArrivalKeepsTypes
<1>10. form = "name" => Get("parent_id") \in calls /\ foState = "name"
  BY <1>6, KeysOfForms
<1>11. ASSUME NEW f \in FormNames, NEW o \in FormTargets PROVE PaidFor(f, o)'
  <2>1. ASSUME Busy = {}, h \in Writers(f, o)'
        PROVE  MayOpen(f, o) \/ (form = "name" /\ IsTop(f, o) /\ ~AtTop)
    <3>1. h \notin Deciding' /\ Deciding' = {}
      BY <1>1, <1>6, <1>8, <2>1, WhatBegins, NobodyBusy
    <3>2. h \notin Knowing(f, o)'
      BY <1>1, <1>6, <1>8, WhoBegins
    <3>3. h \in Asking(f)' /\ MayBeTold(f, o)'
      BY <2>1, <3>1, <3>2 DEF Writers
    <3>4. form = f
      BY <1>1, <1>8, <3>3, WhoBegins
    <3>5. (\A x : ~Someone(x)) /\ ~SomeoneSets /\ \A k, v : ~Putting(k, v)
      BY <1>1, <2>1, NobodyBusy
    <3>6. (\A x : ~Someone(SetTo(x))') /\ \A k, v : ~Putting(k, v)'
      BY <1>1, <1>6, <1>8, <3>5, WhatBegins
    <3>7. StateMayRest(foState) /\ \A k : DataMayRest(k, foData[k])
      BY <3>5 DEF StateMayRest, DataMayRest
    <3>8. foState' = foState /\ foData' = foData
      BY <1>8 DEF Begins
    <3>9. CASE IsTop(f, o)
      <4>1. AtTop => TopMayRest
        BY <3>5 DEF TopMayRest
      <4>2. f = "name" /\ foState = "name"
        BY <1>10, <3>4, <3>9 DEF IsTop
      <4> QED BY <3>4, <3>7, <3>9, <4>1, <4>2 DEF MayOpen, TopMayOpen
    <3>10. CASE ~IsTop(f, o)
      <4>1. foData[DataKey[f]] = o
        <5>1. ~(IsSum(f, o) /\ foState = "topup")
          BY <3>4 DEF IsSum
        <5> QED BY <3>1, <3>3, <3>6, <3>8, <3>10, <5>1 DEF MayBeTold
      <4>2. DataMayRest(DataKey[f], o)
        BY <3>7, <4>1
      <4>3. CASE f = "broadcast"
        BY <4>2, <4>3, KeysOfForms DEF MayOpen
      <4>4. CASE f = "topup"
        BY <3>4, <3>7, <4>2, <4>4, KeysOfForms DEF MayOpen
      <4>5. CASE f \notin {"broadcast", "topup"}
        BY <3>4, <3>7, <3>10, <4>2, <4>5 DEF MayOpen
      <4> QED BY <4>3, <4>4, <4>5
    <3> QED BY <3>9, <3>10
  <2>2. PaidFor(f, o) /\ foOwed'[<<f, o>>] = foOwed[<<f, o>>]
    BY <1>1
  <2>3. AnswersFor(h, calls, form, f, o)
    BY <1>6, <1>10, <2>1, <2>2 DEF AnswersFor
  <2> QED BY <1>1, <1>8, <1>9, <2>2, <2>3, AnswerIsPaid
<1> QED BY <1>9, <1>11 DEF FormsInv

\* The amount of a top-up: its form was open.
LEMMA TopupAmountIsKept ==
  ASSUME FormsInv, TopupAmount
  PROVE  FormsInv'
<1>1. FormTypes /\ \A f \in FormNames, o \in FormTargets : PaidFor(f, o)
  BY DEF FormsInv
<1>2. PICK get : get = Get("method")
  OBVIOUS
<1>3. PICK list : list = <<get, Branch>>
  OBVIOUS
<1>4. Arrives("topup", "none", list) /\ foOwed' = foOwed /\ foState = "topup"
  BY <1>2, <1>3 DEF TopupAmount, Answer
<1>5. list \in Seq(FormCalls) /\ list # <<>> /\ Once(list) /\ In(list) = {get, Branch}
  <2>1. get \in FormCalls /\ Branch \in FormCalls /\ get # Branch
    BY <1>2, KeysOfForms, CallsAreCalls, CallsDiffer
  <2> QED BY <1>3, <2>1, ListOfTwo
<1>6. PICK calls : calls = In(list)
  OBVIOUS
<1>7. Branch \in calls /\ Write \notin calls /\ (\A x : SetTo(x) \notin calls /\ Remember(x) \notin calls)
      /\ \A f \in FormNames : Get(DataKey[f]) \notin calls
  BY <1>2, <1>5, <1>6, KeysOfForms, CallsDiffer
<1>8. /\ \E h \in Handlers : Begins(h, In(list), "topup", "none")
      /\ foHandler' \in [Handlers -> FormHandler] /\ \A g \in Handlers : InOrder(g)'
  <2>1. Branch \in In(list) /\ In(list) \subseteq {Get("method"), Branch}
    BY <1>2, <1>5
  <2>2. Remember("parent_id") \notin In(list) /\ Remember("amount") \notin In(list)
    BY <1>6, <1>7
  <2> QED BY <1>1, <1>4, <1>5, <2>1, <2>2, OpeningNames, ArrivesBegins
<1>9. PICK h \in Handlers : Begins(h, calls, "topup", "none")
  BY <1>6, <1>8
<1>10. FormTypes'
  BY <1>1, <1>4, <1>8, NoMoreOwed, ArrivalKeepsTypes
<1>11. ASSUME NEW f \in FormNames, NEW o \in FormTargets PROVE PaidFor(f, o)'
  <2>1. ASSUME Busy = {}, h \in Writers(f, o)' PROVE MayOpen(f, o)
    <3>1. h \notin Asking(f)' /\ h \notin Knowing(f, o)'
      BY <1>1, <1>7, <1>9, WhoBegins
    <3>2. IsSum(f, o)
      BY <2>1, <3>1 DEF Writers
    <3>3. StateMayRest("topup")
      BY <1>1, <1>4, <2>1, NobodyBusy DEF StateMayRest
    <3> QED BY <3>2, <3>3 DEF MayOpen
  <2>2. PaidFor(f, o) /\ foOwed'[<<f, o>>] = foOwed[<<f, o>>]
    BY <1>1, <1>4
  <2>3. AnswersFor(h, calls, "topup", f, o)
    BY <1>4, <1>7, <2>1, <2>2 DEF AnswersFor
  <2> QED BY <1>1, <1>9, <1>10, <2>2, <2>3, AnswerIsPaid
<1> QED BY <1>10, <1>11 DEF FormsInv

\* The calls of the handlers.
LEMMA CallsKeepForms ==
  ASSUME FormsInv, NEW h \in Handlers,
         \/ SetState(h) \/ UpdateData(h) \/ GetData(h) \/ ClearState(h) \/ ClearData(h) \/ WriteObject(h) \/ TopupBranch(h)
  PROVE  FormsInv'
<1>1. FormTypes /\ \A f \in FormNames, o \in FormTargets : PaidFor(f, o)
  BY DEF FormsInv
<1>2. FormTypes'
  BY <1>1, CallsKeepTypes
<1>3. ASSUME NEW f \in FormNames, NEW o \in FormTargets PROVE PaidFor(f, o)'
  <2>1. CASE SetState(h)
    BY <1>1, <1>2, <2>1, SetStateIsPaid
  <2>2. CASE UpdateData(h)
    BY <1>1, <1>2, <2>2, UpdateDataIsPaid
  <2>3. CASE GetData(h)
    BY <1>1, <1>2, <2>3, GetDataIsPaid
  <2>4. CASE ClearState(h)
    BY <1>1, <1>2, <2>4, ClearStateIsPaid
  <2>5. CASE ClearData(h)
    BY <1>1, <1>2, <2>5, ClearDataIsPaid
  <2>6. CASE WriteObject(h)
    BY <1>1, <1>2, <2>6, WriteObjectIsPaid
  <2>7. CASE TopupBranch(h)
    BY <1>1, <1>2, <2>7, TopupBranchIsPaid
  <2> QED BY <2>1, <2>2, <2>3, <2>4, <2>5, <2>6, <2>7
<1> QED BY <1>2, <1>3 DEF FormsInv

\* A file or folder that is deleted is still owed what its buttons asked for.
LEMMA DeletionKeepsForms ==
  ASSUME FormsInv, DeleteTarget \/ UNCHANGED foVars
  PROVE  FormsInv'
<1>1. FormTypes /\ \A f \in FormNames, o \in FormTargets : PaidFor(f, o)
  BY DEF FormsInv
<1>2. UNCHANGED <<foState, foData, foHandler, foOwed, foOverlaps, foUsed>>
  BY DEF DeleteTarget, foVars
<1>3. FormsTypeOK'
  <2>1. foHere' \subseteq Media \cup Folders /\ foArrived' \in 0..MaxUpdates
    BY <1>1, FormsAssumption DEF DeleteTarget, foVars, FormTypes, FormsTypeOK
  <2> QED BY <1>1, <1>2, <2>1 DEF FormTypes, FormsTypeOK
<1>4. \A g \in Handlers : InOrder(g)'
  <2> SUFFICES ASSUME NEW g \in Handlers PROVE InOrder(g)'
    OBVIOUS
  <2>1. InOrder(g) /\ foHandler'[g] = foHandler[g] /\ Left(g)' = Left(g)
    BY <1>1, <1>2 DEF FormTypes, Left
  <2> QED BY <2>1 DEF InOrder, Opens, Ends, AsksFirst, Decides
<1>5. FormTypes'
  BY <1>1, <1>2, <1>3, <1>4 DEF FormTypes
<1>6. ASSUME NEW f \in FormNames, NEW o \in FormTargets PROVE PaidFor(f, o)'
  BY <1>1, <1>2, <1>5, NothingMoves
<1> QED BY <1>5, <1>6 DEF FormsInv

\* The buttons that ask for one write.
LEMMA PromptsKeepForms ==
  ASSUME FormsInv,
         \/ CbMedia \/ RejectPrompt \/ CommentWrite \/ PasswordPrompt \/ FolderNew
         \/ FolderRenamePrompt \/ CbSettings \/ AdminAddStart \/ ChannelAddStart \/ LogGroupStart
         \/ SellCard \/ SellHolder \/ SellPrice \/ SellDuration \/ NewbotPickPlan \/ AdNew
  PROVE  FormsInv'
<1>1. ASSUME NEW form \in {"limit", "autodelete", "caption", "password", "thumbnail", "folder", "reject", "comment", "gate"},
             NEW target \in Media, Prompt(form, target)
      PROVE  FormsInv'
  <2>1. form \in FormNames \ {"topup", "broadcast", "search"} /\ form \notin OnSettings /\ target \in FormTargets
    BY DEF FormNames, OnMedia, OnSettings, FormTargets
  <2> QED BY <1>1, <2>1, PromptIsKept
<1>2. ASSUME NEW form \in {"name", "rename"}, NEW target \in Folders \cup {"root"}, Prompt(form, target)
      PROVE  FormsInv'
  <2>1. form \in FormNames \ {"topup", "broadcast", "search"} /\ form \notin OnSettings /\ target \in FormTargets
    BY DEF FormNames, OnMedia, OnSettings, FormTargets
  <2> QED BY <1>2, <2>1, PromptIsKept
<1>3. ASSUME NEW form \in OnSettings \cup OnPlans, Prompt(form, "settings")
      PROVE  FormsInv'
  <2>1. form \in FormNames \ {"topup", "broadcast", "search"} /\ "settings" \in FormTargets
    BY DEF FormNames, OnSettings, OnPlans, FormTargets
  <2> QED BY <1>3, <2>1, PromptIsKept
<1>4. CASE CbMedia \/ RejectPrompt \/ CommentWrite \/ PasswordPrompt
  BY <1>1, <1>4 DEF CbMedia, RejectPrompt, CommentWrite, PasswordPrompt
<1>5. CASE FolderNew \/ FolderRenamePrompt
  BY <1>2, <1>5 DEF FolderNew, FolderRenamePrompt
<1>6. CASE \/ CbSettings \/ AdminAddStart \/ ChannelAddStart \/ LogGroupStart
           \/ SellCard \/ SellHolder \/ SellPrice \/ SellDuration \/ NewbotPickPlan \/ AdNew
  BY <1>3, <1>6 DEF CbSettings, AdminAddStart, ChannelAddStart, LogGroupStart, SellCard, SellHolder,
                    SellPrice, SellDuration, NewbotPickPlan, AdNew, OnSettings, OnPlans
<1> QED BY <1>4, <1>5, <1>6

\* The other buttons.
LEMMA ButtonsKeepForms ==
  ASSUME FormsInv,
         \/ SearchButton \/ TopupCard \/ TopupOnline \/ BroadcastStart
         \/ MenuButton \/ CmdPanel \/ TopupStart \/ BroadcastCancel
         \/ AdTitleInput \/ AdTextInput \/ BroadcastCapture
  PROVE  FormsInv'
<1>1. CASE SearchButton
  BY <1>1, SearchIsKept
<1>2. CASE TopupCard \/ TopupOnline
  BY <1>2, TopupIsKept DEF TopupCard, TopupOnline
<1>3. CASE BroadcastStart
  BY <1>3, BroadcastStartIsKept
<1>4. CASE MenuButton \/ CmdPanel \/ TopupStart \/ BroadcastCancel
  BY <1>4, MenuIsKept DEF CmdPanel, TopupStart, BroadcastCancel
<1>5. CASE AdTitleInput \/ AdTextInput
  BY <1>5, AdPageIsKept DEF AdTitleInput, AdTextInput
<1>6. CASE BroadcastCapture
  BY <1>6, BroadcastCaptureIsKept
<1> QED BY <1>1, <1>2, <1>3, <1>4, <1>5, <1>6

\* The answers.
LEMMA AnswersKeepForms ==
  ASSUME FormsInv,
         \/ InputLimit \/ InputAutodelete \/ InputCaption \/ InputMediaPassword
         \/ InputMediaThumbnail \/ InputDefaultAutodelete \/ RejectReason \/ CommentBody
         \/ FolderNameInput \/ FolderRenameInput \/ FolderPick \/ AdminAddInput
         \/ ChannelAddInput \/ LogGroupInput \/ SellCardInput \/ SellHolderInput
         \/ SellPriceInput \/ SellDurationInput \/ NewbotReceiveToken \/ InputDeliveryPassword
         \/ AdPlacementPick \/ TopupAmount \/ TopupReceipt \/ BroadcastConfirmed
  PROVE  FormsInv'
<1>1. ASSUME NEW form \in OnMedia \cup OnPlans \cup {"name", "rename", "gate"}, Submit(form)
      PROVE  FormsInv'
  <2>1. form \in FormNames \ (OnSettings \cup {"search"}) /\ form \notin {"broadcast", "topup"}
    BY DEF FormNames, OnMedia, OnSettings, OnPlans
  <2>2. PICK list : list = <<Get(DataKey[form]), Close, Forget, Write>>
    OBVIOUS
  <2>3. Arrives(form, "none", list) /\ foOwed' = foOwed /\ foState = form
    BY <1>1, <2>2 DEF Submit, Answer
  <2> QED BY <2>1, <2>2, <2>3, KeyedAnswerIsKept
<1>2. CASE \/ InputLimit \/ InputAutodelete \/ InputCaption \/ InputMediaPassword \/ RejectReason \/ CommentBody
           \/ FolderNameInput \/ FolderRenameInput \/ FolderPick \/ SellPriceInput \/ SellDurationInput
           \/ NewbotReceiveToken \/ InputDeliveryPassword
  BY <1>1, <1>2 DEF InputLimit, InputAutodelete, InputCaption, InputMediaPassword, RejectReason, CommentBody,
                    FolderNameInput, FolderRenameInput, FolderPick, SellPriceInput, SellDurationInput,
                    NewbotReceiveToken, InputDeliveryPassword, OnMedia, OnPlans
<1>3. CASE InputMediaThumbnail
  <2>1. /\ "thumbnail" \in FormNames \ (OnSettings \cup {"search"}) /\ "thumbnail" \notin {"broadcast", "topup"}
        /\ DataKey["thumbnail"] = "media_id"
    BY DEF FormNames, OnMedia, OnSettings, OnPlans, DataKey
  <2>2. PICK list : list = <<Get("media_id"), Write, Close, Forget>>
    OBVIOUS
  <2>3. Arrives("thumbnail", "none", list) /\ foOwed' = foOwed /\ foState = "thumbnail"
    BY <1>3, <2>2 DEF InputMediaThumbnail, Answer
  <2>4. list = <<Get(DataKey["thumbnail"]), Write, Close, Forget>>
    BY <2>1, <2>2
  <2> QED BY <2>1, <2>3, <2>4, KeyedAnswerIsKept
<1>4. CASE AdminAddInput \/ ChannelAddInput
  <2>1. {"admin", "channel"} \subseteq OnSettings /\ "admin" \in StatesOf("admin") /\ "channel" \in StatesOf("channel")
    BY DEF OnSettings, StatesOf
  <2>2. PICK list : list = <<Write, Close, Forget>>
    OBVIOUS
  <2>3. Answer("admin", "admin", list) \/ Answer("channel", "channel", list)
    BY <1>4, <2>2 DEF AdminAddInput, ChannelAddInput
  <2> QED BY <2>1, <2>2, <2>3, SettingsAnswerIsKept
<1>5. CASE \/ InputDefaultAutodelete \/ LogGroupInput \/ SellCardInput \/ SellHolderInput \/ AdPlacementPick
  <2>1. PICK list : list = <<Close, Forget, Write>>
    OBVIOUS
  <2>2. \E form \in OnSettings : \E state \in StatesOf(form) : Answer(state, form, list)
    <3>1. /\ {"default", "loggroup", "card", "holder", "ad"} \subseteq OnSettings /\ "ad.place" \in StatesOf("ad")
          /\ \A form \in {"default", "loggroup", "card", "holder"} : form \in StatesOf(form)
      BY DEF OnSettings, StatesOf
    <3> QED BY <1>5, <2>1, <3>1 DEF InputDefaultAutodelete, LogGroupInput, SellCardInput, SellHolderInput, AdPlacementPick
  <2> QED BY <2>1, <2>2, SettingsAnswerIsKept
<1>6. CASE TopupAmount
  BY <1>6, TopupAmountIsKept
<1>7. CASE TopupReceipt
  <2>1. "topup" \in FormNames \ (OnSettings \cup {"search"}) /\ DataKey["topup"] = "amount"
    BY KeysOfForms DEF FormNames, OnSettings
  <2>2. PICK list : list = <<Get("amount"), Close, Forget, Write>>
    OBVIOUS
  <2>3. Arrives("topup", "none", list) /\ foOwed' = foOwed /\ foState = "receipt"
    BY <1>7, <2>2 DEF TopupReceipt, Answer
  <2>4. list = <<Get(DataKey["topup"]), Close, Forget, Write>>
    BY <2>1, <2>2
  <2> QED BY <2>1, <2>3, <2>4, KeyedAnswerIsKept
<1>8. CASE BroadcastConfirmed
  <2>1. "broadcast" \in FormNames \ (OnSettings \cup {"search"}) /\ DataKey["broadcast"] = "message_id"
    BY KeysOfForms DEF FormNames, OnSettings
  <2>2. PICK list : list = <<Get("message_id"), Close, Forget, Write>>
    OBVIOUS
  <2>3. Arrives("broadcast", "none", list) /\ foOwed' = foOwed
    BY <1>8, <2>2 DEF BroadcastConfirmed
  <2>4. list = <<Get(DataKey["broadcast"]), Close, Forget, Write>>
    BY <2>1, <2>2
  <2> QED BY <2>1, <2>3, <2>4, KeyedAnswerIsKept
<1> QED BY <1>2, <1>3, <1>4, <1>5, <1>6, <1>7, <1>8

\* No form is open and nobody is busy in the beginning.
LEMMA FormsInitInv ==
  ASSUME FormsInit
  PROVE  FormsInv
<1>1. FormsTypeOK
  BY FormsAssumption DEF FormsInit, FormsTypeOK, FormStates, NoData
<1>2. \A h \in Handlers : foHandler[h] = NoHandler /\ Left(h) = {}
  <2>1. \A h \in Handlers : foHandler[h] = NoHandler
    BY DEF FormsInit
  <2>2. 1..0 = {} /\ Len(<<>>) = 0
    OBVIOUS
  <2>3. In(<<>>) = {}
    BY <2>2 DEF In
  <2> QED BY <2>1, <2>3 DEF Left, NoHandler
<1>3. NoHandler \in FormHandler /\ Once(NoHandler.todo)
  <2>1. 1..0 = {} /\ Len(<<>>) = 0 /\ <<>> \in Seq(FormCalls)
    OBVIOUS
  <2> QED BY <2>1 DEF NoHandler, FormHandler, HandlerTarget, Once
<1>4. \A h \in Handlers : InOrder(h)
  BY <1>2, <1>3 DEF InOrder, Ends
<1>5. foHandler \in [Handlers -> FormHandler]
  BY <1>3 DEF FormsInit
<1>6. FormTypes
  BY <1>1, <1>4, <1>5 DEF FormTypes
<1>7. ASSUME NEW f \in FormNames, NEW o \in FormTargets PROVE PaidFor(f, o)
  <2>1. Busy = {}
    BY <1>2 DEF Busy
  <2>2. (\A x : ~Someone(x)) /\ (\A k, v : ~Putting(k, v)) /\ Asking("name") = {} /\ Writers(f, o) = {}
    BY <1>6, <2>1, NobodyBusy
  <2>3. ~MayOpen(f, o)
    <3>1. \A s : s # "none" => ~StateMayRest(s)
      BY <2>2 DEF StateMayRest, FormsInit
    <3>2. /\ "none" \notin StatesOf(f) /\ f # "none" /\ o # "none"
      BY FormsAssumption DEF StatesOf, FormNames, OnMedia, OnSettings, OnPlans, FormTargets
    <3>3. \A k \in FormKeys : ~DataMayRest(k, o)
      BY <2>2, <3>2 DEF DataMayRest, FormsInit, NoData
    <3>4. ~TopMayOpen
      BY <2>2, <3>1 DEF TopMayOpen
    <3>5. "message_id" \in FormKeys
      BY OpeningNames
    <3> QED BY <3>1, <3>2, <3>3, <3>4, <3>5 DEF MayOpen
  <2>4. Spared(f, o) = 0 /\ OneMore(f, o) = 0 /\ Cardinality(Writers(f, o)) = 0
    BY <2>2, <2>3, FS_EmptySet DEF Spared, OneMore
  <2>5. foOwed[<<f, o>>] = 0 /\ foOverlaps = 0
    BY DEF FormsInit
  <2> QED BY <2>4, <2>5 DEF PaidFor
<1> QED BY <1>6, <1>7 DEF FormsInv

\* The types of the forms, and the invariant on what is owed.
THEOREM FormsInvariant == FormsSpec => []FormsInv
<1>1. FormsInit => FormsInv
  BY FormsInitInv
<1>2. FormsInv /\ [FormsNext]_foVars => FormsInv'
  <2> SUFFICES ASSUME FormsInv, [FormsNext]_foVars PROVE FormsInv'
    OBVIOUS
  <2> QED BY CallsKeepForms, DeletionKeepsForms, PromptsKeepForms, ButtonsKeepForms, AnswersKeepForms DEF FormsNext
<1> QED BY <1>1, <1>2, PTL DEF FormsSpec

\* Every variable of the forms keeps its type.
THEOREM FormsTypeCorrect == FormsSpec => []FormsTypeOK
<1>1. FormsInv => FormsTypeOK
  BY DEF FormsInv, FormTypes
<1> QED BY <1>1, FormsInvariant, PTL

\* A form writes to an object no more often than its button was pressed for it, but for
\* updates that were served side by side.
THEOREM OneEditPerPressAlways == FormsSpec => []OneEditPerPress
BY FormsInvariant, FormsInvShows, PTL
=============================================================================
