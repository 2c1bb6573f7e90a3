----------------------------- MODULE PanelAuth ------------------------------
(***************************************************************************)
(* The login of one member of a panel team: sessions in Redis stamped with *)
(* the epoch of the row, the second factor, the one-time links of the bot, *)
(* the counter of failed logins, and the changes to the row that the       *)
(* member and the owner make.  Handlers load the row, then write it; in    *)
(* between others run.                                                     *)
(***************************************************************************)
EXTENDS Naturals

CONSTANTS AuTasks,      \* requests served at the same time
          Sids,         \* session ids
          MaxFailures,  \* LOGIN_MAX_FAILURES
          MaxRequestsAu \* bound: requests that are ever made

ASSUME PanelAuthAssumption == MaxFailures \in Nat \ {0} /\ MaxRequestsAu \in Nat

VARIABLES auRow,      \* the row of panel_users
          auSession,  \* [Sids -> the record in Redis, or NoSession]
          auPending,  \* panel:2fa records: password given, code still asked for
          auLinks,    \* panellink tokens that are not used yet
          auFails,    \* panel:loginfail
          auTask,     \* [AuTasks -> the handler]
          auBumps,    \* history: epoch bumps committed
          auOverlap,  \* history: two bumps ran at the same time
          auMade      \* spent bound

auVars == <<auRow, auSession, auPending, auLinks, auFails, auTask, auBumps, auOverlap, auMade>>

NoSession == [epoch |-> 0, after |-> 0, live |-> FALSE]
NoRequestNow == [kind |-> "idle"]
\* The handlers that end every session of the member.
Bumps == {"account_password", "team_set_password", "team_logout_all"}

PanelAuthTypeOK ==
  /\ auRow \in [epoch : Nat, active : BOOLEAN, totp : BOOLEAN, twofa : BOOLEAN,
                role : {"admin", "support"}]
  /\ auSession \in [Sids -> [epoch : Nat, after : Nat, live : BOOLEAN]]
  /\ auPending \in 0..1 /\ auLinks \in 0..1 /\ auFails \in 0..(MaxFailures + MaxRequestsAu)
  /\ auBumps \in Nat /\ auOverlap \in BOOLEAN /\ auMade \in 0..MaxRequestsAu

PanelAuthInit ==
  /\ \E on \in BOOLEAN :
       auRow = [epoch |-> 0, active |-> TRUE, totp |-> on, twofa |-> on, role |-> "support"]
  /\ auSession = [s \in Sids |-> NoSession]
  /\ auPending = 0 /\ auLinks = 0 /\ auFails = 0
  /\ auTask = [t \in AuTasks |-> NoRequestNow]
  /\ auBumps = 0 /\ auOverlap = FALSE /\ auMade = 0

AuIs(t, kind) == auTask[t].kind = kind
AuDone(t) == auTask' = [auTask EXCEPT ![t] = NoRequestNow]

\* A handler that has loaded the row; after is how many bumps it has seen.
AuBegin(kind) ==
  /\ auMade < MaxRequestsAu /\ auMade' = auMade + 1
  /\ \E t \in AuTasks :
       /\ AuIs(t, "idle")
       /\ auTask' = [auTask EXCEPT ![t] = [kind |-> kind, row |-> auRow, after |-> auBumps]]

OnlyTasks == UNCHANGED <<auRow, auSession, auPending, auLinks, auBumps, auOverlap>>

\* Mutant: the epoch in the record is not compared.
Accepted_AnyEpoch(s) == auSession[s].live /\ auRow.active

\* require_panel_user.
Accepted(s) == auSession[s].live /\ auRow.active /\ auSession[s].epoch = auRow.epoch

-----------------------------------------------------------------------------
(* Logging in. *)

LoginLocked == auFails >= MaxFailures

\* login_submit with a wrong password: record_login_failure.
RecordLoginFailure ==
  /\ ~LoginLocked /\ auFails' = auFails + 1
  /\ auMade < MaxRequestsAu /\ auMade' = auMade + 1
  /\ OnlyTasks /\ UNCHANGED auTask

\* login_submit with the right one: the second factor, or the session.
LoginSubmit ==
  /\ ~LoginLocked /\ auRow.active /\ auFails' = 0
  /\ IF auRow.twofa /\ auRow.totp
     THEN /\ auPending' = 1 /\ auMade < MaxRequestsAu /\ auMade' = auMade + 1
          /\ UNCHANGED auTask
     ELSE AuBegin("mint") /\ UNCHANGED auPending
  /\ UNCHANGED <<auRow, auSession, auLinks, auBumps, auOverlap>>

\* The right code; the row is loaded again.
Login2faSubmit ==
  /\ auPending = 1 /\ ~LoginLocked /\ auRow.active /\ auRow.twofa /\ auRow.totp
  /\ auPending' = 0 /\ auFails' = 0 /\ AuBegin("mint")
  /\ UNCHANGED <<auRow, auSession, auLinks, auBumps, auOverlap>>

\* panel_links in the bot, and the link opened: GETDEL, then the row.
PanelLinks ==
  /\ auRow.active /\ auLinks' = 1
  /\ auMade < MaxRequestsAu /\ auMade' = auMade + 1
  /\ UNCHANGED <<auRow, auSession, auPending, auFails, auTask, auBumps, auOverlap>>
PanelLinkLogin ==
  /\ auLinks = 1 /\ auLinks' = 0 /\ auRow.active /\ AuBegin("mint")
  /\ UNCHANGED <<auRow, auSession, auPending, auFails, auBumps, auOverlap>>

\* The time of a Redis record is over: pending code, link, failures, session.
RedisExpires ==
  /\ \/ auPending' = 0 /\ UNCHANGED <<auLinks, auFails>>
     \/ auLinks' = 0 /\ UNCHANGED <<auPending, auFails>>
     \/ auFails' = 0 /\ UNCHANGED <<auPending, auLinks>>
  /\ UNCHANGED <<auRow, auSession, auTask, auBumps, auOverlap, auMade>>

\* _mint_session: the epoch of the loaded row.
MintSession(t) ==
  /\ AuIs(t, "mint")
  /\ \E s \in Sids :
       /\ ~auSession[s].live
       /\ auSession' = [auSession EXCEPT ![s] =
            [epoch |-> auTask[t].row.epoch, after |-> auTask[t].after, live |-> TRUE]]
  /\ AuDone(t) /\ UNCHANGED <<auRow, auPending, auLinks, auFails, auBumps, auOverlap, auMade>>

\* logout, or twelve hours without a request.
Logout ==
  /\ \E s \in Sids : auSession[s].live /\ auSession' = [auSession EXCEPT ![s] = NoSession]
  /\ UNCHANGED <<auRow, auPending, auLinks, auFails, auTask, auBumps, auOverlap, auMade>>

-----------------------------------------------------------------------------
(* Changes to the row: by the member in a session that is accepted ... *)

Member == \E s \in Sids : Accepted(s)

AccountPassword == Member /\ AuBegin("account_password") /\ OnlyTasks /\ UNCHANGED auFails
TwofaStart == Member /\ ~auRow.twofa /\ AuBegin("twofa_start") /\ OnlyTasks /\ UNCHANGED auFails
TwofaEnable ==
  Member /\ ~auRow.twofa /\ auRow.totp /\ AuBegin("twofa_enable") /\ OnlyTasks /\ UNCHANGED auFails
TwofaDisable == Member /\ AuBegin("twofa_disable") /\ OnlyTasks /\ UNCHANGED auFails

(* ... and by the owner of the team. *)

TeamSetPassword == AuBegin("team_set_password") /\ OnlyTasks /\ UNCHANGED auFails
TeamLogoutAll == AuBegin("team_logout_all") /\ OnlyTasks /\ UNCHANGED auFails
TeamTwofaDisable ==
  auRow.twofa /\ AuBegin("team_twofa_disable") /\ OnlyTasks /\ UNCHANGED auFails
TeamToggle == AuBegin("team_toggle") /\ OnlyTasks /\ UNCHANGED auFails
TeamSetRole == AuBegin("team_set_role") /\ OnlyTasks /\ UNCHANGED auFails

\* The row old after a handler that loaded row: it writes the columns it changed there.
Changes(kind, row, old) ==
  CASE kind \in Bumps -> [old EXCEPT !.epoch = row.epoch + 1]
    [] kind = "twofa_start" -> [old EXCEPT !.totp = TRUE]
    [] kind = "twofa_enable" -> [old EXCEPT !.twofa = TRUE]
    [] kind \in {"twofa_disable", "team_twofa_disable"} ->
         [old EXCEPT !.twofa = @ /\ ~row.twofa, !.totp = @ /\ ~row.totp]
    [] kind = "team_toggle" -> [old EXCEPT !.active = ~row.active]
    [] kind = "team_set_role" ->
         [old EXCEPT !.role = IF row.role = "admin" THEN "support" ELSE "admin"]

RowCommits(t) ==
  /\ ~AuIs(t, "idle") /\ ~AuIs(t, "mint")
  /\ auRow' = Changes(auTask[t].kind, auTask[t].row, auRow)
  /\ IF auTask[t].kind \in Bumps
     THEN /\ auBumps' = auBumps + 1
          /\ auOverlap' = (auOverlap \/ auTask[t].after # auBumps)
     ELSE UNCHANGED <<auBumps, auOverlap>>
  /\ AuDone(t) /\ UNCHANGED <<auSession, auPending, auLinks, auFails, auMade>>

PanelAuthNext ==
  \/ RecordLoginFailure \/ LoginSubmit \/ Login2faSubmit \/ PanelLinks \/ PanelLinkLogin
  \/ RedisExpires \/ Logout \/ AccountPassword \/ TwofaStart \/ TwofaEnable \/ TwofaDisable
  \/ TeamSetPassword \/ TeamLogoutAll \/ TeamTwofaDisable \/ TeamToggle \/ TeamSetRole
  \/ \E t \in AuTasks : MintSession(t) \/ RowCommits(t)

PanelAuthSpec == PanelAuthInit /\ [][PanelAuthNext]_auVars

-----------------------------------------------------------------------------
\* A session that is accepted was opened by a login that loaded the row after
\* the last password change or logout-all, also when it was minted later than
\* that.  Two bumps that ran at the same time read the same epoch and count as
\* one; the statement is about runs where that did not happen.
EndedSessionsStayEnded ==
  \A s \in Sids : Accepted(s) /\ ~auOverlap => auSession[s].after = auBumps
=============================================================================
