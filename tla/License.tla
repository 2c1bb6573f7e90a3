------------------------------ MODULE License -------------------------------
(***************************************************************************)
(* One licence key: the activation server with its seats, the              *)
(* installations that ask it, the daily check of each worker and the       *)
(* decision whether new paid actions are allowed.  Time is a day counter;  *)
(* a call is answered or given up within its day.                          *)
(***************************************************************************)
EXTENDS Naturals, FiniteSets

CONSTANTS Installs,   \* installations (fingerprints)
          LiCalls,    \* requests to the activation server at the same time
          GraceDays,  \* LICENSE_GRACE_DAYS
          MaxDays,    \* bound: the last day
          MaxLiCalls  \* bound: requests and seller commands that are ever made

ASSUME LicenseAssumption == GraceDays \in Nat /\ MaxDays \in Nat /\ MaxLiCalls \in Nat

VARIABLES liDay,    \* now
          liKey,    \* the row of licenses: status, expires_at, allowed_install_count
          liSeats,  \* fingerprints with a row of installs
          liRow,    \* [Installs -> the installation's row of license]
          liCall,   \* [LiCalls -> the request in flight]
          liLive,   \* history: the last day the key was good at the server
          liMade    \* spent bound

liVars == <<liDay, liKey, liSeats, liRow, liCall, liLive, liMade>>

Never == MaxDays + 1   \* an expires_at of NULL, or a last_ok_at that is not there
NoCall == [at |-> "idle"]
Answers == {"active", "expired", "revoked", "seat_limit", "unknown"}

LicenseTypeOK ==
  /\ liDay \in 0..MaxDays /\ liLive \in 0..MaxDays /\ liMade \in 0..MaxLiCalls
  /\ liKey \in [status : {"active", "revoked"}, expires : Nat, seats : Nat]
  /\ liSeats \subseteq Installs
  /\ liRow \in [Installs -> [status : Answers \cup {"inactive"}, expires : Nat,
                             ok : Nat, checked : Nat]]

-----------------------------------------------------------------------------
(* The server. *)

\* _license_state.
LicenseState ==
  IF liKey.status = "revoked" THEN "revoked"
  ELSE IF liKey.expires <= liDay THEN "expired" ELSE "active"

LicenseInit ==
  /\ liDay = 0 /\ liLive = 0 /\ liMade = 0
  /\ liKey = [status |-> "active", expires |-> Never, seats |-> 1]
  /\ liSeats = {}
  /\ liRow = [i \in Installs |->
                [status |-> "inactive", expires |-> Never, ok |-> Never, checked |-> Never]]
  /\ liCall = [c \in LiCalls |-> NoCall]

Spent == liMade < MaxLiCalls /\ liMade' = liMade + 1

\* The day the new state of the key is good on, if it is.
LiveNow == liLive' = IF LicenseState' = "active" THEN liDay' ELSE liLive

\* The seller's commands.
Issue ==
  /\ \E n \in 1..2, e \in {liDay + 1, Never} :
       liKey' = [status |-> "active", expires |-> e, seats |-> n]
  /\ Spent /\ UNCHANGED <<liDay, liSeats, liRow, liCall>> /\ LiveNow
Revoke ==
  /\ liKey' = [liKey EXCEPT !.status = "revoked"]
  /\ Spent /\ UNCHANGED <<liDay, liSeats, liRow, liCall, liLive>>

CallIs(c, at) == liCall[c].at = at
CallGoes(c, call) == liCall' = [liCall EXCEPT ![c] = call]
OnlyCalls == UNCHANGED <<liDay, liKey, liRow, liLive, liMade>>

\* The key and the seat are looked up; a new seat is counted before it is taken.
ServerActivate(c) ==
  /\ CallIs(c, "activate")
  /\ LET i == liCall[c].install
         next == IF LicenseState # "active" THEN LicenseState
                 ELSE IF i \in liSeats THEN "active"
                 ELSE IF Cardinality(liSeats) >= liKey.seats THEN "seat_limit" ELSE "bind"
     IN CallGoes(c, [liCall[c] EXCEPT !.answer = next, !.until = liKey.expires,
                                      !.at = IF next = "bind" THEN "bind" ELSE "answered"])
  /\ UNCHANGED liSeats /\ OnlyCalls

\* INSERT installs; the row of a twin request makes it an error, no answer.
ServerBinds(c) ==
  /\ CallIs(c, "bind")
  /\ liSeats' = liSeats \cup {liCall[c].install}
  /\ CallGoes(c, [liCall[c] EXCEPT !.at = "answered",
                    !.answer = IF liCall[c].install \in liSeats THEN "none" ELSE "active"])
  /\ OnlyCalls

\* A check never takes a seat.
ServerCheck(c) ==
  /\ CallIs(c, "check")
  /\ CallGoes(c, [liCall[c] EXCEPT !.at = "answered", !.until = liKey.expires,
                    !.answer = IF LicenseState # "active" THEN LicenseState
                               ELSE IF liCall[c].install \in liSeats THEN "active" ELSE "unknown"])
  /\ UNCHANGED liSeats /\ OnlyCalls

-----------------------------------------------------------------------------
(* The installation.  The row is loaded before the request and written     *)
(* after it: only what differs from the loaded value is in the UPDATE.     *)

CallBegins(i, at) ==
  /\ \E c \in LiCalls : CallIs(c, "idle")
                        /\ CallGoes(c, [at |-> at, install |-> i, seen |-> liRow[i],
                                        answer |-> "none", until |-> Never])
  /\ Spent /\ UNCHANGED <<liDay, liKey, liSeats, liRow, liLive>>

\* license_activate in the panel: the operator enters the key.
LicenseActivate == \E i \in Installs : CallBegins(i, "activate")

\* The worker's hook, at most once a day.
MaybeDailyCheck ==
  \E i \in Installs : liRow[i].checked \in {Never} \cup 0..(liDay - 1) /\ CallBegins(i, "check")

\* What the UPDATE leaves in a column of the row.
Stored(c, column, value) ==
  IF value # liCall[c].seen[column] THEN value ELSE liRow[liCall[c].install][column]
RowGoes(c, row) == liRow' = [liRow EXCEPT ![liCall[c].install] = row]

CallEnds(c) == CallGoes(c, NoCall) /\ UNCHANGED <<liDay, liKey, liSeats, liLive, liMade>>

\* _apply_server_state.
ApplyServerState(c) ==
  /\ CallIs(c, "answered") /\ liCall[c].answer = "active"
  /\ RowGoes(c, [status |-> Stored(c, "status", "active"),
                 expires |-> Stored(c, "expires", liCall[c].until),
                 ok |-> liDay, checked |-> liDay])
  /\ CallEnds(c)

Refused(c) ==
  /\ CallIs(c, "answered") /\ liCall[c].answer \in Answers \ {"active"}
  /\ RowGoes(c, [liRow[liCall[c].install] EXCEPT !.status = Stored(c, "status", liCall[c].answer),
                                                 !.checked = liDay])
  /\ CallEnds(c)

\* No answer: the server was not reached, or acted and the answer was lost.
Offline(c) ==
  /\ liCall[c].at \in {"activate", "check", "answered"}
  /\ RowGoes(c, [liRow[liCall[c].install] EXCEPT !.checked = liDay])
  /\ CallEnds(c)

\* The process stops before it has used the answer.
CallDies(c) == ~CallIs(c, "idle") /\ CallEnds(c) /\ UNCHANGED liRow

NextDay ==
  /\ liDay < MaxDays /\ liDay' = liDay + 1
  /\ \A c \in LiCalls : CallIs(c, "idle")
  /\ UNCHANGED <<liKey, liSeats, liRow, liCall, liMade>> /\ LiveNow

LicenseNext ==
  \/ Issue \/ Revoke \/ LicenseActivate \/ MaybeDailyCheck \/ NextDay
  \/ \E c \in LiCalls : ServerActivate(c) \/ ServerBinds(c) \/ ServerCheck(c)
                        \/ ApplyServerState(c) \/ Refused(c) \/ Offline(c) \/ CallDies(c)

LicenseSpec == LicenseInit /\ [][LicenseNext]_liVars

-----------------------------------------------------------------------------
\* Mutant: a server that cannot be reached is waited for without an end.
Evaluate_NoGrace(row) == row.status = "active" /\ row.expires > liDay

\* evaluate: are new paid actions allowed?
Evaluate(row) ==
  /\ row.status = "active" /\ row.expires > liDay
  /\ row.ok # Never => liDay <= row.ok + GraceDays

\* Paid actions outlive the key by the grace period at most, whatever happens
\* to the requests: an outage, a lost answer, an answer from before the
\* revocation that is applied after the one from after it.
GraceIsKept == \A i \in Installs : Evaluate(liRow[i]) => liDay <= liLive + GraceDays
=============================================================================
