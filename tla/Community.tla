----------------------------- MODULE Community ------------------------------
(***************************************************************************)
(* What users do with a delivered file: reactions with counters kept on    *)
(* the media row, comments that wait for moderation, and reports.  One     *)
(* file; taps of the same user overlap.                                    *)
(***************************************************************************)
EXTENDS Naturals, FiniteSets

CONSTANTS Fans,     \* users
          Taps,     \* updates served at the same time
          MaxTaps   \* bound: updates that ever arrive

ASSUME CommunityAssumption == MaxTaps \in Nat

VARIABLES cmRows,     \* the (user, kind) pairs with a media_reactions row
          cmCount,    \* [kind -> the counter on the media row]
          cmTap,      \* [Taps -> the update being served]
          cmLocked,   \* [Taps -> rows its DELETE has locked]
          cmComment,  \* [Fans -> status of the user's comment, or "none"]
          cmReport,   \* [Fans -> status of the user's report, or "none"]
          cmActive,   \* media.is_active
          cmArrived   \* spent bound

cmVars == <<cmRows, cmCount, cmTap, cmLocked, cmComment, cmReport, cmActive, cmArrived>>

Reactions == {"like", "dislike", "favorite"}
Opposite(kind) == CASE kind = "like" -> {"dislike"} [] kind = "dislike" -> {"like"}
                    [] kind = "favorite" -> {}
NoTap == [kind |-> "idle"]

CommunityTypeOK ==
  /\ cmRows \subseteq Fans \X Reactions /\ cmCount \in [Reactions -> Nat]
  /\ cmLocked \in [Taps -> SUBSET (Fans \X Reactions)]
  /\ cmComment \in [Fans -> {"none", "pending", "approved", "rejected"}]
  /\ cmReport \in [Fans -> {"none", "pending", "reviewed", "dismissed"}]
  /\ cmActive \in BOOLEAN /\ cmArrived \in 0..MaxTaps

CommunityInit ==
  /\ cmRows = {} /\ cmCount = [k \in Reactions |-> 0]
  /\ cmTap = [t \in Taps |-> NoTap] /\ cmLocked = [t \in Taps |-> {}]
  /\ cmComment = [u \in Fans |-> "none"] /\ cmReport = [u \in Fans |-> "none"]
  /\ cmActive = TRUE /\ cmArrived = 0

TapArrives(task) ==
  /\ cmArrived < MaxTaps /\ cmArrived' = cmArrived + 1
  /\ \E t \in Taps : cmTap[t] = NoTap /\ cmTap' = [cmTap EXCEPT ![t] = task]
TapGoes(t, at) == cmTap' = [cmTap EXCEPT ![t].kind = at]
TapEnds(t) == cmTap' = [cmTap EXCEPT ![t] = NoTap]

OnlyTaps == UNCHANGED <<cmRows, cmCount, cmLocked, cmComment, cmReport, cmActive>>
NoReaction == UNCHANGED <<cmRows, cmCount, cmLocked>>
OnlyReactions == UNCHANGED <<cmComment, cmReport, cmActive, cmArrived>>

-----------------------------------------------------------------------------
(* ReactionService.toggle. *)

\* react_toggle: is the reaction there?
ReactToggle ==
  /\ \E u \in Fans, k \in Reactions :
       TapArrives([kind |-> IF <<u, k>> \in cmRows THEN "clear" ELSE "set", pair |-> <<u, k>>])
  /\ OnlyTaps

Unlocked(rows) == \A t \in Taps : cmLocked[t] \cap rows = {}

\* Mutant: the counter goes down whether or not a row was deleted.
Removed_Always(pairs) == pairs

\* _remove: the rows its DELETE found.
Removed(pairs) == pairs \cap cmRows

Lower(pairs) ==
  [k \in Reactions |-> IF (\E p \in pairs : p[2] = k) /\ cmCount[k] > 0
                       THEN cmCount[k] - 1 ELSE cmCount[k]]

\* The reaction was there: DELETE, UPDATE of the counter, commit.
ReactionCleared(t) ==
  /\ cmTap[t].kind = "clear"
  /\ LET p == {cmTap[t].pair}
     IN Unlocked(p) /\ cmCount' = Lower(Removed(p)) /\ cmRows' = cmRows \ p
  /\ TapEnds(t) /\ UNCHANGED cmLocked /\ OnlyReactions

\* The opposite is deleted first; its row stays locked until the commit.
OppositeCleared(t) ==
  /\ cmTap[t].kind = "set"
  /\ LET p == {<<cmTap[t].pair[1], k>> : k \in Opposite(cmTap[t].pair[2])}
     IN Unlocked(p) /\ cmLocked' = [cmLocked EXCEPT ![t] = p \cap cmRows]
  /\ TapGoes(t, "insert")
  /\ UNCHANGED <<cmRows, cmCount>> /\ OnlyReactions

\* INSERT and counter in the same transaction as the DELETE.
ReactionSet(t) ==
  /\ cmTap[t].kind = "insert" /\ cmTap[t].pair \notin cmRows
  /\ cmRows' = (cmRows \ cmLocked[t]) \cup {cmTap[t].pair}
  /\ cmCount' = [Lower(cmLocked[t]) EXCEPT ![cmTap[t].pair[2]] = @ + 1]
  /\ cmLocked' = [cmLocked EXCEPT ![t] = {}]
  /\ TapEnds(t) /\ OnlyReactions

\* The unique constraint: the twin's row was first, all of it is rolled back.
ReactionTwin(t) ==
  /\ cmTap[t].kind = "insert" /\ cmTap[t].pair \in cmRows
  /\ cmLocked' = [cmLocked EXCEPT ![t] = {}]
  /\ TapEnds(t) /\ UNCHANGED <<cmRows, cmCount>> /\ OnlyReactions

-----------------------------------------------------------------------------
(* Comments: written pending, moderated in the panel. *)

CommentCreate ==
  /\ \E u \in Fans : cmComment[u] = "none" /\ cmComment' = [cmComment EXCEPT ![u] = "pending"]
  /\ cmArrived < MaxTaps /\ cmArrived' = cmArrived + 1
  /\ NoReaction /\ UNCHANGED <<cmTap, cmReport, cmActive>>

\* comments_set_status: any status over any other.
CommentSetStatus ==
  /\ \E u \in Fans, s \in {"pending", "approved", "rejected"} :
       cmComment[u] \notin {"none", s} /\ cmComment' = [cmComment EXCEPT ![u] = s]
  /\ cmArrived < MaxTaps /\ cmArrived' = cmArrived + 1
  /\ NoReaction /\ UNCHANGED <<cmTap, cmReport, cmActive>>

CommentDelete ==
  /\ \E u \in Fans : cmComment[u] # "none" /\ cmComment' = [cmComment EXCEPT ![u] = "none"]
  /\ cmArrived < MaxTaps /\ cmArrived' = cmArrived + 1
  /\ NoReaction /\ UNCHANGED <<cmTap, cmReport, cmActive>>

-----------------------------------------------------------------------------
(* Reports: one per user and file, by a look and by a unique constraint. *)

\* ReportService.create; the second of two at once is an IntegrityError.
ReportCreate ==
  /\ \E u \in Fans : cmReport[u] = "none" /\ cmReport' = [cmReport EXCEPT ![u] = "pending"]
  /\ cmArrived < MaxTaps /\ cmArrived' = cmArrived + 1
  /\ NoReaction /\ UNCHANGED <<cmTap, cmComment, cmActive>>

\* The panel's handlers load a report that is pending ...
ReportBegins(verdict) ==
  /\ \E u \in Fans : cmReport[u] = "pending" /\ TapArrives([kind |-> verdict, user |-> u])
  /\ OnlyTaps
ReportsDeactivate == ReportBegins("accept")
ReportsDismiss == ReportBegins("dismiss")

\* ... and the accepting one then loads the file's other pending reports.
Siblings(u) == {u} \cup {v \in Fans : cmReport[v] = "pending"}

ReviewDeactivate(t) ==
  /\ cmTap[t].kind = "accept"
  /\ cmActive' = FALSE
  /\ cmReport' = [u \in Fans |-> IF u \in Siblings(cmTap[t].user) THEN "reviewed" ELSE cmReport[u]]
  /\ TapEnds(t) /\ NoReaction /\ UNCHANGED <<cmComment, cmArrived>>

Dismiss(t) ==
  /\ cmTap[t].kind = "dismiss"
  /\ cmReport' = [cmReport EXCEPT ![cmTap[t].user] = "dismissed"]
  /\ TapEnds(t) /\ NoReaction /\ UNCHANGED <<cmComment, cmActive, cmArrived>>

CommunityNext ==
  \/ ReactToggle \/ CommentCreate \/ CommentSetStatus \/ CommentDelete
  \/ ReportCreate \/ ReportsDeactivate \/ ReportsDismiss
  \/ \E t \in Taps : ReactionCleared(t) \/ OppositeCleared(t) \/ ReactionSet(t)
                     \/ ReactionTwin(t) \/ ReviewDeactivate(t) \/ Dismiss(t)

CommunitySpec == CommunityInit /\ [][CommunityNext]_cmVars

-----------------------------------------------------------------------------
\* The counters the buttons show are the rows that exist, for any overlap of
\* taps: a like, its opposite, the same like twice, a like and its removal.
CountersMatchRows ==
  \A k \in Reactions : cmCount[k] = Cardinality({p \in cmRows : p[2] = k})
=============================================================================
