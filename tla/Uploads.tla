------------------------------ MODULE Uploads -------------------------------
(***************************************************************************)
(* How a file enters the library: uploads of admins and users, batches,    *)
(* albums that the worker makes a file of (_finalize_album), the review    *)
(* queue, the panel's status form, and the preview a new public file posts *)
(* to the owner's channel.  One uploader whose plan allows MaxFiles files; *)
(* a handler's awaits are where others run.                                *)
(***************************************************************************)
EXTENDS Naturals, Sequences, FiniteSets

CONSTANTS Files,      \* ids of media, in the order of their sequence
          UpTasks,    \* handlers of the bot and the panel served at the same time
          AlbumTask,  \* the worker, which finalizes one album at a time
          MaxFiles,   \* plans.max_files of the uploader's plan
          MaxUploads  \* bound: handlers that are ever started

ASSUME UploadsAssumption ==
  /\ Files \subseteq Nat /\ IsFiniteSet(UpTasks) /\ AlbumTask \notin UpTasks
  /\ MaxFiles \in Nat /\ MaxUploads \in Nat

VARIABLES upStatus,   \* [Files -> media.status, "none" or "deleted"]
          upHidden,   \* files whose is_active is off
          upReview,   \* the setting user_upload_requires_review
          upBatch,    \* length of the Redis list batch:<admin>
          upCollects, \* the admin is in Upload.collecting
          upTask,     \* [Uploaders -> the handler]
          upRow,      \* files that have a media_previews row
          upPosts,    \* history: [Files -> messages in the preview channel]
          upTwins,    \* history: [Files -> approvals beside a preview being posted]
          upOver,     \* history: files that took their slot without a look at the quota
          upStarted   \* spent bound

upVars == <<upStatus, upHidden, upReview, upBatch, upCollects, upTask, upRow, upPosts,
            upTwins, upOver, upStarted>>

Uploaders == UpTasks \cup {AlbumTask}
UpStatuses == {"approved", "pending", "rejected"}
NoUpload == [kind |-> "idle"]

UploadsTypeOK ==
  /\ upStatus \in [Files -> UpStatuses \cup {"none", "deleted"}]
  /\ upHidden \subseteq Files /\ upRow \subseteq Files /\ upOver \subseteq Files
  /\ upReview \in BOOLEAN /\ upCollects \in BOOLEAN
  /\ upBatch \in Nat
  /\ upPosts \in [Files -> Nat] /\ upTwins \in [Files -> Nat]
  /\ upStarted \in 0..MaxUploads

UploadsInit ==
  /\ upStatus = [f \in Files |-> "none"]
  /\ upHidden = {} /\ upRow = {} /\ upOver = {}
  /\ upReview = TRUE /\ upCollects = FALSE
  /\ upBatch = 0
  /\ upTask = [t \in Uploaders |-> NoUpload]
  /\ upPosts = [f \in Files |-> 0] /\ upTwins = [f \in Files |-> 0]
  /\ upStarted = 0

UpAt(t, kind) == upTask[t].kind = kind
UpDone(t) == upTask' = [upTask EXCEPT ![t] = NoUpload]
UpGoto(t, task) == upTask' = [upTask EXCEPT ![t] = task]

UpStart(tasks, task) ==
  /\ upStarted < MaxUploads /\ upStarted' = upStarted + 1
  /\ \E t \in tasks : upTask[t] = NoUpload /\ UpGoto(t, task)
UpBegin(task) == UpStart(UpTasks, task)

\* Everything but the handlers and the bound.
UpKept == UNCHANGED <<upStatus, upHidden, upReview, upBatch, upCollects, upRow,
                         upPosts, upTwins, upOver>>

-----------------------------------------------------------------------------
(* The quota: counted first, the row inserted later. *)

\* count_quota_by_owner.
Occupying == {f \in Files : upStatus[f] \in {"approved", "pending"}}

\* Mutant: one more is let in.
WithinFileLimit_OneMore == Cardinality(Occupying) <= MaxFiles

WithinFileLimit == Cardinality(Occupying) < MaxFiles

\* What an upload goes on with when it was let in, or was not asked.
Creating(status, batch, looked) ==
  [kind |-> "create", status |-> status, batch |-> batch, looked |-> looked]
Admitted(status, batch) == Creating(status, batch, TRUE)

\* admin_upload, outside a batch: the file is public at once.
AdminUpload ==
  ~upCollects /\ WithinFileLimit /\ UpBegin(Admitted("approved", FALSE)) /\ UpKept

\* non_admin_upload: pending unless the owner switched the review off.
NonAdminUpload ==
  /\ WithinFileLimit
  /\ UpBegin(Admitted(IF upReview THEN "pending" ELSE "approved", FALSE)) /\ UpKept

\* batch_start: an old list is dropped.
BatchStart ==
  /\ ~upCollects /\ upCollects' = TRUE /\ upBatch' = 0
  /\ UNCHANGED <<upStatus, upHidden, upReview, upTask, upRow, upPosts, upTwins, upOver,
                 upStarted>>

BatchCollect ==
  /\ upCollects /\ upBatch < 1 /\ upBatch' = upBatch + 1
  /\ UNCHANGED <<upStatus, upHidden, upReview, upCollects, upTask, upRow, upPosts, upTwins,
                 upOver, upStarted>>

\* The hour of the list is over, or the batch is cancelled.
BatchCancel ==
  /\ upCollects /\ upBatch' = 0 /\ upCollects' \in BOOLEAN
  /\ UNCHANGED <<upStatus, upHidden, upReview, upTask, upRow, upPosts, upTwins, upOver,
                 upStarted>>

\* batch_finish reads the list, which is deleted only after the file is made.
BatchFinish ==
  /\ upCollects /\ upBatch > 0 /\ WithinFileLimit
  /\ UpBegin(Admitted("approved", TRUE)) /\ UpKept

\* The worker makes a file of an album: an admin's is public and nobody looks at the
\* quota, another's is pending unless the review is off.
FinalizeAlbum ==
  /\ \/ UpStart({AlbumTask}, Creating("approved", FALSE, FALSE))
     \/ /\ WithinFileLimit
        /\ UpStart({AlbumTask}, Admitted(IF upReview THEN "pending" ELSE "approved", FALSE))
  /\ UpKept

\* The handler goes on to maybe_post_preview with its media.
Previewing(f, hidden) == [kind |-> "preview", file |-> f, hidden |-> hidden]

\* create_media, then for a public file the preview.
CreateMedia(t) ==
  /\ UpAt(t, "create")
  /\ \E f \in Files :
       /\ upStatus[f] = "none" /\ \A g \in Files : upStatus[g] = "none" => f <= g
       /\ upStatus' = [upStatus EXCEPT ![f] = upTask[t].status]
       /\ upOver' = IF upTask[t].looked THEN upOver ELSE upOver \cup {f}
       /\ IF upTask[t].status = "approved" THEN UpGoto(t, Previewing(f, FALSE))
                                           ELSE UpDone(t)
  /\ IF upTask[t].batch THEN upBatch' = 0 /\ upCollects' = FALSE
                        ELSE UNCHANGED <<upBatch, upCollects>>
  /\ UNCHANGED <<upHidden, upReview, upRow, upPosts, upTwins, upStarted>>

-----------------------------------------------------------------------------
(* The review queue: the pending row is loaded, then written by its id. *)

\* get_pending.
Pending == {f \in Files : upStatus[f] = "pending"}

ReviewBegins(verdict) ==
  /\ \E f \in Pending : UpBegin([kind |-> "review", file |-> f, verdict |-> verdict,
                                   hidden |-> f \in upHidden])
  /\ UpKept

\* The bot's queue (a rejection comes with the reason it prompted for) ...
ReviewApprove == ReviewBegins("approved")
ReviewRejectReason == ReviewBegins("rejected")
\* ... and the panel's.
PanelReviewApprove == ReviewBegins("approved")
PanelReviewReject == ReviewBegins("rejected")

\* The handlers that are posting a preview of f.
Posting(f) == {t \in Uploaders : upTask[t].kind \in {"preview", "post", "posted"}
                               /\ upTask[t].file = f}

\* A rejected file that gets another status takes its slot back.
TakenBack(f, s) == {g \in {f} : upStatus[f] = "rejected" /\ s # "rejected"}

\* approve or reject: a file deleted since makes the UPDATE match nothing.  An
\* approval after another admin's rejection takes the slot back.
ReviewCommits(t) ==
  /\ UpAt(t, "review")
  /\ LET f == upTask[t].file
         verdict == upTask[t].verdict
     IN IF upStatus[f] = "deleted"
        THEN UpDone(t) /\ UNCHANGED <<upStatus, upOver, upTwins>>
        ELSE /\ upStatus' = [upStatus EXCEPT ![f] = verdict]
             /\ upOver' = upOver \cup TakenBack(f, verdict)
             /\ IF verdict = "approved"
                THEN /\ UpGoto(t, Previewing(f, upTask[t].hidden))
                     /\ upTwins' = [upTwins EXCEPT ![f] = @ + Cardinality(Posting(f))]
                ELSE UpDone(t) /\ UNCHANGED upTwins
  /\ UNCHANGED <<upHidden, upReview, upBatch, upCollects, upRow, upPosts, upStarted>>

\* Any status over any other: it may take a slot back.
StatusWritten ==
  /\ \E f \in Files, s \in UpStatuses :
       /\ upStatus[f] \in UpStatuses \ {s}
       /\ upStatus' = [upStatus EXCEPT ![f] = s]
       /\ upOver' = upOver \cup TakenBack(f, s)
  /\ upStarted < MaxUploads /\ upStarted' = upStarted + 1
  /\ UNCHANGED <<upHidden, upReview, upBatch, upCollects, upTask, upRow, upPosts, upTwins>>

\* The panel's form, and the API.
MediaEdit == StatusWritten
MediaPatch == StatusWritten

\* A file is switched off or on: set_active, the panel, the API.
SetActive ==
  /\ \E f \in Files : upStatus[f] \in UpStatuses /\ upHidden' = (upHidden \ {f}) \cup ({f} \ upHidden)
  /\ upStarted < MaxUploads /\ upStarted' = upStarted + 1
  /\ UNCHANGED <<upStatus, upReview, upBatch, upCollects, upTask, upRow, upPosts, upTwins,
                 upOver>>

\* The button of the bot's menu, and the panel's.
CbMediaToggle == SetActive
MediaToggle == SetActive

\* Its media_previews row goes with it; what is in the channel stays there.
DeleteMedia ==
  /\ \E f \in Files :
       /\ upStatus[f] \in UpStatuses
       /\ upStatus' = [upStatus EXCEPT ![f] = "deleted"]
       /\ upHidden' = upHidden \ {f} /\ upRow' = upRow \ {f}
  /\ upStarted < MaxUploads /\ upStarted' = upStarted + 1
  /\ UNCHANGED <<upReview, upBatch, upCollects, upTask, upPosts, upTwins, upOver>>

\* The bot's button ("delok"), the panel and the API.
CbMediaDelete == DeleteMedia
MediaDelete == DeleteMedia
ApiMediaDelete == DeleteMedia

\* The owner changes user_upload_requires_review.
ReviewSwitch ==
  /\ upReview' = ~upReview
  /\ upStarted < MaxUploads /\ upStarted' = upStarted + 1
  /\ UNCHANGED <<upStatus, upHidden, upBatch, upCollects, upTask, upRow, upPosts, upTwins,
                 upOver>>

-----------------------------------------------------------------------------
(* maybe_post_preview.  The media is the one in memory: public, or the     *)
(* handler would not be here, and is_active as it was when it was loaded.  *)

\* SELECT media_previews.
Posted(f) == f \in upRow

PreviewChecks(t) ==
  /\ UpAt(t, "preview")
  /\ LET f == upTask[t].file
     IN IF Posted(f) \/ upTask[t].hidden
        THEN UpDone(t) ELSE UpGoto(t, [kind |-> "post", file |-> f])
  /\ UpKept /\ UNCHANGED upStarted

\* The message goes out before the row is written; a failed send ends it.
PreviewSends(t) ==
  /\ UpAt(t, "post")
  /\ \/ UpDone(t) /\ UNCHANGED upPosts
     \/ /\ UpGoto(t, [kind |-> "posted", file |-> upTask[t].file])
        /\ upPosts' = [upPosts EXCEPT ![upTask[t].file] = @ + 1]
  /\ UNCHANGED <<upStatus, upHidden, upReview, upBatch, upCollects, upRow, upTwins,
                 upOver, upStarted>>

\* The row; a second one, or one for a deleted file, is an IntegrityError.
PreviewCommits(t) ==
  /\ UpAt(t, "posted")
  /\ upRow' = upRow \cup {f \in {upTask[t].file} : upStatus[f] \in UpStatuses}
  /\ UpDone(t)
  /\ UNCHANGED <<upStatus, upHidden, upReview, upBatch, upCollects, upPosts, upTwins,
                 upOver, upStarted>>

-----------------------------------------------------------------------------
UploadsNext ==
  \/ AdminUpload \/ NonAdminUpload \/ BatchStart \/ BatchCollect \/ BatchCancel
  \/ BatchFinish \/ FinalizeAlbum \/ ReviewApprove \/ ReviewRejectReason \/ PanelReviewApprove
  \/ PanelReviewReject \/ MediaEdit \/ MediaPatch \/ CbMediaToggle \/ MediaToggle
  \/ CbMediaDelete \/ MediaDelete \/ ApiMediaDelete \/ ReviewSwitch
  \/ \E t \in Uploaders : CreateMedia(t) \/ ReviewCommits(t) \/ PreviewChecks(t)
                        \/ PreviewSends(t) \/ PreviewCommits(t)

UploadsSpec == UploadsInit /\ [][UploadsNext]_upVars

-----------------------------------------------------------------------------
\* The plan's max_files holds: handlers that counted at the same time and the worker take
\* one file too many each, at most.  Not counted are the files that took their slot with
\* no look at the quota: an admin's album, an approval that ran over a rejection, a
\* rejected file whose status was written in the panel.
QuotaHolds == Cardinality(Occupying \ upOver) <= MaxFiles + Cardinality(Uploaders) - 1

\* A file's preview is in the channel once however often it is approved again,
\* unless two handlers were posting it at the same moment (a second approval
\* that read the queue before the first committed).
PreviewPostedOnce ==
  \A f \in Files : upStatus[f] # "deleted" => upPosts[f] <= 1 + upTwins[f]
=============================================================================
