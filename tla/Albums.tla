------------------------------- MODULE Albums -------------------------------
(***************************************************************************)
(* Albums: the parts of one Telegram media group arrive as updates of      *)
(* their own, are buffered in Redis (src/app/services/album_buffer.py,     *)
(* src/app/bot/handlers/albums.py) and made into one media by the worker   *)
(* once no part has come for a while (process_albums_once,                 *)
(* src/app/workers/main.py).  Several parts are handled at a time, each    *)
(* with one Redis command after the other.                                 *)
(***************************************************************************)
EXTENDS Naturals, Sequences, SequencesExt

CONSTANTS Groups,     \* the media groups
          Parts,      \* the parts, each <<group, number>>
          MaxAlbumTrouble \* bound: deaths, expiries and failures

ASSUME PartsOfGroups == MaxAlbumTrouble \in Nat /\ \A p \in Parts : p[1] \in Groups

VARIABLES alHandler,  \* [Parts -> how far album_part is]
          alData,     \* [Groups -> Seq(Parts)]: the list of buffered parts
          alMeta,     \* the groups whose hash exists
          alDue,      \* DUE_KEY: [Groups -> "no", "armed" or "due"]
          alTurn,     \* the turn of the worker
          alMedia,    \* the media created, each a sequence of parts
          alExcused,  \* history: parts lost, and why that is no fault of this code
          alTrouble   \* history: how much trouble there was

alVars == <<alHandler, alData, alMeta, alDue, alTurn, alMedia, alExcused, alTrouble>>

GroupOf(p) == p[1]

\* One turn: todo are the due keys it read, claimed is the group it took out, raw the
\* parts it read of it, albums what pop_due has so far.
NoAlbumTurn == [at |-> "idle", todo |-> {}, claimed |-> <<>>, raw |-> <<>>, albums |-> <<>>]

AlbumsTypeOK ==
  /\ alHandler \in [Parts -> {"new", "pushed", "meta", "handled", "dead"}]
  /\ alData \in [Groups -> Seq(Parts)]
  /\ alMeta \subseteq Groups
  /\ alDue \in [Groups -> {"no", "armed", "due"}]
  /\ alTurn \in [at : {"idle", "reading", "claimed", "read", "finalizing"}, todo : SUBSET Groups,
                 claimed : Seq(Groups), raw : Seq(Parts), albums : Seq(Seq(Parts))]
  /\ alMedia \in Seq(Seq(Parts))
  /\ alExcused \subseteq Parts
  /\ alTrouble \in 0..MaxAlbumTrouble

AlbumsInit ==
  /\ alHandler = [p \in Parts |-> "new"]
  /\ alData = [g \in Groups |-> <<>>] /\ alMeta = {}
  /\ alDue = [g \in Groups |-> "no"]
  /\ alTurn = NoAlbumTurn
  /\ alMedia = <<>> /\ alExcused = {} /\ alTrouble = 0

-----------------------------------------------------------------------------
(* album_part: AlbumBuffer.add, command by command. *)

PushPart(p) ==
  /\ alHandler[p] = "new"
  /\ alHandler' = [alHandler EXCEPT ![p] = "pushed"]
  /\ alData' = [alData EXCEPT ![GroupOf(p)] = Append(@, p)]
  /\ UNCHANGED <<alMeta, alDue, alTurn, alMedia, alExcused, alTrouble>>

WriteMeta(p) ==
  /\ alHandler[p] = "pushed"
  /\ alHandler' = [alHandler EXCEPT ![p] = "meta"]
  /\ alMeta' = alMeta \cup {GroupOf(p)}
  /\ UNCHANGED <<alData, alDue, alTurn, alMedia, alExcused, alTrouble>>

\* Every part arms the group anew: the debounce starts over.
ArmGroup(p) ==
  /\ alHandler[p] = "meta"
  /\ alHandler' = [alHandler EXCEPT ![p] = "handled"]
  /\ alDue' = [alDue EXCEPT ![GroupOf(p)] = "armed"]
  /\ UNCHANGED <<alData, alMeta, alTurn, alMedia, alExcused, alTrouble>>

\* The handler dies, or Redis does not answer it.
HandlerDies(p) ==
  /\ alHandler[p] \in {"pushed", "meta"}
  /\ alTrouble < MaxAlbumTrouble /\ alTrouble' = alTrouble + 1
  /\ alHandler' = [alHandler EXCEPT ![p] = "dead"]
  /\ alExcused' = alExcused \cup {p}
  /\ UNCHANGED <<alData, alMeta, alDue, alTurn, alMedia>>

DebounceElapses(g) ==
  /\ alDue[g] = "armed"
  /\ alDue' = [alDue EXCEPT ![g] = "due"]
  /\ UNCHANGED <<alHandler, alData, alMeta, alTurn, alMedia, alExcused, alTrouble>>

\* TTL passes with no part pushed and no turn of the worker.
BufferExpires(g) ==
  /\ alData[g] # <<>> /\ alTurn = NoAlbumTurn
  /\ alTrouble < MaxAlbumTrouble /\ alTrouble' = alTrouble + 1
  /\ alExcused' = alExcused \cup ToSet(alData[g])
  /\ alData' = [alData EXCEPT ![g] = <<>>]
  /\ alMeta' = alMeta \ {g}
  /\ UNCHANGED <<alHandler, alDue, alTurn, alMedia>>

-----------------------------------------------------------------------------
(* pop_due and process_albums_once. *)

ReadDueGroups ==
  /\ alTurn = NoAlbumTurn
  /\ \E g \in Groups : alDue[g] = "due"
  /\ alTurn' = [NoAlbumTurn EXCEPT !.at = "reading", !.todo = {g \in Groups : alDue[g] = "due"}]
  /\ UNCHANGED <<alHandler, alData, alMeta, alDue, alMedia, alExcused, alTrouble>>

\* ZREM, whatever has become of the score since the keys were read.
ClaimGroup(g) ==
  /\ alTurn.at = "reading" /\ g \in alTurn.todo
  /\ alDue' = [alDue EXCEPT ![g] = "no"]
  /\ alTurn' = IF alDue[g] = "no"
               THEN [alTurn EXCEPT !.todo = @ \ {g}]
               ELSE [alTurn EXCEPT !.at = "claimed", !.todo = @ \ {g}, !.claimed = <<g>>]
  /\ UNCHANGED <<alHandler, alData, alMeta, alMedia, alExcused, alTrouble>>

\* LRANGE and HGETALL.  Parts pushed after an earlier turn deleted the hash, and due
\* before their own is written, become a media of the platform without an uploader.
ReadGroup ==
  LET key == Head(alTurn.claimed) IN
  /\ alTurn.at = "claimed"
  /\ alTurn' = [alTurn EXCEPT !.at = "read", !.raw = alData[key]]
  /\ alExcused' = IF key \in alMeta THEN alExcused ELSE alExcused \cup ToSet(alData[key])
  /\ UNCHANGED <<alHandler, alData, alMeta, alDue, alMedia, alTrouble>>

\* DEL of both keys.  A part that was pushed since the list was read goes with them.
DropGroup ==
  LET key == Head(alTurn.claimed) IN
  /\ alTurn.at = "read"
  /\ alData' = [alData EXCEPT ![key] = <<>>]
  /\ alMeta' = alMeta \ {key}
  /\ alExcused' = alExcused \cup (ToSet(alData[key]) \ ToSet(alTurn.raw))
  /\ alTurn' = [alTurn EXCEPT !.at = "reading", !.claimed = <<>>, !.raw = <<>>,
                              !.albums = IF alTurn.raw = <<>> THEN @ ELSE Append(@, alTurn.raw)]
  /\ UNCHANGED <<alHandler, alDue, alMedia, alTrouble>>

AllPopped ==
  /\ alTurn.at = "reading" /\ alTurn.todo = {}
  /\ alTurn' = IF alTurn.albums = <<>> THEN NoAlbumTurn ELSE [alTurn EXCEPT !.at = "finalizing"]
  /\ UNCHANGED <<alHandler, alData, alMeta, alDue, alMedia, alExcused, alTrouble>>

RestOfAlbums == IF Len(alTurn.albums) = 1 THEN NoAlbumTurn ELSE [alTurn EXCEPT !.albums = Tail(@)]

\* _finalize_album: one media of all the parts, approved or pending review.
FinalizeAlbum ==
  /\ alTurn.at = "finalizing"
  /\ alMedia' = Append(alMedia, Head(alTurn.albums))
  /\ alTurn' = RestOfAlbums
  /\ UNCHANGED <<alHandler, alData, alMeta, alDue, alExcused, alTrouble>>

\* Mutant: the loop over the groups ends at the first that fails.
AlbumRefused_EndsLoop ==
  /\ alTurn.at = "finalizing"
  /\ alTrouble < MaxAlbumTrouble /\ alTrouble' = alTrouble + 1
  /\ alExcused' = alExcused \cup ToSet(Head(alTurn.albums))
  /\ alTurn' = NoAlbumTurn
  /\ UNCHANGED <<alHandler, alData, alMeta, alDue, alMedia>>

\* Uploads are switched off, the uploader's plan is full, the tenant has no bot, or
\* an exception: this album is dropped, the others go on.
AlbumRefused ==
  /\ alTurn.at = "finalizing"
  /\ alTrouble < MaxAlbumTrouble /\ alTrouble' = alTrouble + 1
  /\ alExcused' = alExcused \cup ToSet(Head(alTurn.albums))
  /\ alTurn' = RestOfAlbums
  /\ UNCHANGED <<alHandler, alData, alMeta, alDue, alMedia>>

InHands == ToSet(alTurn.raw) \cup UNION {ToSet(a) : a \in ToSet(alTurn.albums)}

\* The worker dies with the groups it claimed.  Those not read yet stay in their
\* lists, with no key to find them by.
FinalizerDies ==
  /\ alTurn # NoAlbumTurn
  /\ alTrouble < MaxAlbumTrouble /\ alTrouble' = alTrouble + 1
  /\ alExcused' = alExcused \cup InHands
       \cup UNION {ToSet(alData[g]) : g \in ToSet(alTurn.claimed)}
  /\ alTurn' = NoAlbumTurn
  /\ UNCHANGED <<alHandler, alData, alMeta, alDue, alMedia>>

-----------------------------------------------------------------------------
HandlerStep(p) == PushPart(p) \/ WriteMeta(p) \/ ArmGroup(p)

AlbumTurnStep ==
  \/ ReadDueGroups \/ ReadGroup \/ DropGroup \/ AllPopped \/ FinalizeAlbum
  \/ \E g \in Groups : ClaimGroup(g)

AlbumsNext ==
  \/ \E p \in Parts : HandlerStep(p) \/ HandlerDies(p)
  \/ \E g \in Groups : DebounceElapses(g) \/ BufferExpires(g)
  \/ AlbumTurnStep \/ AlbumRefused \/ FinalizerDies

\* Once a handler has begun it goes on; time passes; the worker's loop goes on.
AlbumsFairness ==
  /\ \A p \in Parts : WF_alVars(WriteMeta(p) \/ ArmGroup(p))
  /\ \A g \in Groups : WF_alVars(DebounceElapses(g))
  /\ WF_alVars(AlbumTurnStep)

AlbumsSpec == AlbumsInit /\ [][AlbumsNext]_alVars /\ AlbumsFairness

-----------------------------------------------------------------------------
UsedIn(p) == {i \in DOMAIN alMedia : p \in ToSet(alMedia[i])}

\* A part that was taken in waits in its group's list, is in the worker's hands or in a
\* media, unless it is excused as below; and it is never in two media.
PartsAreKept ==
  \A p \in Parts :
    /\ \A i, j \in UsedIn(p) : i = j
    /\ alHandler[p] # "new" =>
         p \in alExcused \cup ToSet(alData[GroupOf(p)]) \cup InHands \/ UsedIn(p) # {}

\* A part of an album becomes part of exactly one media and, once it is part of it,
\* of no other.  What is excused: the death of the handler or of the worker, the
\* buffer's time to live, a refused album, a part that was pushed between the
\* worker's reading and deleting of the list, and an album read without its hash.
EveryPartIsUsedOnce ==
  \A p \in Parts :
    (alHandler[p] # "new") ~> []((\E i \in DOMAIN alMedia : UsedIn(p) = {i}) \/ p \in alExcused)
=============================================================================
