------------------------------ MODULE MCWorker ------------------------------
(***************************************************************************)
(* The jobs of the worker's loop (main, src/app/workers/main.py), one      *)
(* scene each.  They share no state but the database's tenants and the     *)
(* process, and every module has its own deaths of it, so that their       *)
(* product has no behaviour that a scene does not have.                    *)
(***************************************************************************)
EXTENDS Broadcast, AutoDelete, Albums

CONSTANTS s, t, g, h \* tenants and media groups

VARIABLE scene \* which job is looked at

DeletionsOfTwo == {<<s, 1>>, <<s, 2>>, <<t, 1>>}
PartsOfTwo == {<<g, 1>>, <<g, 2>>, <<h, 1>>}

Scenes == {"broadcast", "autodelete", "albums"}

WorkerInit ==
  /\ scene \in Scenes
  /\ BroadcastInit /\ AutoDeleteInit /\ AlbumsInit

WorkerNext ==
  \/ scene = "broadcast" /\ BroadcastNext /\ UNCHANGED <<scene, adVars, alVars>>
  \/ scene = "autodelete" /\ AutoDeleteNext /\ UNCHANGED <<scene, bcVars, alVars>>
  \/ scene = "albums" /\ AlbumsNext /\ UNCHANGED <<scene, bcVars, adVars>>

WorkerSpec ==
  /\ WorkerInit /\ [][WorkerNext]_<<scene, bcVars, adVars, alVars>>
  /\ BroadcastFairness /\ AutoDeleteFairness /\ AlbumsFairness
=============================================================================
