--------------------------- MODULE BackgroundViews ---------------------------
(***************************************************************************)
(* What the application computes in the background beside the files of the *)
(* dashboard: the models of a container (CatalogView), the images that the *)
(* views ask the pool for (PreviewWorkers), and the preview that load      *)
(* finds or makes for each (PreviewCache).  Catalog and pool share nothing *)
(* and the pool only has load's answer, so a behaviour follows one of      *)
(* them.                                                                   *)
(***************************************************************************)
EXTENDS PreviewCache, Sequences

CONSTANTS
    Directories, MaxSets, \* those of CatalogView
    Responses             \* those of PreviewWorkers

ASSUME ViewsAssumption ==
    /\ None \notin Directories /\ MaxSets \in Nat
    /\ Pool # {} /\ None \notin Responses

VARIABLES
    follows,  \* what the behaviour follows
    directory, groups, scanning, spinning, hasSnapshot, pending, settling, workers, sets,
    queue, response, job, stopping, asleep, exited

Catalog == INSTANCE CatalogView
Images == INSTANCE PreviewWorkers

catalogVars == <<directory, groups, scanning, spinning, hasSnapshot, pending, settling,
                 workers, sets>>
poolVars == <<queue, response, job, stopping, asleep, exited>>
allButSource == <<revised, cache, load, prunes, loads>>

Unused == source = 1 /\ \A r \in Revisions : json[r] = NoRecord

ViewsInit ==
    /\ Catalog!Init /\ Images!Init /\ Init
    /\ \/ follows = "previews"
       \/ follows \in {"models", "images"} /\ Unused

PreviewsNext == follows = "previews" /\ Next /\ UNCHANGED <<follows, catalogVars, poolVars>>
CatalogNext == follows = "models" /\ Catalog!Next /\ UNCHANGED <<follows, vars, poolVars>>
ImagesNext == follows = "images" /\ Images!Next /\ UNCHANGED <<follows, catalogVars, allButSource>>

(* The threads of a pool that is followed run. *)
ViewsFairness ==
    /\ Catalog!Fairness
    /\ \A t \in Pool : WF_<<poolVars, source>>(follows = "images" /\ Images!Work(t))

ViewsSpec ==
    /\ ViewsInit
    /\ [][PreviewsNext \/ CatalogNext \/ ImagesNext]_<<follows, vars, catalogVars, poolVars>>
    /\ ViewsFairness

---------------------------------------------------------------------------
(* The models shown are those of the directory set last or none, never those
   of a scan that was cancelled, and in the end they are there. *)
CatalogServes == Catalog!Serves

(* Every response finishes, cancelled or not, and the join of shutdown returns:
   no worker sleeps through the last job or the end. *)
PoolDrains == Images!PoolDrains
=============================================================================
