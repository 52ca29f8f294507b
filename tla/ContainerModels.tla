-------------------------- MODULE ContainerModels --------------------------
(***************************************************************************)
(* The models of a container: placers move them into the folders of their  *)
(* types (ModelPlacement), and a generator and the catalog view read which *)
(* there are (ModelInventory).  What readers see of a move is a change of  *)
(* files to them, which ModelInventory has at any time, so a behaviour     *)
(* follows the one or the other.                                           *)
(***************************************************************************)
EXTENDS ModelPlacement, Sequences

CONSTANTS
    Files, Initial, Folders, None, MaxChanges \* those of ModelInventory

VARIABLES
    follows,  \* whom the behaviour follows
    native, host, catalog, authority, call, held, answer, touched, changes

Inventory == INSTANCE ModelInventory WITH Types <- Folders

ASSUME InventoryAssumption ==
    /\ \A f \in Files :
          /\ f.kind \in {"weights", "index", "adapter", "config", "preview"}
          /\ f.kind = "index" => f.dir # <<>>
          /\ f.dir \in Seq({f.dir[i] : i \in DOMAIN f.dir})
    /\ Initial \subseteq SUBSET Files
    /\ None \notin Files /\ MaxChanges \in Nat

inventory == <<native, host, catalog, authority, call, held, answer, touched, changes>>

\* No files: what placers do is not followed by readers.
Unread ==
    /\ native = [f \in Files |-> None] /\ host = native /\ catalog = None /\ authority = TRUE
    /\ call = Inventory!Idle /\ held = Inventory!NoReference
    /\ answer = "none" /\ touched = FALSE /\ changes = 0

ContainerInit ==
    /\ Init
    /\ \/ follows = "placers" /\ Unread
       \/ follows = "readers" /\ Inventory!Init

PlacersNext == follows = "placers" /\ Next /\ UNCHANGED <<follows, inventory>>
ReadersNext == follows = "readers" /\ Inventory!Next /\ UNCHANGED <<follows, vars>>

ContainerSpec == ContainerInit /\ [][PlacersNext \/ ReadersNext]_<<follows, vars, inventory>>
---------------------------------------------------------------------------
(* "Individual weights inside the package are not redundantly listed"
   (README.md:217), and none is forgotten: in either list every weights file
   belongs to exactly one row, whatever packages lie within each other. *)
RowsPartition == Inventory!RowsPartition

(* What a generator may be offered the user finds in the catalog view: all of
   it that is indexed, and new files directly in a type directory. *)
OfferedIsShown == Inventory!OfferedIsShown

(* References to "deleted, redirected, or modified models are rejected"
   (README.md:219): a reference that resolves stands for the files it was
   taken for, as far as the versions of the catalog tell. *)
ResolvedUnchanged == Inventory!ResolvedUnchanged

(* The owner of the files is never refused a model that it was just offered:
   only a change since the selection began is a reason. *)
RefusalHasReason == Inventory!RefusalHasReason
=============================================================================
