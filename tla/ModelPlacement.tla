--------------------------- MODULE ModelPlacement ---------------------------
(***************************************************************************)
(* ModelStore: moving a model and its companion files into the folder of a *)
(* model type, and resolving a reference to a place that it had before.    *)
(*                                                                         *)
(* place works under the lock of the Models area: it chooses a free name,  *)
(* saves the journal .model-paths.json with the new aliases, then renames  *)
(* file by file and undoes that when one fails.  Listing and resolving     *)
(* take no lock; a placer may crash between any two steps.                 *)
(***************************************************************************)
EXTENDS Naturals, FiniteSetsExt

CONSTANTS
    Models,     \* models by their bytes
    Placers,    \* processes that call place or organize
    Types,      \* the model types, each with its category folder
    Root,       \* no category: the Models directory itself
    NoModel,    \* nothing is there
    NoPlacer,   \* the lock is free
    NoPlace,    \* no alias
    MaxName,    \* bound: a name and its alternatives "name (1)" .. "name (n)"
    MaxHops,    \* aliases that resolve follows
    MaxCrashes  \* bound: crashes in one behaviour

Places == [category: Types \cup {Root}, name: 0 .. MaxName]

ASSUME PlacementAssumption ==
    /\ MaxName \in Nat /\ MaxHops \in Nat /\ MaxCrashes \in Nat
    /\ Root \notin Types /\ NoModel \notin Models
    /\ NoPlacer \notin Placers /\ NoPlace \notin Places

In(type, name) == [category |-> type, name |-> name]

VARIABLES
    weights,   \* the model file or package at each place
    companion, \* its companion files (metadata, previews), as one
    aliases,   \* the journal: from an earlier place to the next one
    lock,      \* the placer that holds .society-models.lock
    placer,    \* each placer's progress
    reference, \* one reference to a model that entries handed out, any one
    trail,     \* the places where that model has been since
    retaken,   \* who has put another model there first: a move or an import
    torn,      \* a crash or a second failure interrupted a move
    crashes

files == <<weights, companion>>
history == <<reference, trail, retaken, torn, crashes>>
vars == <<weights, companion, aliases, lock, placer, reference, trail, retaken, torn, crashes>>

Reference == [model: Models \cup {NoModel}, place: Places \cup {NoPlace}]
NoReference == [model |-> NoModel, place |-> NoPlace]

Placer == [pc: {"idle", "plan", "journal", "weights", "companion", "undo", "restore"},
           source: Places \cup {NoPlace}, destination: Places \cup {NoPlace},
           saved: [Places -> Places \cup {NoPlace}]]

NoAliases == [s \in Places |-> NoPlace]
Idle == [pc |-> "idle", source |-> NoPlace, destination |-> NoPlace, saved |-> NoAliases]

At(p, pc) == placer[p].pc = pc
Goto(p, pc) == placer' = [placer EXCEPT ![p].pc = pc]
Return(p) == placer' = [placer EXCEPT ![p] = Idle] /\ lock' = NoPlacer

\* The file moves there, which rename refuses when something is there.
Renamed(slot, from, to) == [slot EXCEPT ![to] = slot[from], ![from] = NoModel]
CanRename(slot, from, to) == slot[from] # NoModel /\ slot[to] = NoModel

---------------------------------------------------------------------------
(* place                                                                   *)

\* tryLock(5000): a placer that waits in vain returns.
Lock(p) ==
    /\ At(p, "idle") /\ lock = NoPlacer
    /\ lock' = p /\ Goto(p, "plan")
    /\ UNCHANGED <<aliases, files, history>>

(* "name", then "name (1)" and so on, but never a second "(n)" after a first:
   the bound on names. *)
Alternatives(name) == IF name = 0 THEN 0 .. MaxName ELSE {name}
Free(s, type) ==
    {name \in Alternatives(s.name) :
        /\ weights[In(type, name)] = NoModel
        /\ companion[s] # NoModel => companion[In(type, name)] = NoModel}

\* The first candidate at which neither the model nor a companion collides.
Plan(p) ==
    /\ At(p, "plan")
    /\ \/ \E s \in Places, type \in Types :
            /\ weights[s] # NoModel /\ s.category # type
            /\ Free(s, type) # {}
            /\ placer' = [placer EXCEPT ![p] =
                    [pc |-> "journal", source |-> s,
                     destination |-> In(type, Min(Free(s, type))), saved |-> aliases]]
            /\ UNCHANGED lock
       \/ Return(p)
    /\ UNCHANGED <<aliases, files, history>>

JournalOf(p) == [placer[p].saved EXCEPT ![placer[p].source] = placer[p].destination]

SaveJournal(p) ==
    /\ At(p, "journal")
    /\ \/ aliases' = JournalOf(p) /\ Goto(p, "weights") /\ UNCHANGED lock
       \/ Return(p) /\ UNCHANGED aliases
    /\ UNCHANGED <<files, history>>

\* What it means for the reference that a model comes to a place.
Arrives(m, s, how) ==
    /\ trail' = IF m = reference.model THEN trail \cup {s} ELSE trail
    /\ retaken' = IF m # reference.model /\ s \in trail /\ retaken = "no" THEN how
                                                                    ELSE retaken

\* The model first; a failure before anything has moved only restores.
MoveWeights(p) ==
    /\ At(p, "weights")
    /\ \/ /\ CanRename(weights, placer[p].source, placer[p].destination)
          /\ weights' = Renamed(weights, placer[p].source, placer[p].destination)
          /\ Arrives(weights[placer[p].source], placer[p].destination, "moved")
          /\ IF companion[placer[p].source] = NoModel THEN Return(p)
                                        ELSE Goto(p, "companion") /\ UNCHANGED lock
       \/ Goto(p, "restore") /\ UNCHANGED <<weights, trail, retaken, lock>>
    /\ UNCHANGED <<aliases, companion, reference, torn, crashes>>

\* A name that ends in a bug is a mutant of the definition after it.
MoveCompanionNotUndone(p) ==
    /\ At(p, "companion")
    /\ \/ /\ CanRename(companion, placer[p].source, placer[p].destination)
          /\ companion' = Renamed(companion, placer[p].source, placer[p].destination)
       \/ UNCHANGED companion
    /\ Return(p)
    /\ UNCHANGED <<aliases, weights, history>>

MoveCompanion(p) ==
    /\ At(p, "companion")
    /\ \/ /\ CanRename(companion, placer[p].source, placer[p].destination)
          /\ companion' = Renamed(companion, placer[p].source, placer[p].destination)
          /\ Return(p)
       \/ Goto(p, "undo") /\ UNCHANGED <<companion, lock>>
    /\ UNCHANGED <<aliases, weights, history>>

UndoAlwaysRestores(p) ==
    /\ At(p, "undo")
    /\ Goto(p, "restore")
    /\ UNCHANGED <<aliases, lock, files, history>>

\* What has moved goes back, unless its old place is taken or the drive fails.
Undo(p) ==
    /\ At(p, "undo")
    /\ \/ /\ CanRename(weights, placer[p].destination, placer[p].source)
          /\ weights' = Renamed(weights, placer[p].destination, placer[p].source)
          /\ Arrives(weights[placer[p].destination], placer[p].source, "moved")
          /\ Goto(p, "restore")
          /\ UNCHANGED <<lock, torn>>
       \/ torn' = TRUE /\ Return(p) /\ UNCHANGED <<weights, trail, retaken>>
    /\ UNCHANGED <<aliases, companion, reference, crashes>>

\* Only after a complete undoing; a failure to write it is ignored.
Restore(p) ==
    /\ At(p, "restore")
    /\ aliases' \in {placer[p].saved, aliases}
    /\ Return(p)
    /\ UNCHANGED <<files, history>>

---------------------------------------------------------------------------
(* Everybody else.                                                         *)

Crash(p) ==
    /\ ~At(p, "idle") /\ crashes < MaxCrashes
    /\ crashes' = crashes + 1 /\ torn' = TRUE
    /\ Return(p)
    /\ UNCHANGED <<aliases, files, reference, trail, retaken>>

\* The user puts a model, with or without companions, at a free place.
Import(m, s) ==
    /\ \A other \in Places : weights[other] # m
    /\ weights[s] = NoModel
    /\ weights' = [weights EXCEPT ![s] = m]
    /\ companion' \in IF companion[s] = NoModel
                      THEN {companion, [companion EXCEPT ![s] = m]} ELSE {companion}
    /\ Arrives(m, s, "imported")
    /\ UNCHANGED <<aliases, lock, placer, reference, torn, crashes>>

(* entries lists a model and an application keeps the reference.  A model
   that is about to be moved back is not listed: see the README. *)
List(s) ==
    /\ reference = NoReference /\ weights[s] # NoModel
    /\ \A p \in Placers : At(p, "companion") \/ At(p, "undo")
                            => placer[p].destination # s
    /\ reference' = [model |-> weights[s], place |-> s]
    /\ trail' = {s}
    /\ UNCHANGED <<files, aliases, lock, placer, retaken, torn, crashes>>

(* resolve: the place itself when something is there, its alias otherwise.
   Going round a cycle finds nothing, as the set of visited places shows. *)
Resolve(s) ==
    LET at[hops \in 0 .. MaxHops] ==
          IF hops = 0 THEN s
          ELSE LET q == at[hops - 1]
               IN IF weights[q] # NoModel \/ aliases[q] = NoPlace THEN q ELSE aliases[q]
    IN at[MaxHops]

Init ==
    /\ weights = [s \in Places |-> NoModel]
    /\ companion = [s \in Places |-> NoModel]
    /\ aliases = NoAliases
    /\ lock = NoPlacer
    /\ placer = [p \in Placers |-> Idle]
    /\ reference = NoReference /\ trail = {} /\ retaken = "no"
    /\ torn = FALSE /\ crashes = 0

Step(p) ==
    Lock(p) \/ Plan(p) \/ SaveJournal(p) \/ MoveWeights(p) \/ MoveCompanion(p)
        \/ Undo(p) \/ Restore(p) \/ Crash(p)

Next ==
    \/ \E p \in Placers : Step(p)
    \/ \E m \in Models, s \in Places : Import(m, s)
    \/ \E s \in Places : List(s)

Spec == Init /\ [][Next]_vars

---------------------------------------------------------------------------
(* Properties.                                                             *)

\* Every variable stays in its type.
TypeOK ==
    /\ weights \in [Places -> Models \cup {NoModel}]
    /\ companion \in [Places -> Models \cup {NoModel}]
    /\ aliases \in [Places -> Places \cup {NoPlace}]
    /\ lock \in Placers \cup {NoPlacer}
    /\ placer \in [Placers -> Placer]
    /\ reference \in Reference
    /\ trail \in SUBSET Places
    /\ retaken \in {"no", "moved", "imported"}
    /\ torn \in BOOLEAN /\ crashes \in 0 .. MaxCrashes

\* The reference leads to its model.
Follows == weights[Resolve(reference.place)] = reference.model

(* A reference leads to its model in every state, also between the journal
   and the rename, after a failed move and after a crash at any point, as long
   as no other model has come to a place where this one was. *)
ReferencesFollow == reference # NoReference /\ retaken = "no" => Follows

(* A move that failed has taken the model back to its companions, and one that
   succeeded has taken them along (place, when nothing crashed). *)
CompanionsFollow ==
    lock = NoPlacer /\ ~torn =>
        \A s \in Places : companion[s] # NoModel => weights[s] = companion[s]

(* SharedStorage.cpp:434, "Classification changes the location, not the bytes
   or the original reference contract": no sequence of moves alone makes a
   reference lead to another model. *)
MovesKeepReferences == reference # NoReference /\ retaken # "imported" => Follows
=============================================================================
