---------------------------- MODULE ManagedFiles ----------------------------
(***************************************************************************)
(* FileOperations changes native files; FileRepository keeps an object for *)
(* each of them, and must be told.  The calls of perform run in several    *)
(* threads, beside the intake (reconcile) of another process and a user    *)
(* who changes the same files in a file manager.                           *)
(*                                                                         *)
(* A place is a native path, an item one regular file.  Two locks: the     *)
(* operation lock of perform, which deletion does not take, and the lease  *)
(* of the repository, which the second half of reconcile does not take.    *)
(***************************************************************************)
EXTENDS Naturals, FiniteSets

CONSTANTS
    Files,     \* places in the section Files
    Deleted,   \* places in the section Deleted, which is walked first
    Callers,   \* threads that call FileOperations::perform
    Intake,    \* the thread that calls FileRepository::reconcile
    None,
    MaxNodes,  \* bound: native files ever made
    MaxKeys,   \* bound: objects ever imported
    MaxCalls,  \* bound: calls of perform
    MaxEvents  \* bound: the user's changes, crashes and failed projections

Places == Files \cup Deleted
Threads == Callers \cup {Intake}
Nodes == 1 .. MaxNodes
Keys == 1 .. MaxKeys

File == [node : Nat, doc : Nat, stamp : Nat]

ASSUME FilesAssumption ==
    /\ Files # {} /\ Deleted # {} /\ Files \cap Deleted = {}
    /\ None \notin Places \cup Threads \cup File /\ Intake \notin Callers
    /\ MaxNodes \in Nat \ {0} \* there is a file at first
    /\ MaxKeys \in Nat /\ MaxCalls \in Nat /\ MaxEvents \in Nat

Section(p) == IF p \in Deleted THEN "deleted" ELSE "files"

VARIABLES
    file,    \* the native file at each place, or None
    hidden,  \* each thread's staged copy and recovery name
    left,    \* hidden files that nobody will remove any more
    object,  \* the object store with its ontology projection
    lock,    \* operation.lock: its owner or None
    lease,   \* the lease "operations" of the repository
    step,    \* each thread's program counter
    call,    \* what each thread works on
    page,    \* the rows of the index that reconcile has read
    todo,    \* the places that its walk has still to meet
    nodes, calls, events, \* counters, for the bounds
    docs,    \* ghost: documents nobody has removed for good
    calm     \* ghost: reconcile has been alone since it began

native == <<file, hidden, left, docs, nodes>>
scan == <<page, todo>>
vars == <<native, object, lock, lease, step, call, scan, calls, events, calm>>

(* Files may be a volume of its own (a macOS disk image): a rename between
   sections may fail with EXDEV, within one it does not. *)
MayCross(p, q) == Section(p) # Section(q)

(* A file has a native identity, a change stamp (ctime), and the document,
   which copies that replace their original inherit. *)
NewFile(n, d) == [node |-> n, doc |-> d, stamp |-> 0]
Renamed(f) == [f EXCEPT !.stamp = @ + 1]
Stamp(f) == <<f.node, f.stamp>>

NoHidden == [staged |-> None, recovery |-> None]
NoObject == [state |-> "unused", path |-> None, catalogKey |-> None,
             stamp |-> None, version |-> 0]
NoCall == [act |-> "none", from |-> None, to |-> None, at |-> None,
           then |-> "idle", seen |-> None, row |-> None, key |-> None,
           moved |-> None]

Live(k) == object[k].state = "live"
LookupPath(p) == {k \in Keys : Live(k) /\ object[k].path = p}
CatalogKey(p, f) == <<Section(p), f.node>> \* FileCatalog: one key per file
Row(k) == [key |-> k, path |-> object[k].path, version |-> object[k].version]

Goto(t, s) == step' = [step EXCEPT ![t] = s]
Shared == <<calls, scan>> \* what only Begin and the intake's own steps change

\* The thread has returned: what it held and staged goes.  moved is a ghost.
Leave(t, result) ==
    /\ Goto(t, "idle")
    /\ call' = [call EXCEPT ![t] =
          [NoCall EXCEPT !.moved = IF result = "done" THEN call[t].key ELSE None]]
    /\ lock' = IF lock = t THEN None ELSE lock
    /\ lease' = IF lease = t THEN None ELSE lease
Return(t, result) ==
    /\ Leave(t, result)
    /\ hidden' = [hidden EXCEPT ![t].staged = None]
    /\ UNCHANGED <<file, left, docs, nodes>>
Fail(t) == Return(t, "failed") /\ UNCHANGED object
Succeed(t) == Return(t, "done")

---------------------------------------------------------------------------
(* FileRepository                                                          *)

(* observe, first half: the resident file, its catalog key and its stamp. *)
ObserveLook(t) ==
    /\ step[t] = "look" /\ lease \in {None, t}
    /\ \/ file[call[t].at] = None /\ Fail(t)
       \/ /\ file[call[t].at] # None
          /\ lease' = t
          /\ call' = [call EXCEPT ![t].seen = file[call[t].at]]
          /\ Goto(t, "write")
          /\ UNCHANGED <<native, object, lock>>

\* The object that was where this file came from, within the section.
Previous(p, f) ==
    {k \in Keys : /\ Live(k) /\ object[k].catalogKey = CatalogKey(p, f)
                  /\ Section(object[k].path) = Section(p)}
Recorded(k, p, f) ==
    [state |-> "live", path |-> p, catalogKey |-> CatalogKey(p, f),
     stamp |-> Stamp(f),
     version |-> IF object[k].path = p /\ object[k].stamp = Stamp(f)
                 THEN object[k].version ELSE object[k].version + 1]
ObservedIgnoringStamp(k, p, f) ==
    [Recorded(k, p, f) EXCEPT !.stamp = IF Live(k) THEN object[k].stamp ELSE @]
Observed(k, p, f) == Recorded(k, p, f)

\* observe has recorded its file: perform and reconcile go on.
ObserveDone(t) ==
    LET next == call[t].then IN
    IF next = "done" THEN Succeed(t)
    ELSE /\ Goto(t, next)
         /\ lease' = None
         /\ call' = [call EXCEPT ![t].at = None, ![t].then = "idle", ![t].seen = None]
         /\ UNCHANGED <<native, lock>>

\* observe, second half: move, import or revise, and project the facts.
ObserveWrite(t) ==
    LET p == call[t].at
        f == call[t].seen
        here == LookupPath(p)
        before == IF here = {} THEN Previous(p, f) ELSE here
        unused == {k \in Keys : object[k].state = "unused"}
        k == CHOOSE k \in (IF before = {} THEN unused ELSE before) : TRUE
        refused ==
            \/ before = {} /\ unused = {}                    \* the bound MaxKeys
            \/ Cardinality(before) > 1                       \* ambiguous
            \/ here = {} /\ \E b \in before : file[object[b].path] # None
            \/ file[p] # f /\ (before # {} => object[k].stamp # Stamp(f))
    IN
    /\ step[t] = "write"
    /\ \/ refused /\ Fail(t) /\ UNCHANGED events
       \/ /\ ~refused
          /\ object' = [object EXCEPT ![k] = Observed(k, p, f)]
          /\ ObserveDone(t) /\ UNCHANGED events
       \/ \* A conflicting edit of the ontology fails the projection.
          /\ ~refused /\ events < MaxEvents /\ events' = events + 1
          /\ object' = [object EXCEPT
                ![k] = [Observed(k, p, f) EXCEPT !.catalogKey = object[k].catalogKey]]
          /\ Return(t, "failed")

(* relocated, under the lease: one row of the index is under from.  Without
   one there is nothing to do; otherwise the move must be visible. *)
RelocateLook(t) ==
    LET c == call[t] IN
    /\ step[t] = "relocate" /\ lease \in {None, t}
    /\ \/ LookupPath(c.from) = {} /\ Succeed(t) /\ UNCHANGED object
       \/ /\ LookupPath(c.from) # {}
          /\ file[c.to] = None \/ file[c.from] # None
          /\ Fail(t)
       \/ /\ file[c.to] # None /\ file[c.from] = None
          /\ \E k \in LookupPath(c.from) :
                call' = [call EXCEPT ![t].row = Row(k)]
          /\ lease' = t
          /\ Goto(t, "moveObject")
          /\ UNCHANGED <<native, object, lock>>

\* The optimistic check of every change of the store.
Unchanged(row) == Live(row.key) /\ object[row.key].version = row.version
ChangedUnnoticed(row) == Live(row.key)
Current(row) == Unchanged(row)

MoveObjectNowhere(t) ==
    step[t] = "moveObject" /\ Succeed(t) /\ UNCHANGED object
\* store->move; unless the file went to Deleted its contents are observed.
MoveObject(t) ==
    LET c == call[t]
        k == c.row.key
        refused == ~Current(c.row) \/ LookupPath(c.to) # {}
        moved == [object[k] EXCEPT !.path = c.to, !.version = @ + 1]
    IN
    /\ step[t] = "moveObject"
    /\ \/ (refused \/ (c.act # "trash" /\ file[c.to] = None)) /\ Fail(t)
       \/ /\ ~refused /\ c.act = "trash"
          /\ object' = [object EXCEPT ![k] = moved]
          /\ Succeed(t)
       \/ /\ ~refused /\ c.act # "trash" /\ file[c.to] # None
          /\ object' = [object EXCEPT ![k] =
                [moved EXCEPT !.stamp = Stamp(file[c.to])]]
          /\ call' = [call EXCEPT ![t].at = c.to, ![t].then = "done"]
          /\ Goto(t, "look")
          /\ UNCHANGED <<native, lock, lease>>

\* removed, under the lease.
RemovedLook(t) ==
    LET p == call[t].from IN
    /\ step[t] = "removed" /\ lease \in {None, t}
    /\ \/ LookupPath(p) = {} /\ Succeed(t) /\ UNCHANGED object
       \/ LookupPath(p) # {} /\ file[p] # None /\ Fail(t)
       \/ /\ file[p] = None
          /\ \E k \in LookupPath(p) : call' = [call EXCEPT ![t].row = Row(k)]
          /\ lease' = t
          /\ Goto(t, "erase")
          /\ UNCHANGED <<native, object, lock>>

Tombstone(row) ==
    object' = [object EXCEPT ![row.key].state = "tombstone",
                             ![row.key].version = @ + 1]

RemovedErase(t) ==
    /\ step[t] = "erase"
    /\ \/ ~Current(call[t].row) /\ Fail(t)
       \/ Current(call[t].row) /\ Tombstone(call[t].row) /\ Succeed(t)

\* The lease is waited for at most thirty seconds.
LeaseTimeout(t) ==
    /\ step[t] \in {"look", "relocate", "removed"} /\ lease \notin {None, t}
    /\ Fail(t)

Repository(t) ==
    /\ \/ LeaseTimeout(t) /\ UNCHANGED events
       \/ ObserveLook(t) /\ UNCHANGED events
       \/ ObserveWrite(t)
       \/ (RelocateLook(t) \/ MoveObject(t)) /\ UNCHANGED events
       \/ (RemovedLook(t) \/ RemovedErase(t)) /\ UNCHANGED events
    /\ UNCHANGED Shared

---------------------------------------------------------------------------
(* reconcile: walk and observe, then tombstone what is not found.          *)

ReconcileBegin ==
    /\ step[Intake] = "idle"
    /\ todo' = Places /\ page' = {}
    /\ Goto(Intake, "walk")
    /\ UNCHANGED <<native, object, lock, lease, call, calls, events>>

\* Section by section; the order within a directory is any.
Walk ==
    /\ step[Intake] = "walk"
    /\ \E p \in (IF todo \cap Deleted # {} THEN todo \cap Deleted ELSE todo) :
         /\ todo' = todo \ {p}
         /\ \/ file[p] = None /\ UNCHANGED <<step, call>>
            \/ /\ file[p] # None
               /\ call' = [call EXCEPT ![Intake].at = p, ![Intake].then = "walk"]
               /\ Goto(Intake, "look")
    /\ UNCHANGED <<native, object, lock, lease, page, calls, events>>

Index == {Row(k) : k \in {j \in Keys : Live(j)}}
ReadIndex ==
    /\ step[Intake] = "walk" /\ todo = {}
    /\ page' = Index
    /\ Goto(Intake, "sweep")
    /\ UNCHANGED <<native, object, lock, lease, call, todo, calls, events>>

SweepLook ==
    /\ step[Intake] = "sweep"
    /\ \E row \in page :
         /\ page' = page \ {row}
         /\ \/ file[row.path] # None /\ UNCHANGED <<step, call>>
            \/ /\ file[row.path] = None
               /\ call' = [call EXCEPT ![Intake].row = row]
               /\ Goto(Intake, "doom")
    /\ UNCHANGED <<native, object, lock, lease, todo, calls, events>>

\* erase with the version that the page had; the lease is not held.
SweepErase ==
    /\ step[Intake] = "doom"
    /\ \/ ~Current(call[Intake].row) /\ Fail(Intake)
       \/ /\ Current(call[Intake].row)
          /\ Tombstone(call[Intake].row)
          /\ Goto(Intake, "sweep")
          /\ call' = [call EXCEPT ![Intake].row = None]
          /\ UNCHANGED <<native, lock, lease>>
    /\ UNCHANGED <<Shared, events>>

ReconcileEnd ==
    /\ step[Intake] = "sweep" /\ page = {}
    /\ Succeed(Intake)
    /\ UNCHANGED <<object, Shared, events>>

Reconcile ==
    /\ \/ ReconcileBegin \/ Walk \/ ReadIndex \/ SweepLook \/ SweepErase
       \/ ReconcileEnd \/ Repository(Intake)
    /\ calm' = ((calm \/ step[Intake] = "idle") /\ step'[Intake] # "idle")

---------------------------------------------------------------------------
(* FileOperations::perform                                                 *)

Begin(t, act, from, to, at, then, first) ==
    /\ step[t] = "idle" /\ calls < MaxCalls
    /\ calls' = calls + 1
    /\ call' = [call EXCEPT ![t] = [NoCall EXCEPT
          !.act = act, !.from = from, !.to = to, !.at = at, !.then = then]]
    /\ Goto(t, first)
    /\ UNCHANGED <<native, object, lock, lease, scan, events>>

Free(p) == file[p] = None \* uniquePath goes on to a name that is free
(* Inputs: what goes to Deleted goes there by Trash or by the user.
   The source is captured before a move or a copy; an import has its source
   outside; deletion depends on no capture. *)
BeginMove(t, p, q) == /\ file[p] # None /\ p # q /\ q \in Files
                      /\ Begin(t, "move", p, q, p, "publish", "look")
BeginDuplicate(t, p, q) == /\ nodes < MaxNodes /\ file[p] # None /\ Free(q) /\ {p, q} \subseteq Files
                           /\ Begin(t, "copy", p, q, p, "stage", "look")
BeginImport(t, q) == nodes < MaxNodes /\ q \in Files /\ Free(q) /\ Begin(t, "import", None, q, None, "none", "stage")
\* SharedStorage::publishGeneratedImage stages and records; recordFile records.
BeginGenerated(t, q) == nodes < MaxNodes /\ q \in Files /\ Free(q) /\ Begin(t, "generated", None, q, None, "none", "stage")
BeginRecord(t, p) == file[p] # None /\ Begin(t, "record", None, p, p, "done", "look")
BeginTrash(t, p, q) == /\ file[p] # None /\ p \notin Deleted /\ q \in Deleted /\ Free(q)
                       /\ Begin(t, "trash", p, q, None, "none", "trash")
BeginRemove(t, p) == /\ file[p] # None /\ p \in Deleted
                     /\ Begin(t, "remove", p, None, None, "none", "unlink")

SourceGone(t) == call[t].from # None /\ file[call[t].from] = None

\* copyTree to a hidden name beside the destination.
Stage(t) ==
    /\ step[t] = "stage"
    /\ \/ SourceGone(t) /\ Fail(t)
       \/ /\ ~SourceGone(t)
          /\ nodes < MaxNodes /\ nodes' = nodes + 1
          /\ hidden' = [hidden EXCEPT ![t].staged = NewFile(nodes', nodes')]
          /\ Goto(t, "publish")
          /\ UNCHANGED <<file, left, docs, object, lock, lease, call>>

\* A rename that never replaces: renamex_np, MoveFileW, renameat2.
MoveWithReplacement(p, q) ==
    file' = [file EXCEPT ![p] = None, ![q] = Renamed(file[p])]
MoveWithoutCopy(p, q) ==
    /\ file[q] = None
    /\ file' = [file EXCEPT ![p] = None, ![q] = Renamed(file[p])]

\* Which object the move concerns, for the properties.
Concerns(t) == call' = [call EXCEPT ![t].key =
    IF LookupPath(call[t].from) = {} THEN None
    ELSE CHOOSE k \in LookupPath(call[t].from) : TRUE]

\* What was staged appears and is to be recorded.
Show(t) ==
    LET copied == hidden[t].staged
        q == call[t].to
    IN
    /\ file' = [file EXCEPT ![q] = Renamed(copied)]
    /\ docs' = docs \cup {copied.doc}
    /\ hidden' = [hidden EXCEPT ![t].staged = None]
    /\ call' = [call EXCEPT ![t].at = q, ![t].then = "done"]
    /\ Goto(t, "look")
    /\ UNCHANGED <<left, nodes, object, lease>>

\* Under the lock: the source again, the destination again, the rename.
\* tryLock gives up after two seconds.
Publish(t) ==
    LET c == call[t] IN
    /\ step[t] = "publish" /\ c.act # "generated"
    /\ \/ /\ \/ lock # None \/ SourceGone(t) \/ file[c.to] # None
             \/ c.act = "move" /\ MayCross(c.from, c.to)
          /\ Fail(t)
       \/ /\ lock = None /\ lock' = t /\ ~SourceGone(t)
          /\ \/ /\ c.act = "move"
                /\ MoveWithoutCopy(c.from, c.to)
                /\ Concerns(t) /\ Goto(t, "relocate")
                /\ UNCHANGED <<hidden, left, docs, nodes, object, lease>>
             \/ c.act # "move" /\ file[c.to] = None /\ Show(t)

\* A generated image needs no lock.
PublishGenerated(t) ==
    /\ step[t] = "publish" /\ call[t].act = "generated"
    /\ \/ file[call[t].to] # None /\ Fail(t)
       \/ file[call[t].to] = None /\ Show(t) /\ UNCHANGED lock

\* Deletion takes no lock: one rename, or a copy to the other volume.
Trash(t) ==
    LET c == call[t] IN
    /\ step[t] = "trash"
    /\ \/ (file[c.from] = None \/ file[c.to] # None) /\ Fail(t)
       \/ /\ file[c.from] # None
          /\ MoveWithoutCopy(c.from, c.to)
          /\ Concerns(t) /\ Goto(t, "relocate")
          /\ UNCHANGED <<hidden, left, docs, nodes, object, lock, lease>>
       \/ /\ file[c.from] # None /\ file[c.to] = None /\ MayCross(c.from, c.to)
          /\ nodes < MaxNodes /\ nodes' = nodes + 1
          /\ hidden' = [hidden EXCEPT
                ![t].staged = NewFile(nodes', file[c.from].doc)]
          /\ Goto(t, "hide")
          /\ UNCHANGED <<file, left, docs, object, lock, lease, call>>

(* Between volumes the original keeps a recovery name until the copy is out.
   What has taken its name since it was copied is hidden, and lost, in its
   place; the ghost docs gives such a document up. *)
TrashHide(t) ==
    LET p == call[t].from IN
    /\ step[t] = "hide"
    /\ \/ file[p] = None /\ Fail(t)
       \/ /\ file[p] # None
          /\ file' = [file EXCEPT ![p] = None]
          /\ hidden' = [hidden EXCEPT ![t].recovery = Renamed(file[p])]
          /\ docs' = docs \ ({file[p].doc} \ {hidden[t].staged.doc})
          /\ Concerns(t) /\ Goto(t, "show")
          /\ UNCHANGED <<left, nodes, object, lock, lease>>

TrashShow(t) ==
    LET c == call[t]
        h == hidden[t]
    IN
    /\ step[t] = "show"
    /\ \/ /\ file[c.to] = None
          /\ file' = [file EXCEPT ![c.to] = Renamed(h.staged)]
          /\ hidden' = [hidden EXCEPT ![t].staged = None]
          /\ Goto(t, "forget")
          /\ UNCHANGED <<left, docs, nodes, object, lock, lease, call>>
       \/ /\ file[c.to] # None
          /\ Leave(t, "failed")
          /\ hidden' = [hidden EXCEPT ![t] = NoHidden]
          /\ \/ /\ file[c.from] = None
                /\ file' = [file EXCEPT ![c.from] = Renamed(h.recovery)]
                /\ UNCHANGED left
             \/ /\ file[c.from] # None \* its name is taken: it stays hidden
                /\ left' = left \cup {h.recovery}
                /\ UNCHANGED file
          /\ UNCHANGED <<docs, nodes, object>>
TrashForget(t) ==
    /\ step[t] = "forget"
    /\ hidden' = [hidden EXCEPT ![t].recovery = None]
    /\ Goto(t, "relocate")
    /\ UNCHANGED <<file, left, docs, nodes, object, lock, lease, call>>

Lost(p) == docs \ (IF file[p] = None THEN {} ELSE {file[p].doc})

\* Permanent removal, in Deleted only.
Unlink(t) ==
    LET p == call[t].from IN
    /\ step[t] = "unlink"
    /\ \/ file[p] = None /\ Fail(t)
       \/ /\ file[p] # None
          /\ file' = [file EXCEPT ![p] = None] /\ docs' = Lost(p)
          /\ Goto(t, "removed")
          /\ UNCHANGED <<hidden, left, nodes, object, lock, lease, call>>

Perform(t) ==
    \/ \E p, q \in Places : BeginMove(t, p, q) \/ BeginDuplicate(t, p, q) \/ BeginTrash(t, p, q)
    \/ \E p \in Places : BeginImport(t, p) \/ BeginGenerated(t, p) \/ BeginRemove(t, p) \/ BeginRecord(t, p)
    \/ /\ Stage(t) \/ Publish(t) \/ PublishGenerated(t) \/ Unlink(t)
          \/ Trash(t) \/ TrashHide(t) \/ TrashShow(t) \/ TrashForget(t)
       /\ UNCHANGED <<Shared, events>>
    \/ Repository(t)

---------------------------------------------------------------------------
(* The user in a file manager or an editor, and crashes.                   *)

Event == events < MaxEvents /\ events' = events + 1

UserMove(p, q) == file[p] # None /\ MoveWithoutCopy(p, q) /\ UNCHANGED <<docs, nodes>>
UserEdit(p) == /\ file[p] # None /\ file' = [file EXCEPT ![p] = Renamed(@)]
               /\ UNCHANGED <<docs, nodes>>
UserSave(p) == \* a new file takes the place of the old one
    /\ file[p] # None /\ nodes < MaxNodes /\ nodes' = nodes + 1
    /\ file' = [file EXCEPT ![p] = NewFile(nodes', @.doc)]
    /\ UNCHANGED docs
UserDelete(p) == /\ file[p] # None
                 /\ file' = [file EXCEPT ![p] = None] /\ docs' = Lost(p)
                 /\ UNCHANGED nodes

User ==
    /\ Event
    /\ \/ \E p, q \in Places : UserMove(p, q)
       \/ \E p \in Places : UserEdit(p) \/ UserSave(p) \/ UserDelete(p)
    /\ UNCHANGED <<hidden, left, object, lock, lease, step, call, Shared>>

\* The locks of a process that dies are free; what it staged stays.
Crash(t) ==
    /\ step[t] # "idle" /\ Event
    /\ Leave(t, "failed")
    /\ left' = left \cup ({hidden[t].staged, hidden[t].recovery} \ {None})
    /\ hidden' = [hidden EXCEPT ![t] = NoHidden]
    /\ UNCHANGED <<file, docs, nodes, object, Shared>>

Init ==
    /\ \E p \in Files : file = [q \in Places |-> IF q = p THEN NewFile(1, 1) ELSE None]
    /\ nodes = 1 /\ docs = {1}
    /\ hidden = [t \in Threads |-> NoHidden]
    /\ left = {}
    /\ object = [k \in Keys |-> NoObject]
    /\ lock = None /\ lease = None
    /\ step = [t \in Threads |-> "idle"] /\ call = [t \in Threads |-> NoCall]
    /\ page = {} /\ todo = {}
    /\ calls = 0 /\ events = 0 /\ calm = FALSE

Next ==
    \/ Reconcile
    \/ /\ \/ \E c \in Callers : Perform(c)
          \/ User
          \/ \E t \in Threads : Crash(t)
       /\ calm' = FALSE

Spec == Init /\ [][Next]_vars

---------------------------------------------------------------------------
Steps == {"idle", "look", "write", "stage", "publish", "relocate",
          "moveObject", "trash", "hide", "show", "forget", "unlink", "removed",
          "erase", "walk", "sweep", "doom"}

TypeOK ==
    /\ file \in [Places -> File \cup {None}]
    /\ hidden \in [Threads -> [staged : File \cup {None}, recovery : File \cup {None}]]
    /\ left \subseteq File /\ docs \subseteq Nodes
    /\ \A k \in Keys : /\ object[k].state \in {"unused", "live", "tombstone"}
                        /\ object[k].version \in Nat
                        /\ object[k].path \in Places \cup {None}
    /\ lock \in Callers \cup {None} /\ lease \in Threads \cup {None}
    /\ step \in [Threads -> Steps] /\ todo \subseteq Places
    /\ nodes \in Nodes /\ calls \in 0 .. MaxCalls /\ events \in 0 .. MaxEvents
    /\ calm \in BOOLEAN

(* Whatever fails, crashes or races, a document that nobody has removed for
   good is somewhere: under a public name, staged, or under the recovery name
   that a Trash between volumes keeps until its copy is out. *)
KeepsDocuments ==
    \A d \in docs : \E f \in {file[p] : p \in Places} \cup left
                         \cup {hidden[t].staged : t \in Threads}
                         \cup {hidden[t].recovery : t \in Threads} :
        f # None /\ f.doc = d

(* An intake that nobody has disturbed and that has not failed leaves an index
   that says what the files say, whatever earlier failures have left behind. *)
IntakeComplete ==
    calm /\ step[Intake] = "sweep" /\ page = {} =>
        \A p \in Places :
            IF file[p] = None THEN LookupPath(p) = {}
            ELSE \E k \in LookupPath(p) : object[k].stamp = Stamp(file[p])

(* What is tombstoned is gone or not what the object has recorded: reconcile
   decides from a page that may be old, and without the lease. *)
TombstonesAreDue ==
    [][\A k \in Keys : (Live(k) /\ object'[k].state # "live") =>
          \/ file[object[k].path] = None
          \/ object[k].stamp # Stamp(file[object[k].path])]_vars

Ends(t) == call[t].key # None /\ call'[t].moved = call[t].key

(* A move that reports success has taken the object from the old path, also
   when an intake or another thread has been first to find the file. *)
ObjectLeavesSource ==
    [][\A t \in Callers :
          Ends(t) /\ object'[call[t].key].state = "live"
             => object'[call[t].key].path # call[t].from]_vars

(* "Called after a successful native move; preserves object/ontology identity"
   (FileRepository.h:35), of relocated: the object lives, at the destination. *)
IdentityFollowsMove ==
    [][\A t \in Callers : Ends(t) =>
          object'[call[t].key].state = "live" /\ object'[call[t].key].path = call[t].to]_vars
=============================================================================
