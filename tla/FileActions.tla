---------------------------- MODULE FileActions ----------------------------
(***************************************************************************)
(* FileActions: one menu of actions on the selected file.  An action that  *)
(* needs the contents first materialises them with a StorageDirectoryModel *)
(* of its own, m_download, and goes on when that emits activated, or ends  *)
(* when it emits downloadFailed; the slots run inside the emitting step.   *)
(***************************************************************************)
EXTENDS StorageRequests, Sequences

CONSTANT MaxActions \* bound: the actions begun in one behaviour

VARIABLES
    user,       \* of the StorageDirectoryModel: a file view, or a menu
    busy,       \* m_busy
    operation,  \* m_operation
    source,     \* m_source
    jobs,       \* the queue of m_worker, a pool of one thread
    begun       \* how many actions were begun

actions == <<busy, operation, source, jobs, begun>>
allVars == <<vars, actions, user>>

Immediate == {"Clipboard", "Share"}            \* done on the GUI thread
Unloaded == {"Trash", "Remove", "Paste"}       \* need no contents here
Operations == Immediate \cup Unloaded \cup {"Duplicate", "Rename"}

Job == [operation: Operations, path: Paths \cup {NoPath}]

finish == busy' = FALSE
Enqueue(o, p) == jobs' = Append(jobs, [operation |-> o, path |-> p])

\* As in StorageRequests, beginWhileBusy is a mutant.
beginWhileBusy(o, p) ==
    /\ begun < MaxActions
    /\ begun' = begun + 1
    /\ busy' = TRUE /\ operation' = o /\ source' = p
    /\ Enqueue(o, p)
    /\ Quiet /\ UNCHANGED <<object, request, opener, check, finisher>>
    /\ UNCHANGED gui

(* One action at a time: a second one is ignored.  A menu that is free is not
   downloading (BusyHasWork), so openPath does not return early. *)
begin(o, p) ==
    /\ ~busy
    /\ begun < MaxActions
    /\ begun' = begun + 1
    /\ busy' = TRUE /\ operation' = o /\ source' = p
    /\ \/ /\ o \in Unloaded
          /\ Enqueue(o, p)
          /\ Quiet /\ UNCHANGED <<object, request, opener, check, finisher>>
          /\ UNCHANGED gui
       \/ o \notin Unloaded /\ OpenPath(p) /\ UNCHANGED jobs

execute ==
    IF operation \in Immediate THEN finish /\ UNCHANGED jobs
    ELSE Enqueue(operation, source) /\ UNCHANGED busy

\* The slots connected to activated and downloadFailed.
React ==
    /\ \/ signal'.kind = "activated" /\ execute
       \/ signal'.kind = "failed" /\ finish /\ UNCHANGED jobs
       \/ signal'.kind = "none" /\ UNCHANGED <<busy, jobs>>
    /\ UNCHANGED <<operation, source, begun>>

Delivered(r) == Deliver(r) /\ React

\* The worker's finished signal: the file operation succeeded or failed.
WorkerFinished ==
    /\ jobs # <<>>
    /\ jobs' = Tail(jobs)
    /\ finish
    /\ Quiet /\ UNCHANGED <<object, request, opener, check, finisher>>
    /\ UNCHANGED gui /\ UNCHANGED <<operation, source, begun>>

ActionsInit ==
    /\ Init
    /\ user \in {"view", "menu"}
    /\ busy = FALSE /\ operation = "Clipboard" /\ source = NoPath
    /\ jobs = <<>> /\ begun = 0

Background(r) == (Work(r) \/ Verify(r) \/ Host(r)) /\ UNCHANGED actions
Tick == CheckRequest /\ UNCHANGED actions
World(p) == Publish(p) /\ UNCHANGED actions

\* Nobody calls setFolder or openPath of m_download but begin.
Menu ==
    /\ user = "menu"
    /\ \/ \E o \in Operations, p \in Paths : begin(o, p)
       \/ WorkerFinished
       \/ \E r \in Revisions : Delivered(r)

\* In a file view the user opens paths and changes folders.
View ==
    /\ user = "view" /\ UNCHANGED actions
    /\ \/ SetFolder
       \/ \E p \in Paths : OpenPath(p)
       \/ \E r \in Revisions : Deliver(r)

ActionsNext ==
    /\ UNCHANGED user
    /\ \/ Menu \/ View \/ Tick
       \/ \E p \in Paths : World(p)
       \/ \E r \in Revisions : Background(r)

ActionsSpec == ActionsInit /\ [][ActionsNext]_allVars

\* As in StorageRequests, for either user.
ActionsFairness ==
    /\ WF_allVars(user = "menu" /\ WorkerFinished /\ UNCHANGED user)
    /\ WF_allVars(Tick /\ UNCHANGED user)
    /\ \A r \in Revisions :
         /\ WF_allVars(Work(r) /\ UNCHANGED <<actions, user>>)
         /\ WF_allVars(Verify(r) /\ UNCHANGED <<actions, user>>)
         /\ WF_allVars(Host(r) /\ UNCHANGED <<actions, user>>)
         /\ WF_allVars(UNCHANGED user /\ IF user = "menu" THEN Delivered(r)
                                         ELSE Deliver(r) /\ UNCHANGED actions)
ActionsFairSpec == ActionsSpec /\ ActionsFairness

---------------------------------------------------------------------------
(* A busy menu refuses every action: it is busy exactly while its download
   or its one job is under way, never both, never neither. *)
BusyHasWork ==
    user = "menu" =>
    /\ busy <=> downloading \/ jobs # <<>>
    /\ ~(downloading /\ jobs # <<>>)

(* What runs is what was begun, on the file it was begun for, although the
   slots read the members m_operation and m_source only when a signal of some
   earlier thread comes in. *)
RunsWhatWasBegun ==
    /\ user = "menu" /\ downloading => requestedPath = source /\ operation \notin Unloaded
    /\ jobs \in {<<>>, <<[operation |-> operation, path |-> source]>>}

\* Every action ends, with an answer or an error: the menu becomes free.
ActionEnds == busy ~> ~busy
=============================================================================
