-------------------------- MODULE DirectoryListing --------------------------
(***************************************************************************)
(* What a StorageDirectoryModel shows of a folder: setFolder, the options, *)
(* refresh with its background threads, the provisional snapshot, and the  *)
(* parsed host catalog that is kept under a stamp of the catalog's file.   *)
(*                                                                         *)
(* One thread runs per folder revision; a thread of an earlier revision    *)
(* may finish at any later time, with an empty listing when it was         *)
(* cancelled.  Contents and catalogs are versions: what matters is which   *)
(* of them the rows were made from.                                        *)
(*                                                                         *)
(* Definitions named after a bug (CurrentIgnored, ...) are mutants of the  *)
(* definition that follows; no specification uses them.                    *)
(***************************************************************************)
EXTENDS Naturals

CONSTANTS
    Folders,       \* directories a view may be set to
    NoFolder,      \* the empty URL
    MaxRevision,   \* bound: setFolder calls
    MaxOptions,    \* bound: changes of an option (filter, sorting, ...)
    MaxChanges,    \* bound: changes of the directory's contents
    MaxPublishes,  \* bound: publications of a new catalog
    MaxDemotions,  \* bound: times this device ceases to be the host
    MaxTogether    \* bound: all of these changes in one behaviour

ASSUME ListingAssumption ==
    /\ NoFolder \notin Folders
    /\ {MaxRevision, MaxOptions, MaxChanges, MaxPublishes, MaxDemotions,
        MaxTogether} \subseteq Nat

VARIABLES
    contents,    \* the version of the directory contents
    catalog,     \* the version of catalog.json, and its stamp
    authority,   \* isLocalAuthority: the local files, not the catalog, count
    demotions,
    folder, revision, options,       \* m_folder, m_revision, m_optionsRevision
    status,                          \* m_status
    running, pending, attempted,     \* m_running, m_pending, m_snapshotAttempted
    rows,        \* what m_rows was made from
    cache,       \* m_catalogStamp and m_catalog
    scheduled,   \* a queued QTimer::singleShot(0, refresh)
    thread,      \* the background thread of each revision
    saved        \* the snapshots: folder and options

world == <<contents, catalog, authority, demotions>>
view == <<folder, revision, options, status, rows, cache>>
vars == <<contents, catalog, authority, demotions, folder, revision, options, status,
          running, pending, attempted, rows, cache, scheduled, thread, saved>>

Revisions == 1 .. MaxRevision
Options == 0 .. MaxOptions
Bounded == options + contents + catalog + demotions < MaxTogether

\* A catalog that was not read: rows of the local files alone.
LocalOnly == MaxPublishes + 1
Catalogs == 0 .. LocalOnly
NoStamp == MaxPublishes + 1

Rows == [folder: Folders \cup {NoFolder}, options: Options, contents: 0 .. MaxChanges,
         catalog: Catalogs, live: BOOLEAN]
NoRows == [folder |-> NoFolder, options |-> 0, contents |-> 0,
           catalog |-> LocalOnly, live |-> FALSE]

Thread == [step: {"none", "snapshot", "files", "stamp", "catalog", "done"},
           folder: Folders \cup {NoFolder}, options: Options,
           cache: [stamp: Catalogs, catalog: Catalogs],
           stamp: Catalogs, rows: Rows]
NoCache == [stamp |-> NoStamp, catalog |-> LocalOnly]
NoThread == [step |-> "none", folder |-> NoFolder, options |-> 0,
             cache |-> NoCache, stamp |-> NoStamp, rows |-> NoRows]

CurrentIgnored(r) == TRUE
Current(r) == r = revision
Cancelled(r) == r # revision

---------------------------------------------------------------------------
(* The GUI thread.                                                         *)

\* A thread takes the options and the cached catalog of this moment along.
Starting(step, chosen) ==
    [NoThread EXCEPT !.step = step, !.folder = folder, !.options = chosen,
                     !.cache = cache]

\* refresh, with the options and the snapshot flag that hold when it is called.
Refresh(chosen, tried) ==
    \/ /\ folder = NoFolder
       /\ attempted' = tried /\ UNCHANGED <<running, pending, thread>>
    \/ /\ folder # NoFolder /\ running
       /\ pending' = TRUE
       /\ attempted' = tried /\ UNCHANGED <<running, thread>>
    \/ /\ folder # NoFolder /\ ~running
       /\ running' = TRUE /\ pending' = FALSE /\ attempted' = TRUE
       /\ thread' = [thread EXCEPT ![revision] =
                        Starting(IF tried THEN "files" ELSE "snapshot", chosen)]

SetFolder(f) ==
    /\ f # folder /\ revision < MaxRevision
    /\ revision' = revision + 1
    /\ folder' = f
    /\ running' = FALSE /\ pending' = FALSE /\ attempted' = FALSE
    /\ cache' = NoCache /\ rows' = NoRows
    /\ status' = IF f = NoFolder THEN "Null" ELSE "Loading"
    /\ scheduled' = (scheduled \/ f # NoFolder)
    /\ UNCHANGED <<world, options, thread, saved>>

ChangeOptions ==
    /\ options < MaxOptions /\ Bounded
    /\ options' = options + 1
    /\ Refresh(options + 1, TRUE)
    /\ UNCHANGED <<world, folder, revision, status, rows, cache, scheduled, saved>>

\* The queued refresh, and the poll or a watch of the file system.
Queued ==
    /\ scheduled /\ scheduled' = FALSE
    /\ Refresh(options, attempted)
    /\ UNCHANGED <<world, view, saved>>

Tick ==
    /\ folder # NoFolder
    /\ Refresh(options, attempted)
    /\ UNCHANGED <<world, view, scheduled, saved>>

---------------------------------------------------------------------------
(* The background thread: restoreSnapshot or list.                         *)

Becomes(r, t) == thread' = [thread EXCEPT ![r] = t]
SameView == UNCHANGED <<world, view, running, pending, attempted, scheduled, saved>>

\* Rows saved for this folder and these options, however old.
RestoreSnapshot(r) ==
    /\ thread[r].step = "snapshot"
    /\ \E found \in Rows :
         /\ \/ found = NoRows
            \/ /\ <<thread[r].folder, thread[r].options>> \in saved
               /\ found.folder = thread[r].folder /\ found.options = thread[r].options
               /\ ~found.live /\ found.contents <= contents
               /\ found.catalog = LocalOnly
         /\ thread' = [thread EXCEPT ![r].step = "done", ![r].rows = found]
    /\ SameView

\* list reads the directory first, then the stamp, then the catalog.
ReadFiles(r) ==
    /\ thread[r].step = "files"
    /\ thread' = [thread EXCEPT ![r].step = "stamp",
                    ![r].rows = [folder |-> thread[r].folder, options |-> thread[r].options,
                                 contents |-> contents, catalog |-> LocalOnly, live |-> TRUE]]
    /\ SameView

ReadStamp(r) ==
    /\ thread[r].step = "stamp"
    /\ thread' = [thread EXCEPT ![r].step = "catalog", ![r].stamp = catalog]
    /\ SameView

\* The catalog this listing works with: none, the kept one or a fresh one.
ListedCatalog(r) ==
    IF authority THEN LocalOnly
    ELSE IF thread[r].stamp = thread[r].cache.stamp THEN thread[r].cache.catalog
    ELSE catalog

ReadCatalog(r) ==
    /\ thread[r].step = "catalog"
    /\ thread' = [thread EXCEPT ![r].step = "done", ![r].rows.catalog = ListedCatalog(r)]
    /\ SameView

\* A cancelled listing gives up, with nothing at all.
GiveUp(r) ==
    /\ thread[r].step \in {"files", "stamp", "catalog"} /\ Cancelled(r)
    /\ thread' = [thread EXCEPT ![r].step = "done", ![r].rows = NoRows]
    /\ SameView

---------------------------------------------------------------------------
(* The thread's finished signal on the GUI thread.                         *)

Finished(r) == thread[r].step = "done"
WasSnapshot(r) == ~thread[r].rows.live

Late(r) ==
    /\ Finished(r) /\ ~Current(r)
    /\ Becomes(r, NoThread) /\ SameView

\* Provisional rows are shown, and the live listing starts.
ShowSnapshot(r) ==
    /\ Finished(r) /\ Current(r) /\ WasSnapshot(r)
    /\ rows' = IF thread[r].options = options /\ thread[r].rows # NoRows
               THEN thread[r].rows ELSE rows
    /\ Becomes(r, Starting("files", options))
    /\ pending' = FALSE
    /\ UNCHANGED <<world, folder, revision, options, status, cache, running, attempted,
                   scheduled, saved>>

ListAgain(r) ==
    /\ Finished(r) /\ Current(r) /\ ~WasSnapshot(r)
    /\ thread[r].options # options
    /\ running' = FALSE /\ scheduled' = TRUE
    /\ Becomes(r, NoThread)
    /\ UNCHANGED <<world, view, pending, attempted, saved>>

ShowListingLateStamp(r) ==
    /\ Finished(r) /\ Current(r) /\ ~WasSnapshot(r)
    /\ thread[r].options = options
    /\ running' = FALSE
    /\ rows' = thread[r].rows
    /\ status' = "Ready"
    /\ cache' = [stamp |-> catalog, catalog |-> thread[r].rows.catalog]
    /\ scheduled' = (scheduled \/ pending)
    /\ saved' = saved \cup {<<thread[r].folder, thread[r].options>>}
    /\ Becomes(r, NoThread)
    /\ UNCHANGED <<world, folder, revision, options, pending, attempted>>

\* Saved in the background: RestoreSnapshot may find it or not.
ShowListing(r) ==
    /\ Finished(r) /\ Current(r) /\ ~WasSnapshot(r)
    /\ thread[r].options = options
    /\ running' = FALSE
    /\ rows' = thread[r].rows
    /\ status' = "Ready"
    /\ cache' = [stamp |-> thread[r].stamp, catalog |-> thread[r].rows.catalog]
    /\ scheduled' = (scheduled \/ pending)
    /\ saved' = saved \cup {<<thread[r].folder, thread[r].options>>}
    /\ Becomes(r, NoThread)
    /\ UNCHANGED <<world, folder, revision, options, pending, attempted>>

---------------------------------------------------------------------------
(* The container changes meanwhile.                                        *)

SameModel == UNCHANGED <<view, running, pending, attempted, scheduled, thread, saved>>

ChangeContents ==
    /\ contents < MaxChanges /\ Bounded /\ contents' = contents + 1
    /\ UNCHANGED <<catalog, authority, demotions>> /\ SameModel

Publish ==
    /\ catalog < MaxPublishes /\ Bounded /\ catalog' = catalog + 1
    /\ UNCHANGED <<contents, authority, demotions>> /\ SameModel

\* primary.json appears: this device becomes the host; or it is removed.
Promote ==
    /\ ~authority /\ authority' = TRUE
    /\ UNCHANGED <<contents, catalog, demotions>> /\ SameModel

Demote ==
    /\ authority /\ demotions < MaxDemotions /\ Bounded
    /\ authority' = FALSE /\ demotions' = demotions + 1
    /\ UNCHANGED <<contents, catalog>> /\ SameModel

Init ==
    /\ contents = 0 /\ catalog = 0 /\ authority \in BOOLEAN /\ demotions = 0
    /\ folder = NoFolder /\ revision = 0 /\ options = 0 /\ status = "Null"
    /\ running = FALSE /\ pending = FALSE /\ attempted = FALSE
    /\ rows = NoRows /\ cache = NoCache /\ scheduled = FALSE
    /\ thread = [r \in Revisions |-> NoThread]
    /\ saved \in {{}, Folders \X Options}

Work(r) == RestoreSnapshot(r) \/ ReadFiles(r) \/ ReadStamp(r) \/ ReadCatalog(r)
Deliver(r) == Late(r) \/ ShowSnapshot(r) \/ ListAgain(r) \/ ShowListing(r)

Next ==
    \/ \E f \in Folders \cup {NoFolder} : SetFolder(f)
    \/ ChangeOptions \/ Queued \/ Tick
    \/ ChangeContents \/ Publish \/ Promote \/ Demote
    \/ \E r \in Revisions : Work(r) \/ GiveUp(r) \/ Deliver(r)

Spec == Init /\ [][Next]_vars

\* Threads run and report, and the timers of a live GUI thread tick.
FairSpec ==
    /\ Spec
    /\ WF_vars(Queued) /\ WF_vars(Tick)
    /\ \A r \in Revisions : WF_vars(Work(r)) /\ WF_vars(Deliver(r))

---------------------------------------------------------------------------
(* Properties.                                                             *)

\* Every variable stays in its type.
TypeOK ==
    /\ contents \in 0 .. MaxChanges /\ catalog \in 0 .. MaxPublishes
    /\ authority \in BOOLEAN /\ demotions \in 0 .. MaxDemotions
    /\ folder \in Folders \cup {NoFolder}
    /\ revision \in 0 .. MaxRevision /\ options \in Options
    /\ status \in {"Null", "Loading", "Ready"}
    /\ running \in BOOLEAN /\ pending \in BOOLEAN /\ attempted \in BOOLEAN
    /\ rows \in Rows
    /\ cache \in [stamp: Catalogs, catalog: Catalogs]
    /\ scheduled \in BOOLEAN
    /\ thread \in [Revisions -> Thread]
    /\ saved \in SUBSET (Folders \X Options)

\* Whatever finishes late, the rows are those of the folder that is shown.
RowsOfFolder == rows # NoRows => rows.folder = folder

(* m_running blocks every refresh: it is only set while a thread of this
   revision will reset it, and no two threads of a revision run. *)
RunningHasThread == running <=> revision # 0 /\ thread[revision].step # "none"

\* What a listing shows that is made now.
Expected == [folder |-> folder, options |-> options, contents |-> contents,
             catalog |-> IF authority THEN LocalOnly ELSE catalog, live |-> TRUE]

(* When folder, options, directory and catalog rest, the rows become those of
   the latest of each, and stay so: no request to refresh is lost while a
   thread runs, and the kept catalog is never taken for a newer one. *)
RowsBecomeCurrent == <>[](folder # NoFolder => rows = Expected)

(* That fails for a device that ceases to be the host, which keeps the catalog
   it has not read (see the README); every other sequence of changes is well. *)
RowsCurrentUnlessDemoted ==
    <>[](demotions = 0 /\ folder # NoFolder => rows = Expected)
=============================================================================
