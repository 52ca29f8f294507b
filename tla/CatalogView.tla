----------------------------- MODULE CatalogView -----------------------------
(***************************************************************************)
(* The view of the models of a container, StorageModelCatalog: threads     *)
(* scan the directory that was set, again and again, and only the last one *)
(* started may show its rows.  What a scan lists is ModelInventory's; here *)
(* a result says which directory it is of.  The first scan of a directory  *)
(* shows that it is loading, later ones keep the rows.                     *)
(*                                                                         *)
(* As in DashboardFiles a thread carries `current` for m_revision.         *)
(***************************************************************************)
EXTENDS Naturals, FiniteSets

CONSTANTS
    Directories, \* Models directories of containers
    None,        \* no directory
    MaxSets      \* bound: calls of setDirectory

VARIABLES
    directory,    \* m_directory
    groups,       \* m_groups and m_error: the directory they are of, or None
    scanning,     \* m_scanning
    spinning,     \* m_loading
    hasSnapshot,  \* m_hasSnapshot
    pending,      \* m_refreshPending
    settling,     \* m_debounce is running
    workers,      \* the threads of scan
    sets          \* calls of setDirectory, for the bound

view == <<scanning, spinning, hasSnapshot, pending, settling, workers>>
vars == <<directory, groups, view, sets>>

Cut == "cut short"  \* the result of a scan that was cancelled

Started(d) == [of |-> d, step |-> "read", cancelled |-> FALSE, current |-> TRUE]
Superseded(threads) == {[t EXCEPT !.current = FALSE] : t \in threads}
Cancelled(threads) == {[t EXCEPT !.cancelled = TRUE] : t \in Superseded(threads)}

\* refresh: only one scan at a time; one more afterwards if asked meanwhile.
Refresh ==
    \/ scanning /\ pending' = TRUE /\ UNCHANGED <<scanning, spinning, workers>>
    \/ /\ ~scanning /\ directory = None
       /\ UNCHANGED <<scanning, spinning, pending, workers>>
    \/ /\ ~scanning /\ directory # None
       /\ scanning' = TRUE
       /\ spinning' = (spinning \/ ~hasSnapshot)
       /\ workers' = Superseded(workers) \cup {Started(directory)}
       /\ UNCHANGED pending

\* A watch has reported a change; the user and the poll ask without one.
Settled == settling /\ settling' = FALSE /\ Refresh /\ UNCHANGED <<directory, groups, hasSnapshot, sets>>
Poll == directory # None /\ Refresh /\ UNCHANGED <<directory, groups, hasSnapshot, settling, sets>>
WatchReports ==
    /\ hasSnapshot /\ ~settling /\ settling' = TRUE
    /\ UNCHANGED <<directory, groups, scanning, spinning, hasSnapshot, pending, workers, sets>>

\* scan: the catalog or the native directories; cancellation ends either.
Scan(t) ==
    /\ t.step = "read"
    /\ workers' = (workers \ {t}) \cup
           {[t EXCEPT !.step = "done", !.of = IF t.cancelled THEN Cut ELSE @]}
    /\ UNCHANGED <<directory, groups, scanning, spinning, hasSnapshot, pending, settling, sets>>

Finished(t) ==
    /\ t.step = "done" /\ workers' = workers \ {t}
    /\ \/ ~t.current /\ UNCHANGED <<groups, scanning, spinning, hasSnapshot, pending, settling>>
       \/ /\ t.current
          /\ groups' = t.of
          /\ scanning' = FALSE /\ hasSnapshot' = TRUE /\ spinning' = FALSE
          /\ pending' = FALSE /\ settling' = (settling \/ pending)
    /\ UNCHANGED <<directory, sets>>

\* A mutant of SetDirectory, which leaves the end of the scan to its thread.
SetDirectoryStillScanning(d) ==
    /\ sets < MaxSets /\ sets' = sets + 1
    /\ d # directory /\ directory' = d /\ groups' = None
    /\ pending' = FALSE /\ settling' = FALSE /\ hasSnapshot' = FALSE
    /\ scanning' = (scanning \/ d # None) /\ spinning' = (d # None)
    /\ workers' = Cancelled(workers) \cup (IF scanning \/ d = None THEN {} ELSE {Started(d)})

\* setDirectory takes the rows away, cancels the scan and starts another.
SetDirectory(d) ==
    /\ sets < MaxSets /\ sets' = sets + 1
    /\ d # directory /\ directory' = d /\ groups' = None
    /\ pending' = FALSE /\ settling' = FALSE /\ hasSnapshot' = FALSE
    /\ scanning' = (d # None) /\ spinning' = (d # None)
    /\ workers' = Cancelled(workers) \cup (IF d = None THEN {} ELSE {Started(d)})

Init ==
    /\ directory = None /\ groups = None
    /\ scanning = FALSE /\ spinning = FALSE /\ hasSnapshot = FALSE
    /\ pending = FALSE /\ settling = FALSE
    /\ workers = {} /\ sets = 0

Next ==
    \/ Settled \/ Poll \/ WatchReports
    \/ \E t \in workers : Scan(t) \/ Finished(t)
    \/ \E d \in Directories \cup {None} : SetDirectory(d)

Spec == Init /\ [][Next]_vars

(* Threads run to their end and their signals are delivered; the poll of thirty
   seconds fires.  Nothing is assumed of the watches. *)
Fairness == WF_vars(Poll) /\ WF_vars(\E t \in workers : Scan(t) \/ Finished(t))

---------------------------------------------------------------------------
(* The rows shown are those of the directory set last or none, never those of
   a scan that was cancelled or of another directory, and in the end they are
   there: no call leaves m_scanning set without a thread that resets it. *)
Shown == INSTANCE LatestResult WITH Keys <- Directories, asked <- directory, shown <- groups
Serves == Shown!Spec
=============================================================================
