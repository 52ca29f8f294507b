----------------------- MODULE DirectoryListing_proofs -----------------------
(***************************************************************************)
(* Theorems about DirectoryListing for any folders and any number of       *)
(* revisions, changes and publications.                                    *)
(*                                                                         *)
(* The argument: a thread of the present revision lists the present        *)
(* folder, since setFolder changes both at once, and only such a thread    *)
(* shows rows.  The members m_running and the thread of the present        *)
(* revision come and go together, although late threads of earlier         *)
(* revisions end at any time.                                              *)
(***************************************************************************)
EXTENDS DirectoryListing, TLAPS

\* Threads exist of the revisions given out, and a view of a folder has one.
NothingAhead ==
    /\ \A r \in Revisions : thread[r].step # "none" => r <= revision
    /\ folder # NoFolder => revision # 0

\* What a thread lists, and what it has listed.
ThreadsInv ==
    \A r \in Revisions :
        /\ thread[r].step # "none" => thread[r].folder # NoFolder
        /\ r = revision /\ thread[r].step # "none" => thread[r].folder = folder
        /\ thread[r].step \in {"stamp", "catalog"}
             => thread[r].rows.live /\ thread[r].rows.folder = thread[r].folder
        /\ thread[r].step = "done" =>
             \/ thread[r].rows = NoRows
             \/ thread[r].rows.folder = thread[r].folder

IInv ==
    /\ TypeOK
    /\ NothingAhead
    /\ ThreadsInv
    /\ RowsOfFolder
    /\ RunningHasThread

---------------------------------------------------------------------------
LEMMA Bounds ==
    /\ 0 \in Nat /\ MaxRevision \in Nat /\ Revisions \subseteq Nat
    /\ 0 \notin Revisions /\ 0 \in Options /\ Options \subseteq Nat
    /\ 0 \in 0 .. MaxRevision /\ 0 \in 0 .. MaxChanges
    /\ 0 \in 0 .. MaxPublishes /\ 0 \in 0 .. MaxDemotions
    /\ LocalOnly \in Catalogs /\ NoStamp \in Catalogs
    /\ 0 .. MaxPublishes \subseteq Catalogs
    /\ \A r \in 0 .. MaxRevision : r # 0 => r \in Revisions
BY ListingAssumption DEF Revisions, Options, LocalOnly, NoStamp, Catalogs

LEMMA Records ==
    /\ NoRows \in Rows /\ NoCache \in [stamp: Catalogs, catalog: Catalogs]
    /\ NoThread \in Thread /\ NoThread.step = "none" /\ NoThread.rows = NoRows
    /\ ~NoRows.live
<1>1. NoRows \in Rows /\ NoCache \in [stamp: Catalogs, catalog: Catalogs] /\ ~NoRows.live
  BY Bounds DEF NoRows, Rows, NoCache
<1> QED
  BY <1>1, Bounds DEF NoThread, Thread

\* A thread that is started now.
LEMMA StartingFacts ==
    ASSUME TypeOK, NEW step \in {"snapshot", "files"}, NEW chosen \in Options
    PROVE /\ Starting(step, chosen) \in Thread
          /\ Starting(step, chosen).step = step
          /\ Starting(step, chosen).folder = folder
          /\ Starting(step, chosen).rows = NoRows
BY Records, Bounds DEF TypeOK, Starting, NoThread, Thread

LEMMA InitIInv == Init => IInv
<1> SUFFICES ASSUME Init PROVE IInv
  OBVIOUS
<1>1. TypeOK
  <2>1. saved \in SUBSET (Folders \X Options)
    BY DEF Init
  <2>2. thread \in [Revisions -> Thread]
    BY Records DEF Init
  <2> QED
    BY <2>1, <2>2, Bounds, Records DEF Init, TypeOK
<1>2. \A r \in Revisions : thread[r].step = "none"
  BY Records DEF Init
<1>3. NothingAhead /\ ThreadsInv /\ RowsOfFolder /\ RunningHasThread
  BY <1>2 DEF Init, NothingAhead, ThreadsInv, RowsOfFolder, RunningHasThread
<1> QED
  BY <1>1, <1>3 DEF IInv

---------------------------------------------------------------------------
(* The two shapes of a step.  In the first the view and its members stay and
   one thread goes on. *)
LEMMA ThreadGoesOn ==
    ASSUME IInv, NEW r \in Revisions, NEW t \in Thread,
           SameView, thread' = [thread EXCEPT ![r] = t],
           t.folder = thread[r].folder,
           t.step # "none", thread[r].step # "none",
           t.step \in {"stamp", "catalog"} => t.rows.live /\ t.rows.folder = t.folder,
           t.step = "done" => t.rows = NoRows \/ t.rows.folder = t.folder
    PROVE IInv'
<1>1. UNCHANGED <<world, view, running, pending, attempted, scheduled, saved>>
  BY DEF SameView
<1>2. /\ thread' \in [Revisions -> Thread] /\ thread'[r] = t
      /\ \A q \in Revisions : q # r => thread'[q] = thread[q]
  BY DEF IInv, TypeOK
<1>3. TypeOK'
  BY <1>1, <1>2 DEF IInv, TypeOK, world, view
<1>4. NothingAhead' /\ RowsOfFolder'
  BY <1>1, <1>2 DEF IInv, NothingAhead, RowsOfFolder, view
<1>5. ThreadsInv'
  BY <1>1, <1>2 DEF IInv, ThreadsInv, view
<1>6. RunningHasThread'
  BY <1>1, <1>2, Bounds DEF IInv, TypeOK, RunningHasThread, view
<1> QED
  BY <1>3, <1>4, <1>5, <1>6 DEF IInv

(* In the second one the thread of the present revision starts, or none does
   and nothing but pending and attempted changes. *)
LEMMA RefreshKeeps ==
    ASSUME IInv, NEW chosen \in Options, NEW tried \in BOOLEAN, Refresh(chosen, tried),
           UNCHANGED <<world, folder, revision, status, rows, cache, saved>>,
           options' \in Options, scheduled' \in BOOLEAN
    PROVE IInv'
<1>0. TypeOK /\ RunningHasThread
  BY DEF IInv
<1>1. CASE UNCHANGED <<running, thread>>
  <2>1. pending' \in BOOLEAN /\ attempted' \in BOOLEAN
    BY <1>0 DEF Refresh, TypeOK
  <2>2. TypeOK'
    BY <1>0, <1>1, <2>1 DEF TypeOK, world
  <2>3. NothingAhead' /\ ThreadsInv' /\ RowsOfFolder' /\ RunningHasThread'
    BY <1>1 DEF IInv, NothingAhead, ThreadsInv, RowsOfFolder, RunningHasThread
  <2> QED
    BY <2>2, <2>3 DEF IInv
<1>2. CASE ~(UNCHANGED <<running, thread>>)
  <2> DEFINE t == Starting(IF tried THEN "files" ELSE "snapshot", chosen)
  <2>1. /\ folder # NoFolder /\ ~running /\ running' = TRUE
        /\ pending' = FALSE /\ attempted' = TRUE
        /\ thread' = [thread EXCEPT ![revision] = t]
    BY <1>2 DEF Refresh
  <2>2. t \in Thread /\ t.step \in {"snapshot", "files"} /\ t.folder = folder
    BY <1>0, StartingFacts
  <2> HIDE DEF t
  <2>3. revision \in Revisions
    BY <1>0, <2>1, Bounds DEF IInv, TypeOK, NothingAhead
  <2>4. /\ thread' \in [Revisions -> Thread] /\ thread'[revision] = t
        /\ \A q \in Revisions : q # revision => thread'[q] = thread[q]
    BY <1>0, <2>1, <2>2, <2>3 DEF TypeOK
  <2>5. TypeOK'
    BY <1>0, <2>1, <2>4 DEF TypeOK, world
  <2>6. NothingAhead' /\ RowsOfFolder' /\ RunningHasThread'
    BY <2>1, <2>2, <2>3, <2>4, Bounds
       DEF IInv, NothingAhead, RowsOfFolder, RunningHasThread
  <2>7. ThreadsInv'
    BY <2>1, <2>2, <2>3, <2>4 DEF IInv, ThreadsInv
  <2> QED
    BY <2>5, <2>6, <2>7 DEF IInv
<1> QED
  BY <1>1, <1>2

LEMMA SetFolderKeeps ==
    ASSUME IInv, NEW f \in Folders \cup {NoFolder}, SetFolder(f)
    PROVE IInv'
<1>1. /\ revision \in Nat /\ revision' = revision + 1 /\ revision' \in Revisions
      /\ folder' = f /\ running' = FALSE /\ rows' = NoRows /\ UNCHANGED thread
  BY Bounds, ListingAssumption DEF SetFolder, IInv, TypeOK, Revisions
<1>2. thread[revision'].step = "none"
  BY <1>1, Bounds DEF IInv, NothingAhead
<1>3. TypeOK'
  <2>1. revision' \in 0 .. MaxRevision
    BY <1>1 DEF Revisions
  <2> QED
    BY <1>1, <2>1, Records DEF SetFolder, IInv, TypeOK, world
<1>4. NothingAhead' /\ RowsOfFolder' /\ RunningHasThread'
  BY <1>1, <1>2, Bounds DEF IInv, NothingAhead, RowsOfFolder, RunningHasThread
<1>5. ThreadsInv'
  BY <1>1, <1>2 DEF IInv, ThreadsInv
<1> QED
  BY <1>3, <1>4, <1>5 DEF IInv

LEMMA AskKeeps ==
    ASSUME IInv, ChangeOptions \/ Queued \/ Tick
    PROVE IInv'
<1>1. /\ options \in Options /\ attempted \in BOOLEAN /\ scheduled \in BOOLEAN
      /\ options < MaxOptions => options + 1 \in Options
  BY ListingAssumption DEF IInv, TypeOK, Options
<1>2. CASE ChangeOptions
  BY <1>1, <1>2, RefreshKeeps DEF ChangeOptions
<1>3. CASE Queued
  BY <1>1, <1>3, RefreshKeeps DEF Queued, view
<1>4. CASE Tick
  BY <1>1, <1>4, RefreshKeeps DEF Tick, view
<1> QED
  BY <1>2, <1>3, <1>4

---------------------------------------------------------------------------
\* What is in a thread and its rows.
LEMMA ThreadFacts ==
    ASSUME IInv, NEW r \in Revisions
    PROVE /\ thread[r] \in Thread
          /\ thread[r].folder \in Folders \cup {NoFolder} /\ thread[r].options \in Options
          /\ thread[r].cache \in [stamp: Catalogs, catalog: Catalogs]
          /\ thread[r].stamp \in Catalogs /\ thread[r].rows \in Rows
          /\ thread[r].step \in {"none", "snapshot", "files", "stamp", "catalog", "done"}
<1>1. thread[r] \in Thread
  BY DEF IInv, TypeOK
<1> QED
  BY <1>1 DEF Thread

LEMMA WorkKeeps ==
    ASSUME IInv, NEW r \in Revisions, Work(r) \/ GiveUp(r)
    PROVE IInv'
<1> DEFINE t == thread[r]
<1>0. /\ t \in Thread /\ SameView
      /\ t.folder \in Folders \cup {NoFolder} /\ t.options \in Options
      /\ t.rows \in Rows
      /\ contents \in 0 .. MaxChanges /\ catalog \in Catalogs
  BY ThreadFacts, Bounds DEF Work, GiveUp, RestoreSnapshot, ReadFiles, ReadStamp,
                             ReadCatalog, IInv, TypeOK
<1>1. CASE RestoreSnapshot(r)
  <2>1. PICK found \in Rows :
          /\ found = NoRows \/ found.folder = t.folder
          /\ thread' = [thread EXCEPT ![r].step = "done", ![r].rows = found]
    BY <1>1 DEF RestoreSnapshot
  <2> DEFINE u == [t EXCEPT !.step = "done", !.rows = found]
  <2>2. /\ u \in Thread /\ u.folder = t.folder /\ u.step = "done" /\ u.rows = found
        /\ t.step = "snapshot"
    BY <1>0, <1>1 DEF Thread, RestoreSnapshot
  <2>3. thread' = [thread EXCEPT ![r] = u]
    BY <2>1 DEF IInv, TypeOK
  <2> HIDE DEF u
  <2> QED
    BY <1>0, <2>1, <2>2, <2>3, ThreadGoesOn
<1>2. CASE ReadFiles(r)
  <2> DEFINE listed == [folder |-> t.folder, options |-> t.options, contents |-> contents,
                        catalog |-> LocalOnly, live |-> TRUE]
             u == [t EXCEPT !.step = "stamp", !.rows = listed]
  <2>1. listed \in Rows
    BY <1>0, Bounds DEF Rows
  <2>2. /\ u \in Thread /\ u.folder = t.folder /\ u.step = "stamp" /\ u.rows = listed
        /\ t.step = "files"
    BY <1>0, <1>2, <2>1 DEF Thread, ReadFiles
  <2>3. thread' = [thread EXCEPT ![r] = u]
    BY <1>2 DEF ReadFiles, IInv, TypeOK
  <2>4. listed.live /\ listed.folder = t.folder
    OBVIOUS
  <2> HIDE DEF u, listed
  <2> QED
    BY <1>0, <2>2, <2>3, <2>4, ThreadGoesOn
<1>3. CASE ReadStamp(r)
  <2> DEFINE u == [t EXCEPT !.step = "catalog", !.stamp = catalog]
  <2>1. /\ u \in Thread /\ u.folder = t.folder /\ u.step = "catalog" /\ u.rows = t.rows
        /\ t.step = "stamp"
    BY <1>0, <1>3 DEF Thread, ReadStamp
  <2>2. thread' = [thread EXCEPT ![r] = u]
    BY <1>3 DEF ReadStamp, IInv, TypeOK
  <2>3. t.rows.live /\ t.rows.folder = t.folder
    BY <2>1 DEF IInv, ThreadsInv
  <2> HIDE DEF u
  <2> QED
    BY <1>0, <2>1, <2>2, <2>3, ThreadGoesOn
<1>4. CASE ReadCatalog(r)
  <2> DEFINE listed == [t.rows EXCEPT !.catalog = ListedCatalog(r)]
             u == [t EXCEPT !.step = "done", !.rows = listed]
  <2>1. ListedCatalog(r) \in Catalogs
    BY <1>0, Bounds, ThreadFacts DEF ListedCatalog
  <2>2. listed \in Rows /\ listed.folder = t.rows.folder
    BY <1>0, <2>1 DEF Rows
  <2>3. /\ u \in Thread /\ u.folder = t.folder /\ u.step = "done" /\ u.rows = listed
        /\ t.step = "catalog"
    BY <1>0, <1>4, <2>2 DEF Thread, ReadCatalog
  <2>4. thread' = [thread EXCEPT ![r] = u]
    BY <1>4 DEF ReadCatalog, IInv, TypeOK
  <2>5. t.rows.folder = t.folder
    BY <2>3 DEF IInv, ThreadsInv
  <2> HIDE DEF u, listed
  <2> QED
    BY <1>0, <2>2, <2>3, <2>4, <2>5, ThreadGoesOn
<1>5. CASE GiveUp(r)
  <2> DEFINE u == [t EXCEPT !.step = "done", !.rows = NoRows]
  <2>1. /\ u \in Thread /\ u.folder = t.folder /\ u.step = "done" /\ u.rows = NoRows
        /\ t.step # "none"
    BY <1>0, <1>5, Records DEF Thread, GiveUp
  <2>2. thread' = [thread EXCEPT ![r] = u]
    BY <1>5 DEF GiveUp, IInv, TypeOK
  <2> HIDE DEF u
  <2> QED
    BY <1>0, <2>1, <2>2, ThreadGoesOn
<1> QED
  BY <1>1, <1>2, <1>3, <1>4, <1>5 DEF Work

\* The end of a thread on the GUI thread.
LEMMA DeliverKeeps ==
    ASSUME IInv, NEW r \in Revisions, Deliver(r)
    PROVE IInv'
<1>0. TypeOK /\ NothingAhead /\ ThreadsInv /\ RowsOfFolder /\ RunningHasThread
  BY DEF IInv
<1>1. ASSUME NEW t \in Thread, Becomes(r, t)
      PROVE /\ thread' \in [Revisions -> Thread] /\ thread'[r] = t
            /\ \A q \in Revisions : q # r => thread'[q] = thread[q]
  BY <1>0, <1>1 DEF Becomes, TypeOK
<1>2. CASE Late(r)
  <2>1. /\ SameView /\ r # revision /\ thread' \in [Revisions -> Thread]
        /\ thread'[r].step = "none"
        /\ \A q \in Revisions : q # r => thread'[q] = thread[q]
    BY <1>1, <1>2, Records DEF Late, Current
  <2>2. UNCHANGED <<folder, revision, rows, running>> /\ TypeOK'
    BY <1>0, <2>1 DEF SameView, world, view, TypeOK
  <2>3. RunningHasThread'
    BY <1>0, <2>1, <2>2, Bounds DEF RunningHasThread, TypeOK
  <2>4. NothingAhead' /\ ThreadsInv' /\ RowsOfFolder'
    BY <1>0, <2>1, <2>2 DEF NothingAhead, ThreadsInv, RowsOfFolder
  <2> QED
    BY <2>2, <2>3, <2>4 DEF IInv
<1>3. CASE ShowSnapshot(r)
  <2> DEFINE t == Starting("files", options)
  <2>1. t \in Thread /\ t.step = "files" /\ t.folder = folder
    BY <1>0, StartingFacts DEF TypeOK
  <2> HIDE DEF t
  <2>2. /\ r = revision /\ thread' \in [Revisions -> Thread] /\ thread'[r] = t
        /\ \A q \in Revisions : q # r => thread'[q] = thread[q]
        /\ UNCHANGED <<folder, revision, running>> /\ running
    BY <1>0, <1>1, <1>3, <2>1, Bounds
       DEF ShowSnapshot, Current, Finished, RunningHasThread, t
  <2>3. rows' \in Rows /\ RowsOfFolder'
    <3>1. rows' = rows \/ (rows' = thread[r].rows /\ rows' # NoRows)
      BY <1>3 DEF ShowSnapshot
    <3>2. thread[r].rows # NoRows => thread[r].rows.folder = folder
      BY <1>0, <1>3, <2>2 DEF ShowSnapshot, Finished, ThreadsInv
    <3> QED
      BY <1>0, <2>2, <3>1, <3>2, ThreadFacts DEF RowsOfFolder, TypeOK
  <2>4. TypeOK'
    BY <1>0, <1>3, <2>2, <2>3 DEF ShowSnapshot, TypeOK, world
  <2>5. folder # NoFolder
    BY <1>0, <1>3, <2>2 DEF ShowSnapshot, Finished, ThreadsInv
  <2>6. NothingAhead' /\ ThreadsInv' /\ RunningHasThread'
    BY <1>0, <2>1, <2>2, <2>5, Bounds DEF NothingAhead, ThreadsInv, RunningHasThread
  <2> QED
    BY <2>3, <2>4, <2>6 DEF IInv
<1>4. CASE ListAgain(r) \/ ShowListing(r)
  <2>1. /\ r = revision /\ thread' \in [Revisions -> Thread]
        /\ thread'[r].step = "none"
        /\ \A q \in Revisions : q # r => thread'[q] = thread[q]
        /\ UNCHANGED <<folder, revision>> /\ running' = FALSE
    BY <1>1, <1>4, Records DEF ListAgain, ShowListing, Current, view
  <2>2. rows' \in Rows /\ RowsOfFolder'
    <3>1. rows' = rows \/ (rows' = thread[r].rows /\ thread[r].rows # NoRows)
      BY <1>4, Records DEF ListAgain, ShowListing, WasSnapshot, view
    <3>2. thread[r].rows # NoRows => thread[r].rows.folder = folder
      BY <1>0, <1>4, <2>1 DEF ListAgain, ShowListing, Finished, ThreadsInv
    <3> QED
      BY <1>0, <2>1, <3>1, <3>2, ThreadFacts DEF RowsOfFolder, TypeOK
  <2>3. TypeOK'
    <3>1. CASE ListAgain(r)
      BY <1>0, <2>1, <2>2, <3>1 DEF ListAgain, TypeOK, world, view
    <3>2. CASE ShowListing(r)
      <4>1. cache' \in [stamp: Catalogs, catalog: Catalogs]
        BY <3>2, ThreadFacts DEF ShowListing, Rows
      <4>2. thread[r].folder \in Folders
        BY <1>0, <2>1, <3>2, ThreadFacts DEF ShowListing, Finished, ThreadsInv
      <4>3. saved' \in SUBSET (Folders \X Options)
        BY <1>0, <2>1, <3>2, <4>2, ThreadFacts DEF ShowListing, TypeOK
      <4> QED
        BY <1>0, <2>1, <2>2, <3>2, <4>1, <4>3 DEF ShowListing, TypeOK, world
    <3> QED
      BY <1>4, <3>1, <3>2
  <2>4. NothingAhead' /\ ThreadsInv' /\ RunningHasThread'
    BY <1>0, <2>1, Bounds DEF NothingAhead, ThreadsInv, RunningHasThread
  <2> QED
    BY <2>2, <2>3, <2>4 DEF IInv
<1> QED
  BY <1>2, <1>3, <1>4 DEF Deliver

\* Only the container changes.
LEMMA WorldKeeps ==
    ASSUME IInv, ChangeContents \/ Publish \/ Promote \/ Demote
    PROVE IInv'
<1>1. SameModel
  BY DEF ChangeContents, Publish, Promote, Demote
<1>2. /\ contents' \in 0 .. MaxChanges /\ catalog' \in 0 .. MaxPublishes
      /\ authority' \in BOOLEAN /\ demotions' \in 0 .. MaxDemotions
  <2>1. TypeOK /\ MaxChanges \in Nat /\ MaxPublishes \in Nat /\ MaxDemotions \in Nat
    BY ListingAssumption DEF IInv
  <2>2. CASE ChangeContents
    BY <2>1, <2>2 DEF TypeOK, ChangeContents
  <2>3. CASE Publish
    BY <2>1, <2>3 DEF TypeOK, Publish
  <2>4. CASE Promote
    BY <2>1, <2>4 DEF TypeOK, Promote
  <2>5. CASE Demote
    <3>1. authority' \in BOOLEAN
      BY <2>5 DEF Demote
    <3> QED
      BY <2>1, <2>5, <3>1 DEF TypeOK, Demote
  <2> QED
    BY <2>2, <2>3, <2>4, <2>5
<1>3. TypeOK'
  BY <1>1, <1>2 DEF IInv, TypeOK, SameModel, view
<1>4. NothingAhead' /\ ThreadsInv' /\ RowsOfFolder' /\ RunningHasThread'
  BY <1>1 DEF IInv, SameModel, view, NothingAhead, ThreadsInv, RowsOfFolder,
              RunningHasThread
<1> QED
  BY <1>3, <1>4 DEF IInv

LEMMA Inductive == IInv /\ [Next]_vars => IInv'
<1>1. ASSUME IInv, Next PROVE IInv'
  BY <1>1, SetFolderKeeps, AskKeeps, WorkKeeps, DeliverKeeps, WorldKeeps DEF Next
<1>2. ASSUME IInv, UNCHANGED vars PROVE IInv'
  BY <1>2 DEF vars, IInv, TypeOK, NothingAhead, ThreadsInv, RowsOfFolder, RunningHasThread
<1> QED
  BY <1>1, <1>2

(* The inductive invariant holds in every state. *)
THEOREM Invariance == Spec => []IInv
<1> QED
  BY InitIInv, Inductive, PTL DEF Spec

(* Every variable stays in its type, for any folders and bounds. *)
THEOREM TypeCorrect == Spec => []TypeOK
<1>1. IInv => TypeOK
  BY DEF IInv
<1> QED
  BY Invariance, <1>1, PTL

(* Whatever thread finishes late, with a listing or a snapshot of a folder that
   was left, the rows are those of the folder that is shown. *)
THEOREM RowsAreOfFolder == Spec => []RowsOfFolder
<1>1. IInv => RowsOfFolder
  BY DEF IInv
<1> QED
  BY Invariance, <1>1, PTL

(* m_running, which turns every refresh into a pending one, is set exactly
   while a thread of the present revision will reset it. *)
THEOREM RunningIsReset == Spec => []RunningHasThread
<1>1. IInv => RunningHasThread
  BY DEF IInv
<1> QED
  BY Invariance, <1>1, PTL
=============================================================================
