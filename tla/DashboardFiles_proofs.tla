------------------------ MODULE DashboardFiles_proofs ------------------------
(***************************************************************************)
(* Theorems about DashboardFiles for any drives, queries, sections and     *)
(* files: both views implement the abstract LatestResult, as far as that   *)
(* is safety.                                                              *)
(*                                                                         *)
(* The argument: a thread is current only until path or query change, and  *)
(* was started for what they are now.  Only current threads deliver, so    *)
(* that a delivery is a step Show of the abstract view, and every other    *)
(* step leaves what is shown or takes it away.                             *)
(***************************************************************************)
EXTENDS DashboardFiles, TLAPS

ScanThread == [of : Paths \cup {Cut}, step : {"open", "read", "done"},
               left : SUBSET Range(Sections), docs : SUBSET Docs,
               failed : BOOLEAN, current : BOOLEAN]

\* What the proofs need of a search thread; the pages it reads do not matter.
SearchFields(s) ==
    /\ s = [of |-> s.of, query |-> s.query, left |-> s.left, docs |-> s.docs,
            step |-> s.step, stop |-> s.stop, current |-> s.current]
    /\ s.stop \in BOOLEAN /\ s.current \in BOOLEAN

TypeOK ==
    /\ path \in Paths \cup {None} /\ query \in Queries \cup {None}
    /\ scans \subseteq ScanThread
    /\ loading \in BOOLEAN /\ again \in BOOLEAN /\ debounce \in BOOLEAN
    /\ search # None => SearchFields(search)

\* A current search has something to search for and somewhere to search.
SearchHasBoth ==
    search # None /\ search.current => path # None /\ query # None

IInv == TypeOK /\ RunningHasWork /\ SearchHasBoth

---------------------------------------------------------------------------
LEMMA NewScanFacts ==
    \A p \in Paths : /\ NewScan(p) \in ScanThread
                     /\ NewScan(p).current /\ NewScan(p).of = p
BY DEF NewScan, ScanThread

LEMMA SupersededFacts ==
    ASSUME NEW T \in SUBSET ScanThread
    PROVE /\ Superseded(T) \subseteq ScanThread
          /\ \A t \in Superseded(T) : ~t.current
BY DEF Superseded, ScanThread

LEMMA CancelledFacts ==
    ASSUME NEW t \in ScanThread
    PROVE Cancelled(t) \in ScanThread /\ Cancelled(t).current = t.current
BY DEF Cancelled, ScanThread, Cut

LEMMA OutdatedFacts ==
    ASSUME NEW s, s # None => SearchFields(s), StopSearch(s) # None
    PROVE SearchFields(StopSearch(s)) /\ ~StopSearch(s).current
<1>1. s # None
  BY DEF StopSearch, Outdate
<1> QED
  BY <1>1 DEF StopSearch, Outdate, SearchFields

LEMMA InitIInv == Init => IInv
BY DEF Init, IInv, TypeOK, RunningHasWork, SearchHasBoth

---------------------------------------------------------------------------
\* The scans of a step that leaves the searches, the path and the query alone.
ScansInv ==
    /\ scans \subseteq ScanThread
    /\ loading \in BOOLEAN /\ again \in BOOLEAN /\ debounce \in BOOLEAN
    /\ loading <=> \E t \in scans : t.current
    /\ \A t, u \in scans : t.current /\ u.current => t = u
    /\ \A t \in scans : t.current => t.of = path
    /\ again => loading

SearchInv ==
    /\ search # None => SearchFields(search)
    /\ search # None /\ search.current =>
           /\ search.of = path /\ search.query = query /\ ~search.stop
           /\ path # None /\ query # None

LEMMA Parts == IInv <=> /\ path \in Paths \cup {None} /\ query \in Queries \cup {None}
                        /\ ScansInv /\ SearchInv
BY DEF IInv, TypeOK, RunningHasWork, SearchHasBoth, ScansInv, SearchInv

LEMMA PartsPrime == IInv' <=> /\ path' \in Paths \cup {None}
                              /\ query' \in Queries \cup {None}
                              /\ ScansInv' /\ SearchInv'
BY DEF IInv, TypeOK, RunningHasWork, SearchHasBoth, ScansInv, SearchInv

LEMMA RefreshKeeps ==
    ASSUME IInv, refresh, UNCHANGED <<path, query, search>>
    PROVE IInv'
<1>1. ScansInv /\ SearchInv
  BY Parts
<1>2. ScansInv'
  <2>1. CASE loading
    BY <1>1, <2>1 DEF refresh, ScansInv
  <2>2. CASE ~loading
    <3>1. /\ debounce' = FALSE /\ again' = again
          /\ loading' = (path # None)
          /\ scans' = Superseded(scans) \cup (IF path = None THEN {} ELSE {NewScan(path)})
      BY <2>2 DEF refresh
    <3>2. /\ Superseded(scans) \subseteq ScanThread
          /\ \A t \in Superseded(scans) : ~t.current
      BY <1>1, SupersededFacts DEF ScansInv
    <3>3. ~again /\ again \in BOOLEAN
      BY <1>1, <2>2 DEF ScansInv
    <3>4. CASE path = None
      BY <3>1, <3>2, <3>3, <3>4 DEF ScansInv
    <3>5. CASE path # None
      <4>1. NewScan(path) \in ScanThread /\ NewScan(path).current /\ NewScan(path).of = path
        BY <3>5, Parts, NewScanFacts
      <4> QED
        BY <3>1, <3>2, <3>3, <3>5, <4>1 DEF ScansInv
    <3> QED
      BY <3>4, <3>5
  <2> QED
    BY <1>1, <2>1, <2>2 DEF ScansInv
<1>3. SearchInv'
  BY <1>1 DEF SearchInv
<1> QED
  BY <1>2, <1>3, Parts, PartsPrime

LEMMA ScanStepsKeep ==
    ASSUME IInv, NEW t \in scans, ScanSteps(t)
    PROVE IInv'
<1>1. ScansInv /\ SearchInv /\ UNCHANGED <<path, query, search>> /\ t \in ScanThread
  BY Parts DEF ScanSteps, ScanOpens, ScanReads, ScanEnds, Scan, ScanDelivered, ScansInv,
               searching
<1>2. ScansInv'
  <2>1. ASSUME NEW u \in ScanThread, u.current = t.current, u.of = t.of, Scan(t, u)
        PROVE ScansInv'
    <3>1. scans' = (scans \ {t}) \cup {u} /\ UNCHANGED <<loading, again, debounce, path>>
      BY <2>1 DEF Scan
    <3> QED
      BY <1>1, <2>1, <3>1 DEF ScansInv
  <2>2. CASE ScanOpens(t)
    <3> DEFINE u == [t EXCEPT !.step = IF ready[t.of] THEN "read" ELSE "done"]
    <3>1. u \in ScanThread /\ u.current = t.current /\ u.of = t.of
      BY <1>1 DEF ScanThread
    <3> QED
      BY <2>1, <2>2, <3>1 DEF ScanOpens
  <2>3. ASSUME NEW section \in t.left, ScanReads(t, section) PROVE ScansInv'
    <3> DEFINE u == [t EXCEPT !.left = @ \ {section}, !.docs = @ \cup Found(t.of, section)]
    <3>1. u \in ScanThread /\ u.current = t.current /\ u.of = t.of
      BY <1>1 DEF ScanThread, Found
    <3> QED
      BY <2>1, <2>3, <3>1 DEF ScanReads
  <2>4. CASE ScanEnds(t)
    <3> DEFINE u == [t EXCEPT !.step = "done", !.failed = ~ready[t.of],
                              !.docs = IF ready[t.of] THEN @ ELSE {}]
    <3>1. u \in ScanThread /\ u.current = t.current /\ u.of = t.of
      BY <1>1 DEF ScanThread
    <3> QED
      BY <2>1, <2>4, <3>1 DEF ScanEnds
  <2>5. CASE ScanDelivered(t)
    <3>1. CASE ~t.current
      BY <1>1, <2>5, <3>1 DEF ScanDelivered, ScansInv
    <3>2. CASE t.current
      <4>1. /\ scans' = scans \ {t} /\ loading' = FALSE /\ again' = FALSE
            /\ debounce' \in BOOLEAN /\ UNCHANGED path
        BY <1>1, <2>5, <3>2 DEF ScanDelivered, ScansInv
      <4> QED
        BY <1>1, <3>2, <4>1 DEF ScansInv
    <3> QED
      BY <3>1, <3>2
  <2> QED
    BY <2>2, <2>3, <2>4, <2>5 DEF ScanSteps
<1>3. SearchInv'
  BY <1>1 DEF SearchInv
<1> QED
  BY <1>1, <1>2, <1>3, Parts, PartsPrime

LEMMA SearchStepsKeep ==
    ASSUME IInv, SearchDebounced \/ SearchReads \/ SearchDelivered
    PROVE IInv'
<1>1. ScansInv /\ SearchInv /\ UNCHANGED <<path, query, scanning>>
  BY Parts DEF SearchDebounced, SearchReads, SearchDelivered, Search
<1>2. ScansInv'
  BY <1>1 DEF ScansInv, scanning
<1>3. SearchInv'
  <2>1. CASE SearchDebounced
    <3>1. search' = search \/ (search' = NewSearch /\ path # None /\ query # None)
      BY <2>1 DEF SearchDebounced
    <3>2. SearchFields(NewSearch) /\ NewSearch.of = path /\ NewSearch.query = query
          /\ ~NewSearch.stop
      BY DEF NewSearch, SearchFields
    <3> QED
      BY <1>1, <3>1, <3>2 DEF SearchInv
  <2>2. CASE SearchReads
    <3>1. SearchFields(search) /\ search # None
      BY <1>1, <2>2 DEF SearchInv, SearchReads
    <3>2. CASE search.stop
      <4>1. ~search.current /\ search' = [search EXCEPT !.step = "done", !.of = Cut, !.docs = {}]
        BY <1>1, <2>2, <3>1, <3>2 DEF SearchInv, SearchReads, Search
      <4>2. SearchFields(search') /\ ~search'.current
        BY <3>1, <4>1 DEF SearchFields
      <4> QED
        BY <4>2 DEF SearchInv
    <3>3. CASE ~search.stop
      <4>1. /\ SearchFields(search') /\ search'.of = search.of /\ search'.query = search.query
            /\ search'.stop = search.stop /\ search'.current = search.current
        BY <2>2, <3>1, <3>3 DEF SearchReads, Search, SearchFields
      <4> QED
        BY <1>1, <3>1, <4>1 DEF SearchInv
    <3> QED
      BY <3>2, <3>3
  <2>3. CASE SearchDelivered
    BY <2>3 DEF SearchDelivered, SearchInv
  <2> QED
    BY <2>1, <2>2, <2>3
<1> QED
  BY <1>1, <1>2, <1>3, Parts, PartsPrime

LEMMA UserKeeps ==
    ASSUME IInv, \/ \E p \in Paths \cup {None} : SetContainerPath(p)
                 \/ \E q \in Queries \cup {None} : SetQuery(q)
    PROVE IInv'
<1>1. ScansInv /\ SearchInv
  BY Parts
<1>2. SearchInv'
  <2>1. search' = StopSearch(search)
    BY DEF SetContainerPath, SetQuery
  <2> QED
    BY <1>1, <2>1, OutdatedFacts DEF SearchInv
<1>3. CASE \E q \in Queries \cup {None} : SetQuery(q)
  BY <1>1, <1>2, <1>3, Parts, PartsPrime DEF SetQuery, ScansInv, scanning
<1>4. ASSUME NEW p \in Paths \cup {None}, SetContainerPath(p) PROVE IInv'
  <2> DEFINE old == {Cancelled(t) : t \in Superseded(scans)}
  <2>1. /\ path' = p /\ UNCHANGED query /\ again' = FALSE /\ debounce' = FALSE
        /\ loading' = (p # None)
        /\ scans' = old \cup (IF p = None THEN {} ELSE {NewScan(p)})
    BY <1>4 DEF SetContainerPath
  <2>2. old \subseteq ScanThread /\ \A t \in old : ~t.current
    BY <1>1, SupersededFacts, CancelledFacts DEF ScansInv
  <2> HIDE DEF old
  <2>3. ScansInv'
    <3>1. CASE p = None
      BY <2>1, <2>2, <3>1 DEF ScansInv
    <3>2. CASE p # None
      <4>1. NewScan(p) \in ScanThread /\ NewScan(p).current /\ NewScan(p).of = p
        BY <3>2, NewScanFacts
      <4> QED
        BY <2>1, <2>2, <3>2, <4>1 DEF ScansInv
    <3> QED
      BY <3>1, <3>2
  <2> QED
    BY <1>2, <2>1, <2>3, Parts, PartsPrime
<1> QED
  BY <1>3, <1>4

LEMMA DriveKeeps ==
    ASSUME IInv, ChangeFile \/ ChangeReady
    PROVE IInv'
<1>1. /\ ScansInv /\ SearchInv /\ debounce' \in {debounce, path # None}
      /\ UNCHANGED <<path, query, loading, again, scans, search>>
  BY Parts DEF ChangeFile, ChangeReady, Change, searching
<1>2. debounce' \in BOOLEAN
  BY <1>1 DEF ScansInv
<1> QED
  BY <1>1, <1>2, Parts, PartsPrime DEF ScansInv, SearchInv

LEMMA Inductive == IInv /\ [Next]_vars => IInv'
<1>1. ASSUME IInv, Next PROVE IInv'
  BY <1>1, RefreshKeeps, ScanStepsKeep, SearchStepsKeep, UserKeeps, DriveKeeps
     DEF Next, Debounced, Fallback, Refreshed, searching
<1>2. ASSUME IInv, UNCHANGED vars PROVE IInv'
  BY <1>2, Parts, PartsPrime DEF vars, scanning, searching, ScansInv, SearchInv
<1> QED
  BY <1>1, <1>2

(* The inductive invariant holds in every state. *)
THEOREM Invariance == Spec => []IInv
<1> QED
  BY InitIInv, Inductive, PTL DEF Spec

(* m_loading is set exactly while one thread of the current revision will clear
   it, and a search that counts is one for the present path and query. *)
THEOREM RunningIsCleared == Spec => []RunningHasWork
<1>1. IInv => RunningHasWork
  BY DEF IInv
<1> QED
  BY Invariance, <1>1, PTL

---------------------------------------------------------------------------
\* The views of LatestResult, so far as they are safety.
ScanSafe == ScanShown!Init /\ [][ScanShown!Next]_(ScanShown!vars)
SearchSafe == SearchShown!Init /\ [][SearchShown!Next]_(SearchShown!vars)

Asked == IF path = None \/ query = None THEN None ELSE <<path, query>>
Matched == IF matches = NoMatches THEN None ELSE <<matches.of, matches.query>>

LEMMA ScanStep ==
    ASSUME IInv, [Next]_vars
    PROVE [ScanShown!Next]_(ScanShown!vars)
<1>1. path \in Paths \cup {None} /\ ScansInv /\ path' \in Paths \cup {None}
  BY Parts, PartsPrime, Inductive
<1>2. CASE UNCHANGED <<path, files>>
  BY <1>2 DEF ScanShown!vars
<1>3. CASE refresh /\ UNCHANGED path
  <2>1. files' = files \/ files'.of = None
    BY <1>3 DEF refresh, NoFiles
  <2> QED
    BY <1>1, <1>3, <2>1 DEF ScanShown!Next, ScanShown!Ask
<1>4. ASSUME NEW t \in scans, ScanDelivered(t)
      PROVE [ScanShown!Next]_(ScanShown!vars)
  <2>1. CASE ~t.current
    BY <1>4, <2>1 DEF ScanDelivered, ScanShown!vars
  <2>2. CASE t.current
    <3>1. files'.of = path /\ path' = path
      BY <1>1, <1>4, <2>2 DEF ScanDelivered, ScansInv
    <3> QED
      BY <3>1 DEF ScanShown!Next, ScanShown!Show
  <2> QED
    BY <2>1, <2>2
<1>5. ASSUME NEW p \in Paths \cup {None}, SetContainerPath(p)
      PROVE [ScanShown!Next]_(ScanShown!vars)
  BY <1>1, <1>5 DEF SetContainerPath, NoFiles, ScanShown!Next, ScanShown!Ask
<1> QED
  BY <1>2, <1>3, <1>4, <1>5
     DEF Next, vars, Debounced, Fallback, Refreshed, ScanSteps, ScanOpens, ScanReads,
         ScanEnds, Scan, SearchDebounced, SearchReads, Search, SearchDelivered, SetQuery,
         ChangeFile, ChangeReady, Change

LEMMA SearchStep ==
    ASSUME IInv, [Next]_vars
    PROVE [SearchShown!Next]_(SearchShown!vars)
<1>1. /\ path \in Paths \cup {None} /\ query \in Queries \cup {None} /\ SearchInv
      /\ path' \in Paths \cup {None} /\ query' \in Queries \cup {None}
  BY Parts, PartsPrime, Inductive
<1>2. Asked' \in (Paths \X Queries) \cup {None}
  BY <1>1 DEF Asked
<1>3. ASSUME matches' \in {matches, NoMatches}
      PROVE [SearchShown!Next]_(SearchShown!vars)
  <2>1. Matched' \in {Matched, None}
    BY <1>3 DEF Matched, NoMatches
  <2> QED
    BY <1>2, <2>1 DEF Asked, Matched, SearchShown!Next, SearchShown!Ask
<1>4. CASE SearchDelivered
  <2>1. CASE ~search.current
    BY <1>3, <1>4, <2>1 DEF SearchDelivered
  <2>2. CASE search.current
    <3>1. /\ search.of = path /\ search.query = query /\ path # None /\ query # None
          /\ matches' = [of |-> search.of, query |-> search.query, docs |-> search.docs]
          /\ path' = path /\ query' = query
      BY <1>1, <1>4, <2>2 DEF SearchDelivered, SearchInv
    <3>2. matches' # NoMatches /\ matches'.of = path /\ matches'.query = query
      BY <3>1 DEF NoMatches
    <3>3. Matched' = Asked /\ Asked' = Asked
      BY <3>1, <3>2 DEF Matched, Asked
    <3> QED
      BY <3>3 DEF Asked, Matched, SearchShown!Next, SearchShown!Show
  <2> QED
    BY <2>1, <2>2
<1> QED
  BY <1>3, <1>4
     DEF Next, vars, Debounced, Fallback, Refreshed, ScanSteps, ScanOpens, ScanReads,
         ScanEnds, Scan, ScanDelivered, SearchDebounced, SearchReads, Search,
         SetContainerPath, SetQuery, ChangeFile, ChangeReady, Change

(* Whatever thread comes in late, the files shown change only to those of the
   path that is set then, or to none. *)
THEOREM ScanServesSafely == Spec => ScanSafe
<1>1. Init => ScanShown!Init
  BY DEF Init, NoFiles, ScanShown!Init
<1> QED
  BY <1>1, Invariance, ScanStep, PTL DEF Spec, ScanSafe

(* The matches change only to those of a search for the path and the query that
   are set then, or to none. *)
THEOREM SearchServesSafely == Spec => SearchSafe
<1>1. Init => SearchShown!Init
  BY DEF Init, SearchShown!Init
<1> QED
  BY <1>1, Invariance, SearchStep, PTL DEF Spec, SearchSafe
=============================================================================
