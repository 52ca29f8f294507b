--------------------------- MODULE DashboardFiles ---------------------------
(***************************************************************************)
(* The files of the dashboard: a snapshot of the drive that threads scan   *)
(* section by section, and the paths that a search thread finds for the    *)
(* query.  Scans, searches, debounce timers and watches race with the      *)
(* user, who sets path and query, and with whoever changes the drive.      *)
(*                                                                         *)
(* m_revision and m_searchRevision only tell whether a thread was started  *)
(* since the last change, so each thread carries that as `current`; what   *)
(* a thread was started for is kept with its result.                       *)
(***************************************************************************)
EXTENDS Naturals, SequencesExt

CONSTANTS
    Paths,      \* drives that the dashboard may show
    Queries,    \* texts to search for
    None,       \* no path (empty or relative), no query (blank), no thread
    Docs,       \* files
    Sections,   \* the sections in the order in which a search reads them
    Places,     \* where files may be: drives and sections
    Hits(_),    \* the files that a query finds
    MaxInputs,  \* bound: calls of setContainerPath and setQuery
    MaxChanges  \* bound: changes of the drives

ASSUME DashboardAssumption ==
    /\ Places \subseteq Paths \X Range(Sections)
    /\ MaxInputs \in Nat /\ MaxChanges \in Nat
    /\ None \notin Paths \cup Queries \cup Docs
    /\ \A q \in Queries : Hits(q) \subseteq Docs

VARIABLES
    place,      \* where each file is, or None
    ready,      \* SocietyDrive::isReady of each drive
    path,       \* m_path
    query,      \* m_query
    files,      \* m_files, and the path they were scanned for
    error,      \* m_error: of a scan, of a search, or none
    loading,    \* m_loading
    again,      \* m_refreshPending
    debounce,   \* m_debounce is running
    scans,      \* the threads of scan
    search,     \* the thread of searchIndex, or None: m_searching
    searchAgain,    \* m_searchPending
    searchDebounce, \* m_searchDebounce is running
    matches,    \* m_matches, m_completedQuery and the path searched
    inputs, changes

drive == <<place, ready>>
scanning == <<loading, again, debounce, scans>>
searching == <<search, searchAgain, searchDebounce>>
bounds == <<inputs, changes>>
vars == <<drive, path, query, files, error, scanning, searching, matches, bounds>>

Found(p, section) == {d \in Docs : place[d] = <<p, section>>}

NoFiles == [of |-> None, docs |-> {}]
NoMatches == [of |-> None, query |-> None, docs |-> {}]
Cut == "cut short"  \* the result of a thread that was told to stop

\* A thread that an earlier revision started changes nothing any more.
\* KeptCurrent, KeepsMatches and StopOnly below are mutants.
KeptCurrent(threads) == threads
Superseded(threads) == {[t EXCEPT !.current = FALSE] : t \in threads}

---------------------------------------------------------------------------
(* Scans                                                                   *)

NewScan(p) == [of |-> p, step |-> "open", left |-> Range(Sections), docs |-> {},
            failed |-> FALSE, current |-> TRUE]

\* The flag m_cancel ends the reading, and a scan that read it has no result.
Cancelled(t) ==
    IF t.step = "done" THEN t
    ELSE [t EXCEPT !.step = "done", !.of = Cut, !.left = {}, !.docs = {}]

\* refresh, called by the debounce, by the fallback timer and by the user.
refresh ==
    IF loading THEN again' = TRUE /\ UNCHANGED <<loading, debounce, scans, files, error>>
    ELSE /\ debounce' = FALSE /\ UNCHANGED again
         /\ loading' = (path # None)
         /\ IF path = None
            THEN scans' = Superseded(scans) /\ files' = NoFiles /\ error' = "none"
            ELSE /\ scans' = Superseded(scans) \cup {NewScan(path)}
                 /\ UNCHANGED <<files, error>>

Refreshed == refresh /\ UNCHANGED <<drive, path, query, searching, matches, bounds>>
Debounced == debounce /\ Refreshed
Fallback == path # None /\ Refreshed

Scan(t, u) ==
    /\ scans' = (scans \ {t}) \cup {u}
    /\ UNCHANGED <<drive, path, query, files, error, loading, again, debounce,
                   searching, matches, bounds>>

\* A drive that is not ready is shown empty.
ScanOpens(t) ==
    /\ t.step = "open"
    /\ Scan(t, [t EXCEPT !.step = IF ready[t.of] THEN "read" ELSE "done"])

\* The sections are read concurrently, in any order.
ScanReads(t, section) ==
    /\ t.step = "read" /\ section \in t.left
    /\ Scan(t, [t EXCEPT !.left = @ \ {section}, !.docs = @ \cup Found(t.of, section)])

\* The drive must still be ready.
ScanEnds(t) ==
    /\ t.step = "read" /\ t.left = {}
    /\ Scan(t, [t EXCEPT !.step = "done", !.failed = ~ready[t.of],
                         !.docs = IF ready[t.of] THEN @ ELSE {}])

\* The matches are those of an earlier snapshot: search again.
KeepsMatches == searchDebounce
Rematch == searchDebounce \/ query # None

ScanDelivered(t) ==
    /\ t.step = "done"
    /\ scans' = scans \ {t}
    /\ IF ~t.current THEN UNCHANGED <<files, error, loading, again, debounce, searchDebounce>>
       ELSE /\ files' = [of |-> t.of, docs |-> t.docs]
            /\ error' = IF t.failed THEN "scan" ELSE "none"
            /\ loading' = FALSE /\ again' = FALSE
            /\ debounce' = (debounce \/ again)
            /\ searchDebounce' = Rematch
    /\ UNCHANGED <<drive, path, query, search, searchAgain, matches, bounds>>

ScanSteps(t) == \/ ScanOpens(t) \/ ScanEnds(t) \/ ScanDelivered(t)
                \/ \E section \in t.left : ScanReads(t, section)

---------------------------------------------------------------------------
(* Searches                                                                *)

Outdate(s) == IF s = None THEN None ELSE [s EXCEPT !.current = FALSE, !.stop = TRUE]
StopOnly(s) == IF s = None THEN None ELSE [s EXCEPT !.stop = TRUE]
StopSearch(s) == Outdate(s)

NewSearch == [of |-> path, query |-> query, left |-> Sections, docs |-> {},
              step |-> "read", stop |-> FALSE, current |-> TRUE]

\* search, when its debounce fires.
SearchDebounced ==
    /\ searchDebounce /\ searchDebounce' = FALSE
    /\ IF search # None THEN searchAgain' = TRUE /\ UNCHANGED <<search, matches>>
       ELSE /\ UNCHANGED searchAgain
            /\ IF query = None \/ path = None THEN matches' = NoMatches /\ UNCHANGED search
               ELSE search' = NewSearch /\ UNCHANGED matches
    /\ UNCHANGED <<drive, path, query, files, error, scanning, bounds>>

Search(s) == /\ search' = s
             /\ UNCHANGED <<drive, path, query, files, error, scanning, searchAgain,
                            searchDebounce, matches, bounds>>

\* Before each page the thread looks whether it was told to stop; a drive that
\* is not ready fails the search.
SearchReads ==
    /\ search # None /\ search.step = "read"
    /\ Search(IF search.stop THEN [search EXCEPT !.step = "done", !.of = Cut, !.docs = {}]
              ELSE IF ~ready[search.of] THEN [search EXCEPT !.step = "failed", !.docs = {}]
              ELSE [search EXCEPT
                  !.left = Tail(@),
                  !.step = IF Len(search.left) = 1 THEN "done" ELSE "read",
                  !.docs = @ \cup (Found(search.of, Head(search.left)) \cap Hits(search.query))])

\* The result of a search that a new path or query has outdated is dropped.
SearchDelivered ==
    /\ search # None /\ search.step \in {"done", "failed"}
    /\ search' = None
    /\ IF search.current
       THEN /\ matches' = [of |-> search.of, query |-> search.query, docs |-> search.docs]
            /\ error' = IF search.step = "failed" THEN "search" ELSE "none"
       ELSE UNCHANGED <<matches, error>>
    /\ searchAgain' = FALSE /\ searchDebounce' = (searchDebounce \/ searchAgain \/ ~search.current)
    /\ UNCHANGED <<drive, path, query, files, scanning, bounds>>

---------------------------------------------------------------------------
(* The user                                                                *)

Input == inputs < MaxInputs /\ inputs' = inputs + 1 /\ UNCHANGED <<drive, changes>>

SetContainerPath(p) ==
    /\ Input /\ p # path /\ path' = p
    /\ scans' = {Cancelled(t) : t \in Superseded(scans)}
                    \cup (IF p = None THEN {} ELSE {NewScan(p)})
    /\ again' = FALSE /\ debounce' = FALSE /\ loading' = (p # None)
    /\ search' = StopSearch(search)
    /\ matches' = NoMatches /\ files' = NoFiles /\ error' = "none"
    /\ UNCHANGED <<query, searchAgain, searchDebounce>>

SetQuery(q) ==
    /\ Input /\ q # query /\ query' = q
    /\ search' = StopSearch(search)
    /\ searchDebounce' = TRUE
    /\ UNCHANGED <<path, files, error, scanning, searchAgain, matches>>

---------------------------------------------------------------------------
(* The drives                                                              *)

\* A watch of the shown drive may report the change, or not be there yet.
Change == /\ changes < MaxChanges /\ changes' = changes + 1
          /\ debounce' \in {debounce, path # None}
          /\ debounce => debounce'
          /\ UNCHANGED <<path, query, files, error, loading, again, scans, searching,
                         matches, inputs>>

ChangeFile ==
    /\ Change /\ UNCHANGED ready
    /\ \E d \in Docs, where \in Places \cup {None} :
          where # place[d] /\ place' = [place EXCEPT ![d] = where]
ChangeReady ==
    /\ Change /\ UNCHANGED place
    /\ \E p \in Paths : ready' = [ready EXCEPT ![p] = ~@]

Init ==
    /\ place \in [Docs -> {w \in Places : w[2] = Head(Sections)}]
    /\ \E b \in BOOLEAN : ready = [p \in Paths |-> b]
    /\ path = None /\ query = None
    /\ files = NoFiles /\ error = "none" /\ matches = NoMatches
    /\ loading = FALSE /\ again = FALSE /\ debounce = FALSE /\ scans = {}
    /\ search = None /\ searchAgain = FALSE /\ searchDebounce = FALSE
    /\ inputs = 0 /\ changes = 0

Next ==
    \/ Debounced \/ Fallback
    \/ \E t \in scans : ScanSteps(t)
    \/ SearchDebounced \/ SearchReads \/ SearchDelivered
    \/ \E p \in Paths \cup {None} : SetContainerPath(p)
    \/ \E q \in Queries \cup {None} : SetQuery(q)
    \/ ChangeFile \/ ChangeReady

Spec == Init /\ [][Next]_vars

(* The fallback and the search timer fire, threads run to their end and their
   signals are delivered.  Nothing is assumed of the user, of the drives and of
   the watches, whose debounced signals only make the view react sooner. *)
Fairness ==
    /\ WF_vars(Fallback) /\ WF_vars(SearchDebounced)
    /\ WF_vars(\E t \in scans : ScanSteps(t))
    /\ WF_vars(SearchReads \/ SearchDelivered)
FairSpec == Spec /\ Fairness

---------------------------------------------------------------------------
(* Properties                                                              *)

(* m_loading makes every later refresh wait, so it is set exactly while one
   thread of the current revision will clear it; and no other search than one
   for path and query of this moment is taken for a current one. *)
RunningHasWork ==
    /\ loading <=> \E t \in scans : t.current
    /\ \A t, u \in scans : t.current /\ u.current => t = u
    /\ \A t \in scans : t.current => t.of = path
    /\ again => loading
    /\ search # None /\ search.current =>
           search.of = path /\ search.query = query /\ ~search.stop

(* The files shown are those of the path set last or none, whatever thread of
   an earlier path comes in late, and in the end they are. *)
ScanShown == INSTANCE LatestResult WITH
    Keys <- Paths, asked <- path, shown <- files.of
ScanServes == ScanShown!Spec

(* The matches that filter the files are those of one search that ran to its
   end, for the path and the query that the user set last or none; every query
   gets them in the end, although each new one stops the search under way. *)
SearchShown == INSTANCE LatestResult WITH
    Keys <- Paths \X Queries,
    asked <- IF path = None \/ query = None THEN None ELSE <<path, query>>,
    shown <- IF matches = NoMatches THEN None ELSE <<matches.of, matches.query>>
SearchServes == SearchShown!Spec

\* filtered: what the view shows, by name until a search has completed.
filtered == IF query = None THEN files.docs
            ELSE IF matches.query = query THEN files.docs \cap matches.docs
            ELSE files.docs \cap Hits(query)
Present == {d \in Docs : place[d] # None /\ place[d][1] = path}
Expected == IF path = None \/ ~ready[path] THEN {}
            ELSE IF query = None THEN Present ELSE Present \cap Hits(query)

(* Changes of the drive may fall between two sections that a scan or a search
   reads, and no watch need report them: once they and the user stop, the view
   comes to show what the drive has for the query, and no error. *)
ViewSettles ==
    <>[](filtered = Expected /\ (path # None /\ ready[path] => error = "none"))
=============================================================================
