-------------------------- MODULE StorageRequests --------------------------
(***************************************************************************)
(* Downloading a file the host holds: StorageDirectoryModel::openPath and  *)
(* checkRequest on the GUI thread, the background threads they start, and  *)
(* the request files under .society-sync/requests that StorageMap writes   *)
(* and the host of the container answers.                                  *)
(*                                                                         *)
(* Every openPath has a background thread and makes at most one request    *)
(* with a fresh UUID, so both are named by the revision it was given.      *)
(***************************************************************************)
EXTENDS Naturals

CONSTANTS
    Paths,       \* files and packages, inside the container or not
    NoPath,      \* nothing was asked for yet
    MaxRevision  \* bound: openPath and setFolder calls of one behaviour

ASSUME RequestsAssumption ==
    /\ MaxRevision \in Nat
    /\ NoPath \notin Paths

Revisions == 1 .. MaxRevision

(* What is known of a path: no file and no catalog object; a file without an
   object; an object whose contents are with the host; an object held here. *)
Objects == {"missing", "local", "remote", "resident"}

RequestStates == {"none", "queued", "ready", "failed", "cancelled"}
Settled == {"ready", "failed", "cancelled"}

VARIABLES
    object,         \* each path's catalog object and file
    request,        \* the state in each request file
    revision,       \* m_requestRevision
    held,           \* m_request: the revision that names it, or 0
    requestedPath,  \* m_requestedPath
    downloading,    \* m_downloading
    polling,        \* the timer m_requestPoll is running
    checking,       \* m_checkingRequest
    opener,         \* the thread that each openPath started
    check,          \* the thread of checkRequest, by the revision it captured
    finisher,       \* a finishRequest of the host between its read and write
    signal          \* what the last step emitted: activated, downloadFailed

gui == <<revision, held, requestedPath, downloading, polling, checking>>
vars == <<object, request, revision, held, requestedPath, downloading, polling,
          checking, opener, check, finisher, signal>>

Opener == [step: {"none", "cancel", "cancelWrite", "look", "request", "answer"},
           path: Paths \cup {NoPath}, old: Revisions \cup {0},
           answer: {"none", "request", "ready", "failed"}]
Check == [step: {"none", "read", "verify", "answer"},
          path: Paths \cup {NoPath}, state: RequestStates]
Signals == [kind: {"none", "activated", "failed"}, path: Paths \cup {NoPath}]

NoOpener == [step |-> "none", path |-> NoPath, old |-> 0, answer |-> "none"]
NoCheck == [step |-> "none", path |-> NoPath, state |-> "none"]
NoSignal == [kind |-> "none", path |-> NoPath]

Emit(kind, path) == signal' = [kind |-> kind, path |-> path]
Quiet == signal' = NoSignal

---------------------------------------------------------------------------
(* The GUI thread asks.                                                    *)

\* A name that ends in a bug is a mutant of the definition after it.
ForgetStillChecking ==
    /\ revision < MaxRevision
    /\ revision' = revision + 1
    /\ held' = 0 /\ polling' = FALSE /\ UNCHANGED checking
ForgetKeepsRequest ==
    /\ revision < MaxRevision
    /\ revision' = revision + 1
    /\ polling' = FALSE /\ checking' = FALSE /\ UNCHANGED held

\* What openPath and setFolder both drop: the request is polled no longer.
Forget ==
    /\ revision < MaxRevision
    /\ revision' = revision + 1
    /\ held' = 0
    /\ polling' = FALSE
    /\ checking' = FALSE

OpenPath(p) ==
    /\ ~(downloading /\ p = requestedPath)
    /\ Forget
    /\ requestedPath' = p
    /\ downloading' = TRUE
    /\ opener' = [opener EXCEPT ![revision + 1] =
                    [step |-> "cancel", path |-> p, old |-> held, answer |-> "none"]]
    /\ Quiet /\ UNCHANGED <<object, request, check, finisher>>

\* The part of setFolder that concerns the request: it is not cancelled.
SetFolder ==
    /\ Forget
    /\ downloading' = FALSE
    /\ Quiet /\ UNCHANGED <<object, request, requestedPath, opener, check, finisher>>

CheckRequest ==
    /\ polling /\ ~checking /\ held # 0
    /\ checking' = TRUE
    /\ check' = [check EXCEPT ![revision] =
                    [step |-> "read", path |-> requestedPath, state |-> "none"]]
    /\ Quiet /\ UNCHANGED <<object, request, revision, held, requestedPath,
                            downloading, polling, opener, finisher>>

---------------------------------------------------------------------------
(* The thread of an openPath.                                              *)

Step(r, step) == opener' = [opener EXCEPT ![r].step = step]
Answer(r, answer) ==
    opener' = [opener EXCEPT ![r] =
                [step |-> "answer", path |-> opener[r].path,
                 old |-> opener[r].old, answer |-> answer]]

\* StorageMap::cancel reads the file, then replaces it whatever has happened.
CancelRead(r) ==
    /\ opener[r].step = "cancel"
    /\ Step(r, IF opener[r].old = 0 THEN "look" ELSE "cancelWrite")
    /\ Quiet /\ UNCHANGED <<object, request, check, finisher>> /\ UNCHANGED gui

CancelWrite(r) ==
    /\ opener[r].step = "cancelWrite"
    /\ Step(r, "look")
    /\ \/ request' = [request EXCEPT ![opener[r].old] = "cancelled"]
       \/ UNCHANGED request \* not written
    /\ Quiet /\ UNCHANGED <<object, check, finisher>> /\ UNCHANGED gui

\* Any path may prove to be outside the container, or the container be gone.
Look(r) ==
    /\ opener[r].step = "look"
    /\ \/ object[opener[r].path] \in {"local", "resident"} /\ Answer(r, "ready")
       \/ object[opener[r].path] = "remote" /\ Step(r, "request")
       \/ Answer(r, "failed")
    /\ Quiet /\ UNCHANGED <<object, request, check, finisher>> /\ UNCHANGED gui

\* StorageMap::request looks at the catalog again and writes the file.
Request(r) ==
    /\ opener[r].step = "request"
    /\ \/ /\ object[opener[r].path] \in {"remote", "resident"}
          /\ request' = [request EXCEPT ![r] = "queued"]
          /\ Answer(r, "request")
       \/ Answer(r, "failed") /\ UNCHANGED request
    /\ Quiet /\ UNCHANGED <<object, check, finisher>> /\ UNCHANGED gui

CurrentIgnored(r) == TRUE

\* The thread has finished: its answer counts only for the last openPath.
Current(r) == r = revision

OpenDoneUnpolled(r) ==
    /\ opener[r].step = "answer"
    /\ Step(r, "none")
    /\ Current(r) /\ held' = r
    /\ Quiet /\ UNCHANGED <<revision, requestedPath, downloading, polling, checking>>
    /\ UNCHANGED <<object, request, check, finisher>>

OpenDone(r) ==
    /\ opener[r].step = "answer"
    /\ Step(r, "none")
    /\ \/ ~Current(r) /\ Quiet /\ UNCHANGED gui
       \/ /\ Current(r)
          /\ opener[r].answer = "request"
          /\ held' = r /\ polling' = TRUE
          /\ Quiet /\ UNCHANGED <<revision, requestedPath, downloading, checking>>
       \/ /\ Current(r)
          /\ opener[r].answer # "request"
          /\ held' = 0 /\ downloading' = FALSE
          /\ Emit(IF opener[r].answer = "ready" THEN "activated" ELSE "failed",
                  opener[r].path)
          /\ UNCHANGED <<revision, requestedPath, polling, checking>>
    /\ UNCHANGED <<object, request, check, finisher>>

---------------------------------------------------------------------------
(* The thread of a checkRequest.                                           *)

CheckReadOnlyFile(r) ==
    /\ check[r].step = "read"
    /\ check' = [check EXCEPT ![r].step = "verify"]
    /\ Quiet /\ UNCHANGED <<object, request, opener, finisher>> /\ UNCHANGED gui

CheckRead(r) ==
    /\ check[r].step = "read"
    /\ check' = [check EXCEPT ![r] =
                    [step |-> IF request[r] = "ready" THEN "verify" ELSE "answer",
                     path |-> check[r].path, state |-> request[r]]]
    /\ Quiet /\ UNCHANGED <<object, request, opener, finisher>> /\ UNCHANGED gui

\* Ready or not, only a file that is held here now may be opened.
CheckVerify(r) ==
    /\ check[r].step = "verify"
    /\ check' = [check EXCEPT ![r] =
                    [step |-> "answer", path |-> check[r].path,
                     state |-> IF object[check[r].path] = "resident" THEN "ready"
                                                                  ELSE "failed"]]
    /\ Quiet /\ UNCHANGED <<object, request, opener, finisher>> /\ UNCHANGED gui

CheckDone(r) ==
    /\ check[r].step = "answer"
    /\ check' = [check EXCEPT ![r] = NoCheck]
    /\ \/ ~Current(r) /\ Quiet /\ UNCHANGED gui
       \/ /\ Current(r)
          /\ checking' = FALSE
          /\ check[r].state \notin Settled
          /\ Quiet /\ UNCHANGED <<revision, held, requestedPath, downloading, polling>>
       \/ /\ Current(r)
          /\ checking' = FALSE
          /\ check[r].state \in Settled
          /\ held' = 0 /\ polling' = FALSE /\ downloading' = FALSE
          /\ Emit(IF check[r].state = "ready" THEN "activated" ELSE "failed",
                  check[r].path)
          /\ UNCHANGED <<revision, requestedPath>>
    /\ UNCHANGED <<object, request, opener, finisher>>

---------------------------------------------------------------------------
(* The host of the container: it finds the queued requests, transfers what *)
(* they name, publishes a catalog and finishes them.                       *)

\* finishRequest reads the state, without an error only for a file held here.
FinishRead(r) ==
    /\ request[r] = "queued" /\ finisher[r] = "none"
    /\ \E outcome \in {"ready", "failed"} :
         /\ outcome = "ready" => object[opener[r].path] = "resident"
         /\ finisher' = [finisher EXCEPT ![r] = outcome]
    /\ Quiet /\ UNCHANGED <<object, request, opener, check>> /\ UNCHANGED gui

FinishWrite(r) ==
    /\ finisher[r] # "none"
    /\ request' = [request EXCEPT ![r] = finisher[r]]
    /\ finisher' = [finisher EXCEPT ![r] = "none"]
    /\ Quiet /\ UNCHANGED <<object, opener, check>> /\ UNCHANGED gui

\* Transfers, evictions, removals and new files, published in the catalog.
Publish(p) ==
    /\ \E state \in Objects \ {object[p]} : object' = [object EXCEPT ![p] = state]
    /\ Quiet /\ UNCHANGED <<request, opener, check, finisher>> /\ UNCHANGED gui

---------------------------------------------------------------------------
Init ==
    /\ object \in [Paths -> Objects]
    /\ request = [r \in Revisions |-> "none"]
    /\ revision = 0 /\ held = 0
    /\ requestedPath = NoPath
    /\ downloading = FALSE /\ polling = FALSE /\ checking = FALSE
    /\ opener = [r \in Revisions |-> NoOpener]
    /\ check = [r \in Revisions |-> NoCheck]
    /\ finisher = [r \in Revisions |-> "none"]
    /\ signal = NoSignal

Work(r) == CancelRead(r) \/ CancelWrite(r) \/ Look(r) \/ Request(r)
Verify(r) == CheckRead(r) \/ CheckVerify(r)
Deliver(r) == OpenDone(r) \/ CheckDone(r)
Host(r) == FinishRead(r) \/ FinishWrite(r)

Next ==
    \/ SetFolder
    \/ CheckRequest
    \/ \E p \in Paths : OpenPath(p) \/ Publish(p)
    \/ \E r \in Revisions : Work(r) \/ Verify(r) \/ Deliver(r) \/ Host(r)

Spec == Init /\ [][Next]_vars

(* Threads run, their finished signal is delivered, the timer ticks, and the
   host answers a request in the end, if only by an error. *)
Fairness ==
    /\ WF_vars(CheckRequest)
    /\ \A r \in Revisions : /\ WF_vars(Work(r)) /\ WF_vars(Verify(r))
                            /\ WF_vars(Deliver(r)) /\ WF_vars(Host(r))
FairSpec == Spec /\ Fairness

---------------------------------------------------------------------------
(* Properties.                                                             *)

\* Every variable stays in its type.
TypeOK ==
    /\ object \in [Paths -> Objects]
    /\ request \in [Revisions -> RequestStates]
    /\ revision \in 0 .. MaxRevision
    /\ held \in 0 .. MaxRevision
    /\ requestedPath \in Paths \cup {NoPath}
    /\ downloading \in BOOLEAN /\ polling \in BOOLEAN /\ checking \in BOOLEAN
    /\ opener \in [Revisions -> Opener]
    /\ check \in [Revisions -> Check]
    /\ finisher \in [Revisions -> {"none", "ready", "failed"}]
    /\ signal \in Signals

(* A view that shows a download is waiting for somebody: for the thread of
   its last openPath, or for a request that the timer polls; and a poll that
   is in progress (m_checkingRequest blocks the next one) has a thread. *)
WaitsForSomebody ==
    /\ downloading => \/ revision # 0 /\ opener[revision].step # "none"
                      \/ held = revision /\ polling
    /\ polling => downloading /\ held = revision
    /\ checking => polling /\ check[revision].step # "none"

(* openPath cancels the request it replaces, in a thread of its own and
   possibly late: never the one that the view is waiting for now. *)
HeldIsNotCancelled ==
    held # 0 =>
        /\ request[held] # "cancelled"
        /\ \A r \in Revisions : opener[r].old = held
                                    => opener[r].step \notin {"cancel", "cancelWrite"}

(* A signal answers the question that is open: a late thread of an earlier
   openPath, or of a folder left since, neither opens a file nor reports an
   error, and one question has one answer. *)
SignalAnswersLast ==
    [][signal' # NoSignal =>
        /\ downloading /\ ~downloading'
        /\ signal'.path = requestedPath /\ requestedPath' = requestedPath]_vars

(* A download that came through the host opens only what the request that
   was made for it has been answered with. *)
OpensWhatHostFinished ==
    [][signal'.kind = "activated" /\ held # 0 => request[held] = "ready"]_vars

\* Every download ends, whatever is asked, cancelled and finished meanwhile.
DownloadEnds == downloading ~> ~downloading
=============================================================================
