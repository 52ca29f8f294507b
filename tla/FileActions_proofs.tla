------------------------- MODULE FileActions_proofs -------------------------
(***************************************************************************)
(* Theorems about StorageRequests for any paths and any number of          *)
(* questions, and about FileActions, the composition of the menu with its  *)
(* own StorageDirectoryModel.                                              *)
(*                                                                         *)
(* The argument: whatever a thread knows it knows for its revision, and    *)
(* the members of the view belong to the last revision alone.  A request   *)
(* is only cancelled for the sake of a later revision, and only answered   *)
(* once while its revision is the last one.  The menu adds two steps of    *)
(* its own, which leave the download alone, so that invariant survives.  A *)
(* menu has one thing under way, its download or its job, and that one is  *)
(* of the action begun last.                                               *)
(***************************************************************************)
EXTENDS FileActions, TLAPS


\* Threads and files of a revision exist only once it has been given out.
NothingAhead ==
    \A r \in Revisions : r > revision =>
        /\ opener[r].step = "none" /\ check[r].step = "none"
        /\ request[r] = "none" /\ finisher[r] = "none"

\* While the last openPath's thread is there, nothing is held or polled.
OpenersInv ==
    \A r \in Revisions :
        /\ opener[r].old < r
        /\ opener[r].old # 0 => request[opener[r].old] # "none"
        /\ opener[r].step \in {"cancel", "cancelWrite", "look", "request"}
             => request[r] = "none" /\ finisher[r] = "none"
        /\ opener[r].step = "answer" /\ opener[r].answer = "request"
             => request[r] # "none"
        /\ opener[r].step # "none" /\ r = revision
             => /\ downloading /\ held = 0 /\ ~checking
                /\ requestedPath = opener[r].path

\* The request that is held is the last revision's, and it is polled.
HeldInv ==
    /\ polling <=> held # 0
    /\ held # 0 => held = revision /\ downloading /\ request[held] # "none"
    /\ checking => held # 0 /\ check[revision].step # "none"
    /\ downloading => /\ revision # 0
                      /\ opener[revision].step # "none" \/ held # 0

\* A check of the last revision is the one that the view waits for.
ChecksInv ==
    \A r \in Revisions :
        check[r].step # "none" /\ r = revision
            => checking /\ check[r].path = requestedPath

\* The last revision's request is not cancelled, and its answer is final.
AnswersInv ==
    \A r \in Revisions :
        /\ request[r] = "none" => finisher[r] = "none"
        /\ r = revision =>
             /\ request[r] # "cancelled"
             /\ finisher[r] # "none" => request[r] = "queued"
             /\ check[r].step = "verify" => request[r] = "ready"
             /\ check[r].step = "answer" /\ check[r].state = "ready"
                  => request[r] = "ready"

IInv ==
    /\ TypeOK
    /\ NothingAhead
    /\ OpenersInv
    /\ HeldInv
    /\ ChecksInv
    /\ AnswersInv

---------------------------------------------------------------------------
(* The records of the model, and what their fields hold. *)
LEMMA OpenerFacts ==
    /\ NoOpener \in Opener /\ NoOpener.step = "none" /\ NoOpener.old = 0
    /\ \A o \in Opener :
         /\ o.path \in Paths \cup {NoPath} /\ o.old \in Revisions \cup {0}
         /\ o.step \in {"none", "cancel", "cancelWrite", "look", "request", "answer"}
         /\ o.answer \in {"none", "request", "ready", "failed"}
    /\ \A o \in Opener,
          s \in {"none", "cancel", "cancelWrite", "look", "request", "answer"} :
         [o EXCEPT !.step = s] \in Opener
    /\ \A p \in Paths \cup {NoPath}, n \in Revisions \cup {0},
          s \in {"cancel", "answer"}, a \in {"none", "request", "ready", "failed"} :
         [step |-> s, path |-> p, old |-> n, answer |-> a] \in Opener
BY DEF Opener, NoOpener

LEMMA CheckFacts ==
    /\ NoCheck \in Check /\ NoCheck.step = "none"
    /\ \A c \in Check : c.path \in Paths \cup {NoPath} /\ c.state \in RequestStates
    /\ \A p \in Paths \cup {NoPath}, state \in RequestStates,
          s \in {"read", "verify", "answer"} :
         [step |-> s, path |-> p, state |-> state] \in Check
BY DEF Check, NoCheck, RequestStates

LEMMA SignalFacts ==
    /\ NoSignal \in Signals
    /\ \A p \in Paths \cup {NoPath}, k \in {"activated", "failed"} :
         [kind |-> k, path |-> p] \in Signals
BY DEF Signals, NoSignal

---------------------------------------------------------------------------
LEMMA InitIInv == Init => IInv
<1> SUFFICES ASSUME Init PROVE IInv
  OBVIOUS
<1>1. TypeOK
  <2>1. NoOpener \in Opener /\ NoCheck \in Check /\ NoSignal \in Signals
    BY OpenerFacts, CheckFacts, SignalFacts
  <2>2. 0 \in 0 .. MaxRevision
    BY RequestsAssumption
  <2> QED
    BY <2>1, <2>2 DEF Init, TypeOK, RequestStates
<1>2. ASSUME NEW r \in Revisions
      PROVE /\ opener[r].step = "none" /\ opener[r].old = 0
            /\ check[r].step = "none" /\ request[r] = "none" /\ finisher[r] = "none"
  BY OpenerFacts, CheckFacts DEF Init
<1>3. revision = 0 /\ held = 0 /\ ~downloading /\ ~polling /\ ~checking
  BY DEF Init
<1>4. \A r \in Revisions : r > 0 /\ r # 0
  BY RequestsAssumption DEF Revisions
<1>5. NothingAhead /\ OpenersInv /\ HeldInv /\ ChecksInv /\ AnswersInv
  BY <1>2, <1>3, <1>4 DEF NothingAhead, OpenersInv, HeldInv, ChecksInv, AnswersInv
<1> QED
  BY <1>1, <1>5 DEF IInv

(* What an opener's step makes of its record. *)
LEMMA StepFacts ==
    ASSUME opener \in [Revisions -> Opener], NEW r \in Revisions
    PROVE /\ \A s \in {"none", "cancel", "cancelWrite", "look", "request", "answer"} :
               Step(r, s) => /\ opener' \in [Revisions -> Opener]
                             /\ opener'[r].step = s /\ opener'[r].path = opener[r].path
                             /\ opener'[r].old = opener[r].old
                             /\ opener'[r].answer = opener[r].answer
                             /\ \A q \in Revisions : q # r => opener'[q] = opener[q]
          /\ \A a \in {"none", "request", "ready", "failed"} :
               Answer(r, a) => /\ opener' \in [Revisions -> Opener]
                               /\ opener'[r].step = "answer"
                               /\ opener'[r].path = opener[r].path
                               /\ opener'[r].old = opener[r].old
                               /\ opener'[r].answer = a
                               /\ \A q \in Revisions : q # r => opener'[q] = opener[q]
<1>1. opener[r] \in Opener
  OBVIOUS
<1>2. ASSUME NEW s \in {"none", "cancel", "cancelWrite", "look", "request", "answer"},
             Step(r, s)
      PROVE /\ opener' \in [Revisions -> Opener]
            /\ opener'[r].step = s /\ opener'[r].path = opener[r].path
            /\ opener'[r].old = opener[r].old
            /\ opener'[r].answer = opener[r].answer
            /\ \A q \in Revisions : q # r => opener'[q] = opener[q]
  <2> DEFINE o == [opener[r] EXCEPT !.step = s]
  <2>1. opener' = [opener EXCEPT ![r] = o]
    BY <1>2 DEF Step
  <2>2. o \in Opener
    BY <1>1, OpenerFacts
  <2>3. /\ o.step = s /\ o.path = opener[r].path
        /\ o.old = opener[r].old /\ o.answer = opener[r].answer
    BY <1>1 DEF Opener
  <2> HIDE DEF o
  <2> QED
    BY <2>1, <2>2, <2>3
<1>3. ASSUME NEW a \in {"none", "request", "ready", "failed"}, Answer(r, a)
      PROVE /\ opener' \in [Revisions -> Opener]
            /\ opener'[r].step = "answer" /\ opener'[r].path = opener[r].path
            /\ opener'[r].old = opener[r].old /\ opener'[r].answer = a
            /\ \A q \in Revisions : q # r => opener'[q] = opener[q]
  <2> DEFINE o == [step |-> "answer", path |-> opener[r].path,
                   old |-> opener[r].old, answer |-> a]
  <2>1. opener' = [opener EXCEPT ![r] = o]
    BY <1>3 DEF Answer
  <2>2. o \in Opener
    BY <1>1, OpenerFacts
  <2>3. /\ o.step = "answer" /\ o.path = opener[r].path
        /\ o.old = opener[r].old /\ o.answer = a
    OBVIOUS
  <2> HIDE DEF o
  <2> QED
    BY <2>1, <2>2, <2>3
<1> QED
  BY <1>2, <1>3

(* A step keeps the types. *)
LEMMA TypeOKStep == IInv /\ [Next]_vars => TypeOK'
<1> SUFFICES ASSUME TypeOK, HeldInv, [Next]_vars PROVE TypeOK'
  BY DEF IInv
<1> USE DEF TypeOK
<1>0. NoSignal \in Signals
  BY SignalFacts
<1>1. ASSUME SetFolder PROVE TypeOK'
  <2>1. revision' \in 0 .. MaxRevision /\ held' \in 0 .. MaxRevision
    BY <1>1, RequestsAssumption DEF SetFolder, Forget
  <2>2. polling' = FALSE /\ checking' = FALSE /\ downloading' = FALSE /\ signal' = NoSignal
    BY <1>1 DEF SetFolder, Forget, Quiet
  <2>3. UNCHANGED <<object, request, requestedPath, opener, check, finisher>>
    BY <1>1 DEF SetFolder
  <2> QED
    BY <1>0, <2>1, <2>2, <2>3
<1>2. ASSUME CheckRequest PROVE TypeOK'
  <2> DEFINE c == [step |-> "read", path |-> requestedPath, state |-> "none"]
  <2>1. c \in Check
    BY CheckFacts DEF RequestStates
  <2>2. check' = [check EXCEPT ![revision] = c]
    BY <1>2 DEF CheckRequest
  <2> HIDE DEF c
  <2> QED
    BY <1>0, <1>2, <2>1, <2>2 DEF CheckRequest, Quiet
<1>3. ASSUME NEW p \in Paths, OpenPath(p) PROVE TypeOK'
  <2> DEFINE o == [step |-> "cancel", path |-> p, old |-> held, answer |-> "none"]
  <2>1. o \in Opener
    <3>1. held \in Revisions \cup {0}
      BY RequestsAssumption DEF Revisions
    <3> QED
      BY <3>1, OpenerFacts
  <2>2. opener' = [opener EXCEPT ![revision + 1] = o]
    BY <1>3 DEF OpenPath
  <2> HIDE DEF o
  <2>3. opener' \in [Revisions -> Opener]
    BY <2>1, <2>2
  <2>4. revision' \in 0 .. MaxRevision /\ held' \in 0 .. MaxRevision
    BY <1>3, RequestsAssumption DEF OpenPath, Forget
  <2>5. /\ polling' = FALSE /\ checking' = FALSE /\ downloading' = TRUE
        /\ signal' = NoSignal /\ requestedPath' = p
    BY <1>3 DEF OpenPath, Forget, Quiet
  <2>6. UNCHANGED <<object, request, check, finisher>>
    BY <1>3 DEF OpenPath
  <2> QED
    BY <1>0, <2>3, <2>4, <2>5, <2>6
<1>4. ASSUME NEW p \in Paths, Publish(p) PROVE TypeOK'
  BY <1>0, <1>4 DEF Publish, Quiet, gui
<1>5. ASSUME NEW r \in Revisions, CancelRead(r) PROVE TypeOK'
  <2>1. opener' \in [Revisions -> Opener]
    BY <1>5, StepFacts DEF CancelRead
  <2> QED
    BY <1>0, <1>5, <2>1 DEF CancelRead, Quiet, gui
<1>6. ASSUME NEW r \in Revisions, CancelWrite(r) PROVE TypeOK'
  <2>1. opener' \in [Revisions -> Opener]
    BY <1>6, StepFacts DEF CancelWrite
  <2>2. request' \in [Revisions -> RequestStates]
    BY <1>6 DEF CancelWrite, RequestStates
  <2> QED
    BY <1>0, <1>6, <2>1, <2>2 DEF CancelWrite, Quiet, gui
<1>7. ASSUME NEW r \in Revisions, Look(r) PROVE TypeOK'
  <2>1. opener' \in [Revisions -> Opener]
    BY <1>7, StepFacts DEF Look
  <2> QED
    BY <1>0, <1>7, <2>1 DEF Look, Quiet, gui
<1>8. ASSUME NEW r \in Revisions, Request(r) PROVE TypeOK'
  <2>1. opener' \in [Revisions -> Opener]
    BY <1>8, StepFacts DEF Request
  <2>2. request' \in [Revisions -> RequestStates]
    BY <1>8 DEF Request, RequestStates
  <2> QED
    BY <1>0, <1>8, <2>1, <2>2 DEF Request, Quiet, gui
<1>9. ASSUME NEW r \in Revisions, OpenDone(r) PROVE TypeOK'
  <2>1. opener' \in [Revisions -> Opener]
    BY <1>9, StepFacts DEF OpenDone
  <2>2. signal' \in Signals
    <3>1. opener[r].path \in Paths \cup {NoPath}
      BY OpenerFacts
    <3> QED
      BY <1>0, <1>9, <3>1, SignalFacts DEF OpenDone, Quiet, Emit
  <2>3. held' \in 0 .. MaxRevision
    BY <1>9, RequestsAssumption DEF OpenDone, Revisions, gui
  <2>5. downloading' \in BOOLEAN /\ polling' \in BOOLEAN
    BY <1>9 DEF OpenDone, gui
  <2>4. UNCHANGED <<revision, requestedPath, checking, object, request, check, finisher>>
    BY <1>9 DEF OpenDone, gui
  <2> QED
    BY <2>1, <2>2, <2>3, <2>4, <2>5
<1>10. ASSUME NEW r \in Revisions, CheckRead(r) PROVE TypeOK'
  <2> DEFINE c == [step |-> IF request[r] = "ready" THEN "verify" ELSE "answer",
                   path |-> check[r].path, state |-> request[r]]
  <2>1. c \in Check
    <3>1. check[r].path \in Paths \cup {NoPath} /\ request[r] \in RequestStates
      BY CheckFacts
    <3> QED
      BY <3>1, CheckFacts
  <2>2. check' = [check EXCEPT ![r] = c]
    BY <1>10 DEF CheckRead
  <2> HIDE DEF c
  <2> QED
    BY <1>0, <1>10, <2>1, <2>2 DEF CheckRead, Quiet, gui
<1>11. ASSUME NEW r \in Revisions, CheckVerify(r) PROVE TypeOK'
  <2> DEFINE c == [step |-> "answer", path |-> check[r].path,
                   state |-> IF object[check[r].path] = "resident" THEN "ready"
                                                                ELSE "failed"]
  <2>1. c \in Check
    <3>1. check[r].path \in Paths \cup {NoPath}
      BY CheckFacts
    <3> QED
      BY <3>1, CheckFacts DEF RequestStates
  <2>2. check' = [check EXCEPT ![r] = c]
    BY <1>11 DEF CheckVerify
  <2> HIDE DEF c
  <2> QED
    BY <1>0, <1>11, <2>1, <2>2 DEF CheckVerify, Quiet, gui
<1>12. ASSUME NEW r \in Revisions, CheckDone(r) PROVE TypeOK'
  <2>1. check' \in [Revisions -> Check]
    <3>1. NoCheck \in Check
      BY CheckFacts
    <3> QED
      BY <1>12, <3>1 DEF CheckDone
  <2>2. signal' \in Signals
    <3>1. check[r].path \in Paths \cup {NoPath}
      BY CheckFacts
    <3> QED
      BY <1>0, <1>12, <3>1, SignalFacts DEF CheckDone, Quiet, Emit
  <2>3. held' \in 0 .. MaxRevision
    BY <1>12, RequestsAssumption DEF CheckDone, gui
  <2>5. downloading' \in BOOLEAN /\ polling' \in BOOLEAN /\ checking' \in BOOLEAN
    BY <1>12 DEF CheckDone, gui
  <2>4. UNCHANGED <<revision, requestedPath, object, request, opener, finisher>>
    BY <1>12 DEF CheckDone, gui
  <2> QED
    BY <2>1, <2>2, <2>3, <2>4, <2>5
<1>13. ASSUME NEW r \in Revisions, FinishRead(r) PROVE TypeOK'
  BY <1>0, <1>13 DEF FinishRead, Quiet, gui
<1>14. ASSUME NEW r \in Revisions, FinishWrite(r) PROVE TypeOK'
  BY <1>0, <1>14 DEF FinishWrite, RequestStates, Quiet, gui
<1>15. CASE UNCHANGED vars
  BY <1>15 DEF vars
<1> QED
  BY <1>1, <1>2, <1>3, <1>4, <1>5, <1>6, <1>7, <1>8, <1>9, <1>10, <1>11, <1>12,
     <1>13, <1>14, <1>15 DEF Next, Work, Verify, Deliver, Host

(* What each step changes, member by member. *)
LEMMA ForgetStep ==
    ASSUME TypeOK, Forget
    PROVE /\ revision' = revision + 1 /\ revision' \in Revisions
          /\ held' = 0 /\ ~polling' /\ ~checking'
BY RequestsAssumption DEF TypeOK, Forget, Revisions

(* A new question: everything known so far is of an earlier revision. *)
LEMMA SetFolderStep == IInv /\ SetFolder => IInv'
<1> SUFFICES ASSUME IInv, SetFolder PROVE IInv'
  OBVIOUS
<1>1. TypeOK'
  BY TypeOKStep DEF Next
<1>2. /\ revision' = revision + 1 /\ revision' \in Revisions
      /\ held' = 0 /\ ~polling' /\ ~checking'
  BY ForgetStep DEF IInv, SetFolder
<1>3. /\ ~downloading'
      /\ UNCHANGED <<object, request, requestedPath, opener, check, finisher>>
  BY DEF SetFolder
<1>4. revision \in Nat /\ Revisions \subseteq Nat
  BY RequestsAssumption DEF IInv, TypeOK, Revisions
<1>5. NothingAhead'
  <2>1. \A r \in Revisions : r > revision' => r > revision
    BY <1>2, <1>4
  <2> QED
    BY <1>3, <2>1 DEF IInv, NothingAhead
<1>6. \A r \in Revisions : r = revision' =>
         /\ opener[r].step = "none" /\ check[r].step = "none"
         /\ request[r] = "none" /\ finisher[r] = "none"
  BY <1>2, <1>4 DEF IInv, NothingAhead
<1>7. OpenersInv'
  BY <1>3, <1>6 DEF IInv, OpenersInv
<1>8. HeldInv'
  BY <1>2, <1>3 DEF HeldInv
<1>9. ChecksInv'
  BY <1>3, <1>6 DEF ChecksInv
<1>10. AnswersInv'
  BY <1>3, <1>6 DEF IInv, AnswersInv
<1> QED
  BY <1>1, <1>5, <1>7, <1>8, <1>9, <1>10 DEF IInv

LEMMA OpenPathStep ==
    ASSUME IInv, NEW p \in Paths, OpenPath(p) PROVE IInv'
<1>1. TypeOK'
  BY TypeOKStep DEF Next
<1>2. /\ revision' = revision + 1 /\ revision' \in Revisions
      /\ held' = 0 /\ ~polling' /\ ~checking'
  BY ForgetStep DEF IInv, OpenPath
<1>3. /\ downloading' /\ requestedPath' = p
      /\ UNCHANGED <<object, request, check, finisher>>
  BY DEF OpenPath
<1>4. revision \in Nat /\ Revisions \subseteq Nat /\ held < revision + 1
  BY RequestsAssumption DEF IInv, TypeOK, HeldInv, Revisions
<1>5. /\ opener'[revision'].step = "cancel" /\ opener'[revision'].path = p
      /\ opener'[revision'].old = held
      /\ \A r \in Revisions : r # revision' => opener'[r] = opener[r]
  BY <1>2 DEF IInv, TypeOK, OpenPath
<1>6. \A r \in Revisions : r = revision' =>
         /\ check[r].step = "none" /\ request[r] = "none" /\ finisher[r] = "none"
  BY <1>2, <1>4 DEF IInv, NothingAhead
<1>7. NothingAhead'
  BY <1>2, <1>3, <1>4, <1>5 DEF IInv, NothingAhead
<1>8. OpenersInv'
  <2> SUFFICES ASSUME NEW r \in Revisions
      PROVE /\ opener'[r].old < r
            /\ opener'[r].old # 0 => request[opener'[r].old] # "none"
            /\ opener'[r].step \in {"cancel", "cancelWrite", "look", "request"}
                 => request[r] = "none" /\ finisher[r] = "none"
            /\ opener'[r].step = "answer" /\ opener'[r].answer = "request"
                 => request[r] # "none"
            /\ opener'[r].step # "none" /\ r = revision'
                 => /\ downloading' /\ held' = 0 /\ ~checking'
                    /\ requestedPath' = opener'[r].path
    BY <1>3 DEF OpenersInv
  <2>1. CASE r = revision'
    BY <2>1, <1>2, <1>3, <1>4, <1>5, <1>6 DEF IInv, HeldInv
  <2>2. CASE r # revision'
    BY <2>2, <1>5 DEF IInv, OpenersInv
  <2> QED
    BY <2>1, <2>2
<1>9. HeldInv'
  BY <1>2, <1>4, <1>5 DEF HeldInv
<1>10. ChecksInv'
  BY <1>3, <1>6 DEF ChecksInv
<1>11. AnswersInv'
  BY <1>3, <1>6 DEF IInv, AnswersInv
<1> QED
  BY <1>1, <1>7, <1>8, <1>9, <1>10, <1>11 DEF IInv

LEMMA CheckRequestStep == IInv /\ CheckRequest => IInv'
<1> SUFFICES ASSUME IInv, CheckRequest PROVE IInv'
  OBVIOUS
<1>1. TypeOK'
  BY TypeOKStep DEF Next
<1>2. held # 0 /\ held = revision /\ revision \in Revisions /\ downloading /\ polling
  BY RequestsAssumption DEF IInv, TypeOK, HeldInv, Revisions, CheckRequest
<1>3. /\ checking'
      /\ UNCHANGED <<object, request, revision, held, requestedPath, downloading,
                     polling, opener, finisher>>
  BY DEF CheckRequest
<1>4. /\ check'[revision].step = "read" /\ check'[revision].path = requestedPath
      /\ \A r \in Revisions : r # revision => check'[r] = check[r]
  BY <1>2 DEF IInv, TypeOK, CheckRequest
<1>5. opener[revision].step = "none"
  BY <1>2 DEF IInv, OpenersInv
<1>6. NothingAhead'
  BY <1>2, <1>3, <1>4, RequestsAssumption DEF IInv, NothingAhead, Revisions
<1>7. OpenersInv'
  BY <1>3, <1>5 DEF IInv, OpenersInv
<1>8. HeldInv'
  BY <1>2, <1>3, <1>4 DEF IInv, HeldInv
<1>9. ChecksInv'
  BY <1>3, <1>4 DEF ChecksInv
<1>10. AnswersInv'
  BY <1>2, <1>3, <1>4 DEF IInv, AnswersInv
<1> QED
  BY <1>1, <1>6, <1>7, <1>8, <1>9, <1>10 DEF IInv

(* A thread of openPath goes on with what concerns no other revision. *)
LEMMA OpenerMoves ==
    ASSUME IInv, TypeOK', NEW r \in Revisions,
           opener[r].step # "none",
           opener'[r].old = opener[r].old, opener'[r].path = opener[r].path,
           \A q \in Revisions : q # r => opener'[q] = opener[q],
           opener'[r].step # "none",
           opener'[r].step \in {"cancel", "cancelWrite", "look", "request"}
             => opener[r].step \in {"cancel", "cancelWrite", "look", "request"},
           \A q \in Revisions : request'[q] # request[q] =>
              \/ q < r /\ request'[q] = "cancelled" /\ request[q] # "none"
              \/ /\ q = r /\ request'[q] = "queued" /\ request[q] = "none"
                 /\ opener'[r].step = "answer",
           opener'[r].step = "answer" /\ opener'[r].answer = "request"
             => request'[r] # "none",
           UNCHANGED <<revision, held, requestedPath, downloading, polling, checking>>,
           UNCHANGED <<check, finisher>>
    PROVE  IInv'
<1>1. r <= revision /\ revision \in Nat /\ Revisions \subseteq Nat
  BY RequestsAssumption DEF IInv, TypeOK, NothingAhead, Revisions
<1>2. NothingAhead'
  BY <1>1 DEF IInv, NothingAhead
<1>3. OpenersInv'
  <2> SUFFICES ASSUME NEW q \in Revisions
      PROVE /\ opener'[q].old < q
            /\ opener'[q].old # 0 => request'[opener'[q].old] # "none"
            /\ opener'[q].step \in {"cancel", "cancelWrite", "look", "request"}
                 => request'[q] = "none" /\ finisher[q] = "none"
            /\ opener'[q].step = "answer" /\ opener'[q].answer = "request"
                 => request'[q] # "none"
            /\ opener'[q].step # "none" /\ q = revision
                 => /\ downloading /\ held = 0 /\ ~checking
                    /\ requestedPath = opener'[q].path
    BY DEF OpenersInv
  <2>1. opener[q].old # 0 => request'[opener[q].old] # "none"
    <3>1. opener[q].old \in Revisions \cup {0}
      BY OpenerFacts DEF IInv, TypeOK
    <3> QED
      BY <3>1 DEF IInv, OpenersInv
  <2>2. CASE q = r
    BY <2>1, <2>2, <1>1 DEF IInv, OpenersInv
  <2>3. CASE q # r
    BY <2>1, <2>3 DEF IInv, OpenersInv
  <2> QED
    BY <2>2, <2>3
<1>4. HeldInv'
  <2>1. held # 0 => held \in Revisions
    BY RequestsAssumption DEF IInv, TypeOK, Revisions
  <2>2. held # 0 => request'[held] # "none"
    BY <2>1 DEF IInv, HeldInv
  <2>3. opener[revision].step # "none" => opener'[revision].step # "none"
    BY <1>1, RequestsAssumption DEF IInv, TypeOK, Revisions, NothingAhead
  <2> QED
    BY <2>2, <2>3 DEF IInv, HeldInv
<1>5. ChecksInv'
  BY DEF IInv, ChecksInv
<1>6. AnswersInv'
  <2> SUFFICES ASSUME NEW q \in Revisions
      PROVE /\ request'[q] = "none" => finisher[q] = "none"
            /\ q = revision =>
                 /\ request'[q] # "cancelled"
                 /\ finisher[q] # "none" => request'[q] = "queued"
                 /\ check[q].step = "verify" => request'[q] = "ready"
                 /\ check[q].step = "answer" /\ check[q].state = "ready"
                      => request'[q] = "ready"
    BY DEF AnswersInv
  <2>1. CASE request'[q] = request[q]
    BY <2>1 DEF IInv, AnswersInv
  <2>2. CASE q < r
    BY <2>1, <2>2, <1>1 DEF IInv, AnswersInv
  <2>3. CASE q = r /\ request[q] = "none" /\ request'[q] = "queued"
    \* Nobody checks or finishes a request that has not been written.
    BY <2>3 DEF IInv, OpenersInv, ChecksInv, AnswersInv
  <2> QED
    BY <2>1, <2>2, <2>3
<1> QED
  BY <1>2, <1>3, <1>4, <1>5, <1>6 DEF IInv

LEMMA CancelReadStep ==
    ASSUME IInv, NEW r \in Revisions, CancelRead(r) PROVE IInv'
<1>1. TypeOK'
  BY TypeOKStep DEF Next, Work
<1>2. /\ opener'[r].old = opener[r].old /\ opener'[r].path = opener[r].path
      /\ \A q \in Revisions : q # r => opener'[q] = opener[q]
      /\ opener[r].step = "cancel" /\ opener'[r].step \in {"look", "cancelWrite"}
  BY StepFacts DEF CancelRead, IInv, TypeOK
<1> QED
  BY <1>1, <1>2, OpenerMoves DEF CancelRead, gui

LEMMA CancelWriteStep ==
    ASSUME IInv, NEW r \in Revisions, CancelWrite(r) PROVE IInv'
<1>1. TypeOK'
  BY TypeOKStep DEF Next, Work
<1>2. /\ opener'[r].old = opener[r].old /\ opener'[r].path = opener[r].path
      /\ \A q \in Revisions : q # r => opener'[q] = opener[q]
      /\ opener[r].step = "cancelWrite" /\ opener'[r].step = "look"
  BY StepFacts DEF CancelWrite, IInv, TypeOK
<1>3. ASSUME NEW q \in Revisions, request'[q] # request[q]
      PROVE  q < r /\ request'[q] = "cancelled" /\ request[q] # "none"
  <2>1. q = opener[r].old /\ request'[q] = "cancelled"
    BY <1>3 DEF CancelWrite, IInv, TypeOK
  <2>2. opener[r].old < r /\ opener[r].old # 0
    BY <2>1, RequestsAssumption DEF IInv, OpenersInv, Revisions
  <2> QED
    BY <2>1, <2>2 DEF IInv, OpenersInv
<1>4. /\ opener[r].step # "none" /\ opener'[r].step # "none"
      /\ opener[r].step \in {"cancel", "cancelWrite", "look", "request"}
      /\ opener'[r].step # "answer"
  BY <1>2
<1>5. UNCHANGED <<revision, held, requestedPath, downloading, polling, checking>>
  BY DEF CancelWrite, gui
<1>6. UNCHANGED <<check, finisher>>
  BY DEF CancelWrite
<1> QED
  BY <1>1, <1>2, <1>3, <1>4, <1>5, <1>6, OpenerMoves

LEMMA LookStep ==
    ASSUME IInv, NEW r \in Revisions, Look(r) PROVE IInv'
<1>1. TypeOK'
  BY TypeOKStep DEF Next, Work
<1>2. /\ opener'[r].old = opener[r].old /\ opener'[r].path = opener[r].path
      /\ \A q \in Revisions : q # r => opener'[q] = opener[q]
      /\ opener[r].step = "look"
      /\ \/ opener'[r].step = "request"
         \/ opener'[r].step = "answer" /\ opener'[r].answer \in {"ready", "failed"}
  BY StepFacts DEF Look, IInv, TypeOK
<1> QED
  BY <1>1, <1>2, OpenerMoves DEF Look, gui

LEMMA RequestStep ==
    ASSUME IInv, NEW r \in Revisions, Request(r) PROVE IInv'
<1>1. TypeOK'
  BY TypeOKStep DEF Next, Work
<1>2. /\ opener'[r].old = opener[r].old /\ opener'[r].path = opener[r].path
      /\ \A q \in Revisions : q # r => opener'[q] = opener[q]
      /\ opener[r].step = "request" /\ opener'[r].step = "answer"
      /\ \/ opener'[r].answer = "request" /\ request' = [request EXCEPT ![r] = "queued"]
         \/ opener'[r].answer = "failed" /\ request' = request
  BY StepFacts DEF Request, IInv, TypeOK
<1>3. request[r] = "none"
  BY <1>2 DEF IInv, OpenersInv
<1>4. opener'[r].answer = "request" => request'[r] = "queued"
  BY <1>2 DEF IInv, TypeOK
<1>5. ASSUME NEW q \in Revisions, request'[q] # request[q]
      PROVE  q = r /\ request'[q] = "queued" /\ request[q] = "none"
  BY <1>2, <1>3, <1>5 DEF IInv, TypeOK
<1>6. UNCHANGED <<revision, held, requestedPath, downloading, polling, checking>>
  BY DEF Request, gui
<1>7. UNCHANGED <<check, finisher>>
  BY DEF Request
<1>8. /\ opener[r].step # "none" /\ opener'[r].step # "none"
      /\ opener'[r].step \notin {"cancel", "cancelWrite", "look", "request"}
  BY <1>2
<1> QED
  BY <1>1, <1>2, <1>4, <1>5, <1>6, <1>7, <1>8, OpenerMoves

(* The thread of an openPath has finished: it is gone, and its answer counts *)
(* only if nothing was asked since.                                          *)
LEMMA OpenDoneStep ==
    ASSUME IInv, NEW r \in Revisions, OpenDone(r) PROVE IInv'
<1>1. TypeOK'
  BY TypeOKStep DEF Next, Deliver
<1>2. /\ opener'[r].step = "none"
      /\ \A q \in Revisions : opener'[q].old = opener[q].old
      /\ \A q \in Revisions : q # r => opener'[q] = opener[q]
      /\ opener[r].step = "answer"
  BY StepFacts DEF OpenDone, IInv, TypeOK
<1>3. UNCHANGED <<object, request, check, finisher, revision, requestedPath, checking>>
  BY DEF OpenDone, gui
<1>4. r \in Nat /\ r # 0
  BY RequestsAssumption DEF Revisions
<1>5. NothingAhead'
  BY <1>2, <1>3 DEF IInv, NothingAhead
<1>6. ChecksInv' /\ AnswersInv'
  BY <1>3 DEF IInv, ChecksInv, AnswersInv
<1>7. CASE r # revision
  <2>1. UNCHANGED <<held, downloading, polling>>
    BY <1>7 DEF OpenDone, Current, gui
  <2>2. OpenersInv'
    BY <1>2, <1>3, <1>7, <2>1 DEF IInv, OpenersInv
  <2>3. opener[revision].step # "none" /\ revision # 0
           => opener'[revision].step # "none"
    BY <1>2, <1>7, RequestsAssumption DEF IInv, TypeOK, Revisions
  <2>4. HeldInv'
    BY <1>3, <2>1, <2>3 DEF IInv, HeldInv
  <2> QED
    BY <1>1, <1>5, <1>6, <2>2, <2>4 DEF IInv
<1>8. CASE r = revision
  <2>1. downloading /\ held = 0 /\ ~checking /\ ~polling
    BY <1>2, <1>8 DEF IInv, OpenersInv, HeldInv
  <2>2. OpenersInv'
    BY <1>2, <1>3, <1>8 DEF IInv, OpenersInv
  <2>3. CASE opener[r].answer = "request"
    <3>1. held' = revision /\ polling' /\ downloading'
      BY <1>8, <2>1, <2>3 DEF OpenDone, Current
    <3>2. request'[revision] # "none"
      BY <1>2, <1>3, <1>8, <2>3 DEF IInv, OpenersInv
    <3>3. HeldInv'
      BY <1>3, <1>4, <1>8, <2>1, <3>1, <3>2 DEF HeldInv
    <3> QED
      BY <1>1, <1>5, <1>6, <2>2, <3>3 DEF IInv
  <2>4. CASE opener[r].answer # "request"
    <3>1. held' = 0 /\ ~polling' /\ ~downloading'
      <4>1. held' = 0 /\ downloading' = FALSE /\ UNCHANGED polling
        BY <1>8, <2>4 DEF OpenDone, Current
      <4> QED
        BY <2>1, <4>1, Zenon
    <3>2. HeldInv'
      BY <1>3, <2>1, <3>1 DEF HeldInv
    <3> QED
      BY <1>1, <1>5, <1>6, <2>2, <3>2 DEF IInv
  <2> QED
    BY <2>3, <2>4
<1> QED
  BY <1>7, <1>8

(* A thread of checkRequest goes on with what it has read. *)
LEMMA CheckMoves ==
    ASSUME IInv, TypeOK', NEW r \in Revisions,
           check[r].step # "none", check'[r].step # "none",
           check'[r].path = check[r].path,
           \A q \in Revisions : q # r => check'[q] = check[q],
           check'[r].step = "verify" => request[r] = "ready",
           check'[r].step = "answer" /\ check'[r].state = "ready"
             => (r = revision => request[r] = "ready"),
           UNCHANGED <<revision, held, requestedPath, downloading, polling, checking>>,
           UNCHANGED <<request, opener, finisher>>
    PROVE  IInv'
<1>1. NothingAhead'
  BY DEF IInv, NothingAhead
<1>2. OpenersInv'
  BY DEF IInv, OpenersInv
<1>3. check[revision].step # "none" /\ revision # 0 => check'[revision].step # "none"
  BY RequestsAssumption DEF IInv, TypeOK, Revisions
<1>4. HeldInv'
  BY <1>3 DEF IInv, HeldInv
<1>5. ChecksInv'
  BY DEF IInv, ChecksInv
<1>6. AnswersInv'
  BY DEF IInv, AnswersInv
<1> QED
  BY <1>1, <1>2, <1>4, <1>5, <1>6 DEF IInv

LEMMA CheckReadStep ==
    ASSUME IInv, NEW r \in Revisions, CheckRead(r) PROVE IInv'
<1>1. TypeOK'
  BY TypeOKStep DEF Next, Verify
<1>2. /\ check[r].step = "read" /\ check'[r].path = check[r].path
      /\ check'[r].step = IF request[r] = "ready" THEN "verify" ELSE "answer"
      /\ check'[r].state = request[r]
      /\ \A q \in Revisions : q # r => check'[q] = check[q]
  BY DEF CheckRead, IInv, TypeOK
<1> QED
  BY <1>1, <1>2, CheckMoves DEF CheckRead, gui

LEMMA CheckVerifyStep ==
    ASSUME IInv, NEW r \in Revisions, CheckVerify(r) PROVE IInv'
<1>1. TypeOK'
  BY TypeOKStep DEF Next, Verify
<1>2. /\ check[r].step = "verify" /\ check'[r].path = check[r].path
      /\ check'[r].step = "answer"
      /\ \A q \in Revisions : q # r => check'[q] = check[q]
  BY DEF CheckVerify, IInv, TypeOK
<1>3. r = revision => request[r] = "ready"
  BY <1>2 DEF IInv, AnswersInv
<1> QED
  BY <1>1, <1>2, <1>3, CheckMoves DEF CheckVerify, gui

LEMMA CheckDoneStep ==
    ASSUME IInv, NEW r \in Revisions, CheckDone(r) PROVE IInv'
<1>1. TypeOK'
  BY TypeOKStep DEF Next, Deliver
<1>2. /\ check'[r].step = "none"
      /\ \A q \in Revisions : q # r => check'[q] = check[q]
      /\ check[r].step = "answer"
  BY CheckFacts DEF CheckDone, IInv, TypeOK
<1>3. UNCHANGED <<object, request, opener, finisher, revision, requestedPath>>
  BY DEF CheckDone, gui
<1>4. NothingAhead'
  BY <1>2, <1>3 DEF IInv, NothingAhead
<1>5. AnswersInv'
  BY <1>2, <1>3 DEF IInv, AnswersInv
<1>6. CASE r # revision
  <2>1. UNCHANGED <<held, downloading, polling, checking>>
    BY <1>6 DEF CheckDone, Current, gui
  <2>2. check[revision].step # "none" /\ revision # 0 => check'[revision].step # "none"
    BY <1>2, <1>6, RequestsAssumption DEF IInv, TypeOK, Revisions
  <2>3. OpenersInv' /\ HeldInv' /\ ChecksInv'
    BY <1>2, <1>3, <1>6, <2>1, <2>2 DEF IInv, OpenersInv, HeldInv, ChecksInv
  <2> QED
    BY <1>1, <1>4, <1>5, <2>3 DEF IInv
<1>7. CASE r = revision
  <2>1. checking /\ held # 0 /\ ~checking'
    BY <1>2, <1>7 DEF IInv, ChecksInv, HeldInv, CheckDone, Current
  \* A check of the last revision runs only once the opener has gone.
  <2>2. opener[revision].step = "none"
    BY <1>7, <2>1 DEF IInv, OpenersInv
  <2>3. OpenersInv'
    BY <1>3, <2>2 DEF IInv, OpenersInv
  <2>4. ChecksInv'
    BY <1>2, <1>3, <1>7 DEF ChecksInv
  <2>5. HeldInv'
    BY <1>3, <1>7, <2>1 DEF IInv, HeldInv, CheckDone, Current
  <2> QED
    BY <1>1, <1>4, <1>5, <2>3, <2>4, <2>5 DEF IInv
<1> QED
  BY <1>6, <1>7

LEMMA FinishReadStep ==
    ASSUME IInv, NEW r \in Revisions, FinishRead(r) PROVE IInv'
<1>1. TypeOK'
  BY TypeOKStep DEF Next, Host
<1>2. /\ request[r] = "queued"
      /\ \A q \in Revisions : q # r => finisher'[q] = finisher[q]
  BY DEF FinishRead, IInv, TypeOK
<1>3. UNCHANGED <<object, request, opener, check>> /\ UNCHANGED gui
  BY DEF FinishRead
<1>4. NothingAhead' /\ OpenersInv' /\ HeldInv' /\ ChecksInv'
  BY <1>2, <1>3 DEF IInv, NothingAhead, OpenersInv, HeldInv, ChecksInv, gui
<1>5. AnswersInv'
  BY <1>2, <1>3 DEF IInv, AnswersInv, gui
<1> QED
  BY <1>1, <1>4, <1>5 DEF IInv

(* The host answers: the last revision's request was still queued. *)
LEMMA FinishWriteStep ==
    ASSUME IInv, NEW r \in Revisions, FinishWrite(r) PROVE IInv'
<1>1. TypeOK'
  BY TypeOKStep DEF Next, Host
<1>2. /\ finisher[r] \in {"ready", "failed"} /\ request'[r] = finisher[r]
      /\ finisher'[r] = "none"
      /\ \A q \in Revisions : q # r => finisher'[q] = finisher[q]
      /\ \A q \in Revisions : q # r => request'[q] = request[q]
  BY DEF FinishWrite, IInv, TypeOK
<1>3. request[r] # "none" /\ r <= revision
  BY <1>2, RequestsAssumption DEF IInv, TypeOK, NothingAhead, AnswersInv, Revisions
<1>4. UNCHANGED <<object, opener, check>> /\ UNCHANGED gui
  BY DEF FinishWrite
<1>5. \A q \in Revisions : request[q] # "none" => request'[q] # "none"
  BY <1>2
<1>6. NothingAhead'
  BY <1>2, <1>3, <1>4 DEF IInv, NothingAhead, gui, TypeOK, Revisions
<1>7. OpenersInv'
  <2> SUFFICES ASSUME NEW q \in Revisions
      PROVE /\ opener[q].old < q
            /\ opener[q].old # 0 => request'[opener[q].old] # "none"
            /\ opener[q].step \in {"cancel", "cancelWrite", "look", "request"}
                 => request'[q] = "none" /\ finisher'[q] = "none"
            /\ opener[q].step = "answer" /\ opener[q].answer = "request"
                 => request'[q] # "none"
            /\ opener[q].step # "none" /\ q = revision
                 => /\ downloading /\ held = 0 /\ ~checking
                    /\ requestedPath = opener[q].path
    BY <1>4 DEF OpenersInv, gui
  <2>1. opener[q].old # 0 => request'[opener[q].old] # "none"
    <3>1. opener[q].old \in Revisions \cup {0}
      BY OpenerFacts DEF IInv, TypeOK
    <3> QED
      BY <1>5, <3>1 DEF IInv, OpenersInv
  <2>2. CASE q = r
    BY <1>2, <1>3, <2>1, <2>2 DEF IInv, OpenersInv
  <2>3. CASE q # r
    BY <1>2, <2>1, <2>3 DEF IInv, OpenersInv
  <2> QED
    BY <2>2, <2>3
<1>8. HeldInv'
  <2>1. held # 0 => request'[held] # "none"
    BY <1>5, RequestsAssumption DEF IInv, TypeOK, HeldInv, Revisions
  <2> QED
    BY <1>4, <2>1 DEF IInv, HeldInv, gui
<1>9. ChecksInv'
  BY <1>4 DEF IInv, ChecksInv, gui
<1>10. AnswersInv'
  BY <1>2, <1>4 DEF IInv, AnswersInv, gui
<1> QED
  BY <1>1, <1>6, <1>7, <1>8, <1>9, <1>10 DEF IInv

LEMMA PublishStep ==
    ASSUME IInv, NEW p \in Paths, Publish(p) PROVE IInv'
<1>1. TypeOK'
  BY TypeOKStep DEF Next
<1>2. UNCHANGED <<request, opener, check, finisher>> /\ UNCHANGED gui
  BY DEF Publish
<1> QED
  BY <1>1, <1>2 DEF IInv, NothingAhead, OpenersInv, HeldInv, ChecksInv, AnswersInv, gui

LEMMA Inductive == IInv /\ [Next]_vars => IInv'
<1> SUFFICES ASSUME IInv, [Next]_vars PROVE IInv'
  OBVIOUS
<1>1. CASE SetFolder
  BY <1>1, SetFolderStep
<1>2. CASE CheckRequest
  BY <1>2, CheckRequestStep
<1>3. ASSUME NEW p \in Paths, OpenPath(p) \/ Publish(p) PROVE IInv'
  BY <1>3, OpenPathStep, PublishStep
<1>4. ASSUME NEW r \in Revisions, Work(r) PROVE IInv'
  BY <1>4, CancelReadStep, CancelWriteStep, LookStep, RequestStep DEF Work
<1>5. ASSUME NEW r \in Revisions, Verify(r) PROVE IInv'
  BY <1>5, CheckReadStep, CheckVerifyStep DEF Verify
<1>6. ASSUME NEW r \in Revisions, Deliver(r) PROVE IInv'
  BY <1>6, OpenDoneStep, CheckDoneStep DEF Deliver
<1>7. ASSUME NEW r \in Revisions, Host(r) PROVE IInv'
  BY <1>7, FinishReadStep, FinishWriteStep DEF Host
<1>8. CASE UNCHANGED vars
  <2>1. TypeOK'
    BY <1>8, TypeOKStep
  <2> QED
    BY <1>8, <2>1 DEF vars, IInv, NothingAhead, OpenersInv, HeldInv, ChecksInv, AnswersInv
<1> QED
  BY <1>1, <1>2, <1>3, <1>4, <1>5, <1>6, <1>7, <1>8 DEF Next

(* The inductive invariant holds throughout: the GUI thread's members, the *)
(* threads and the request files agree as described above.                 *)
THEOREM Invariance == Spec => []IInv
<1> QED
  BY InitIInv, Inductive, PTL DEF Spec

(* Every variable stays in its type. *)
THEOREM TypeCorrect == Spec => []TypeOK
<1>1. IInv => TypeOK
  BY DEF IInv
<1> QED
  BY Invariance, <1>1, PTL

LEMMA Waits == IInv => WaitsForSomebody
<1> SUFFICES ASSUME IInv PROVE WaitsForSomebody
  OBVIOUS
<1>1. /\ polling <=> held # 0
      /\ held # 0 => held = revision /\ downloading
      /\ checking => held # 0 /\ check[revision].step # "none"
      /\ downloading => revision # 0 /\ (opener[revision].step # "none" \/ held # 0)
  BY DEF IInv, HeldInv
<1> QED
  BY <1>1 DEF WaitsForSomebody

LEMMA CancelsOthers == IInv => HeldIsNotCancelled
<1> SUFFICES ASSUME IInv, held # 0 PROVE HeldIsNotCancelled
  BY DEF HeldIsNotCancelled
<1>1. held = revision /\ revision \in Revisions
  BY RequestsAssumption DEF IInv, TypeOK, HeldInv, Revisions
<1>2. request[held] # "cancelled"
  BY <1>1 DEF IInv, AnswersInv
<1>3. ASSUME NEW r \in Revisions, opener[r].old = held
      PROVE  opener[r].step \notin {"cancel", "cancelWrite"}
  <2>1. r > revision
    BY <1>1, <1>3 DEF IInv, OpenersInv, Revisions
  <2> QED
    BY <2>1 DEF IInv, NothingAhead
<1> QED
  BY <1>2, <1>3 DEF HeldIsNotCancelled

(* A view that shows a download always waits for somebody who can answer it: *)
(* no order of questions, late threads and timer ticks leaves it stuck.      *)
THEOREM SomebodyAnswers == Spec => []WaitsForSomebody
<1> QED
  BY Invariance, Waits, PTL

(* openPath cancels the request that it replaces, late or not: never the one *)
(* that the view now waits for.                                              *)
THEOREM CancelsOnlyReplaced == Spec => []HeldIsNotCancelled
<1> QED
  BY Invariance, CancelsOthers, PTL

(* Which steps emit a signal, and that only the last question's may. *)
LEMMA WhoSignals ==
    ASSUME IInv, Next, signal' # NoSignal
    PROVE  \E r \in Revisions : r = revision /\ (OpenDone(r) \/ CheckDone(r))
<1> USE DEF Quiet
<1>1. ~SetFolder /\ ~CheckRequest
  BY DEF SetFolder, CheckRequest
<1>2. \A p \in Paths : ~OpenPath(p) /\ ~Publish(p)
  BY DEF OpenPath, Publish
<1>3. \A r \in Revisions : ~Work(r)
  BY DEF Work, CancelRead, CancelWrite, Look, Request
<1>4. \A r \in Revisions : ~Verify(r) /\ ~Host(r)
  BY DEF Verify, CheckRead, CheckVerify, Host, FinishRead, FinishWrite
<1>5. PICK r \in Revisions : Deliver(r)
  BY <1>1, <1>2, <1>3, <1>4 DEF Next
<1>6. r = revision
  BY <1>5 DEF Deliver, OpenDone, CheckDone, Current
<1> QED
  BY <1>5, <1>6 DEF Deliver

LEMMA SignalStep ==
    ASSUME IInv, Next, signal' # NoSignal
    PROVE  /\ downloading /\ ~downloading'
           /\ signal'.path = requestedPath /\ requestedPath' = requestedPath
<1>1. PICK r \in Revisions : r = revision /\ (OpenDone(r) \/ CheckDone(r))
  BY WhoSignals
<1>2. CASE OpenDone(r)
  <2>1. downloading /\ requestedPath = opener[r].path
    BY <1>1, <1>2 DEF OpenDone, IInv, OpenersInv
  <2>2. /\ downloading' = FALSE /\ requestedPath' = requestedPath
        /\ signal'.path = opener[r].path
    BY <1>1, <1>2 DEF OpenDone, Current, Emit, Quiet
  <2> QED
    BY <2>1, <2>2
<1>3. CASE CheckDone(r)
  <2>1. checking /\ requestedPath = check[r].path
    BY <1>1, <1>3 DEF CheckDone, IInv, ChecksInv
  <2>2. downloading
    BY <2>1 DEF IInv, HeldInv
  <2>3. /\ downloading' = FALSE /\ requestedPath' = requestedPath
        /\ signal'.path = check[r].path
    BY <1>1, <1>3 DEF CheckDone, Current, Emit, Quiet
  <2> QED
    BY <2>1, <2>2, <2>3
<1> QED
  BY <1>1, <1>2, <1>3

(* A signal answers the question that is open, and closes it. *)
THEOREM LastIsAnswered == Spec => SignalAnswersLast
<1>1. IInv /\ [Next]_vars =>
        [signal' # NoSignal =>
            /\ downloading /\ ~downloading'
            /\ signal'.path = requestedPath /\ requestedPath' = requestedPath]_vars
  BY SignalStep
<1> QED
  BY Invariance, <1>1, PTL DEF Spec, SignalAnswersLast

LEMMA OpensStep ==
    ASSUME IInv, Next, signal'.kind = "activated", held # 0
    PROVE  request[held] = "ready"
<1>1. signal' # NoSignal
  BY DEF NoSignal
<1>2. PICK r \in Revisions : r = revision /\ (OpenDone(r) \/ CheckDone(r))
  BY <1>1, WhoSignals
<1>3. held = r
  BY <1>2 DEF IInv, HeldInv
<1>4. CheckDone(r)
  BY <1>2 DEF OpenDone, IInv, OpenersInv
<1>5. check[r].step = "answer" /\ check[r].state = "ready"
  BY <1>1, <1>2, <1>4 DEF CheckDone, Current, Emit, Quiet
<1> QED
  BY <1>2, <1>3, <1>5 DEF IInv, AnswersInv

(* A download that came through the host opens only what its own request *)
(* has been answered with.                                               *)
THEOREM HostFinished == Spec => OpensWhatHostFinished
<1>1. IInv /\ [Next]_vars =>
        [signal'.kind = "activated" /\ held # 0 => request[held] = "ready"]_vars
  BY OpensStep
<1> QED
  BY Invariance, <1>1, PTL DEF Spec, OpensWhatHostFinished

---------------------------------------------------------------------------
(* The composition                                                         *)


ActionsTypeOK ==
    /\ user \in {"view", "menu"}
    /\ busy \in BOOLEAN
    /\ operation \in Operations
    /\ source \in Paths \cup {NoPath}
    /\ jobs \in Seq(Job)
    /\ begun \in Nat

ActionsIInv ==
    /\ IInv
    /\ ActionsTypeOK
    /\ BusyHasWork
    /\ RunsWhatWasBegun

---------------------------------------------------------------------------
\* A step of the menu alone takes back the last signal, and nothing else.
LEMMA QuietKeepsIInv ==
    ASSUME IInv, Quiet, UNCHANGED <<object, request, opener, check, finisher>>,
           UNCHANGED gui
    PROVE IInv'
BY SignalFacts DEF IInv, Quiet, gui, TypeOK, NothingAhead, OpenersInv, HeldInv,
                   ChecksInv, AnswersInv

\* Every step is one of StorageRequests, or leaves all but the signal alone.
LEMMA StepsOfRequests ==
    ASSUME ActionsNext
    PROVE \/ Next
          \/ /\ Quiet /\ UNCHANGED gui
             /\ UNCHANGED <<object, request, opener, check, finisher>>
<1>1. CASE Menu
  BY <1>1 DEF Menu, begin, WorkerFinished, Delivered, Next
<1>2. CASE View
  BY <1>2 DEF View, Next
<1>3. CASE Tick
  BY <1>3 DEF Tick, Next
<1>4. CASE \E p \in Paths : World(p)
  BY <1>4 DEF World, Next
<1>5. CASE \E r \in Revisions : Background(r)
  BY <1>5 DEF Background, Next
<1> QED
  BY <1>1, <1>2, <1>3, <1>4, <1>5 DEF ActionsNext

LEMMA IInvStep == IInv /\ [ActionsNext]_allVars => IInv'
<1>1. ASSUME IInv, ActionsNext PROVE IInv'
  BY <1>1, StepsOfRequests, QuietKeepsIInv, Inductive
<1>2. ASSUME IInv, UNCHANGED allVars PROVE IInv'
  BY <1>2, Inductive DEF allVars
<1> QED
  BY <1>1, <1>2

\* What a delivery that emits nothing leaves alone.
LEMMA SilentDelivery ==
    ASSUME IInv, NEW r \in Revisions, Deliver(r), signal'.kind = "none"
    PROVE UNCHANGED <<downloading, requestedPath>>
BY DEF Deliver, OpenDone, CheckDone, Emit, gui

\* A delivery that emits something answers the download of the menu.
LEMMA LoudDelivery ==
    ASSUME IInv, NEW r \in Revisions, Deliver(r), signal'.kind # "none"
    PROVE downloading /\ ~downloading' /\ requestedPath' = requestedPath
<1>1. signal' # NoSignal
  BY DEF NoSignal
<1>2. Next
  BY DEF Next
<1> QED
  BY <1>1, <1>2, SignalStep

LEMMA ActionsInit_IInv == ActionsInit => ActionsIInv
<1> SUFFICES ASSUME ActionsInit PROVE ActionsIInv
  OBVIOUS
<1>1. IInv
  BY InitIInv DEF ActionsInit
<1>2. ActionsTypeOK
  <2>1. <<>> \in Seq(Job) /\ "Clipboard" \in Operations
    BY DEF Operations, Immediate
  <2> QED
    BY <2>1 DEF ActionsInit, ActionsTypeOK
<1>3. BusyHasWork /\ RunsWhatWasBegun
  BY DEF ActionsInit, Init, BusyHasWork, RunsWhatWasBegun
<1> QED
  BY <1>1, <1>2, <1>3 DEF ActionsIInv

\* The one job of the queue.
LEMMA OneJob ==
    ASSUME NEW o, NEW p
    PROVE /\ Append(<<>>, [operation |-> o, path |-> p]) = <<[operation |-> o, path |-> p]>>
          /\ Tail(<<[operation |-> o, path |-> p]>>) = <<>>
          /\ <<[operation |-> o, path |-> p]>> # <<>>
          /\ o \in Operations /\ p \in Paths \cup {NoPath}
                => <<[operation |-> o, path |-> p]>> \in Seq(Job)
BY DEF Job

LEMMA BeginKeeps ==
    ASSUME ActionsIInv, user = "menu", UNCHANGED user,
           NEW o \in Operations, NEW p \in Paths, begin(o, p)
    PROVE ActionsTypeOK' /\ BusyHasWork' /\ RunsWhatWasBegun'
<1>1. /\ jobs = <<>> /\ ~downloading /\ busy' /\ operation' = o /\ source' = p
      /\ begun' = begun + 1
  BY DEF ActionsIInv, BusyHasWork, begin
<1>2. CASE o \in Unloaded
  <2>1. jobs' = <<[operation |-> o, path |-> p]>> /\ ~downloading'
    BY <1>1, <1>2, OneJob DEF begin, Enqueue, gui
  <2> QED
    BY <1>1, <2>1, OneJob DEF ActionsIInv, ActionsTypeOK, BusyHasWork, RunsWhatWasBegun
<1>3. CASE o \notin Unloaded
  <2>1. jobs' = <<>> /\ downloading' /\ requestedPath' = p
    BY <1>1, <1>3 DEF begin, OpenPath
  <2> QED
    BY <1>1, <1>3, <2>1 DEF ActionsIInv, ActionsTypeOK, BusyHasWork, RunsWhatWasBegun
<1> QED
  BY <1>2, <1>3

LEMMA WorkerFinishedKeeps ==
    ASSUME ActionsIInv, user = "menu", UNCHANGED user, WorkerFinished
    PROVE ActionsTypeOK' /\ BusyHasWork' /\ RunsWhatWasBegun'
<1>1. jobs = <<[operation |-> operation, path |-> source]>> /\ ~downloading
  BY DEF ActionsIInv, BusyHasWork, RunsWhatWasBegun, WorkerFinished
<1>2. /\ jobs' = <<>> /\ ~busy' /\ ~downloading' /\ busy' \in BOOLEAN
      /\ UNCHANGED <<operation, source, begun>>
  BY <1>1, OneJob DEF WorkerFinished, finish, gui
<1> QED
  BY <1>2 DEF ActionsIInv, ActionsTypeOK, BusyHasWork, RunsWhatWasBegun

LEMMA DeliveredKeeps ==
    ASSUME ActionsIInv, user = "menu", UNCHANGED user,
           NEW r \in Revisions, Delivered(r)
    PROVE ActionsTypeOK' /\ BusyHasWork' /\ RunsWhatWasBegun'
<1>1. UNCHANGED <<operation, source, begun>> /\ IInv
  BY DEF Delivered, React, ActionsIInv
<1>2. CASE signal'.kind = "none"
  <2>1. UNCHANGED <<busy, jobs, downloading, requestedPath>>
    BY <1>1, <1>2, SilentDelivery DEF Delivered, React
  <2> QED
    BY <1>1, <2>1 DEF ActionsIInv, ActionsTypeOK, BusyHasWork, RunsWhatWasBegun
<1>3. CASE signal'.kind # "none"
  <2>1. downloading /\ ~downloading'
    BY <1>1, <1>3, LoudDelivery DEF Delivered
  <2>2. busy /\ jobs = <<>>
    BY <2>1 DEF ActionsIInv, BusyHasWork
  <2>3. CASE finish /\ UNCHANGED jobs
    BY <1>1, <2>1, <2>2, <2>3
       DEF finish, ActionsIInv, ActionsTypeOK, BusyHasWork, RunsWhatWasBegun
  <2>4. CASE Enqueue(operation, source) /\ UNCHANGED busy
    <3>1. jobs' = <<[operation |-> operation, path |-> source]>>
      BY <2>2, <2>4, OneJob DEF Enqueue
    <3> QED
      BY <1>1, <2>1, <2>2, <2>4, <3>1, OneJob
         DEF ActionsIInv, ActionsTypeOK, BusyHasWork, RunsWhatWasBegun
  <2> QED
    BY <1>3, <2>3, <2>4 DEF Delivered, React, execute
<1> QED
  BY <1>2, <1>3

\* The steps of a view, of threads, of the host and of the timer.
LEMMA OthersKeep ==
    ASSUME ActionsIInv, UNCHANGED <<actions, user>>,
           user = "menu" => UNCHANGED <<downloading, requestedPath>>
    PROVE ActionsTypeOK' /\ BusyHasWork' /\ RunsWhatWasBegun'
BY DEF ActionsIInv, ActionsTypeOK, BusyHasWork, RunsWhatWasBegun, actions

LEMMA ActionsInductive == ActionsIInv /\ [ActionsNext]_allVars => ActionsIInv'
<1> SUFFICES ASSUME ActionsIInv, [ActionsNext]_allVars
             PROVE ActionsTypeOK' /\ BusyHasWork' /\ RunsWhatWasBegun'
  BY IInvStep DEF ActionsIInv
<1>1. CASE UNCHANGED allVars
  BY <1>1, OthersKeep DEF allVars, vars, gui
<1>2. CASE Menu /\ UNCHANGED user
  BY <1>2, BeginKeeps, WorkerFinishedKeeps, DeliveredKeeps DEF Menu
<1>3. CASE View /\ UNCHANGED user
  BY <1>3, OthersKeep DEF View
<1>4. CASE Tick /\ UNCHANGED user
  BY <1>4, OthersKeep DEF Tick, CheckRequest
<1>5. CASE (\E p \in Paths : World(p)) /\ UNCHANGED user
  BY <1>5, OthersKeep DEF World, Publish, gui
<1>6. ASSUME NEW r \in Revisions, Background(r), UNCHANGED user
      PROVE ActionsTypeOK' /\ BusyHasWork' /\ RunsWhatWasBegun'
  <2>1. UNCHANGED gui
    BY <1>6 DEF Background, Work, Verify, Host, CancelRead, CancelWrite, Look, Request,
                CheckRead, CheckVerify, FinishRead, FinishWrite
  <2> QED
    BY <1>6, <2>1, OthersKeep DEF Background, gui
<1> QED
  BY <1>1, <1>2, <1>3, <1>4, <1>5, <1>6 DEF ActionsNext

(* The invariant of the composition. *)
THEOREM ActionsInvariance == ActionsSpec => []ActionsIInv
<1> QED
  BY ActionsInit_IInv, ActionsInductive, PTL DEF ActionsSpec

(* What the worker runs, and what a download is for, is what was begun, although
   the slots read m_operation and m_source only when a signal comes in. *)
THEOREM RunsTheBegun == ActionsSpec => []RunsWhatWasBegun
<1>1. ActionsIInv => RunsWhatWasBegun
  BY DEF ActionsIInv
<1> QED
  BY ActionsInvariance, <1>1, PTL

(* A menu that refuses every action has a download or a job under way, never
   both: each of them calls finish in the end, and nothing calls it twice. *)
THEOREM BusyMenuHasWork == ActionsSpec => []BusyHasWork
<1>1. ActionsIInv => BusyHasWork
  BY DEF ActionsIInv
<1> QED
  BY ActionsInvariance, <1>1, PTL

(* The steps of the menu do not come between a view and its answers: what is
   proved of StorageRequests holds in the composition.  Its download waits for
   somebody who can answer, so that the menu is told in the end. *)
THEOREM ComposedSomebodyAnswers == ActionsSpec => []WaitsForSomebody
<1>1. ActionsIInv => IInv
  BY DEF ActionsIInv
<1> QED
  BY ActionsInvariance, Waits, <1>1, PTL

(* What the menu or the view waits for is not cancelled by the request it has
   replaced. *)
THEOREM ComposedCancels == ActionsSpec => []HeldIsNotCancelled
<1>1. ActionsIInv => IInv
  BY DEF ActionsIInv
<1> QED
  BY ActionsInvariance, CancelsOthers, <1>1, PTL

(* A signal answers the question that is open, also when the menu runs its slot
   inside the step that emits it. *)
THEOREM ComposedSignalsAnswerLast == ActionsSpec => SignalAnswersLast
<1>1. ASSUME IInv, [ActionsNext]_allVars
      PROVE [signal' # NoSignal =>
               /\ downloading /\ ~downloading'
               /\ signal'.path = requestedPath /\ requestedPath' = requestedPath]_vars
  <2>1. CASE UNCHANGED allVars
    BY <2>1 DEF allVars
  <2>2. CASE ActionsNext
    BY <1>1, <2>2, StepsOfRequests, SignalStep DEF Quiet
  <2> QED
    BY <1>1, <2>1, <2>2
<1>2. ActionsIInv => IInv
  BY DEF ActionsIInv
<1> QED
  BY ActionsInvariance, <1>1, <1>2, PTL DEF ActionsSpec, SignalAnswersLast

(* A download of a menu or a view that came through the host opens only what
   the request made for it was answered with. *)
THEOREM ComposedHostFinished == ActionsSpec => OpensWhatHostFinished
<1>1. ASSUME IInv, [ActionsNext]_allVars
      PROVE [signal'.kind = "activated" /\ held # 0 => request[held] = "ready"]_vars
  <2>1. CASE UNCHANGED allVars
    BY <2>1 DEF allVars
  <2>2. CASE ActionsNext
    BY <1>1, <2>2, StepsOfRequests, OpensStep DEF Quiet, NoSignal
  <2> QED
    BY <1>1, <2>1, <2>2
<1>2. ActionsIInv => IInv
  BY DEF ActionsIInv
<1> QED
  BY ActionsInvariance, <1>1, <1>2, PTL DEF ActionsSpec, OpensWhatHostFinished
=============================================================================
