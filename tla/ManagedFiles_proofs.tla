------------------------ MODULE ManagedFiles_proofs -------------------------
(***************************************************************************)
(* Theorems about ManagedFiles for any places, threads and bounds: no      *)
(* document is lost, whatever fails, crashes or races; what is tombstoned  *)
(* is due; a move that succeeds takes its object along; an intake that was *)
(* alone has recorded every file.                                          *)
(*                                                                         *)
(* Documents: one is always under a public name, in a hidden file that     *)
(* stays, or under the recovery name of a Trash that still has to show its *)
(* copy.  The staged files need not be counted: what is about to be        *)
(* published is a document of its own, of which nobody knows yet, and what *)
(* Trash has copied is where its original is.                              *)
(*                                                                         *)
(* The store: a native file is in one place, public or hidden, and its     *)
(* stamp only grows.  So a stamp once read of a file is behind what the    *)
(* file has now, or the file is still as it was; a stamp that no file has  *)
(* will never be one again.  A version of an object is given once.  With   *)
(* both, whatever a thread has read is still so, or its row is not         *)
(* current.                                                                *)
(*                                                                         *)
(* Moves: who changes the store for a caller holds the lease, and from the *)
(* moment the object has left its source until its contents are observed   *)
(* nobody else can put an object there.                                    *)
(*                                                                         *)
(* The intake: while it is alone, every place it has walked is recorded    *)
(* and every object without a file is still on its page.                   *)
(*                                                                         *)
(* Types: every counter keeps its bound, as the last part shows.           *)
(***************************************************************************)
EXTENDS ManagedFiles, TLAPS

\* Where a document is.
OnPublic(d) == \E p \in Places : file[p] # None /\ file[p].doc = d
OnLeft(d) == \E f \in left : f.doc = d
\* Trash has moved the original aside and has yet to show the copy.
Asides == {t \in Threads : step[t] = "show"}
OnAside(d) == \E t \in Asides : hidden[t].recovery.doc = d
\* A Trash between volumes has staged a copy.
Copied == {t \in Threads : step[t] \in {"hide", "show"}}
OnCopy(d) == \E t \in Copied : hidden[t].staged.doc = d

\* What a thread has staged and will publish as a document of its own.
Pending == {t \in Threads : step[t] = "publish" /\ call[t].act # "move"}

Safe(d) == OnPublic(d) \/ OnLeft(d) \/ OnAside(d)
Known(d) == d \in docs \/ OnPublic(d) \/ OnAside(d) \/ OnCopy(d)

\* What the proofs need of a call, and at which steps it may be.
Call(c) ==
    /\ c = [act |-> c.act, from |-> c.from, to |-> c.to, at |-> c.at, then |-> c.then,
            seen |-> c.seen, row |-> c.row, key |-> c.key, moved |-> c.moved]
    /\ c.act \in {"move", "trash", "remove"} => c.from \in Places
    /\ c.act \in {"move", "trash", "copy", "import", "generated"} => c.to \in Places
    /\ c.then \in {"idle", "none", "publish", "stage", "done", "walk"}
    /\ c.then = "publish" => c.act = "move"
    /\ c.then = "stage" => c.act = "copy"
CallAt(c, s) ==
    /\ s \in {"trash", "hide", "show"} => c.act = "trash"
    /\ s = "unlink" => c.act = "remove"
    /\ s = "stage" => c.act \in {"copy", "import", "generated"}
    /\ s = "publish" => c.act \in {"move", "copy", "import", "generated"}
    /\ s \in {"forget", "relocate", "moveObject"} => c.act \in {"move", "trash"}
    /\ s \in {"removed", "erase"} => c.act = "remove"

Hidden == [staged : File \cup {None}, recovery : File \cup {None}]

\* How a call goes on after observe is a step of its own, or none.
Labels == Steps \cup {"none", "done"}

Types ==
    /\ file \in [Places -> File \cup {None}]
    /\ hidden \in [Threads -> Hidden]
    /\ left \subseteq File /\ docs \subseteq Nat /\ nodes \in Nat
    /\ step \in [Threads -> Labels]
    /\ call = [t \in Threads |-> call[t]]
    /\ \A t \in Threads : Call(call[t]) /\ CallAt(call[t], step[t])

Staged ==
    /\ \A t \in Pending \cup Copied : hidden[t].staged \in File
    /\ \A t \in Asides : hidden[t].recovery \in File

\* Documents are numbered in the order in which they come up.
Numbered ==
    /\ \A d \in Nat : Known(d) => d <= nodes
    /\ \A t \in Pending : hidden[t].staged.doc <= nodes

Kept == \A d \in docs : Safe(d)

\* Nobody knows what has not been published.
Unknown ==
    \A t \in Pending :
        /\ ~Known(hidden[t].staged.doc)
        /\ \A u \in Pending : hidden[u].staged.doc = hidden[t].staged.doc => u = t

\* What Trash has moved aside is what it has copied, or given up.
AsideIsCopied ==
    \A t \in Asides : hidden[t].recovery.doc \in docs
                         => hidden[t].recovery.doc = hidden[t].staged.doc

IInv == Types /\ Staged /\ Numbered /\ Kept /\ Unknown /\ AsideIsCopied

---------------------------------------------------------------------------
LEMMA NewFiles ==
    /\ \A n, d \in Nat : NewFile(n, d) \in File /\ NewFile(n, d).doc = d
    /\ \A f \in File : Renamed(f) \in File /\ Renamed(f).doc = f.doc /\ f # None
                       /\ f.doc \in Nat
    /\ None \notin File
BY FilesAssumption DEF NewFile, Renamed, File

LEMMA NoCalls == Call(NoCall)
BY DEF Call, NoCall

LEMMA InitIInv == Init => IInv
<1> SUFFICES ASSUME Init PROVE IInv
  OBVIOUS
<1>1. PICK q \in Files : file = [p \in Places |-> IF p = q THEN NewFile(1, 1) ELSE None]
  BY DEF Init
<1>2. /\ hidden = [t \in Threads |-> NoHidden] /\ left = {} /\ docs = {1} /\ nodes = 1
      /\ step = [t \in Threads |-> "idle"] /\ call = [t \in Threads |-> NoCall]
  BY DEF Init
<1>3. /\ Asides = {} /\ Copied = {} /\ Pending = {}
  BY <1>2 DEF Asides, Copied, Pending
<1>4. q \in Places
  BY DEF Places
<1>5. NewFile(1, 1) \in File /\ NewFile(1, 1).doc = 1 /\ NewFile(1, 1) # None
  BY NewFiles
<1>6. Types
  <2>1. file \in [Places -> File \cup {None}]
    BY <1>1, <1>5
  <2>2. hidden \in [Threads -> Hidden]
    BY <1>2 DEF Hidden, NoHidden
  <2>3. \A t \in Threads : Call(call[t]) /\ CallAt(call[t], step[t])
    BY <1>2, NoCalls DEF CallAt
  <2>4. call = [t \in Threads |-> call[t]]
    <3>1. \A t \in Threads : call[t] = NoCall
      BY <1>2
    <3> HIDE DEF NoCall
    <3> QED
      BY <1>2, <3>1, Zenon
  <2>6. step \in [Threads -> Labels]
    BY <1>2 DEF Labels, Steps
  <2>5. left \subseteq File /\ docs \subseteq Nat /\ nodes \in Nat
    BY <1>2
  <2> QED
    BY <2>1, <2>2, <2>3, <2>4, <2>5, <2>6 DEF Types
<1>7. \A d : OnPublic(d) <=> d = 1
  BY <1>1, <1>4, <1>5 DEF OnPublic
<1>8. \A d : (Known(d) <=> d = 1) /\ (d = 1 => Safe(d))
  BY <1>2, <1>3, <1>7 DEF Known, Safe, OnAside, OnCopy
<1> QED
  BY <1>2, <1>3, <1>6, <1>8 DEF IInv, Staged, Numbered, Kept, Unknown, AsideIsCopied

---------------------------------------------------------------------------
(* What a step has to do, unless it makes a document or publishes one.     *)
LEMMA Keeps ==
    ASSUME IInv, Types', Staged', AsideIsCopied',
           nodes' >= nodes, docs' \subseteq docs,
           \A d : Known(d)' => Known(d),
           \A d \in docs' : Safe(d) => Safe(d)',
           \A t \in Pending' : t \in Pending /\ hidden'[t].staged = hidden[t].staged
    PROVE IInv'
<1>1. Numbered'
  <2>1. nodes \in Nat /\ nodes' \in Nat
    BY DEF IInv, Types
  <2>2. \A d \in Nat : Known(d)' => d <= nodes'
    BY <2>1 DEF IInv, Numbered
  <2>3. \A t \in Pending' : hidden'[t].staged.doc <= nodes'
    <3> TAKE t \in Pending'
    <3>1. hidden[t].staged \in File /\ hidden[t].staged.doc <= nodes
      BY DEF IInv, Staged, Numbered
    <3> QED
      BY <2>1, <3>1, NewFiles
  <2> QED
    BY <2>2, <2>3 DEF Numbered
<1>2. Kept'
  BY DEF IInv, Kept
<1>3. Unknown'
  BY DEF IInv, Unknown
<1> QED
  BY <1>1, <1>2, <1>3 DEF IInv

\* A thread that is not in the middle of showing a copy goes to a step s that
\* has nothing staged; what public files change leaves every document known.
LEMMA QuietStep ==
    ASSUME IInv, NEW t \in Threads, NEW s \in Labels, NEW c, Call(c), CallAt(c, s),
           step' = [step EXCEPT ![t] = s], call' = [call EXCEPT ![t] = c],
           hidden' = hidden \/ hidden' = [hidden EXCEPT ![t].staged = None],
           UNCHANGED <<left, nodes>>, docs' \subseteq docs,
           step[t] # "show", s \notin {"hide", "show"}, s = "publish" => c.act = "move",
           file' \in [Places -> File \cup {None}],
           \A d : OnPublic(d)' => OnPublic(d),
           \A d \in docs' : OnPublic(d) => OnPublic(d)'
    PROVE IInv'
<1>1. Types
  BY DEF IInv
<1>2. /\ Asides' = Asides /\ t \notin Asides
      /\ Copied' \subseteq Copied \ {t} /\ Pending' \subseteq Pending \ {t}
  BY <1>1 DEF Types, Asides, Copied, Pending
<1>3. \A u \in Threads \ {t} : hidden'[u] = hidden[u]
  BY <1>1 DEF Types, Hidden
<1>4. Asides \subseteq Threads /\ Copied \subseteq Threads /\ Pending \subseteq Threads
  BY DEF Asides, Copied, Pending
<1>5. Types'
  <2>1. hidden' \in [Threads -> Hidden]
    BY <1>1 DEF Types, Hidden
  <2>2. /\ step' \in [Threads -> Labels] /\ call' = [u \in Threads |-> call'[u]]
        /\ \A u \in Threads : Call(call'[u]) /\ CallAt(call'[u], step'[u])
    BY <1>1 DEF Types
  <2> QED
    BY <1>1, <2>1, <2>2 DEF Types
<1>6. Staged'
  BY <1>2, <1>3, <1>4 DEF IInv, Staged
<1>7. AsideIsCopied'
  BY <1>2, <1>3, <1>4 DEF IInv, AsideIsCopied
<1>8. \A d : (OnAside(d)' <=> OnAside(d)) /\ (OnCopy(d)' => OnCopy(d)) /\ (OnLeft(d)' <=> OnLeft(d))
  BY <1>2, <1>3, <1>4 DEF OnAside, OnCopy, OnLeft
<1>9. \A d : Known(d)' => Known(d)
  BY <1>8 DEF Known
<1>10. \A d \in docs' : Safe(d) => Safe(d)'
  BY <1>8 DEF Safe
<1>11. \A u \in Pending' : u \in Pending /\ hidden'[u].staged = hidden[u].staged
  BY <1>2, <1>3, <1>4
<1>12. nodes' >= nodes
  BY <1>1 DEF Types
<1> QED
  BY <1>5, <1>6, <1>7, <1>9, <1>10, <1>11, <1>12, Keeps

\* The same when the files stay as they are.
LEMMA IdleStep ==
    ASSUME IInv, NEW t \in Threads, NEW s \in Labels, NEW c, Call(c), CallAt(c, s),
           step' = [step EXCEPT ![t] = s], call' = [call EXCEPT ![t] = c],
           hidden' = hidden \/ hidden' = [hidden EXCEPT ![t].staged = None],
           UNCHANGED <<file, left, docs, nodes>>,
           step[t] # "show", s \notin {"hide", "show"}, s = "publish" => c.act = "move"
    PROVE IInv'
<1>1. file' \in [Places -> File \cup {None}] /\ docs' \subseteq docs
      /\ \A d : OnPublic(d)' <=> OnPublic(d)
  BY DEF IInv, Types, OnPublic
<1> QED
  BY <1>1, QuietStep

\* A step that concerns only what the model of the documents leaves out.
LEMMA Stutter ==
    ASSUME IInv, UNCHANGED <<native, step, call>>
    PROVE IInv'
<1>1. UNCHANGED <<file, hidden, left, docs, nodes, step, call>>
  BY DEF native
<1>2. Types' /\ Staged' /\ AsideIsCopied' /\ nodes' >= nodes
  BY <1>1 DEF IInv, Types, Staged, AsideIsCopied, Pending, Copied, Asides, OnCopy
<1>3. \A d : (Known(d)' <=> Known(d)) /\ (Safe(d)' <=> Safe(d))
  BY <1>1 DEF Known, Safe, OnPublic, OnLeft, OnAside, OnCopy, Copied, Asides
<1>4. Pending' = Pending
  BY <1>1 DEF Pending
<1> QED
  BY <1>1, <1>2, <1>3, <1>4, Keeps

---------------------------------------------------------------------------
(* Steps that leave the files as they are.                                 *)
LEMMA CallFacts ==
    ASSUME IInv, NEW t \in Threads
    PROVE Call(call[t]) /\ CallAt(call[t], step[t]) /\ call[t].then \in Labels
<1>1. Call(call[t]) /\ CallAt(call[t], step[t])
  BY DEF IInv, Types
<1>2. call[t].then \in {"idle", "none", "publish", "stage", "done", "walk"}
  BY <1>1 DEF Call
<1> QED
  BY <1>1, <1>2 DEF Labels, Steps

\* A call that is told what to observe, and how to go on afterwards.
LEMMA CallObserves ==
    ASSUME NEW c, Call(c), NEW x, NEW y, NEW z,
           y \in {"idle", "none", "publish", "stage", "done", "walk"},
           y = "publish" => c.act = "move", y = "stage" => c.act = "copy",
           NEW d, d = [act |-> c.act, from |-> c.from, to |-> c.to, at |-> x, then |-> y,
                       seen |-> z, row |-> c.row, key |-> c.key, moved |-> c.moved]
    PROVE Call(d) /\ d.act = c.act
BY DEF Call

LEMMA ReturnKeeps ==
    ASSUME IInv, NEW t \in Threads, NEW r, Return(t, r), step[t] # "show"
    PROVE IInv'
<1> DEFINE c == [NoCall EXCEPT !.moved = IF r = "done" THEN call[t].key ELSE None]
<1>1. Call(c) /\ CallAt(c, "idle")
  BY DEF Call, CallAt, NoCall
<1>2. /\ step' = [step EXCEPT ![t] = "idle"] /\ call' = [call EXCEPT ![t] = c]
      /\ hidden' = [hidden EXCEPT ![t].staged = None] /\ UNCHANGED <<file, left, docs, nodes>>
  BY DEF Return, Leave, Goto
<1>3. "idle" \in Labels
  BY DEF Labels, Steps
<1> QED
  BY <1>1, <1>2, <1>3, IdleStep

LEMMA FailKeeps ==
    ASSUME IInv, NEW t \in Threads, Fail(t) \/ Succeed(t), step[t] # "show"
    PROVE IInv'
BY ReturnKeeps DEF Fail, Succeed

\* Steps of the repository only go on, with more in the call.
LEMMA GoesOn ==
    ASSUME IInv, NEW t \in Threads, NEW s \in Labels, NEW c, Call(c), CallAt(c, s),
           Goto(t, s), call' = [call EXCEPT ![t] = c], UNCHANGED native,
           step[t] # "show", s \notin {"hide", "show"}, s = "publish" => c.act = "move"
    PROVE IInv'
BY IdleStep DEF Goto, native

LEMMA ObserveKeeps ==
    ASSUME IInv, NEW t \in Threads, ObserveLook(t) \/ ObserveWrite(t)
    PROVE IInv'
<1>1. Call(call[t]) /\ call[t].then \in Labels
  BY CallFacts
<1>2. CASE ObserveLook(t)
  <2>1. CASE Fail(t)
    BY <1>2, <2>1, FailKeeps DEF ObserveLook
  <2>2. CASE ~Fail(t)
    <3> DEFINE c == [call[t] EXCEPT !.seen = file[call[t].at]]
    <3>1. Call(c) /\ CallAt(c, "write") /\ "write" \in Labels
      BY <1>1 DEF Call, CallAt, Labels, Steps
    <3>2. /\ step[t] = "look" /\ call' = [call EXCEPT ![t] = c]
          /\ Goto(t, "write") /\ UNCHANGED native
      BY <1>2, <2>2 DEF ObserveLook
    <3> HIDE DEF c
    <3> QED
      BY <3>1, <3>2, GoesOn
  <2> QED
    BY <2>1, <2>2
<1>3. ASSUME step[t] = "write", ObserveDone(t) PROVE IInv'
  <2>1. CASE Succeed(t)
    BY <1>3, <2>1, FailKeeps
  <2>2. CASE ~Succeed(t)
    <3> DEFINE s == call[t].then
               c == [call[t] EXCEPT !.at = None, !.then = "idle", !.seen = None]
    <3>4. s \in {"idle", "none", "publish", "stage", "done", "walk"}
          /\ (s = "publish" => call[t].act = "move") /\ (s = "stage" => call[t].act = "copy")
      BY <1>1 DEF Call
    <3>5. c = [call[t] EXCEPT !.at = None, !.then = "idle", !.seen = None]
      OBVIOUS
    <3> HIDE DEF c, s
    <3>6. Call(c) /\ c.act = call[t].act
      <4>1. c = [act |-> call[t].act, from |-> call[t].from, to |-> call[t].to,
                 at |-> None, then |-> "idle", seen |-> None, row |-> call[t].row,
                 key |-> call[t].key, moved |-> call[t].moved]
        BY <1>1, <3>5 DEF Call
      <4> QED
        BY <1>1, <4>1, CallObserves
    <3>1. Call(c) /\ CallAt(c, s) /\ (s = "publish" => c.act = "move")
          /\ s \notin {"hide", "show"}
      BY <3>4, <3>6 DEF CallAt
    <3> USE DEF c, s
    <3>2. Goto(t, s) /\ UNCHANGED native /\ call' = [call EXCEPT ![t] = c]
      BY <1>3, <2>2 DEF ObserveDone
    <3> HIDE DEF c, s
    <3>3. s \in Labels
      BY <1>1 DEF s
    <3> QED
      BY <1>3, <3>1, <3>2, <3>3, GoesOn
  <2> QED
    BY <2>1, <2>2
<1>4. CASE ObserveWrite(t)
  BY <1>3, <1>4, FailKeeps, ReturnKeeps DEF ObserveWrite
<1> QED
  BY <1>2, <1>4

LEMMA MovedKeeps ==
    ASSUME IInv, NEW t \in Threads,
           RelocateLook(t) \/ MoveObject(t) \/ RemovedLook(t) \/ RemovedErase(t)
    PROVE IInv'
<1>1. Call(call[t]) /\ CallAt(call[t], step[t])
  BY CallFacts
<1>2. CASE Fail(t) \/ Succeed(t)
  <2>1. step[t] # "show"
    BY DEF RelocateLook, MoveObject, RemovedLook, RemovedErase
  <2> QED
    BY <1>2, <2>1, FailKeeps
<1>3. CASE ~(Fail(t) \/ Succeed(t))
  <2>1. ASSUME NEW row, NEW s,
               \/ step[t] = "relocate" /\ s = "moveObject"
               \/ step[t] = "removed" /\ s = "erase",
               call' = [call EXCEPT ![t].row = row], Goto(t, s), UNCHANGED native
        PROVE IInv'
    <3> DEFINE c == [call[t] EXCEPT !.row = row]
    <3>1. Call(c) /\ CallAt(c, s) /\ s \in Labels
      BY <1>1, <2>1 DEF Call, CallAt, Labels, Steps
    <3>2. call' = [call EXCEPT ![t] = c]
      BY <2>1
    <3> HIDE DEF c
    <3> QED
      BY <2>1, <3>1, <3>2, GoesOn
  <2>2. CASE RelocateLook(t)
    BY <1>3, <2>1, <2>2 DEF RelocateLook
  <2>3. CASE RemovedLook(t)
    BY <1>3, <2>1, <2>3 DEF RemovedLook
  <2>4. CASE MoveObject(t)
    <3> DEFINE c == [call[t] EXCEPT !.at = call[t].to, !.then = "done"]
    <3>4. c = [call[t] EXCEPT !.at = call[t].to, !.then = "done"]
      OBVIOUS
    <3> HIDE DEF c
    <3>5. c = [act |-> call[t].act, from |-> call[t].from, to |-> call[t].to, at |-> call[t].to,
               then |-> "done", seen |-> call[t].seen, row |-> call[t].row, key |-> call[t].key,
               moved |-> call[t].moved]
      BY <1>1, <3>4 DEF Call
    <3>1. Call(c) /\ CallAt(c, "look") /\ "look" \in Labels
      BY <1>1, <3>5, CallObserves DEF CallAt, Labels, Steps
    <3> USE DEF c
    <3>2. /\ step[t] = "moveObject" /\ Goto(t, "look") /\ UNCHANGED native
          /\ call' = [call EXCEPT ![t] = c]
      BY <1>3, <2>4 DEF MoveObject
    <3> HIDE DEF c
    <3> QED
      BY <3>1, <3>2, GoesOn
  <2> QED
    BY <1>3, <2>2, <2>3, <2>4 DEF RemovedErase
<1> QED
  BY <1>2, <1>3

LEMMA RepositoryKeeps ==
    ASSUME IInv, NEW t \in Threads, Repository(t)
    PROVE IInv'
BY ObserveKeeps, MovedKeeps, FailKeeps DEF Repository, LeaseTimeout

LEMMA ReconcileKeeps ==
    ASSUME IInv, Reconcile
    PROVE IInv'
<1>1. Intake \in Threads
  BY DEF Threads
<1>2. Call(call[Intake])
  BY <1>1, CallFacts
<1>3. CASE ReconcileBegin
  <2>1. call' = [call EXCEPT ![Intake] = call[Intake]]
    BY <1>1, <1>3 DEF ReconcileBegin, IInv, Types
  <2>2. CallAt(call[Intake], "walk") /\ "walk" \in Labels
    BY DEF CallAt, Labels, Steps
  <2> QED
    BY <1>1, <1>2, <1>3, <2>1, <2>2, GoesOn DEF ReconcileBegin
<1>4. CASE Walk
  <2>1. CASE UNCHANGED <<step, call>>
    BY <1>4, <2>1, Stutter DEF Walk
  <2>2. CASE ~UNCHANGED <<step, call>>
    <3>1. PICK p \in todo : /\ call' = [call EXCEPT ![Intake].at = p, ![Intake].then = "walk"]
                            /\ Goto(Intake, "look") /\ UNCHANGED native
                            /\ step[Intake] = "walk"
      BY <1>4, <2>2 DEF Walk
    <3> DEFINE c == [call[Intake] EXCEPT !.at = p, !.then = "walk"]
    <3>4. c = [call[Intake] EXCEPT !.at = p, !.then = "walk"]
      OBVIOUS
    <3> HIDE DEF c
    <3>5. c = [act |-> call[Intake].act, from |-> call[Intake].from, to |-> call[Intake].to, at |-> p,
               then |-> "walk", seen |-> call[Intake].seen, row |-> call[Intake].row, key |-> call[Intake].key,
               moved |-> call[Intake].moved]
      BY <1>2, <3>4 DEF Call
    <3>2. Call(c) /\ CallAt(c, "look") /\ "look" \in Labels
      BY <1>2, <3>5, CallObserves DEF CallAt, Labels, Steps
    <3> USE DEF c
    <3>3. call' = [call EXCEPT ![Intake] = c]
      BY <3>1
    <3> HIDE DEF c
    <3> QED
      BY <1>1, <3>1, <3>2, <3>3, GoesOn
  <2> QED
    BY <2>1, <2>2
<1>5. CASE ReadIndex
  <2>1. call' = [call EXCEPT ![Intake] = call[Intake]]
    BY <1>1, <1>5 DEF ReadIndex, IInv, Types
  <2>2. CallAt(call[Intake], "sweep") /\ "sweep" \in Labels
    BY DEF CallAt, Labels, Steps
  <2> QED
    BY <1>1, <1>2, <1>5, <2>1, <2>2, GoesOn DEF ReadIndex
<1>6. ASSUME NEW row, NEW s \in {"doom", "sweep"}, step[Intake] \in {"sweep", "doom"},
             call' = [call EXCEPT ![Intake].row = row], Goto(Intake, s), UNCHANGED native
      PROVE IInv'
  <2> DEFINE c == [call[Intake] EXCEPT !.row = row]
  <2>1. Call(c) /\ CallAt(c, s) /\ s \in Labels
    BY <1>2 DEF Call, CallAt, Labels, Steps
  <2>2. call' = [call EXCEPT ![Intake] = c]
    BY <1>6
  <2> HIDE DEF c
  <2> QED
    BY <1>1, <1>6, <2>1, <2>2, GoesOn
<1>7. CASE SweepLook
  BY <1>6, <1>7, Stutter DEF SweepLook
<1>8. CASE SweepErase
  BY <1>1, <1>6, <1>8, FailKeeps DEF SweepErase, native
<1>9. CASE ReconcileEnd
  BY <1>1, <1>9, FailKeeps DEF ReconcileEnd
<1> QED
  BY <1>1, <1>3, <1>4, <1>5, <1>7, <1>8, <1>9, RepositoryKeeps DEF Reconcile

LEMMA BeginKeeps ==
    ASSUME IInv, NEW t \in Threads, NEW kind, NEW p, NEW q, NEW x, NEW y,
           NEW first \in {"look", "stage", "trash", "unlink"},
           Begin(t, kind, p, q, x, y, first),
           kind \in {"move", "trash", "remove"} => p \in Places,
           kind \in {"move", "trash", "copy", "import", "generated"} => q \in Places,
           y \in {"none", "publish", "stage", "done"},
           y = "publish" => kind = "move", y = "stage" => kind = "copy",
           first = "trash" => kind = "trash", first = "unlink" => kind = "remove",
           first = "stage" => kind \in {"import", "generated"}
    PROVE IInv'
<1> DEFINE c == [NoCall EXCEPT !.act = kind, !.from = p, !.to = q, !.at = x, !.then = y]
<1>5. c = [NoCall EXCEPT !.act = kind, !.from = p, !.to = q, !.at = x, !.then = y]
  OBVIOUS
<1>2. /\ step[t] = "idle" /\ call' = [call EXCEPT ![t] = c] /\ Goto(t, first)
      /\ UNCHANGED native
  BY DEF Begin
<1> HIDE DEF c
<1>1. c = [act |-> kind, from |-> p, to |-> q, at |-> x, then |-> y,
           seen |-> None, row |-> None, key |-> None, moved |-> None]
  BY <1>5 DEF NoCall
<1>3. Call(c) /\ c.act = kind
  BY <1>1 DEF Call
<1>4. CallAt(c, first) /\ first \in Labels
  BY <1>3 DEF CallAt, Labels, Steps
<1> QED
  BY <1>2, <1>3, <1>4, GoesOn

LEMMA BeginsKeep ==
    ASSUME IInv, NEW t \in Threads, NEW p \in Places, NEW q \in Places,
           \/ BeginMove(t, p, q) \/ BeginDuplicate(t, p, q) \/ BeginTrash(t, p, q)
           \/ BeginImport(t, p) \/ BeginGenerated(t, p) \/ BeginRemove(t, p)
           \/ BeginRecord(t, p)
    PROVE IInv'
<1>1. CASE BeginMove(t, p, q)
  BY <1>1, BeginKeeps DEF BeginMove
<1>2. CASE BeginDuplicate(t, p, q)
  BY <1>2, BeginKeeps DEF BeginDuplicate
<1>3. CASE BeginTrash(t, p, q)
  BY <1>3, BeginKeeps DEF BeginTrash
<1>4. CASE BeginImport(t, p)
  BY <1>4, BeginKeeps DEF BeginImport
<1>5. CASE BeginGenerated(t, p)
  BY <1>5, BeginKeeps DEF BeginGenerated
<1>6. CASE BeginRemove(t, p)
  <2>1. Begin(t, "remove", p, None, None, "none", "unlink")
    BY <1>6 DEF BeginRemove
  <2>2. /\ "remove" \notin {"move", "trash", "copy", "import", "generated"}
        /\ "none" \notin {"publish", "stage"} /\ "unlink" \notin {"trash", "stage"}
        /\ "none" \in {"none", "publish", "stage", "done"}
        /\ "unlink" \in {"look", "stage", "trash", "unlink"}
    OBVIOUS
  <2> QED
    BY <2>1, <2>2, BeginKeeps
<1>7. CASE BeginRecord(t, p)
  BY <1>7, BeginKeeps DEF BeginRecord
<1> QED
  BY <1>1, <1>2, <1>3, <1>4, <1>5, <1>6, <1>7

---------------------------------------------------------------------------
(* Steps that change public files and have nothing staged.                 *)

\* A rename that never replaces keeps every document public.
LEMMA MoveFacts ==
    ASSUME IInv, NEW p \in Places, NEW q \in Places, file[p] # None, MoveWithoutCopy(p, q)
    PROVE /\ file' \in [Places -> File \cup {None}]
          /\ \A d : OnPublic(d)' <=> OnPublic(d)
<1>1. file \in [Places -> File \cup {None}]
  BY DEF IInv, Types
<1>2. /\ file[q] = None /\ p # q
      /\ file' = [file EXCEPT ![p] = None, ![q] = Renamed(file[p])]
  BY DEF MoveWithoutCopy
<1>3. file[p] \in File /\ Renamed(file[p]) \in File /\ Renamed(file[p]).doc = file[p].doc
      /\ Renamed(file[p]) # None
  BY <1>1, NewFiles
<1>4. /\ file' \in [Places -> File \cup {None}]
      /\ file'[p] = None /\ file'[q] = Renamed(file[p])
      /\ \A r \in Places \ {p, q} : file'[r] = file[r]
  BY <1>1, <1>2, <1>3
<1>5. ASSUME NEW d PROVE OnPublic(d)' <=> OnPublic(d)
  BY <1>2, <1>3, <1>4 DEF OnPublic
<1> QED
  BY <1>4, <1>5

\* A file that is given up for good takes its document out of docs.
LEMMA LostFacts ==
    ASSUME IInv, NEW p \in Places, file[p] # None,
           file' = [file EXCEPT ![p] = None], docs' = Lost(p)
    PROVE /\ file' \in [Places -> File \cup {None}] /\ docs' \subseteq docs
          /\ \A d : OnPublic(d)' => OnPublic(d)
          /\ \A d \in docs' : OnPublic(d) => OnPublic(d)'
<1>1. file \in [Places -> File \cup {None}]
  BY DEF IInv, Types
<1>2. /\ file' \in [Places -> File \cup {None}] /\ file'[p] = None
      /\ \A r \in Places \ {p} : file'[r] = file[r]
  BY <1>1
<1>3. docs' = docs \ {file[p].doc}
  BY DEF Lost
<1> QED
  BY <1>2, <1>3 DEF OnPublic

\* The new file of an editor holds the same document.
LEMMA EditFacts ==
    ASSUME IInv, NEW p \in Places, file[p] # None,
           NEW f \in File, f.doc = file[p].doc, file' = [file EXCEPT ![p] = f]
    PROVE /\ file' \in [Places -> File \cup {None}]
          /\ \A d : OnPublic(d)' <=> OnPublic(d)
<1>1. file \in [Places -> File \cup {None}]
  BY DEF IInv, Types
<1>2. /\ file' \in [Places -> File \cup {None}] /\ file'[p] = f /\ f # None
      /\ \A r \in Places \ {p} : file'[r] = file[r]
  BY <1>1, NewFiles
<1> QED
  BY <1>2 DEF OnPublic

LEMMA MoveKeeps ==
    ASSUME IInv, NEW t \in Threads, file[call[t].from] # None,
           MoveWithoutCopy(call[t].from, call[t].to), call[t].act \in {"move", "trash"},
           Concerns(t), Goto(t, "relocate"), step[t] # "show",
           UNCHANGED <<hidden, left, docs, nodes>>
    PROVE IInv'
<1>1. Call(call[t]) /\ call[t].from \in Places /\ call[t].to \in Places
  BY CallFacts DEF Call
<1>2. PICK x : call' = [call EXCEPT ![t].key = x]
  BY DEF Concerns
<1> DEFINE c == [call[t] EXCEPT !.key = x]
<1>3. Call(c) /\ CallAt(c, "relocate") /\ "relocate" \in Labels
  BY <1>1 DEF Call, CallAt, Labels, Steps
<1>4. call' = [call EXCEPT ![t] = c] /\ step' = [step EXCEPT ![t] = "relocate"]
  BY <1>2 DEF Goto
<1> HIDE DEF c
<1>5. file' \in [Places -> File \cup {None}] /\ \A d : OnPublic(d)' <=> OnPublic(d)
  BY <1>1, MoveFacts
<1> QED
  BY <1>3, <1>4, <1>5, QuietStep

LEMMA UnlinkKeeps ==
    ASSUME IInv, NEW t \in Threads, Unlink(t)
    PROVE IInv'
<1>1. step[t] = "unlink"
  BY DEF Unlink
<1>2. CASE Fail(t)
  BY <1>1, <1>2, FailKeeps
<1>3. CASE ~Fail(t)
  <2>1. /\ file[call[t].from] # None /\ docs' = Lost(call[t].from)
        /\ file' = [file EXCEPT ![call[t].from] = None]
        /\ Goto(t, "removed") /\ UNCHANGED <<hidden, left, nodes, call>>
    BY <1>3 DEF Unlink
  <2>2. Call(call[t]) /\ call[t].from \in Places
    BY <1>1, CallFacts DEF Call, CallAt
  <2>3. CallAt(call[t], "removed") /\ "removed" \in Labels
    BY <1>1, CallFacts DEF CallAt, Labels, Steps
  <2>4. call' = [call EXCEPT ![t] = call[t]] /\ step' = [step EXCEPT ![t] = "removed"]
    BY <2>1 DEF Goto, IInv, Types
  <2>5. /\ file' \in [Places -> File \cup {None}] /\ docs' \subseteq docs
        /\ \A d : OnPublic(d)' => OnPublic(d)
        /\ \A d \in docs' : OnPublic(d) => OnPublic(d)'
    BY <2>1, <2>2, LostFacts
  <2> QED
    BY <1>1, <2>1, <2>2, <2>3, <2>4, <2>5, QuietStep
<1> QED
  BY <1>2, <1>3

\* No thread moves: only files and the count of files change.
LEMMA FilesStep ==
    ASSUME IInv, UNCHANGED <<hidden, left, step, call>>, docs' \subseteq docs,
           nodes' \in Nat, nodes' >= nodes, file' \in [Places -> File \cup {None}],
           \A d : OnPublic(d)' => OnPublic(d),
           \A d \in docs' : OnPublic(d) => OnPublic(d)'
    PROVE IInv'
<1>1. Asides' = Asides /\ Copied' = Copied /\ Pending' = Pending
  BY DEF Asides, Copied, Pending
<1>2. Types' /\ Staged' /\ AsideIsCopied'
  BY <1>1 DEF IInv, Types, Staged, AsideIsCopied
<1>3. \A d : (OnAside(d)' <=> OnAside(d)) /\ (OnCopy(d)' <=> OnCopy(d)) /\ (OnLeft(d)' <=> OnLeft(d))
  BY <1>1 DEF OnAside, OnCopy, OnLeft
<1>4. \A d : Known(d)' => Known(d)
  BY <1>3 DEF Known
<1>5. \A d \in docs' : Safe(d) => Safe(d)'
  BY <1>3 DEF Safe
<1> QED
  BY <1>1, <1>2, <1>4, <1>5, Keeps

LEMMA UserKeeps ==
    ASSUME IInv, User
    PROVE IInv'
<1>1. UNCHANGED <<hidden, left, step, call>> /\ docs \subseteq Nat /\ nodes \in Nat
      /\ nodes + 1 \in Nat /\ nodes + 1 >= nodes /\ nodes >= nodes
      /\ file \in [Places -> File \cup {None}]
  BY DEF User, IInv, Types
<1>2. ASSUME NEW p \in Places, NEW q \in Places, UserMove(p, q) PROVE IInv'
  BY <1>1, <1>2, MoveFacts, FilesStep DEF UserMove
<1>3. ASSUME NEW p \in Places, UserEdit(p) PROVE IInv'
  <2>1. /\ file[p] \in File /\ Renamed(file[p]) \in File
        /\ Renamed(file[p]).doc = file[p].doc
        /\ file' = [file EXCEPT ![p] = Renamed(file[p])]
    BY <1>1, <1>3, NewFiles DEF UserEdit
  <2> QED
    BY <1>1, <1>3, <2>1, EditFacts, FilesStep DEF UserEdit
<1>4. ASSUME NEW p \in Places, UserSave(p) PROVE IInv'
  <2> DEFINE f == NewFile(nodes + 1, file[p].doc)
  <2>1. f \in File /\ f.doc = file[p].doc
    BY <1>1, <1>4, NewFiles DEF UserSave
  <2>2. file' = [file EXCEPT ![p] = f] /\ nodes' = nodes + 1 /\ docs' = docs /\ file[p] # None
    BY <1>4 DEF UserSave
  <2> HIDE DEF f
  <2>3. file' \in [Places -> File \cup {None}] /\ \A d : OnPublic(d)' <=> OnPublic(d)
    BY <2>1, <2>2, EditFacts
  <2> QED
    BY <1>1, <2>2, <2>3, FilesStep
<1>5. ASSUME NEW p \in Places, UserDelete(p) PROVE IInv'
  <2>1. file[p] # None /\ file' = [file EXCEPT ![p] = None] /\ docs' = Lost(p) /\ nodes' = nodes
    BY <1>5 DEF UserDelete
  <2>2. /\ file' \in [Places -> File \cup {None}] /\ docs' \subseteq docs
        /\ \A d : OnPublic(d)' => OnPublic(d)
        /\ \A d \in docs' : OnPublic(d) => OnPublic(d)'
    BY <2>1, LostFacts
  <2> QED
    BY <1>1, <2>1, <2>2, FilesStep
<1> QED
  BY <1>2, <1>3, <1>4, <1>5 DEF User

---------------------------------------------------------------------------
(* Steps that stage, show or hide.                                         *)

\* What the other threads do does not depend on a thread that moves on.
LEMMA OthersStay ==
    ASSUME IInv, NEW t \in Threads, NEW s \in Labels, NEW c, Call(c), CallAt(c, s),
           NEW h \in Hidden, Goto(t, s), call' = [call EXCEPT ![t] = c],
           hidden' = [hidden EXCEPT ![t] = h]
    PROVE /\ \A u \in Threads \ {t} : /\ step'[u] = step[u] /\ call'[u] = call[u]
                                      /\ hidden'[u] = hidden[u]
          /\ step'[t] = s /\ call'[t] = c /\ hidden'[t] = h
          /\ step' \in [Threads -> Labels] /\ hidden' \in [Threads -> Hidden]
          /\ call' = [u \in Threads |-> call'[u]]
          /\ \A u \in Threads : Call(call'[u]) /\ CallAt(call'[u], step'[u])
          /\ Asides' \ {t} = Asides \ {t} /\ Copied' \ {t} = Copied \ {t}
          /\ Pending' \ {t} = Pending \ {t}
<1>1. Types
  BY DEF IInv
<1>2. /\ step'[t] = s /\ call'[t] = c /\ hidden'[t] = h
      /\ \A u \in Threads \ {t} : step'[u] = step[u] /\ call'[u] = call[u]
                                  /\ hidden'[u] = hidden[u]
  BY <1>1 DEF Types, Goto
<1>3. /\ step' \in [Threads -> Labels] /\ hidden' \in [Threads -> Hidden]
      /\ call' = [u \in Threads |-> call'[u]]
  BY <1>1 DEF Types, Goto
<1>4. \A u \in Threads : Call(call'[u]) /\ CallAt(call'[u], step'[u])
  BY <1>1, <1>2 DEF Types
<1> QED
  BY <1>2, <1>3, <1>4 DEF Asides, Copied, Pending

LEMMA StageKeeps ==
    ASSUME IInv, NEW t \in Threads, Stage(t)
    PROVE IInv'
<1>1. step[t] = "stage"
  BY DEF Stage
<1>2. CASE Fail(t)
  BY <1>1, <1>2, FailKeeps
<1>3. CASE ~Fail(t)
  <2> DEFINE n == nodes + 1
             f == NewFile(n, n)
             h == [hidden[t] EXCEPT !.staged = f]
  <2>1. /\ nodes' = n /\ hidden' = [hidden EXCEPT ![t] = h] /\ Goto(t, "publish")
        /\ UNCHANGED <<file, left, docs, call>>
    BY <1>3 DEF Stage
  <2>2. nodes \in Nat /\ n \in Nat /\ f \in File /\ f.doc = n
    BY NewFiles DEF IInv, Types
  <2>3. h \in Hidden /\ h.staged = f
    BY <2>2 DEF IInv, Types, Hidden
  <2>4. /\ Call(call[t]) /\ call[t].act \in {"copy", "import", "generated"}
        /\ CallAt(call[t], "publish") /\ "publish" \in Labels
    BY <1>1, CallFacts DEF CallAt, Labels, Steps
  <2>5. call' = [call EXCEPT ![t] = call[t]]
    BY <2>1 DEF IInv, Types
  <2> HIDE DEF h, f
  <2>6. /\ \A u \in Threads \ {t} : hidden'[u] = hidden[u]
        /\ step'[t] = "publish" /\ hidden'[t] = h
        /\ step' \in [Threads -> Labels] /\ hidden' \in [Threads -> Hidden]
        /\ call' = [u \in Threads |-> call'[u]]
        /\ \A u \in Threads : Call(call'[u]) /\ CallAt(call'[u], step'[u])
        /\ Asides' \ {t} = Asides \ {t} /\ Copied' \ {t} = Copied \ {t}
        /\ Pending' \ {t} = Pending \ {t}
    BY <2>1, <2>3, <2>4, <2>5, OthersStay
  <2>7. t \notin Asides \cup Asides' \cup Copied \cup Copied' \cup Pending
    BY <1>1, <2>6 DEF Asides, Copied, Pending
  <2>8. Asides' = Asides /\ Copied' = Copied /\ Pending' \subseteq Pending \cup {t}
        /\ Asides \subseteq Threads /\ Copied \subseteq Threads /\ Pending \subseteq Threads
    BY <2>6, <2>7 DEF Asides, Copied, Pending
  <2>9. Types'
    BY <2>1, <2>2, <2>6 DEF IInv, Types
  <2>10. Staged' /\ AsideIsCopied'
    BY <2>1, <2>2, <2>3, <2>6, <2>7, <2>8 DEF IInv, Staged, AsideIsCopied
  <2>11. \A d : (Known(d)' <=> Known(d)) /\ (Safe(d)' <=> Safe(d))
    BY <2>1, <2>6, <2>7, <2>8 DEF Known, Safe, OnPublic, OnLeft, OnAside, OnCopy
  <2>12. Kept'
    BY <2>1, <2>11 DEF IInv, Kept
  <2>13. /\ \A d \in Nat : Known(d) => d < n
         /\ \A u \in Pending : hidden[u].staged.doc < n /\ hidden[u].staged.doc \in Nat
    BY <2>2, NewFiles DEF IInv, Numbered, Staged
  <2>14. Numbered'
    BY <2>1, <2>2, <2>3, <2>6, <2>7, <2>8, <2>11, <2>13 DEF Numbered
  <2>15. ~Known(n)
    BY <2>2, <2>13
  <2>16. Unknown'
    BY <2>2, <2>3, <2>6, <2>7, <2>8, <2>11, <2>13, <2>15 DEF IInv, Unknown
  <2> QED
    BY <2>9, <2>10, <2>12, <2>14, <2>16 DEF IInv
<1> QED
  BY <1>2, <1>3

LEMMA ShowKeeps ==
    ASSUME IInv, NEW t \in Threads, t \in Pending, file[call[t].to] = None, Show(t)
    PROVE IInv'
<1> DEFINE f == hidden[t].staged
           q == call[t].to
           h == [hidden[t] EXCEPT !.staged = None]
           c == [call[t] EXCEPT !.at = q, !.then = "done"]
<1>1. /\ Types /\ step[t] = "publish" /\ Call(call[t])
      /\ call[t].act \in {"copy", "import", "generated"} /\ q \in Places
  BY CallFacts DEF IInv, Pending, Call, CallAt
<1>2. /\ f \in File /\ Renamed(f) \in File /\ Renamed(f).doc = f.doc /\ Renamed(f) # None
      /\ f.doc \in Nat /\ ~Known(f.doc) /\ f.doc <= nodes
  BY NewFiles DEF IInv, Staged, Unknown, Numbered
<1>3. /\ file' = [file EXCEPT ![q] = Renamed(f)] /\ docs' = docs \cup {f.doc}
      /\ hidden' = [hidden EXCEPT ![t] = h] /\ call' = [call EXCEPT ![t] = c]
      /\ Goto(t, "look") /\ UNCHANGED <<left, nodes>>
  BY DEF Show
<1>4. h \in Hidden
  BY <1>1 DEF Types, Hidden
<1>5. Call(c)
  <2>1. c = [call[t] EXCEPT !.at = q, !.then = "done"]
    OBVIOUS
  <2> HIDE DEF c
  <2>2. c = [act |-> call[t].act, from |-> call[t].from, to |-> call[t].to, at |-> q,
             then |-> "done", seen |-> call[t].seen, row |-> call[t].row,
             key |-> call[t].key, moved |-> call[t].moved]
    BY <1>1, <2>1 DEF Call
  <2> QED
    BY <1>1, <2>2, CallObserves
<1>6. CallAt(c, "look") /\ "look" \in Labels
  BY DEF CallAt, Labels, Steps
<1> HIDE DEF c, h, f, q
<1>7. /\ \A u \in Threads \ {t} : hidden'[u] = hidden[u]
      /\ step'[t] = "look"
      /\ step' \in [Threads -> Labels] /\ hidden' \in [Threads -> Hidden]
      /\ call' = [u \in Threads |-> call'[u]]
      /\ \A u \in Threads : Call(call'[u]) /\ CallAt(call'[u], step'[u])
      /\ Asides' \ {t} = Asides \ {t} /\ Copied' \ {t} = Copied \ {t}
      /\ Pending' \ {t} = Pending \ {t}
  BY <1>3, <1>4, <1>5, <1>6, OthersStay
<1>8. t \notin Asides \cup Asides' \cup Copied \cup Copied' \cup Pending'
  BY <1>1, <1>7 DEF Asides, Copied, Pending
<1>9. Asides' = Asides /\ Copied' = Copied /\ Pending' = Pending \ {t}
      /\ Asides \subseteq Threads /\ Copied \subseteq Threads /\ Pending \subseteq Threads
  BY <1>7, <1>8 DEF Asides, Copied, Pending
<1>10. /\ file' \in [Places -> File \cup {None}] /\ file'[q] = Renamed(f)
       /\ \A r \in Places \ {q} : file'[r] = file[r]
  BY <1>1, <1>2, <1>3 DEF Types
<1>11. Types'
  BY <1>1, <1>2, <1>3, <1>7, <1>10 DEF Types
<1>12. \A d : /\ OnPublic(d)' <=> OnPublic(d) \/ d = f.doc
              /\ OnAside(d)' <=> OnAside(d)
              /\ OnCopy(d)' <=> OnCopy(d)
              /\ OnLeft(d)' <=> OnLeft(d)
  <2>1. file[q] = None
    BY DEF q
  <2>2. ASSUME NEW d PROVE OnPublic(d)' <=> OnPublic(d) \/ d = f.doc
    BY <1>1, <1>2, <1>10, <2>1 DEF OnPublic
  <2> QED
    BY <1>3, <1>7, <1>8, <1>9, <2>2 DEF OnAside, OnCopy, OnLeft
<1>13. \A d : Known(d)' <=> Known(d) \/ d = f.doc
  BY <1>3, <1>12 DEF Known
<1>14. Staged'
  BY <1>7, <1>8, <1>9 DEF IInv, Staged
<1>15. AsideIsCopied'
  <2>1. ~OnAside(f.doc)
    BY <1>2 DEF Known
  <2> QED
    BY <1>3, <1>7, <1>8, <1>9, <2>1 DEF IInv, AsideIsCopied, OnAside
<1>16. Kept'
  BY <1>3, <1>12 DEF IInv, Kept, Safe
<1>17. Numbered'
  BY <1>2, <1>3, <1>7, <1>9, <1>13 DEF IInv, Numbered
<1>18. Unknown'
  <2>1. \A u \in Pending \ {t} : hidden[u].staged.doc # f.doc
    BY DEF IInv, Unknown, f
  <2> QED
    BY <1>7, <1>9, <1>13, <2>1 DEF IInv, Unknown
<1> QED
  BY <1>11, <1>14, <1>15, <1>16, <1>17, <1>18 DEF IInv

\* What a thread of Trash keeps, whatever it goes on to.
LEMMA TrashCall ==
    ASSUME IInv, NEW t \in Threads, step[t] \in {"trash", "hide", "show"}
    PROVE /\ Call(call[t]) /\ call[t].act = "trash"
          /\ call[t].from \in Places /\ call[t].to \in Places
BY CallFacts DEF Call, CallAt

LEMMA TrashKeeps ==
    ASSUME IInv, NEW t \in Threads, Trash(t)
    PROVE IInv'
<1> DEFINE p == call[t].from
<1>1. step[t] = "trash" /\ Call(call[t]) /\ call[t].act = "trash" /\ p \in Places
  BY TrashCall DEF Trash
<1>2. CASE Fail(t)
  BY <1>1, <1>2, FailKeeps
<1>3. CASE Goto(t, "relocate")
  <2>1. /\ file[p] # None /\ MoveWithoutCopy(p, call[t].to) /\ Concerns(t)
        /\ UNCHANGED <<hidden, left, docs, nodes>>
    <3>1. ~Goto(t, "idle") /\ ~Goto(t, "hide")
      BY <1>3 DEF Goto, IInv, Types
    <3> QED
      BY <3>1 DEF Trash, Fail, Return, Leave
  <2> QED
    BY <1>1, <1>3, <2>1, MoveKeeps
<1>4. CASE ~Fail(t) /\ ~Goto(t, "relocate")
  <2> DEFINE f == NewFile(nodes + 1, file[p].doc)
             h == [hidden[t] EXCEPT !.staged = f]
  <2>1. /\ file[p] # None /\ nodes' = nodes + 1 /\ hidden' = [hidden EXCEPT ![t] = h]
        /\ Goto(t, "hide") /\ UNCHANGED <<file, left, docs, call>>
    BY <1>4 DEF Trash
  <2>2. nodes \in Nat /\ nodes + 1 \in Nat /\ file[p] \in File /\ file[p].doc \in Nat
    BY <1>1, <2>1, NewFiles DEF IInv, Types
  <2>3. f \in File /\ f.doc = file[p].doc
    BY <2>2, NewFiles
  <2>4. h \in Hidden /\ h.staged = f
    BY <2>3 DEF IInv, Types, Hidden
  <2>5. /\ Call(call[t]) /\ CallAt(call[t], "hide") /\ "hide" \in Labels
        /\ call' = [call EXCEPT ![t] = call[t]]
    BY <1>1, <2>1 DEF CallAt, Labels, Steps, IInv, Types
  <2> HIDE DEF h, f, p
  <2>16. Goto(t, "hide") /\ hidden' = [hidden EXCEPT ![t] = h] /\ h \in Hidden
    BY <2>1, <2>4
  <2>6. /\ \A u \in Threads \ {t} : hidden'[u] = hidden[u]
        /\ step'[t] = "hide" /\ hidden'[t] = h
        /\ step' \in [Threads -> Labels] /\ hidden' \in [Threads -> Hidden]
        /\ call' = [u \in Threads |-> call'[u]]
        /\ \A u \in Threads : Call(call'[u]) /\ CallAt(call'[u], step'[u])
        /\ Asides' \ {t} = Asides \ {t} /\ Copied' \ {t} = Copied \ {t}
        /\ Pending' \ {t} = Pending \ {t}
    BY <2>5, <2>16, OthersStay
  <2>7. t \notin Asides \cup Asides' \cup Copied \cup Pending \cup Pending' /\ t \in Copied'
    BY <1>1, <2>6 DEF Asides, Copied, Pending
  <2>8. Asides' = Asides /\ Copied' = Copied \cup {t} /\ Pending' = Pending
        /\ Asides \subseteq Threads /\ Copied \subseteq Threads /\ Pending \subseteq Threads
    BY <2>6, <2>7 DEF Asides, Copied, Pending
  <2>9. Types'
    BY <2>1, <2>2, <2>6 DEF IInv, Types
  <2>10. Staged' /\ AsideIsCopied'
    BY <2>1, <2>3, <2>4, <2>6, <2>7, <2>8 DEF IInv, Staged, AsideIsCopied
  <2>11. \A d : /\ OnPublic(d)' <=> OnPublic(d)
                /\ OnAside(d)' <=> OnAside(d)
                /\ OnCopy(d)' => OnCopy(d) \/ d = f.doc
                /\ OnLeft(d)' <=> OnLeft(d)
    BY <2>1, <2>4, <2>6, <2>7, <2>8 DEF OnPublic, OnLeft, OnAside, OnCopy
  <2>12. OnPublic(f.doc)
    BY <1>1, <2>1, <2>3 DEF OnPublic
  <2>13. \A d : (Known(d)' => Known(d)) /\ (Safe(d) => Safe(d)')
    BY <2>1, <2>11, <2>12 DEF Known, Safe
  <2>14. \A u \in Pending' : u \in Pending /\ hidden'[u].staged = hidden[u].staged
    BY <2>6, <2>7, <2>8
  <2>15. nodes' >= nodes /\ docs' \subseteq docs
    BY <2>1, <2>2
  <2> QED
    BY <2>9, <2>10, <2>13, <2>14, <2>15, Keeps
<1> QED
  BY <1>2, <1>3, <1>4

LEMMA TrashHideKeeps ==
    ASSUME IInv, NEW t \in Threads, TrashHide(t)
    PROVE IInv'
<1> DEFINE p == call[t].from
<1>1. step[t] = "hide" /\ Call(call[t]) /\ call[t].act = "trash" /\ p \in Places /\ t \in Copied
  BY TrashCall DEF TrashHide, Copied
<1>2. CASE Fail(t)
  BY <1>1, <1>2, FailKeeps
<1>3. CASE ~Fail(t)
  <2> DEFINE f == Renamed(file[p])
             h == [hidden[t] EXCEPT !.recovery = f]
  <2>1. /\ file[p] # None /\ file' = [file EXCEPT ![p] = None]
        /\ hidden' = [hidden EXCEPT ![t] = h] /\ Concerns(t) /\ Goto(t, "show")
        /\ docs' = docs \ ({file[p].doc} \ {hidden[t].staged.doc})
        /\ UNCHANGED <<left, nodes>>
    BY <1>3 DEF TrashHide
  <2>2. file \in [Places -> File \cup {None}] /\ file[p] \in File /\ nodes \in Nat
    BY <1>1, <2>1 DEF IInv, Types
  <2>3. f \in File /\ f.doc = file[p].doc
    BY <2>2, NewFiles
  <2>4. h \in Hidden /\ h.recovery = f /\ h.staged = hidden[t].staged
    BY <2>3 DEF IInv, Types, Hidden
  <2>5. PICK x : call' = [call EXCEPT ![t].key = x]
    BY <2>1 DEF Concerns
  <2> DEFINE c == [call[t] EXCEPT !.key = x]
  <2>6. Call(c) /\ CallAt(c, "show") /\ "show" \in Labels /\ call' = [call EXCEPT ![t] = c]
    BY <1>1, <2>5 DEF Call, CallAt, Labels, Steps
  <2> HIDE DEF h, f, c, p
  <2>7. /\ \A u \in Threads \ {t} : hidden'[u] = hidden[u]
        /\ step'[t] = "show" /\ hidden'[t] = h
        /\ step' \in [Threads -> Labels] /\ hidden' \in [Threads -> Hidden]
        /\ call' = [u \in Threads |-> call'[u]]
        /\ \A u \in Threads : Call(call'[u]) /\ CallAt(call'[u], step'[u])
        /\ Asides' \ {t} = Asides \ {t} /\ Copied' \ {t} = Copied \ {t}
        /\ Pending' \ {t} = Pending \ {t}
    BY <2>1, <2>4, <2>6, OthersStay
  <2>8. t \notin Asides \cup Pending \cup Pending' /\ t \in Copied' /\ t \in Asides'
    BY <1>1, <2>7 DEF Asides, Copied, Pending
  <2>9. Asides' = Asides \cup {t} /\ Copied' = Copied /\ Pending' = Pending
        /\ Asides \subseteq Threads /\ Copied \subseteq Threads /\ Pending \subseteq Threads
    BY <1>1, <2>7, <2>8 DEF Asides, Copied, Pending
  <2>10. /\ file' \in [Places -> File \cup {None}] /\ file'[p] = None
         /\ \A r \in Places \ {p} : file'[r] = file[r]
    BY <1>1, <2>1, <2>2
  <2>11. Types' /\ docs' \subseteq docs /\ nodes' >= nodes
    BY <2>1, <2>2, <2>7, <2>10 DEF IInv, Types
  <2>12. Staged'
    BY <2>3, <2>4, <2>7, <2>8, <2>9 DEF IInv, Staged
  <2>13. AsideIsCopied'
    <3>1. f.doc \in docs' => f.doc = h.staged.doc
      BY <2>1, <2>3, <2>4
    <3> QED
      BY <2>4, <2>7, <2>8, <2>9, <2>11, <3>1 DEF IInv, AsideIsCopied
  <2>14. \A d : /\ OnPublic(d)' => OnPublic(d)
                /\ OnPublic(d) => OnPublic(d)' \/ d = f.doc
    BY <2>3, <2>10 DEF OnPublic
  <2>15. \A d : /\ OnAside(d)' <=> OnAside(d) \/ d = f.doc
                /\ OnCopy(d)' <=> OnCopy(d)
                /\ OnLeft(d)' <=> OnLeft(d)
    BY <2>1, <2>4, <2>7, <2>8, <2>9 DEF OnLeft, OnAside, OnCopy
  <2>16. OnPublic(f.doc)
    BY <1>1, <2>1, <2>3 DEF OnPublic, p
  <2>17. \A d : (Known(d)' => Known(d)) /\ (Safe(d) => Safe(d)')
    BY <2>11, <2>14, <2>15, <2>16 DEF Known, Safe
  <2>18. \A u \in Pending' : u \in Pending /\ hidden'[u].staged = hidden[u].staged
    BY <2>7, <2>8, <2>9
  <2> QED
    BY <2>11, <2>12, <2>13, <2>17, <2>18, Keeps
<1> QED
  BY <1>2, <1>3

\* A thread that has hidden an original and copied it ends, or goes to "forget":
\* the document is under a public name then, or in a hidden file that stays.
LEMMA AsideEnds ==
    ASSUME IInv, NEW t \in Threads, step[t] = "show", NEW s \in {"forget", "idle"},
           NEW c, Call(c), s = "forget" => c.act = "trash", NEW h \in Hidden,
           Goto(t, s), call' = [call EXCEPT ![t] = c], hidden' = [hidden EXCEPT ![t] = h],
           UNCHANGED <<docs, nodes>>, left \subseteq left', left' \subseteq File,
           file' \in [Places -> File \cup {None}],
           \A d : OnPublic(d)' => Known(d),
           \A d : OnPublic(d) => OnPublic(d)',
           \A d \in docs : d = hidden[t].recovery.doc => OnPublic(d)' \/ OnLeft(d)'
    PROVE IInv'
<1>1. CallAt(c, s) /\ s \in Labels
  BY DEF CallAt, Labels, Steps
<1>2. /\ \A u \in Threads \ {t} : hidden'[u] = hidden[u]
      /\ step'[t] = s
      /\ step' \in [Threads -> Labels] /\ hidden' \in [Threads -> Hidden]
      /\ call' = [u \in Threads |-> call'[u]]
      /\ \A u \in Threads : Call(call'[u]) /\ CallAt(call'[u], step'[u])
      /\ Asides' \ {t} = Asides \ {t} /\ Copied' \ {t} = Copied \ {t}
      /\ Pending' \ {t} = Pending \ {t}
  BY <1>1, OthersStay
<1>3. t \notin Asides' \cup Copied' \cup Pending \cup Pending'
  BY <1>2 DEF Asides, Copied, Pending
<1>4. /\ Asides' = Asides \ {t} /\ Copied' = Copied \ {t} /\ Pending' = Pending
      /\ Asides \subseteq Threads /\ Copied \subseteq Threads /\ Pending \subseteq Threads
  BY <1>2, <1>3 DEF Asides, Copied, Pending
<1>5. Types' /\ nodes' >= nodes
  BY <1>2 DEF IInv, Types
<1>6. Staged' /\ AsideIsCopied'
  BY <1>2, <1>3, <1>4 DEF IInv, Staged, AsideIsCopied
<1>7. \A d : /\ OnAside(d)' => OnAside(d)
             /\ OnAside(d) => OnAside(d)' \/ d = hidden[t].recovery.doc
             /\ OnCopy(d)' => OnCopy(d)
             /\ OnLeft(d) => OnLeft(d)'
  BY <1>2, <1>3, <1>4 DEF OnLeft, OnAside, OnCopy
<1>8. \A d : Known(d)' => Known(d)
  BY <1>7 DEF Known
<1>9. \A d \in docs' : Safe(d) => Safe(d)'
  BY <1>7 DEF Safe
<1>10. \A u \in Pending' : u \in Pending /\ hidden'[u].staged = hidden[u].staged
  BY <1>2, <1>3, <1>4
<1> QED
  BY <1>5, <1>6, <1>8, <1>9, <1>10, Keeps

\* A hidden file comes back to a free name.
LEMMA ReappearFacts ==
    ASSUME IInv, NEW q \in Places, NEW f \in File, file[q] = None,
           file' = [file EXCEPT ![q] = Renamed(f)]
    PROVE /\ file' \in [Places -> File \cup {None}]
          /\ \A d : OnPublic(d)' <=> OnPublic(d) \/ d = f.doc
<1>1. file \in [Places -> File \cup {None}] /\ Renamed(f) \in File /\ Renamed(f) # None
      /\ Renamed(f).doc = f.doc
  BY NewFiles DEF IInv, Types
<1>2. /\ file' \in [Places -> File \cup {None}] /\ file'[q] = Renamed(f)
      /\ \A r \in Places \ {q} : file'[r] = file[r]
  BY <1>1
<1>3. ASSUME NEW d PROVE OnPublic(d)' <=> OnPublic(d) \/ d = f.doc
  BY <1>1, <1>2 DEF OnPublic
<1> QED
  BY <1>2, <1>3

LEMMA EndedCall ==
    ASSUME NEW t, NEW r
    PROVE Call([NoCall EXCEPT !.moved = IF r = "done" THEN call[t].key ELSE None])
BY DEF Call, NoCall

LEMMA TrashShowKeeps ==
    ASSUME IInv, NEW t \in Threads, TrashShow(t)
    PROVE IInv'
<1> DEFINE p == call[t].from
           q == call[t].to
           h == hidden[t]
<1>1. /\ step[t] = "show" /\ Call(call[t]) /\ p \in Places /\ q \in Places
      /\ call[t].act = "trash"
      /\ t \in Asides /\ t \in Copied /\ h \in Hidden /\ h.staged \in File /\ h.recovery \in File
  BY TrashCall, CallFacts DEF CallAt, TrashShow, Asides, Copied, IInv, Types, Staged
<1>2. OnCopy(h.staged.doc) /\ OnAside(h.recovery.doc)
      /\ (h.recovery.doc \in docs => h.recovery.doc = h.staged.doc)
  BY <1>1 DEF OnCopy, OnAside, IInv, AsideIsCopied
<1>3. left \subseteq File /\ file \in [Places -> File \cup {None}]
  BY DEF IInv, Types
<1>4. CASE file[q] = None
  <2> DEFINE g == [h EXCEPT !.staged = None]
  <2>1. /\ file' = [file EXCEPT ![q] = Renamed(h.staged)]
        /\ hidden' = [hidden EXCEPT ![t] = g] /\ call' = [call EXCEPT ![t] = call[t]]
        /\ Goto(t, "forget") /\ UNCHANGED <<left, docs, nodes>>
    BY <1>4 DEF TrashShow, IInv, Types
  <2>2. g \in Hidden
    BY <1>1 DEF Hidden
  <2>3. /\ file' \in [Places -> File \cup {None}]
        /\ \A d : OnPublic(d)' <=> OnPublic(d) \/ d = h.staged.doc
    BY <1>1, <1>4, <2>1, ReappearFacts
  <2>4. \A d : OnPublic(d)' => Known(d)
    BY <1>2, <2>3 DEF Known
  <2> HIDE DEF g
  <2> QED
    BY <1>1, <1>2, <1>3, <2>1, <2>2, <2>3, <2>4, AsideEnds
<1>5. CASE file[q] # None
  <2> DEFINE c == [NoCall EXCEPT !.moved = IF "failed" = "done" THEN call[t].key ELSE None]
  <2>1. /\ call' = [call EXCEPT ![t] = c] /\ hidden' = [hidden EXCEPT ![t] = NoHidden]
        /\ Goto(t, "idle") /\ UNCHANGED <<docs, nodes>>
    BY <1>5 DEF TrashShow, Leave
  <2>2. Call(c) /\ NoHidden \in Hidden
    BY EndedCall DEF Hidden, NoHidden
  <2> HIDE DEF c
  <2>3. CASE file[p] = None
    <3>1. file' = [file EXCEPT ![p] = Renamed(h.recovery)] /\ left' = left
      BY <1>5, <2>3 DEF TrashShow
    <3>2. /\ file' \in [Places -> File \cup {None}]
          /\ \A d : OnPublic(d)' <=> OnPublic(d) \/ d = h.recovery.doc
      BY <1>1, <2>3, <3>1, ReappearFacts
    <3>3. \A d : OnPublic(d)' => Known(d)
      BY <1>2, <3>2 DEF Known
    <3> QED
      BY <1>1, <1>3, <2>1, <2>2, <3>1, <3>2, <3>3, AsideEnds
  <2>4. CASE file[p] # None
    <3>1. left' = left \cup {h.recovery} /\ file' = file
      BY <1>5, <2>4 DEF TrashShow
    <3>2. \A d : /\ d = h.recovery.doc => OnLeft(d)'
                 /\ OnPublic(d)' <=> OnPublic(d)
      BY <3>1 DEF OnLeft, OnPublic
    <3>3. \A d : OnPublic(d)' => Known(d)
      BY <3>2 DEF Known
    <3>4. left \subseteq left' /\ left' \subseteq File /\ file' \in [Places -> File \cup {None}]
      BY <1>1, <1>3, <3>1
    <3> QED
      BY <1>1, <2>1, <2>2, <3>2, <3>3, <3>4, AsideEnds
  <2> QED
    BY <2>3, <2>4
<1> QED
  BY <1>4, <1>5

LEMMA TrashForgetKeeps ==
    ASSUME IInv, NEW t \in Threads, TrashForget(t)
    PROVE IInv'
<1> DEFINE h == [hidden[t] EXCEPT !.recovery = None]
<1>1. /\ step[t] = "forget" /\ hidden' = [hidden EXCEPT ![t] = h] /\ Goto(t, "relocate")
      /\ call' = [call EXCEPT ![t] = call[t]] /\ UNCHANGED <<file, left, docs, nodes>>
  BY DEF TrashForget, IInv, Types
<1>2. h \in Hidden
  BY DEF IInv, Types, Hidden
<1>3. Call(call[t]) /\ CallAt(call[t], "relocate") /\ "relocate" \in Labels
  BY <1>1, CallFacts DEF CallAt, Labels, Steps
<1> HIDE DEF h
<1>4. /\ \A u \in Threads \ {t} : hidden'[u] = hidden[u]
      /\ step'[t] = "relocate"
      /\ step' \in [Threads -> Labels] /\ hidden' \in [Threads -> Hidden]
      /\ call' = [u \in Threads |-> call'[u]]
      /\ \A u \in Threads : Call(call'[u]) /\ CallAt(call'[u], step'[u])
      /\ Asides' \ {t} = Asides \ {t} /\ Copied' \ {t} = Copied \ {t}
      /\ Pending' \ {t} = Pending \ {t}
  BY <1>1, <1>2, <1>3, OthersStay
<1>5. t \notin Asides \cup Asides' \cup Copied \cup Copied' \cup Pending \cup Pending'
  BY <1>1, <1>4 DEF Asides, Copied, Pending
<1>6. Asides' = Asides /\ Copied' = Copied /\ Pending' = Pending
      /\ Asides \subseteq Threads /\ Copied \subseteq Threads /\ Pending \subseteq Threads
  BY <1>4, <1>5 DEF Asides, Copied, Pending
<1>7. Types' /\ nodes' >= nodes /\ docs' \subseteq docs
  BY <1>1, <1>4 DEF IInv, Types
<1>8. Staged' /\ AsideIsCopied'
  BY <1>1, <1>4, <1>5, <1>6 DEF IInv, Staged, AsideIsCopied
<1>9. \A d : /\ OnPublic(d)' <=> OnPublic(d)
             /\ OnAside(d)' <=> OnAside(d)
             /\ OnCopy(d)' <=> OnCopy(d)
             /\ OnLeft(d)' <=> OnLeft(d)
  BY <1>1, <1>4, <1>5, <1>6 DEF OnPublic, OnLeft, OnAside, OnCopy
<1>10. \A d : (Known(d)' => Known(d)) /\ (Safe(d) => Safe(d)')
  BY <1>1, <1>9 DEF Known, Safe
<1>11. \A u \in Pending' : u \in Pending /\ hidden'[u].staged = hidden[u].staged
  BY <1>4, <1>5, <1>6
<1> QED
  BY <1>7, <1>8, <1>10, <1>11, Keeps

\* What a process that dies has staged or moved aside stays where it is.
LEMMA CrashKeeps ==
    ASSUME IInv, NEW t \in Threads, Crash(t)
    PROVE IInv'
<1> DEFINE c == [NoCall EXCEPT !.moved = IF "failed" = "done" THEN call[t].key ELSE None]
<1>1. /\ call' = [call EXCEPT ![t] = c] /\ hidden' = [hidden EXCEPT ![t] = NoHidden]
      /\ Goto(t, "idle") /\ UNCHANGED <<file, docs, nodes>>
      /\ left' = left \cup ({hidden[t].staged, hidden[t].recovery} \ {None})
  BY DEF Crash, Leave
<1>2. Call(c) /\ CallAt(c, "idle") /\ "idle" \in Labels /\ NoHidden \in Hidden
  BY EndedCall DEF Hidden, NoHidden, CallAt, Labels, Steps
<1> HIDE DEF c
<1>3. /\ \A u \in Threads \ {t} : hidden'[u] = hidden[u]
      /\ step'[t] = "idle"
      /\ step' \in [Threads -> Labels] /\ hidden' \in [Threads -> Hidden]
      /\ call' = [u \in Threads |-> call'[u]]
      /\ \A u \in Threads : Call(call'[u]) /\ CallAt(call'[u], step'[u])
      /\ Asides' \ {t} = Asides \ {t} /\ Copied' \ {t} = Copied \ {t}
      /\ Pending' \ {t} = Pending \ {t}
  BY <1>1, <1>2, OthersStay
<1>4. t \notin Asides' \cup Copied' \cup Pending'
  BY <1>3 DEF Asides, Copied, Pending
<1>5. /\ Asides' = Asides \ {t} /\ Copied' = Copied \ {t} /\ Pending' = Pending \ {t}
      /\ Asides \subseteq Threads /\ Copied \subseteq Threads /\ Pending \subseteq Threads
  BY <1>3, <1>4 DEF Asides, Copied, Pending
<1>6. left' \subseteq File /\ left \subseteq left'
  BY <1>1 DEF IInv, Types, Hidden
<1>7. Types' /\ nodes' >= nodes /\ docs' \subseteq docs
  BY <1>1, <1>3, <1>6 DEF IInv, Types
<1>8. Staged' /\ AsideIsCopied'
  BY <1>1, <1>3, <1>4, <1>5 DEF IInv, Staged, AsideIsCopied
<1>9. \A d : /\ OnPublic(d)' <=> OnPublic(d)
             /\ OnAside(d)' => OnAside(d)
             /\ OnCopy(d)' => OnCopy(d)
             /\ OnLeft(d) => OnLeft(d)'
  BY <1>1, <1>3, <1>4, <1>5, <1>6 DEF OnPublic, OnLeft, OnAside, OnCopy
<1>10. \A d : OnAside(d) => OnAside(d)' \/ OnLeft(d)'
  <2>1. ASSUME NEW d, t \in Asides, hidden[t].recovery.doc = d PROVE OnLeft(d)'
    <3>1. hidden[t].recovery \in File
      BY <2>1 DEF IInv, Staged
    <3>2. hidden[t].recovery \in left'
      BY <1>1, <3>1, NewFiles
    <3> QED
      BY <2>1, <3>2 DEF OnLeft
  <2> QED
    BY <1>3, <1>5, <2>1 DEF OnAside
<1>11. \A d : (Known(d)' => Known(d)) /\ (Safe(d) => Safe(d)')
  BY <1>1, <1>9, <1>10 DEF Known, Safe
<1>12. \A u \in Pending' : u \in Pending /\ hidden'[u].staged = hidden[u].staged
  BY <1>3, <1>4, <1>5
<1> QED
  BY <1>7, <1>8, <1>11, <1>12, Keeps

---------------------------------------------------------------------------
LEMMA PublishKeeps ==
    ASSUME IInv, NEW t \in Threads, Publish(t) \/ PublishGenerated(t)
    PROVE IInv'
<1>1. step[t] = "publish"
  BY DEF Publish, PublishGenerated
<1>2. CASE Fail(t)
  BY <1>1, <1>2, FailKeeps
<1>3. CASE Show(t) /\ call[t].act # "move" /\ file[call[t].to] = None
  BY <1>1, <1>3, ShowKeeps DEF Pending
<1>4. CASE /\ call[t].act = "move" /\ ~SourceGone(t)
           /\ MoveWithoutCopy(call[t].from, call[t].to)
           /\ Concerns(t) /\ Goto(t, "relocate") /\ UNCHANGED <<hidden, left, docs, nodes>>
  <2>1. call[t].from # None
    BY <1>4, CallFacts, FilesAssumption DEF Call
  <2> QED
    BY <1>1, <1>4, <2>1, MoveKeeps DEF SourceGone
<1> QED
  BY <1>2, <1>3, <1>4 DEF Publish, PublishGenerated

LEMMA PerformKeeps ==
    ASSUME IInv, NEW t \in Threads, Perform(t)
    PROVE IInv'
BY BeginsKeep, StageKeeps, PublishKeeps, UnlinkKeeps, TrashKeeps, TrashHideKeeps,
   TrashShowKeeps, TrashForgetKeeps, RepositoryKeeps DEF Perform

LEMMA Inductive == IInv /\ [Next]_vars => IInv'
<1>1. ASSUME IInv, Next PROVE IInv'
  <2>1. Callers \subseteq Threads
    BY DEF Threads
  <2> QED
    BY <1>1, <2>1, ReconcileKeeps, PerformKeeps, UserKeeps, CrashKeeps DEF Next
<1>2. ASSUME IInv, UNCHANGED vars PROVE IInv'
  BY <1>2, Stutter DEF vars
<1> QED
  BY <1>1, <1>2

(* The inductive invariant holds in every state. *)
THEOREM Invariance == Spec => []IInv
<1> QED
  BY InitIInv, Inductive, PTL DEF Spec

(* No document is lost that nobody has removed for good: neither when copying,
   moving or deleting fails at any point, nor when the process dies there, nor
   when the user or another thread changes the same files meanwhile. *)
THEOREM DocumentsAreKept == Spec => []KeepsDocuments
<1>1. IInv => KeepsDocuments
  <2> SUFFICES ASSUME IInv, NEW d \in docs
               PROVE \E f \in {file[p] : p \in Places} \cup left
                                \cup {hidden[t].staged : t \in Threads}
                                \cup {hidden[t].recovery : t \in Threads} :
                         f # None /\ f.doc = d
    BY DEF KeepsDocuments
  <2>1. Safe(d)
    BY DEF IInv, Kept
  <2>2. CASE OnPublic(d)
    BY <2>2 DEF OnPublic
  <2>3. CASE OnLeft(d)
    <3>1. \A f \in left : f # None
      BY NewFiles DEF IInv, Types
    <3> QED
      BY <2>3, <3>1 DEF OnLeft
  <2>4. CASE OnAside(d)
    <3>1. PICK t \in Asides : hidden[t].recovery.doc = d
      BY <2>4 DEF OnAside
    <3>2. t \in Threads /\ hidden[t].recovery # None
      BY NewFiles DEF IInv, Staged, Asides
    <3> QED
      BY <3>1, <3>2
  <2> QED
    BY <2>1, <2>2, <2>3, <2>4 DEF Safe
<1> QED
  BY Invariance, <1>1, PTL

---------------------------------------------------------------------------
(* How files go from place to place                                        *)

\* Where a file may be: at a place, or hidden by a thread under one of two names.
Slots == (Places \X {"public"}) \cup (Threads \X {"staged", "recovery"})
In(s) == IF s[2] = "public" THEN file[s[1]]
         ELSE IF s[2] = "staged" THEN hidden[s[1]].staged ELSE hidden[s[1]].recovery

\* In a step one file at most is renamed or is new; others stay or go.
Stays(s) == In(s)' \in {None, In(s)}
Quietly == /\ \A s \in Slots : Stays(s)
           /\ nodes' = nodes
Transfer(o, s) ==
    /\ In(o) # None /\ In(s)' = Renamed(In(o)) /\ (o = s \/ In(o)' = None)
    /\ \A x \in Slots : x # s => Stays(x)
    /\ nodes' = nodes
\* A new file has a document of its own, or that of another.
Document(d) == \E o \in Slots : In(o) # None /\ In(o).doc = d
Arrival(s) ==
    /\ nodes' = nodes + 1
    /\ \E d \in Nat : In(s)' = NewFile(nodes', d) /\ (d = nodes' \/ Document(d))
    /\ \A x \in Slots : x # s => Stays(x)
Flow == Quietly \/ (\E o, s \in Slots : Transfer(o, s)) \/ (\E s \in Slots : Arrival(s))

Public(p) == <<p, "public">>
StagedOf(t) == <<t, "staged">>
RecoveryOf(t) == <<t, "recovery">>

LEMMA InSlots ==
    /\ \A p \in Places : Public(p) \in Slots /\ In(Public(p)) = file[p] /\ In(Public(p))' = file'[p]
    /\ \A t \in Threads :
         /\ StagedOf(t) \in Slots /\ In(StagedOf(t)) = hidden[t].staged
         /\ In(StagedOf(t))' = hidden'[t].staged
         /\ RecoveryOf(t) \in Slots /\ In(RecoveryOf(t)) = hidden[t].recovery
         /\ In(RecoveryOf(t))' = hidden'[t].recovery
    /\ \A s \in Slots : \/ \E p \in Places : s = Public(p)
                        \/ \E t \in Threads : s = StagedOf(t) \/ s = RecoveryOf(t)
    /\ \A p, q \in Places : Public(p) = Public(q) => p = q
    /\ \A p \in Places, t \in Threads : Public(p) # StagedOf(t) /\ Public(p) # RecoveryOf(t)
    /\ \A t, u \in Threads : /\ StagedOf(t) # RecoveryOf(u)
                             /\ StagedOf(t) = StagedOf(u) => t = u
                             /\ RecoveryOf(t) = RecoveryOf(u) => t = u
<1> USE DEF Slots, In, Public, StagedOf, RecoveryOf
<1>1. \A p \in Places : Public(p) \in Slots /\ In(Public(p)) = file[p] /\ In(Public(p))' = file'[p]
  OBVIOUS
<1>2. \A t \in Threads :
         /\ StagedOf(t) \in Slots /\ In(StagedOf(t)) = hidden[t].staged
         /\ In(StagedOf(t))' = hidden'[t].staged
         /\ RecoveryOf(t) \in Slots /\ In(RecoveryOf(t)) = hidden[t].recovery
         /\ In(RecoveryOf(t))' = hidden'[t].recovery
  OBVIOUS
<1>3. \A s \in Slots : \/ \E p \in Places : s = Public(p)
                       \/ \E t \in Threads : s = StagedOf(t) \/ s = RecoveryOf(t)
  OBVIOUS
<1> QED BY <1>1, <1>2, <1>3

\* What stays, slot by slot.
LEMMA AllStay ==
    ASSUME \A p \in Places : file'[p] \in {None, file[p]},
           \A t \in Threads : /\ hidden'[t].staged \in {None, hidden[t].staged}
                              /\ hidden'[t].recovery \in {None, hidden[t].recovery},
           nodes' = nodes
    PROVE  Flow
BY InSlots DEF Flow, Quietly, Stays

LEMMA OthersStayBut ==
    ASSUME NEW s \in Slots,
           \A p \in Places : Public(p) # s => file'[p] \in {None, file[p]},
           \A t \in Threads :
              /\ StagedOf(t) # s => hidden'[t].staged \in {None, hidden[t].staged}
              /\ RecoveryOf(t) # s => hidden'[t].recovery \in {None, hidden[t].recovery}
    PROVE  \A x \in Slots : x # s => Stays(x)
BY InSlots DEF Stays

LEMMA MoveFlows ==
    ASSUME Types, NEW p \in Places, NEW q \in Places, file[p] # None, MoveWithoutCopy(p, q),
           UNCHANGED <<hidden, nodes>>
    PROVE  Flow
<1>1. /\ file'[q] = Renamed(file[p]) /\ file'[p] = None /\ p # q
      /\ \A x \in Places : x # p /\ x # q => file'[x] = file[x]
  BY DEF MoveWithoutCopy, Types
<1>2. \A x \in Slots : x # Public(q) => Stays(x)
  BY <1>1, InSlots, OthersStayBut
<1>3. Transfer(Public(p), Public(q))
  BY <1>1, <1>2, InSlots DEF Transfer
<1> QED BY <1>3, InSlots DEF Flow

LEMMA ArrivalFlows ==
    ASSUME NEW s \in Slots, nodes' = nodes + 1, NEW d \in Nat, In(s)' = NewFile(nodes', d),
           d = nodes' \/ Document(d),
           \A p \in Places : Public(p) # s => file'[p] \in {None, file[p]},
           \A t \in Threads :
              /\ StagedOf(t) # s => hidden'[t].staged \in {None, hidden[t].staged}
              /\ RecoveryOf(t) # s => hidden'[t].recovery \in {None, hidden[t].recovery}
    PROVE  Flow
<1>1. \A x \in Slots : x # s => Stays(x)
  BY OthersStayBut
<1> QED BY <1>1 DEF Arrival, Flow

LEMMA TransferFlows ==
    ASSUME NEW s \in Slots, NEW o \in Slots, nodes' = nodes, In(o) # None,
           In(s)' = Renamed(In(o)), o = s \/ In(o)' = None,
           \A p \in Places : Public(p) # s => file'[p] \in {None, file[p]},
           \A t \in Threads :
              /\ StagedOf(t) # s => hidden'[t].staged \in {None, hidden[t].staged}
              /\ RecoveryOf(t) # s => hidden'[t].recovery \in {None, hidden[t].recovery}
    PROVE  Flow
<1>1. \A x \in Slots : x # s => Stays(x)
  BY OthersStayBut
<1> QED BY <1>1 DEF Transfer, Flow

\* A thread that returns or dies gives up what it staged.
LEMMA GivenUpFlows ==
    ASSUME Types, NEW t \in Threads,
           \/ hidden' = [hidden EXCEPT ![t].staged = None]
           \/ hidden' = [hidden EXCEPT ![t].recovery = None]
           \/ hidden' = [hidden EXCEPT ![t] = NoHidden]
           \/ hidden' = hidden,
           UNCHANGED <<file, nodes>>
    PROVE  Flow
<1>1. \A u \in Threads : /\ hidden'[u].staged \in {None, hidden[u].staged}
                         /\ hidden'[u].recovery \in {None, hidden[u].recovery}
  <2>1. CASE hidden' = hidden
    BY <2>1
  <2>2. ASSUME NEW x \in {[hidden[t] EXCEPT !.staged = None], [hidden[t] EXCEPT !.recovery = None],
                          NoHidden},
               hidden' = [hidden EXCEPT ![t] = x]
        PROVE  \A u \in Threads : /\ hidden'[u].staged \in {None, hidden[u].staged}
                                  /\ hidden'[u].recovery \in {None, hidden[u].recovery}
    <3>1. x.staged \in {None, hidden[t].staged} /\ x.recovery \in {None, hidden[t].recovery}
      BY DEF Types, Hidden, NoHidden
    <3>2. hidden'[t] = x /\ \A u \in Threads : u # t => hidden'[u] = hidden[u]
      BY <2>2 DEF Types
    <3> QED BY <3>1, <3>2
  <2>3. CASE hidden' = [hidden EXCEPT ![t].staged = None]
    BY <2>2, <2>3
  <2>4. CASE hidden' = [hidden EXCEPT ![t].recovery = None]
    BY <2>2, <2>4
  <2>5. CASE hidden' = [hidden EXCEPT ![t] = NoHidden]
    BY <2>2, <2>5
  <2> QED BY <2>1, <2>3, <2>4, <2>5
<1> QED BY <1>1, AllStay

LEMMA ReturnFlows ==
    ASSUME Types, NEW t \in Threads, NEW r, Return(t, r)
    PROVE  Flow
BY GivenUpFlows DEF Return

LEMMA UnchangedFlows ==
    ASSUME Types, UNCHANGED native PROVE Flow
BY AllStay DEF native

LEMMA RepositoryFlows ==
    ASSUME Types, NEW t \in Threads, Repository(t) PROVE Flow
<1>1. CASE Fail(t) \/ Succeed(t) \/ Return(t, "failed")
  BY <1>1, ReturnFlows DEF Fail, Succeed
<1>2. CASE UNCHANGED native
  BY <1>2, UnchangedFlows
<1>3. CASE ObserveDone(t)
  BY <1>1, <1>2, <1>3 DEF ObserveDone
<1> QED BY <1>1, <1>2, <1>3 DEF Repository, LeaseTimeout, ObserveLook, ObserveWrite,
        RelocateLook, MoveObject, RemovedLook, RemovedErase

LEMMA ReconcileFlows ==
    ASSUME Types, Reconcile PROVE Flow
<1>1. Intake \in Threads
  BY DEF Threads
<1>2. CASE Fail(Intake) \/ Succeed(Intake)
  BY <1>1, <1>2, ReturnFlows DEF Fail, Succeed
<1>3. CASE UNCHANGED native
  BY <1>3, UnchangedFlows
<1> QED BY <1>1, <1>2, <1>3, RepositoryFlows DEF Reconcile, ReconcileBegin, Walk, ReadIndex,
        SweepLook, SweepErase, ReconcileEnd

LEMMA RemovedFileFlows ==
    ASSUME Types, NEW p \in Places, file' = [file EXCEPT ![p] = None],
           UNCHANGED <<hidden, nodes>>
    PROVE  Flow
BY AllStay DEF Types

LEMMA UserFlows ==
    ASSUME Types, User PROVE Flow
<1>1. hidden' = hidden
  BY DEF User
<1>2. ASSUME NEW p \in Places, NEW q \in Places, UserMove(p, q) PROVE Flow
  BY <1>1, <1>2, MoveFlows DEF UserMove
<1>3. ASSUME NEW p \in Places, UserEdit(p) PROVE Flow
  <2>1. /\ file'[p] = Renamed(file[p]) /\ file[p] # None /\ nodes' = nodes
        /\ \A q \in Places : q # p => file'[q] = file[q]
    BY <1>3 DEF UserEdit, Types
  <2>2. \A q \in Places : Public(q) # Public(p) => file'[q] \in {None, file[q]}
    BY <2>1
  <2> QED BY <1>1, <2>1, <2>2, InSlots, TransferFlows
<1>4. ASSUME NEW p \in Places, UserSave(p) PROVE Flow
  <2>1. /\ file'[p] = NewFile(nodes', file[p].doc) /\ nodes' = nodes + 1
        /\ \A q \in Places : q # p => file'[q] = file[q]
        /\ file[p].doc \in Nat /\ Document(file[p].doc)
    BY <1>4, InSlots DEF UserSave, Types, File, Document
  <2>2. \A q \in Places : Public(q) # Public(p) => file'[q] \in {None, file[q]}
    BY <2>1
  <2> QED BY <1>1, <2>1, <2>2, InSlots, ArrivalFlows
<1>5. ASSUME NEW p \in Places, UserDelete(p) PROVE Flow
  BY <1>1, <1>5, RemovedFileFlows DEF UserDelete
<1> QED BY <1>2, <1>3, <1>4, <1>5 DEF User

LEMMA ShowFlows ==
    ASSUME Types, NEW t \in Threads, NEW q \in Places, hidden[t].staged # None,
           file' = [file EXCEPT ![q] = Renamed(hidden[t].staged)],
           hidden' = [hidden EXCEPT ![t].staged = None], nodes' = nodes
    PROVE  Flow
<1>1. /\ file'[q] = Renamed(hidden[t].staged) /\ hidden'[t].staged = None
      /\ \A p \in Places : p # q => file'[p] = file[p]
      /\ \A u \in Threads : /\ u # t => hidden'[u] = hidden[u]
                            /\ hidden'[u].recovery = hidden[u].recovery
  BY DEF Types, Hidden
<1>2. \A p \in Places : Public(p) # Public(q) => file'[p] \in {None, file[p]}
  BY <1>1
<1> QED BY <1>1, <1>2, InSlots, TransferFlows

LEMMA StagedFlows ==
    ASSUME Types, NEW t \in Threads, NEW d \in Nat, d = nodes' \/ Document(d),
           nodes' = nodes + 1, UNCHANGED file,
           hidden' = [hidden EXCEPT ![t].staged = NewFile(nodes', d)]
    PROVE  Flow
<1>1. /\ hidden'[t].staged = NewFile(nodes', d)
      /\ \A u \in Threads : /\ u # t => hidden'[u] = hidden[u]
                            /\ hidden'[u].recovery = hidden[u].recovery
  BY DEF Types, Hidden
<1>2. \A u \in Threads : StagedOf(u) # StagedOf(t) => hidden'[u] = hidden[u]
  BY <1>1
<1> QED BY <1>1, <1>2, InSlots, ArrivalFlows

LEMMA TrashFlows ==
    ASSUME IInv, NEW t \in Threads,
           Trash(t) \/ TrashHide(t) \/ TrashShow(t)
    PROVE  Flow
<1> DEFINE p == call[t].from
           q == call[t].to
<1>1. Types /\ p \in Places /\ q \in Places
  <2>1. Types /\ Call(call[t]) /\ CallAt(call[t], step[t])
    BY CallFacts DEF IInv
  <2>2. step[t] \in {"trash", "hide", "show"}
    BY DEF Trash, TrashHide, TrashShow
  <2> QED BY <2>1, <2>2 DEF Call, CallAt
<1>2. CASE Fail(t)
  BY <1>1, <1>2, ReturnFlows DEF Fail
<1>3. CASE Trash(t)
  <2>1. CASE file[p] # None /\ MoveWithoutCopy(p, q) /\ UNCHANGED <<hidden, nodes>>
    BY <1>1, <2>1, MoveFlows
  <2>2. CASE /\ file[p] # None /\ nodes' = nodes + 1 /\ UNCHANGED file
             /\ hidden' = [hidden EXCEPT ![t].staged = NewFile(nodes', file[p].doc)]
    <3>1. file[p].doc \in Nat /\ Document(file[p].doc)
      BY <1>1, <2>2, InSlots DEF Types, File, Document
    <3> QED BY <1>1, <2>2, <3>1, StagedFlows
  <2> QED BY <1>2, <1>3, <2>1, <2>2 DEF Trash
<1>4. CASE TrashHide(t) /\ ~Fail(t)
  <2>1. /\ file[p] # None /\ file'[p] = None /\ nodes' = nodes
        /\ \A x \in Places : x # p => file'[x] = file[x]
        /\ hidden'[t].recovery = Renamed(file[p])
        /\ \A u \in Threads : /\ u # t => hidden'[u] = hidden[u]
                              /\ hidden'[u].staged = hidden[u].staged
    BY <1>1, <1>4 DEF TrashHide, Types, Hidden
  <2>2. \A u \in Threads : RecoveryOf(u) # RecoveryOf(t) => hidden'[u] = hidden[u]
    BY <2>1
  <2>3. \A x \in Places : file'[x] \in {None, file[x]}
    BY <2>1
  <2> QED BY <1>1, <2>1, <2>2, <2>3, InSlots, TransferFlows
<1>5. CASE TrashShow(t)
  <2>1. hidden[t].staged # None /\ hidden[t].recovery # None
    BY <1>5, NewFiles DEF TrashShow, IInv, Staged, Copied, Asides
  <2>2. CASE /\ file' = [file EXCEPT ![q] = Renamed(hidden[t].staged)]
             /\ hidden' = [hidden EXCEPT ![t].staged = None] /\ nodes' = nodes
    BY <1>1, <2>1, <2>2, ShowFlows
  <2>3. CASE /\ file' = [file EXCEPT ![p] = Renamed(hidden[t].recovery)]
             /\ hidden' = [hidden EXCEPT ![t] = NoHidden] /\ nodes' = nodes
    <3>1. /\ file'[p] = Renamed(hidden[t].recovery)
          /\ \A x \in Places : x # p => file'[x] = file[x]
          /\ hidden'[t].recovery = None /\ hidden'[t].staged = None
          /\ \A u \in Threads : u # t => hidden'[u] = hidden[u]
      BY <1>1, <2>3 DEF Types, Hidden, NoHidden
    <3>2. \A x \in Places : Public(x) # Public(p) => file'[x] \in {None, file[x]}
      BY <3>1
    <3> QED BY <1>1, <2>1, <2>3, <3>1, <3>2, InSlots, TransferFlows
  <2>4. CASE hidden' = [hidden EXCEPT ![t] = NoHidden] /\ UNCHANGED <<file, nodes>>
    BY <1>1, <2>4, GivenUpFlows
  <2> QED BY <1>5, <2>2, <2>3, <2>4 DEF TrashShow
<1> QED BY <1>2, <1>3, <1>4, <1>5

LEMMA PublishFlows ==
    ASSUME IInv, NEW t \in Threads,
           Stage(t) \/ Publish(t) \/ PublishGenerated(t) \/ Unlink(t)
    PROVE  Flow
<1>1. Types /\ Call(call[t]) /\ CallAt(call[t], step[t])
  BY CallFacts DEF IInv
<1>2. CASE Fail(t)
  BY <1>1, <1>2, ReturnFlows DEF Fail
<1>3. CASE Stage(t) /\ ~Fail(t)
  <2>1. nodes' \in Nat
    BY <1>1, <1>3 DEF Stage, Types
  <2> QED BY <1>1, <1>3, <2>1, StagedFlows DEF Stage
<1>4. ASSUME step[t] = "publish", call[t].act # "move", Show(t) PROVE Flow
  <2>1. hidden[t].staged # None
    BY <1>4, NewFiles DEF IInv, Staged, Pending
  <2>2. call[t].to \in Places
    BY <1>1, <1>4 DEF Call, CallAt
  <2> QED BY <1>1, <1>4, <2>1, <2>2, ShowFlows DEF Show
<1>5. CASE Publish(t) /\ ~Fail(t)
  <2>1. CASE call[t].act = "move" /\ MoveWithoutCopy(call[t].from, call[t].to)
             /\ ~SourceGone(t) /\ UNCHANGED <<hidden, nodes>>
    <3>1. call[t].from \in Places /\ call[t].to \in Places /\ call[t].from # None
      BY <1>1, <2>1, FilesAssumption DEF Call
    <3> QED BY <1>1, <2>1, <3>1, MoveFlows DEF SourceGone
  <2> QED BY <1>4, <1>5, <2>1 DEF Publish
<1>6. CASE PublishGenerated(t) /\ ~Fail(t)
  BY <1>4, <1>6 DEF PublishGenerated
<1>7. CASE Unlink(t) /\ ~Fail(t)
  BY <1>1, <1>7, RemovedFileFlows DEF Unlink, Call, CallAt
<1> QED BY <1>2, <1>3, <1>5, <1>6, <1>7

LEMMA NextFlows == IInv /\ Next => Flow
<1> SUFFICES ASSUME IInv, Next PROVE Flow
  OBVIOUS
<1>1. Types /\ Callers \subseteq Threads
  BY DEF IInv, Threads
<1>2. CASE Reconcile
  BY <1>1, <1>2, ReconcileFlows
<1>3. ASSUME NEW t \in Callers, Perform(t) PROVE Flow
  <2>1. CASE UNCHANGED native
    BY <1>1, <2>1, UnchangedFlows
  <2>2. CASE Repository(t)
    BY <1>1, <2>2, RepositoryFlows
  <2>3. CASE TrashForget(t)
    BY <1>1, <2>3, GivenUpFlows DEF TrashForget
  <2> QED BY <1>1, <1>3, <2>1, <2>2, <2>3, TrashFlows, PublishFlows
      DEF Perform, BeginMove, BeginDuplicate, BeginTrash, BeginImport, BeginGenerated,
          BeginRemove, BeginRecord, Begin
<1>4. ASSUME NEW t \in Threads, Crash(t) PROVE Flow
  BY <1>1, <1>4, GivenUpFlows DEF Crash
<1> QED BY <1>1, <1>2, <1>3, <1>4, UserFlows DEF Next

Stamps == Nat \X Nat

\* A native file is in one slot, and its number has been given out.
SlotTypes == \A s \in Slots : In(s) \in File \cup {None}
NodesKnown == \A s \in Slots : In(s) # None => In(s).node <= nodes
OneSlot == \A s, x \in Slots :
    In(s) # None /\ In(x) # None /\ In(s).node = In(x).node => s = x
NativeInv == SlotTypes /\ NodesKnown /\ OneSlot

\* What is remembered of a native file is not ahead of it.
Behind(r) == /\ r \in Stamps /\ r[1] <= nodes
             /\ \A s \in Slots : In(s) # None /\ In(s).node = r[1] => r[2] <= In(s).stamp
\* As it is remembered, the file is at p, or nowhere any more.
SeenAt(r, p) == Behind(r) /\ \A q \in Places : file[q] # None /\ Stamp(file[q]) = r => q = p
Nowhere(r) == Behind(r) /\ \A q \in Places : file[q] # None => Stamp(file[q]) # r

LEMMA SlotsTyped == (Types => SlotTypes) /\ (Types' => SlotTypes')
BY InSlots DEF SlotTypes, Types, Hidden

LEMMA NativeSteps ==
    ASSUME NativeInv, SlotTypes', nodes \in Nat, Flow
    PROVE  NativeInv'
<1>1. nodes' \in Nat /\ nodes <= nodes'
  BY DEF Flow, Quietly, Transfer, Arrival
<1>2. CASE Quietly
  BY <1>2 DEF Quietly, Stays, NativeInv, NodesKnown, OneSlot
<1>3. ASSUME NEW o \in Slots, NEW s \in Slots, Transfer(o, s) PROVE NativeInv'
  <2>1. In(s)' # None /\ In(s)'.node = In(o).node /\ In(o) \in File
    BY <1>3, NewFiles DEF Transfer, Renamed, File, NativeInv, SlotTypes
  <2>2. \A x \in Slots : x # s => In(x)' \in {None, In(x)}
    BY <1>3 DEF Transfer, Stays
  <2>3. NodesKnown'
    BY <1>3, <2>1, <2>2 DEF Transfer, NativeInv, NodesKnown
  <2>4. ASSUME NEW x \in Slots, x # s, In(x)' # None, In(x)'.node = In(s)'.node
        PROVE  FALSE
    <3>1. In(x)' = In(x) /\ In(x) # None /\ In(o) # None
      BY <1>3, <2>2, <2>4 DEF Transfer
    <3>2. x = o
      BY <3>1, <2>1, <2>4 DEF NativeInv, OneSlot
    <3> QED BY <3>1, <3>2, <1>3, <2>4 DEF Transfer
  <2>5. OneSlot'
    BY <2>2, <2>4 DEF NativeInv, OneSlot
  <2> QED BY <2>3, <2>5 DEF NativeInv
<1>4. ASSUME NEW s \in Slots, Arrival(s) PROVE NativeInv'
  <2>1. In(s)' # None /\ In(s)'.node = nodes + 1 /\ nodes' = nodes + 1
    BY <1>1, <1>4, NewFiles DEF Arrival, NewFile
  <2>2. \A x \in Slots : x # s => In(x)' \in {None, In(x)}
    BY <1>4 DEF Arrival, Stays
  <2>3. \A x \in Slots : In(x) # None => In(x).node \in Nat /\ In(x).node < nodes'
    BY <2>1 DEF NativeInv, NodesKnown, SlotTypes, File
  <2>4. NodesKnown'
    BY <2>1, <2>2, <2>3 DEF NodesKnown
  <2>5. OneSlot'
    BY <2>1, <2>2, <2>3 DEF NativeInv, OneSlot
  <2> QED BY <2>4, <2>5 DEF NativeInv
<1> QED BY <1>2, <1>3, <1>4 DEF Flow

LEMMA BehindSteps ==
    ASSUME NativeInv, nodes \in Nat, Flow, NEW r, Behind(r)
    PROVE  /\ Behind(r)'
           /\ \A p \in Places : file'[p] # None /\ Stamp(file'[p]) = r => file[p] = file'[p]
<1>1. r \in Stamps /\ r[1] \in Nat /\ r[2] \in Nat /\ r = <<r[1], r[2]>>
  BY DEF Behind, Stamps
<1>2. \A s \in Slots : In(s) # None => In(s).node \in Nat /\ In(s).stamp \in Nat
  BY DEF NativeInv, SlotTypes, File
<1>3. \A s \in Slots : /\ In(s)' # None /\ In(s)'.node = r[1] => r[2] <= In(s)'.stamp
                       /\ In(s)' # None /\ <<In(s)'.node, In(s)'.stamp>> = r
                                                      => In(s) = In(s)'
  <2> TAKE x \in Slots
  <2>1. CASE Stays(x)
    BY <1>1, <2>1 DEF Stays, Behind, Stamp
  <2>2. ASSUME NEW o \in Slots, Transfer(o, x)
        PROVE  In(x)' # None /\ In(x)'.node = r[1] => r[2] < In(x)'.stamp
    <3>1. In(x)'.node = In(o).node /\ In(x)'.stamp = In(o).stamp + 1 /\ In(o) # None
      BY <2>2 DEF Transfer, Renamed, NativeInv, SlotTypes, File
    <3>2. In(o).node = r[1] => r[2] <= In(o).stamp
      BY <3>1 DEF Behind
    <3>3. In(o).stamp \in Nat
      BY <3>1, <1>2
    <3> HIDE DEF In
    <3> QED BY <3>1, <3>2, <3>3, <1>1
  <2>3. ASSUME Arrival(x) PROVE In(x)'.node # r[1]
    <3>1. In(x)'.node = nodes + 1
      BY <2>3 DEF Arrival, NewFile
    <3> QED BY <3>1, <1>1 DEF Behind
  <2>4. <<In(x)'.node, In(x)'.stamp>> = r => In(x)'.node = r[1] /\ In(x)'.stamp = r[2]
    BY <1>1
  <2>5. \/ Stays(x) \/ Arrival(x) \/ \E o \in Slots : Transfer(o, x)
    BY DEF Flow, Quietly, Transfer, Arrival
  <2>6. CASE Arrival(x)
    BY <1>1, <2>3, <2>4, <2>6
  <2>7. CASE \E o \in Slots : Transfer(o, x)
    <3>1. In(x)' # None /\ In(x)'.node = r[1] => r[2] < In(x)'.stamp
      BY <2>2, <2>7
    <3>2. PICK o \in Slots : Transfer(o, x)
      BY <2>7
    <3>3. In(x)'.stamp = In(o).stamp + 1 /\ In(o).stamp \in Nat
      BY <1>2, <3>2 DEF Transfer, Renamed, NativeInv, SlotTypes, File
    <3> QED BY <1>1, <2>4, <3>1, <3>3
  <2> QED BY <2>1, <2>5, <2>6, <2>7
<1>4. r[1] <= nodes'
  BY <1>1 DEF Behind, Flow, Quietly, Transfer, Arrival
<1> QED BY <1>1, <1>3, <1>4, InSlots DEF Behind, Stamp

LEMMA SeenSteps ==
    ASSUME NativeInv, nodes \in Nat, Flow, NEW r
    PROVE  /\ Nowhere(r) => Nowhere(r)'
           /\ \A p : SeenAt(r, p) => SeenAt(r, p)'
BY BehindSteps DEF Nowhere, SeenAt

LEMMA SeenNow ==
    ASSUME NativeInv, Types, NEW p \in Places, file[p] # None
    PROVE  SeenAt(Stamp(file[p]), p)
<1>1. file[p] \in File /\ In(Public(p)) = file[p] /\ Public(p) \in Slots
  BY InSlots DEF Types
<1>2. /\ Stamp(file[p]) \in Stamps
      /\ Stamp(file[p])[1] = file[p].node /\ Stamp(file[p])[2] = file[p].stamp
      /\ file[p].stamp \in Nat
  BY <1>1 DEF Stamp, Stamps, File
<1>3. \A s \in Slots : In(s) # None /\ In(s).node = file[p].node => s = Public(p)
  BY <1>1 DEF NativeInv, OneSlot
<1>4. Behind(Stamp(file[p]))
  BY <1>1, <1>2, <1>3 DEF Behind, NativeInv, NodesKnown
<1>5. \A q \in Places : file[q] # None /\ Stamp(file[q]) = Stamp(file[p]) => q = p
  BY <1>2, <1>3, InSlots DEF Stamp
<1> QED BY <1>4, <1>5 DEF SeenAt

LEMMA SeenNowhere ==
    ASSUME NEW r, NEW p \in Places, SeenAt(r, p), file[p] = None
    PROVE  Nowhere(r)
BY DEF SeenAt, Nowhere

---------------------------------------------------------------------------
(* What the objects, the rows of the index and the threads know.           *)

Object == [state : {"unused", "live", "tombstone"}, path : Places \cup {None},
           catalogKey : ({"files", "deleted"} \X Nat) \cup {None},
           stamp : Stamps \cup {None}, version : Nat]
IndexRow == [key : Keys, path : Places, version : Nat]

UniquePath == \A j, k \in Keys :
    Live(j) /\ Live(k) /\ object[j].path = object[k].path => j = k
ObjectInv ==
    /\ object \in [Keys -> Object]
    /\ \A k \in Keys : object[k].state = "unused" => object[k].path = None
    /\ \A k \in Keys : Live(k) => /\ object[k].path \in Places
                                  /\ SeenAt(object[k].stamp, object[k].path)
    /\ UniquePath

\* A row that is still current says where the object is.
Fresh(row) == /\ row \in IndexRow /\ row.version <= object[row.key].version
              /\ Current(row) => object[row.key].path = row.path
\* As long as a row is current nothing is as its object has recorded it.
Gone(row) == Fresh(row) /\ (Current(row) => Nowhere(object[row.key].stamp))

Knows(t) ==
    /\ step[t] \in {"look", "write"} => call[t].at \in Places
    /\ step[t] = "write" => /\ call[t].seen \in File
                            /\ SeenAt(Stamp(call[t].seen), call[t].at)
    /\ step[t] \in {"moveObject", "erase", "doom"} => Gone(call[t].row)

StoreInv == /\ IInv /\ NativeInv /\ ObjectInv
            /\ todo \subseteq Places /\ \A row \in page : Fresh(row)
            /\ \A t \in Threads : Knows(t)

---------------------------------------------------------------------------
(* How the store changes: by the second half of observe, by a move, or by  *)
(* an erase.                                                               *)

Written(t, k, new) ==
    LET p == call[t].at
        r == Stamp(call[t].seen)
    IN
    /\ new \in Object /\ new.state = "live" /\ new.path = p /\ new.stamp = r
    /\ new.version = IF object[k].path = p /\ object[k].stamp = r
                     THEN object[k].version ELSE object[k].version + 1
    /\ \/ k \in LookupPath(p)
       \/ /\ LookupPath(p) = {}
          /\ object[k].state = "unused" \/ (Live(k) /\ file[object[k].path] = None)
Observes(t) == /\ step[t] = "write"
               /\ \E k \in Keys, new \in Object : /\ Written(t, k, new)
                                                  /\ object' = [object EXCEPT ![k] = new]
Moved(o, p, r) == [state |-> o.state, path |-> p, catalogKey |-> o.catalogKey,
                   stamp |-> r, version |-> o.version + 1]
Moves(t) ==
    LET c == call[t]
        k == c.row.key
    IN
    /\ step[t] = "moveObject" /\ Current(c.row) /\ LookupPath(c.to) = {}
    /\ \E r : /\ object' = [object EXCEPT ![k] = Moved(object[k], c.to, r)]
              /\ \/ c.act = "trash" /\ r = object[k].stamp
                 \/ c.act # "trash" /\ file[c.to] # None /\ r = Stamp(file[c.to])
Erases(t) == /\ step[t] \in {"erase", "doom"} /\ Current(call[t].row)
             /\ Tombstone(call[t].row)
Changes(t) == object' = object \/ Observes(t) \/ Moves(t) \/ Erases(t)

LEMMA RecordedObjects ==
    ASSUME object \in [Keys -> Object], NEW k \in Keys, NEW p \in Places, NEW f \in File
    PROVE  \A new \in {Observed(k, p, f),
                        [Observed(k, p, f) EXCEPT !.catalogKey = object[k].catalogKey]} :
               /\ new \in Object /\ new.state = "live" /\ new.path = p /\ new.stamp = Stamp(f)
               /\ new.version = IF object[k].path = p /\ object[k].stamp = Stamp(f)
                                THEN object[k].version ELSE object[k].version + 1
<1>1. CatalogKey(p, f) \in {"files", "deleted"} \X Nat /\ Stamp(f) \in Stamps
  BY DEF CatalogKey, Section, Stamp, Stamps, File
<1> HIDE DEF CatalogKey, Stamp
<1> DEFINE v == IF object[k].path = p /\ object[k].stamp = Stamp(f)
                THEN object[k].version ELSE object[k].version + 1
<1>2. object[k].version \in Nat /\ v \in Nat
      /\ object[k].catalogKey \in ({"files", "deleted"} \X Nat) \cup {None}
  BY DEF Object
<1>3. Observed(k, p, f) = [state |-> "live", path |-> p, catalogKey |-> CatalogKey(p, f),
                           stamp |-> Stamp(f), version |-> v]
  BY DEF Observed, Recorded
<1>4. [Observed(k, p, f) EXCEPT !.catalogKey = object[k].catalogKey]
        = [state |-> "live", path |-> p, catalogKey |-> object[k].catalogKey,
           stamp |-> Stamp(f), version |-> v]
  BY <1>3
<1> HIDE DEF v
<1>5. Observed(k, p, f) \in Object
  BY <1>1, <1>2, <1>3 DEF Object
<1>6. [Observed(k, p, f) EXCEPT !.catalogKey = object[k].catalogKey] \in Object
  BY <1>1, <1>2, <1>4 DEF Object
<1>7. /\ Observed(k, p, f).state = "live" /\ Observed(k, p, f).path = p
      /\ Observed(k, p, f).stamp = Stamp(f) /\ Observed(k, p, f).version = v
  BY <1>3
<1> DEFINE o == [Observed(k, p, f) EXCEPT !.catalogKey = object[k].catalogKey]
<1>8. o.state = "live" /\ o.path = p /\ o.stamp = Stamp(f) /\ o.version = v
  BY <1>4
<1> HIDE DEF o
<1>9. o \in Object
  BY <1>6 DEF o
<1> QED BY <1>5, <1>7, <1>8, <1>9 DEF o, v

LEMMA WriteObserves ==
    ASSUME StoreInv, NEW t \in Threads, ObserveWrite(t)
    PROVE  \/ Fail(t) /\ object' = object
           \/ Observes(t) /\ (ObserveDone(t) \/ Return(t, "failed"))
<1> DEFINE p == call[t].at
           f == call[t].seen
           here == LookupPath(p)
           before == IF here = {} THEN Previous(p, f) ELSE here
           unused == {j \in Keys : object[j].state = "unused"}
           k == CHOOSE j \in (IF before = {} THEN unused ELSE before) : TRUE
           refused == \/ before = {} /\ unused = {}
                      \/ Cardinality(before) > 1
                      \/ here = {} /\ \E b \in before : file[object[b].path] # None
                      \/ file[p] # f /\ (before # {} => object[k].stamp # Stamp(f))
<1>1. step[t] = "write" /\ p \in Places /\ f \in File
  BY DEF ObserveWrite, StoreInv, Knows
<1>2. CASE refused
  BY <1>1, <1>2 DEF ObserveWrite, Fail
<1>3. CASE ~refused
  <2>1. k \in (IF before = {} THEN unused ELSE before)
    BY <1>3
  <2>2. before \subseteq Keys /\ unused \subseteq Keys
    BY DEF LookupPath, Previous
  <2>3. k \in Keys /\ (before # {} => k \in before) /\ (before = {} => k \in unused)
    BY <2>1, <2>2
  <2>4. \/ k \in LookupPath(p)
        \/ /\ LookupPath(p) = {}
           /\ object[k].state = "unused" \/ (Live(k) /\ file[object[k].path] = None)
    <3>1. CASE here # {}
      BY <2>3, <3>1
    <3>2. CASE here = {} /\ before # {}
      BY <1>3, <2>3, <3>2 DEF Previous
    <3>3. CASE here = {} /\ before = {}
      BY <2>3, <3>3
    <3> QED BY <3>1, <3>2, <3>3
  <2>5. \E new \in {Observed(k, p, f),
                    [Observed(k, p, f) EXCEPT !.catalogKey = object[k].catalogKey]} :
           object' = [object EXCEPT ![k] = new]
    BY <1>3 DEF ObserveWrite
  <2> HIDE DEF k
  <2>8. object \in [Keys -> Object]
    BY DEF StoreInv, ObjectInv
  <2> HIDE DEF p, f
  <2>6. PICK new : /\ object' = [object EXCEPT ![k] = new] /\ new \in Object
                   /\ new.state = "live" /\ new.path = p /\ new.stamp = Stamp(f)
                   /\ new.version = IF object[k].path = p /\ object[k].stamp = Stamp(f)
                                    THEN object[k].version ELSE object[k].version + 1
    <3> DEFINE news == {Observed(k, p, f),
                        [Observed(k, p, f) EXCEPT !.catalogKey = object[k].catalogKey]}
    <3>1. \A new \in news :
             /\ new \in Object /\ new.state = "live" /\ new.path = p /\ new.stamp = Stamp(f)
             /\ new.version = IF object[k].path = p /\ object[k].stamp = Stamp(f)
                              THEN object[k].version ELSE object[k].version + 1
      BY <1>1, <2>3, <2>8, RecordedObjects
    <3>2. \E new \in news : object' = [object EXCEPT ![k] = new]
      BY <2>5
    <3> HIDE DEF news
    <3> QED BY <3>1, <3>2
  <2>7. Written(t, k, new)
    BY <2>4, <2>6 DEF Written, p, f
  <2>9. ObserveDone(t) \/ Return(t, "failed")
    BY <1>3 DEF ObserveWrite, k, p, f
  <2> QED BY <1>1, <2>3, <2>6, <2>7, <2>9 DEF Observes, p
<1> QED BY <1>2, <1>3

LEMMA MovedFields ==
    ASSUME NEW o \in Object, NEW q, NEW r
    PROVE  [o EXCEPT !.path = q, !.version = @ + 1, !.stamp = r] = Moved(o, q, r)
<1> DEFINE n == [o EXCEPT !.path = q, !.version = o.version + 1, !.stamp = r]
<1>1. n = [o EXCEPT !.path = q, !.version = o.version + 1, !.stamp = r]
  OBVIOUS
<1> HIDE DEF n
<1>2. n = Moved(o, q, r)
  <2> DEFINE v == o.version + 1
  <2>1. n = [o EXCEPT !.path = q, !.version = v, !.stamp = r]
    BY <1>1
  <2> HIDE DEF v
  <2>2. n = [state |-> o.state, path |-> q, catalogKey |-> o.catalogKey,
             stamp |-> r, version |-> v]
    BY <2>1 DEF Object
  <2> QED BY <2>2 DEF v, Moved
<1> QED BY <1>2, Zenon DEF n

LEMMA MoveMoves ==
    ASSUME StoreInv, NEW t \in Threads, MoveObject(t)
    PROVE  \/ Fail(t) /\ object' = object
           \/ /\ Moves(t)
              /\ \/ Succeed(t)
                 \/ /\ call[t].act # "trash" /\ Goto(t, "look") /\ lease' = lease
                    /\ call' = [call EXCEPT ![t].at = call[t].to, ![t].then = "done"]
<1> DEFINE c == call[t]
           k == c.row.key
           looksOn == /\ call' = [call EXCEPT ![t].at = c.to, ![t].then = "done"]
                    /\ Goto(t, "look") /\ lease' = lease
<1>1. \/ Fail(t) /\ object' = object
      \/ /\ step[t] = "moveObject" /\ Current(c.row) /\ LookupPath(c.to) = {}
         /\ \/ /\ c.act = "trash" /\ Succeed(t)
               /\ object' = [object EXCEPT ![k] = [object[k] EXCEPT !.path = c.to, !.version = @ + 1]]
            \/ /\ c.act # "trash" /\ file[c.to] # None /\ looksOn
               /\ object' = [object EXCEPT ![k] =
                     [object[k] EXCEPT !.path = c.to, !.version = @ + 1, !.stamp = Stamp(file[c.to])]]
  BY DEF MoveObject, Fail
<1>2. k \in Keys /\ object[k] \in Object
  BY DEF MoveObject, StoreInv, Knows, Gone, Fresh, IndexRow, ObjectInv
<1>3. [object[k] EXCEPT !.path = c.to, !.version = @ + 1]
         = [object[k] EXCEPT !.path = c.to, !.version = @ + 1, !.stamp = object[k].stamp]
  BY <1>2 DEF Object
<1>4. ASSUME NEW r
      PROVE  [object[k] EXCEPT !.path = c.to, !.version = @ + 1, !.stamp = r]
               = Moved(object[k], c.to, r)
  BY <1>2, MovedFields
<1>5. CASE Fail(t) /\ object' = object
  BY <1>5
<1>6. CASE /\ step[t] = "moveObject" /\ Current(c.row) /\ LookupPath(c.to) = {}
           /\ c.act = "trash" /\ Succeed(t)
           /\ object' = [object EXCEPT ![k] = [object[k] EXCEPT !.path = c.to, !.version = @ + 1]]
  <2>1. object' = [object EXCEPT ![k] = Moved(object[k], c.to, object[k].stamp)]
    BY <1>3, <1>4, <1>6
  <2> QED BY <1>6, <2>1 DEF Moves
<1>7. CASE /\ step[t] = "moveObject" /\ Current(c.row) /\ LookupPath(c.to) = {}
           /\ c.act # "trash" /\ file[c.to] # None /\ looksOn
           /\ object' = [object EXCEPT ![k] =
                 [object[k] EXCEPT !.path = c.to, !.version = @ + 1, !.stamp = Stamp(file[c.to])]]
  <2>1. object' = [object EXCEPT ![k] = Moved(object[k], c.to, Stamp(file[c.to]))]
    BY <1>4, <1>7
  <2> QED BY <1>7, <2>1 DEF Moves
<1> QED BY <1>1, <1>5, <1>6, <1>7

LEMMA RepositoryChanges ==
    ASSUME StoreInv, NEW t \in Threads, Repository(t)
    PROVE  Changes(t)
<1>1. CASE ObserveWrite(t)
  BY <1>1, WriteObserves DEF Changes
<1>2. CASE MoveObject(t)
  BY <1>2, MoveMoves DEF Changes
<1>3. CASE RemovedErase(t)
  BY <1>3 DEF RemovedErase, Fail, Erases, Changes
<1>4. CASE UNCHANGED object
  BY <1>4 DEF Changes
<1> QED BY <1>1, <1>2, <1>3, <1>4 DEF Repository, LeaseTimeout, ObserveLook, RelocateLook,
        RemovedLook, Fail

LEMMA NextChanges ==
    ASSUME StoreInv, Next
    PROVE  object' = object \/ \E t \in Threads : Observes(t) \/ Moves(t) \/ Erases(t)
<1>1. Intake \in Threads /\ Callers \subseteq Threads
  BY DEF Threads
<1>2. ASSUME NEW t \in Threads, Repository(t)
      PROVE  object' = object \/ \E u \in Threads : Observes(u) \/ Moves(u) \/ Erases(u)
  BY <1>2, RepositoryChanges DEF Changes
<1>3. CASE Reconcile
  <2>1. CASE SweepErase
    BY <1>1, <2>1 DEF SweepErase, Fail, Erases
  <2> QED BY <1>1, <1>2, <1>3, <2>1 DEF Reconcile, ReconcileBegin, Walk, ReadIndex, SweepLook,
        ReconcileEnd
<1>4. ASSUME NEW t \in Callers, Perform(t), ~Repository(t) PROVE object' = object
  BY <1>4 DEF Perform, BeginMove, BeginDuplicate, BeginTrash, BeginImport, BeginGenerated,
       BeginRemove, BeginRecord, Begin, Stage, Publish, PublishGenerated, Show, Unlink, Trash,
       TrashHide, TrashShow, TrashForget, Fail
<1>5. User \/ (\E t \in Threads : Crash(t)) => object' = object
  BY DEF User, Crash
<1> QED BY <1>1, <1>2, <1>3, <1>4, <1>5 DEF Next

\* A version is given once: what has kept it is what it was.
Grows == \A k \in Keys :
    /\ object[k].version <= object'[k].version
    /\ object'[k].version = object[k].version
          => /\ object'[k].state = object[k].state /\ object'[k].path = object[k].path
             /\ object'[k].stamp = object[k].stamp

LEMMA ErasedFields ==
    ASSUME NEW o \in Object, NEW v,
           NEW n, n = [o EXCEPT !.state = "tombstone", !.version = v]
    PROVE  n = [state |-> "tombstone", path |-> o.path, catalogKey |-> o.catalogKey,
                stamp |-> o.stamp, version |-> v]
BY DEF Object

LEMMA StampsTyped == \A f \in File : Stamp(f) \in Stamps
BY DEF Stamp, Stamps, File

\* What one of the three does to an object: nothing, or one of these.
LEMMA ObservesObject ==
    ASSUME StoreInv, NEW t \in Threads, NEW k \in Keys, NEW new \in Object,
           Written(t, k, new), object' = [object EXCEPT ![k] = new], step[t] = "write"
    PROVE  Grows /\ ObjectInv
           /\ call[t].at \in Places /\ SeenAt(Stamp(call[t].seen), call[t].at)
           /\ object' \in [Keys -> Object] /\ object'[k] = new
           /\ \A j \in Keys : j # k => object'[j] = object[j]
<1>1. ObjectInv /\ call[t].at \in Places /\ SeenAt(Stamp(call[t].seen), call[t].at)
  BY DEF StoreInv, Knows
<1>2. /\ object' \in [Keys -> Object] /\ object'[k] = new
      /\ \A j \in Keys : j # k => object'[j] = object[j]
  BY <1>1 DEF ObjectInv
<1>3. \A j \in Keys : object[j].version \in Nat
  BY <1>1 DEF ObjectInv, Object
<1>4. call[t].at # None
  BY <1>1, FilesAssumption
<1>5. Grows
  BY <1>1, <1>2, <1>3, <1>4 DEF Grows, Written, LookupPath, Live, ObjectInv
<1> QED BY <1>1, <1>2, <1>5

LEMMA MovesObject ==
    ASSUME StoreInv, NEW t \in Threads, Moves(t)
    PROVE  LET c == call[t]
               k == c.row.key
           IN /\ Grows /\ ObjectInv /\ k \in Keys /\ c.to \in Places /\ Gone(c.row)
              /\ object' \in [Keys -> Object] /\ Live(k)
              /\ object'[k].state = "live" /\ object'[k].path = c.to
              /\ \/ object'[k].stamp = object[k].stamp /\ Nowhere(object[k].stamp)
                 \/ file[c.to] # None /\ object'[k].stamp = Stamp(file[c.to])
              /\ \A j \in Keys : j # k => object'[j] = object[j]
<1> DEFINE c == call[t]
           k == c.row.key
<1>1. ObjectInv /\ Types /\ Gone(c.row) /\ Current(c.row) /\ Nowhere(object[k].stamp)
  BY DEF StoreInv, Moves, Knows, IInv, Gone
<1>2. k \in Keys /\ object[k] \in Object /\ Live(k)
  BY <1>1 DEF Gone, Fresh, IndexRow, Current, Unchanged, ObjectInv
<1>3. c.to \in Places
  BY CallFacts DEF StoreInv, Moves, Call, CallAt
<1>4. PICK r : /\ object' = [object EXCEPT ![k] = Moved(object[k], c.to, r)]
               /\ \/ c.act = "trash" /\ r = object[k].stamp
                  \/ c.act # "trash" /\ file[c.to] # None /\ r = Stamp(file[c.to])
  BY DEF Moves
<1>5. r \in Stamps
  BY <1>1, <1>3, <1>4, StampsTyped DEF Nowhere, Behind, Types
<1> DEFINE new == Moved(object[k], c.to, r)
<1>6. new \in Object /\ new.state = "live" /\ new.path = c.to /\ new.stamp = r
      /\ new.version = object[k].version + 1 /\ object[k].version \in Nat
  BY <1>2, <1>3, <1>5 DEF Moved, Object, Live
<1> HIDE DEF new
<1>7. object' = [object EXCEPT ![k] = new]
  BY <1>4 DEF new
<1>8. /\ object' \in [Keys -> Object] /\ object'[k] = new
      /\ \A j \in Keys : j # k => object'[j] = object[j]
  BY <1>1, <1>2, <1>6, <1>7 DEF ObjectInv
<1>9. Grows
  BY <1>1, <1>6, <1>8 DEF Grows, ObjectInv, Object
<1> QED BY <1>1, <1>2, <1>3, <1>4, <1>6, <1>8, <1>9

LEMMA ErasesObject ==
    ASSUME StoreInv, NEW t \in Threads, Erases(t)
    PROVE  LET k == call[t].row.key
           IN /\ Grows /\ ObjectInv /\ k \in Keys /\ Gone(call[t].row)
              /\ object' \in [Keys -> Object] /\ Live(k)
              /\ object'[k].state = "tombstone"
              /\ \A j \in Keys : j # k => object'[j] = object[j]
<1> DEFINE k == call[t].row.key
<1>1. ObjectInv /\ Gone(call[t].row) /\ Current(call[t].row)
  BY DEF StoreInv, Erases, Knows
<1>2. k \in Keys /\ object[k] \in Object /\ Live(k)
  BY <1>1 DEF Gone, Fresh, IndexRow, Current, Unchanged, ObjectInv
<1> DEFINE new == [object[k] EXCEPT !.state = "tombstone", !.version = @ + 1]
<1>3. object' = [object EXCEPT ![k] = new]
  BY DEF Erases, Tombstone
<1>4. new \in Object /\ new.state = "tombstone"
      /\ new.version = object[k].version + 1 /\ object[k].version \in Nat
  <2>1. new = [state |-> "tombstone", path |-> object[k].path, catalogKey |-> object[k].catalogKey,
               stamp |-> object[k].stamp, version |-> object[k].version + 1]
    <3>1. new = [object[k] EXCEPT !.state = "tombstone", !.version = object[k].version + 1]
      OBVIOUS
    <3> HIDE DEF new
    <3> QED BY <1>2, <3>1, ErasedFields
  <2> HIDE DEF new
  <2> QED BY <1>2, <2>1 DEF Object
<1> HIDE DEF new
<1>5. /\ object' \in [Keys -> Object] /\ object'[k] = new
      /\ \A j \in Keys : j # k => object'[j] = object[j]
  BY <1>1, <1>2, <1>3, <1>4 DEF ObjectInv
<1>6. Grows
  BY <1>1, <1>4, <1>5 DEF Grows, ObjectInv, Object
<1> QED BY <1>1, <1>2, <1>4, <1>5, <1>6

LEMMA NextGrows == ASSUME StoreInv, Next PROVE Grows
<1>1. CASE object' = object
  BY <1>1 DEF Grows, StoreInv, ObjectInv, Object
<1>2. ASSUME NEW t \in Threads, Observes(t) PROVE Grows
  BY <1>2, ObservesObject DEF Observes
<1> QED BY <1>1, <1>2, MovesObject, ErasesObject, NextChanges

LEMMA NextNative ==
    ASSUME StoreInv, IInv', Next
    PROVE  /\ NativeInv' /\ NativeInv /\ Types /\ nodes \in Nat /\ Flow
           /\ \A r : Nowhere(r) => Nowhere(r)'
           /\ \A r, p : SeenAt(r, p) => SeenAt(r, p)'
<1>1. NativeInv /\ Types /\ nodes \in Nat /\ Flow /\ SlotTypes'
  BY NextFlows, SlotsTyped DEF StoreInv, IInv, Types
<1> QED BY <1>1, NativeSteps, SeenSteps

\* An object has recorded a file as it was seen; r and p do not change with a step.
RecordsNext(k) ==
    \E r, p : object'[k].stamp = r /\ object'[k].path = p /\ p \in Places /\ SeenAt(r, p)'

LEMMA Rigid ==
    ASSUME NEW k \in Keys, RecordsNext(k)
    PROVE  object'[k].path \in Places /\ SeenAt(object[k].stamp, object[k].path)'
BY DEF RecordsNext, SeenAt, Behind

LEMMA ObjectsFollow ==
    ASSUME ObjectInv, NEW j \in Keys, object' \in [Keys -> Object],
           \A k \in Keys : k # j => object'[k] = object[k],
           \A r, p : SeenAt(r, p) => SeenAt(r, p)',
           object'[j].state # "unused",
           Live(j)' => /\ RecordsNext(j)
                       /\ \A k \in Keys : k # j /\ Live(k) => object[k].path # object'[j].path
    PROVE  ObjectInv'
<1>1. UniquePath'
  BY DEF ObjectInv, UniquePath, Live
<1>2. ASSUME NEW k \in Keys, Live(k)' PROVE RecordsNext(k)
  <2>1. CASE k = j
    BY <1>2, <2>1
  <2>2. CASE k # j
    <3>1. object'[k] = object[k] /\ Live(k)
      BY <1>2, <2>2 DEF Live
    <3>2. object[k].path \in Places /\ SeenAt(object[k].stamp, object[k].path)
      BY <3>1 DEF ObjectInv
    <3> QED BY <3>1, <3>2 DEF RecordsNext
  <2> QED BY <2>1, <2>2
<1>3. \A k \in Keys : object'[k].state = "unused" => object'[k].path = None
  BY DEF ObjectInv
<1>4. \A k \in Keys : Live(k)' => object'[k].path \in Places /\ SeenAt(object[k].stamp, object[k].path)'
  BY <1>2, Rigid
<1> QED BY <1>1, <1>3, <1>4 DEF ObjectInv

LEMMA ObjectsStay ==
    ASSUME StoreInv, IInv', Next
    PROVE  ObjectInv'
<1>1. /\ \A r : Nowhere(r) => Nowhere(r)'
      /\ \A r, p : SeenAt(r, p) => SeenAt(r, p)'
  BY NextNative
<1>2. ObjectInv /\ NativeInv /\ Types
  BY DEF StoreInv, IInv
<1>4. CASE object' = object
  <2>1. UniquePath'
    BY <1>2, <1>4 DEF ObjectInv, UniquePath, Live
  <2>2. \A k \in Keys : Live(k)' => RecordsNext(k)
    BY <1>1, <1>2, <1>4 DEF ObjectInv, RecordsNext, Live
  <2>3. \A k \in Keys : Live(k)' => object'[k].path \in Places /\ SeenAt(object[k].stamp, object[k].path)'
    BY <2>2, Rigid
  <2>4. object' \in [Keys -> Object]
        /\ \A k \in Keys : object'[k].state = "unused" => object'[k].path = None
    BY <1>2, <1>4 DEF ObjectInv
  <2> QED BY <2>1, <2>3, <2>4 DEF ObjectInv
<1>6. ASSUME NEW t \in Threads, Observes(t) PROVE ObjectInv'
  <2>1. PICK k \in Keys, new \in Object :
           step[t] = "write" /\ Written(t, k, new) /\ object' = [object EXCEPT ![k] = new]
    BY <1>6 DEF Observes
  <2>2. /\ call[t].at \in Places /\ SeenAt(Stamp(call[t].seen), call[t].at)
        /\ object' \in [Keys -> Object] /\ object'[k] = new
        /\ \A j \in Keys : j # k => object'[j] = object[j]
    BY <2>1, ObservesObject
  <2>3. new.state = "live" /\ new.path = call[t].at /\ new.stamp = Stamp(call[t].seen)
    BY <2>1 DEF Written
  <2>4. \A j \in Keys : j # k /\ Live(j) => object[j].path # call[t].at
    BY <1>2, <2>1 DEF Written, LookupPath, ObjectInv, UniquePath
  <2>5. RecordsNext(k)
    BY <1>1, <2>2, <2>3 DEF RecordsNext
  <2> QED BY <1>1, <1>2, <2>2, <2>3, <2>4, <2>5, ObjectsFollow
<1>7. ASSUME NEW t \in Threads, Moves(t) PROVE ObjectInv'
  <2> DEFINE to == call[t].to
             k == call[t].row.key
  <2>1. /\ k \in Keys /\ to \in Places /\ object' \in [Keys -> Object]
        /\ object'[k].state = "live" /\ object'[k].path = to
        /\ \/ object'[k].stamp = object[k].stamp /\ Nowhere(object[k].stamp)
           \/ file[to] # None /\ object'[k].stamp = Stamp(file[to])
        /\ \A j \in Keys : j # k => object'[j] = object[j]
    BY <1>7, MovesObject
  <2>2. \A j \in Keys : Live(j) => object[j].path # to
    BY <1>7 DEF Moves, LookupPath
  <2>3. SeenAt(object'[k].stamp, to)
    BY <1>2, <2>1, SeenNow DEF SeenAt, Nowhere
  <2>4. RecordsNext(k)
    BY <1>1, <2>1, <2>3 DEF RecordsNext
  <2> QED BY <1>1, <1>2, <2>1, <2>2, <2>4, ObjectsFollow
<1>8. ASSUME NEW t \in Threads, Erases(t) PROVE ObjectInv'
  <2>1. PICK k \in Keys : /\ object' \in [Keys -> Object] /\ object'[k].state = "tombstone"
                          /\ \A j \in Keys : j # k => object'[j] = object[j]
    BY <1>8, ErasesObject
  <2>2. ~Live(k)'
    BY <2>1 DEF Live
  <2> QED BY <1>1, <1>2, <2>1, <2>2, ObjectsFollow
<1> QED BY <1>4, <1>6, <1>7, <1>8, NextChanges

LEMMA FreshStays ==
    ASSUME ObjectInv, ObjectInv', Grows, NEW row, Fresh(row)
    PROVE  Fresh(row)' /\ (Current(row)' => Current(row) /\ object'[row.key].stamp = object[row.key].stamp)
<1>1. row.key \in Keys /\ row.version \in Nat
  BY DEF Fresh, IndexRow
<1>2. object[row.key].version \in Nat /\ object'[row.key].version \in Nat
  BY <1>1 DEF ObjectInv, Object
<1> QED BY <1>1, <1>2 DEF Fresh, Grows, Current, Unchanged, Live

LEMMA GoneStays ==
    ASSUME StoreInv, ObjectInv', Grows, NEW row, Gone(row),
           \A r : Nowhere(r) => Nowhere(r)'
    PROVE  Gone(row)'
<1>1. ObjectInv
  BY DEF StoreInv
<1>2. Fresh(row)' /\ (Current(row)' => Current(row) /\ object'[row.key].stamp = object[row.key].stamp)
  BY <1>1, FreshStays DEF Gone
<1>3. Current(row)' => \E r : r = object'[row.key].stamp /\ Nowhere(r)'
  BY <1>2 DEF Gone
<1>4. Current(row)' => Nowhere(object[row.key].stamp)'
  BY <1>3 DEF Nowhere, Behind
<1> QED BY <1>2, <1>4 DEF Gone

(* What a row says that is read now. *)
LEMMA RowFresh ==
    ASSUME StoreInv, NEW k \in Keys, Live(k)
    PROVE  Fresh(Row(k)) /\ (file[object[k].path] = None => Gone(Row(k)))
<1>1. Row(k) \in IndexRow /\ Row(k).key = k /\ Row(k).path = object[k].path
      /\ Row(k).version = object[k].version /\ object[k].version \in Nat
  BY DEF StoreInv, ObjectInv, Object, IndexRow, Row
<1>2. object[k].path \in Places /\ SeenAt(object[k].stamp, object[k].path)
  BY DEF StoreInv, ObjectInv
<1>3. Fresh(Row(k))
  BY <1>1 DEF Fresh
<1> QED BY <1>1, <1>2, <1>3, SeenNowhere DEF Gone

LEMMA RowGone ==
    ASSUME StoreInv, NEW row, Fresh(row), file[row.path] = None
    PROVE  Gone(row)
<1>1. row.key \in Keys
  BY DEF Fresh, IndexRow
<1>2. Current(row) => Live(row.key) /\ object[row.key].path = row.path
  BY DEF Fresh, Current, Unchanged
<1>3. Current(row) => SeenAt(object[row.key].stamp, row.path) /\ row.path \in Places
  BY <1>1, <1>2 DEF StoreInv, ObjectInv
<1> QED BY <1>3, SeenNowhere DEF Gone

---------------------------------------------------------------------------
(* What a step does to the threads: one of them goes on.                   *)

Only(t) == \A u \in Threads \ {t} : step'[u] = step[u] /\ call'[u] = call[u]

Acts(t) == \/ t = Intake /\ Reconcile
           \/ t \in Callers /\ Perform(t)
           \/ Crash(t)
           \/ User

Watched == {"look", "write", "moveObject", "erase", "doom"}

\* From where it learns what it must know.
Unwatched(t) == step'[t] \notin Watched
Same(t) == step'[t] = step[t] /\ call'[t] = call[t]
Looks(t) == step'[t] = "look" /\ call'[t].at \in Places
Sees(t) == /\ step[t] = "look" /\ step'[t] = "write" /\ UNCHANGED <<file, object>>
           /\ file[call[t].at] # None
           /\ call'[t].at = call[t].at /\ call'[t].seen = file[call[t].at]
Finds(t) == /\ step'[t] \in {"moveObject", "erase"} /\ UNCHANGED <<file, object>>
            /\ \E k \in Keys : /\ Live(k) /\ file[object[k].path] = None
                               /\ object[k].path = call[t].from
                               /\ call'[t].row = Row(k)
Dooms(t) == /\ step'[t] = "doom" /\ UNCHANGED <<file, object>>
            /\ \E row \in page : file[row.path] = None /\ call'[t].row = row
Moment(t) == Unwatched(t) \/ Same(t) \/ Looks(t) \/ Sees(t) \/ Finds(t) \/ Dooms(t)

LEMMA OnlyOne ==
    ASSUME Types, NEW t \in Threads,
           step' = step \/ (\E s : step' = [step EXCEPT ![t] = s]),
           call' = call \/ (\E c : call' = [call EXCEPT ![t] = c])
    PROVE  Only(t)
BY DEF Types, Only

LEMMA ReturnMoment ==
    ASSUME Types, NEW t \in Threads, NEW r, Leave(t, r)
    PROVE  Only(t) /\ Unwatched(t)
<1>1. step'[t] = "idle"
  BY DEF Leave, Goto, Types
<1>2. Only(t)
  BY OnlyOne DEF Leave, Goto
<1> QED BY <1>1, <1>2 DEF Unwatched, Watched

LEMMA FailMoment ==
    ASSUME Types, NEW t \in Threads, Fail(t) \/ Succeed(t) \/ Return(t, "failed")
    PROVE  Only(t) /\ Unwatched(t)
BY ReturnMoment DEF Fail, Succeed, Return

LEMMA RepositoryMoment ==
    ASSUME StoreInv, NEW t \in Threads, Repository(t)
    PROVE  Only(t) /\ Moment(t)
<1>1. Types /\ Call(call[t]) /\ CallAt(call[t], step[t]) /\ Knows(t)
  BY CallFacts DEF StoreInv, IInv
<1>2. CASE Fail(t) \/ Succeed(t) \/ Return(t, "failed")
  BY <1>1, <1>2, FailMoment DEF Moment
<1>3. CASE ObserveLook(t) /\ ~Fail(t)
  <2>1. /\ step'[t] = "write" /\ step[t] = "look" /\ UNCHANGED <<file, object>>
        /\ file[call[t].at] # None
        /\ call'[t].at = call[t].at /\ call'[t].seen = file[call[t].at]
    BY <1>1, <1>3 DEF ObserveLook, Goto, Types, native, Call
  <2>2. Only(t)
    BY <1>1, <1>3, OnlyOne DEF ObserveLook, Goto
  <2> QED BY <2>1, <2>2 DEF Moment, Sees
<1>4. ASSUME ObserveDone(t), ~Succeed(t) PROVE Only(t) /\ Moment(t)
  <2>1. step'[t] = call[t].then
    BY <1>1, <1>4 DEF ObserveDone, Goto, Types
  <2>2. Unwatched(t)
    BY <1>1, <2>1 DEF Unwatched, Watched, Call
  <2>3. Only(t)
    BY <1>1, <1>4, OnlyOne DEF ObserveDone, Goto
  <2> QED BY <2>2, <2>3 DEF Moment
<1>5. CASE ObserveWrite(t)
  BY <1>2, <1>4, <1>5 DEF ObserveWrite
<1>6. CASE RelocateLook(t) /\ ~Fail(t) /\ ~Succeed(t)
  <2>1. PICK k \in LookupPath(call[t].from) : call' = [call EXCEPT ![t].row = Row(k)]
    BY <1>6 DEF RelocateLook
  <2>2. /\ k \in Keys /\ Live(k) /\ object[k].path = call[t].from
        /\ file[object[k].path] = None /\ call'[t].row = Row(k)
        /\ step'[t] = "moveObject" /\ UNCHANGED <<file, object>>
    BY <1>1, <1>6, <2>1 DEF RelocateLook, LookupPath, Goto, Types, native, Call
  <2>3. Only(t)
    BY <1>1, <1>6, <2>1, OnlyOne DEF RelocateLook, Goto
  <2> QED BY <2>2, <2>3 DEF Moment, Finds
<1>7. CASE RemovedLook(t) /\ ~Fail(t) /\ ~Succeed(t)
  <2>1. PICK k \in LookupPath(call[t].from) : call' = [call EXCEPT ![t].row = Row(k)]
    BY <1>7 DEF RemovedLook
  <2>2. /\ k \in Keys /\ Live(k) /\ object[k].path = call[t].from
        /\ file[object[k].path] = None /\ call'[t].row = Row(k)
        /\ step'[t] = "erase" /\ UNCHANGED <<file, object>>
    BY <1>1, <1>7, <2>1 DEF RemovedLook, LookupPath, Goto, Types, native, Call
  <2>3. Only(t)
    BY <1>1, <1>7, <2>1, OnlyOne DEF RemovedLook, Goto
  <2> QED BY <2>2, <2>3 DEF Moment, Finds
<1>8. CASE MoveObject(t) /\ ~Fail(t) /\ ~Succeed(t)
  <2>1. call[t].to \in Places
    BY <1>1, <1>8 DEF MoveObject, Call, CallAt
  <2>2. step'[t] = "look" /\ call'[t].at = call[t].to
    BY <1>1, <1>8 DEF MoveObject, Goto, Types, Call
  <2>3. Only(t)
    BY <1>1, <1>8, OnlyOne DEF MoveObject, Goto
  <2> QED BY <2>1, <2>2, <2>3 DEF Moment, Looks
<1> QED BY <1>2, <1>3, <1>5, <1>6, <1>7, <1>8 DEF Repository, LeaseTimeout, RemovedErase

LEMMA ReconcileMoment ==
    ASSUME StoreInv, Reconcile
    PROVE  Only(Intake) /\ Moment(Intake)
<1>1. Types /\ Call(call[Intake]) /\ Intake \in Threads
  BY CallFacts DEF StoreInv, IInv, Threads
<1>2. CASE Fail(Intake) \/ Succeed(Intake)
  BY <1>1, <1>2, FailMoment DEF Moment
<1>3. CASE ReconcileBegin
  <2>1. step'[Intake] = "walk"
    BY <1>1, <1>3 DEF ReconcileBegin, Goto, Types
  <2>2. Only(Intake)
    BY <1>1, <1>3, OnlyOne DEF ReconcileBegin, Goto
  <2> QED BY <2>1, <2>2 DEF Moment, Unwatched, Watched
<1>4. CASE Walk
  <2>1. PICK p \in (IF todo \cap Deleted # {} THEN todo \cap Deleted ELSE todo) :
           \/ file[p] = None /\ UNCHANGED <<step, call>>
           \/ /\ file[p] # None
              /\ call' = [call EXCEPT ![Intake].at = p, ![Intake].then = "walk"]
              /\ Goto(Intake, "look")
    BY <1>4 DEF Walk
  <2>2. Only(Intake)
    BY <1>1, <2>1, OnlyOne DEF Goto
  <2>3. CASE UNCHANGED <<step, call>>
    BY <2>2, <2>3 DEF Moment, Same
  <2>4. CASE call' = [call EXCEPT ![Intake].at = p, ![Intake].then = "walk"] /\ Goto(Intake, "look") /\ file[p] # None
    <3>1. step'[Intake] = "look" /\ call'[Intake].at = p
      BY <1>1, <2>4 DEF Goto, Types, Call
    <3>2. p \in Places
      BY <2>1 DEF StoreInv
    <3> QED BY <2>2, <3>1, <3>2 DEF Moment, Looks
  <2> QED BY <2>1, <2>3, <2>4
<1>5. CASE ReadIndex
  <2>1. step'[Intake] = "sweep"
    BY <1>1, <1>5 DEF ReadIndex, Goto, Types
  <2>2. Only(Intake)
    BY <1>1, <1>5, OnlyOne DEF ReadIndex, Goto
  <2> QED BY <2>1, <2>2 DEF Moment, Unwatched, Watched
<1>6. CASE SweepLook
  <2>1. PICK row \in page :
           \/ file[row.path] # None /\ UNCHANGED <<step, call>>
           \/ /\ file[row.path] = None
              /\ call' = [call EXCEPT ![Intake].row = row]
              /\ Goto(Intake, "doom")
    BY <1>6 DEF SweepLook
  <2>2. Only(Intake)
    BY <1>1, <2>1, OnlyOne DEF Goto
  <2>3. CASE UNCHANGED <<step, call>>
    BY <2>2, <2>3 DEF Moment, Same
  <2>4. CASE call' = [call EXCEPT ![Intake].row = row] /\ Goto(Intake, "doom") /\ file[row.path] = None
    <3>1. step'[Intake] = "doom" /\ call'[Intake].row = row
      BY <1>1, <2>4 DEF Goto, Types, Call
    <3> QED BY <1>6, <2>2, <2>4, <3>1 DEF Moment, Dooms, SweepLook, native
  <2> QED BY <2>1, <2>3, <2>4
<1>7. CASE SweepErase /\ ~Fail(Intake)
  <2>1. step'[Intake] = "sweep"
    BY <1>1, <1>7 DEF SweepErase, Goto, Types
  <2>2. Only(Intake)
    BY <1>1, <1>7, OnlyOne DEF SweepErase, Goto
  <2> QED BY <2>1, <2>2 DEF Moment, Unwatched, Watched
<1> QED BY <1>1, <1>2, <1>3, <1>4, <1>5, <1>6, <1>7, RepositoryMoment DEF Reconcile, ReconcileEnd, SweepErase

LEMMA BeginMoment ==
    ASSUME Types, NEW t \in Threads, NEW act, NEW from, NEW to, NEW at, NEW then, NEW first,
           Begin(t, act, from, to, at, then, first), first = "look" => at \in Places,
           first \notin {"write", "moveObject", "erase", "doom"}
    PROVE  Only(t) /\ Moment(t)
<1>1. step'[t] = first /\ call'[t].at = at
  BY DEF Begin, Goto, Types, NoCall
<1>2. Only(t)
  BY OnlyOne DEF Begin, Goto
<1> QED BY <1>1, <1>2 DEF Moment, Looks, Unwatched, Watched

LEMMA GoesMoment ==
    ASSUME Types, NEW t \in Threads, NEW s, Goto(t, s), s \notin Watched,
           call' = call \/ (\E c : call' = [call EXCEPT ![t] = c])
    PROVE  Only(t) /\ Moment(t)
<1>1. step'[t] = s
  BY DEF Goto, Types
<1>2. Only(t)
  BY OnlyOne DEF Goto
<1> QED BY <1>1, <1>2 DEF Moment, Unwatched

LEMMA ConcernsCall ==
    ASSUME NEW t \in Threads, Concerns(t) PROVE \E c : call' = [call EXCEPT ![t] = c]
BY DEF Concerns

LEMMA PerformMoment ==
    ASSUME StoreInv, NEW t \in Callers, Perform(t)
    PROVE  Only(t) /\ Moment(t)
<1>1. Types /\ Call(call[t]) /\ CallAt(call[t], step[t]) /\ t \in Threads
  BY CallFacts DEF StoreInv, IInv, Threads
<1>2. ASSUME NEW p \in Places, NEW q \in Places,
             BeginMove(t, p, q) \/ BeginDuplicate(t, p, q) \/ BeginTrash(t, p, q)
      PROVE  Only(t) /\ Moment(t)
  BY <1>1, <1>2, BeginMoment DEF BeginMove, BeginDuplicate, BeginTrash
<1>3. ASSUME NEW p \in Places,
             BeginImport(t, p) \/ BeginGenerated(t, p) \/ BeginRemove(t, p) \/ BeginRecord(t, p)
      PROVE  Only(t) /\ Moment(t)
  BY <1>1, <1>3, BeginMoment DEF BeginImport, BeginGenerated, BeginRemove, BeginRecord
<1>4. CASE Fail(t)
  BY <1>1, <1>4, FailMoment DEF Moment
<1>5. ASSUME Show(t), call[t].to \in Places PROVE Only(t) /\ Moment(t)
  <2>1. step'[t] = "look" /\ call'[t].at = call[t].to
    BY <1>1, <1>5 DEF Show, Goto, Types, Call
  <2>2. Only(t)
    BY <1>1, <1>5, OnlyOne DEF Show, Goto
  <2> QED BY <1>5, <2>1, <2>2 DEF Moment, Looks
<1>6. CASE Stage(t) /\ ~Fail(t)
  <2>1. Goto(t, "publish") /\ call' = call
    BY <1>6 DEF Stage
  <2> QED BY <1>1, <2>1, GoesMoment DEF Watched
<1>7. CASE (Publish(t) \/ PublishGenerated(t)) /\ ~Fail(t)
  <2>1. CASE Show(t)
    <3>1. call[t].to \in Places
      BY <1>1, <1>7 DEF Publish, PublishGenerated, Call, CallAt
    <3> QED BY <1>5, <2>1, <3>1
  <2>2. CASE Concerns(t) /\ Goto(t, "relocate")
    BY <1>1, <2>2, GoesMoment, ConcernsCall DEF Watched
  <2> QED BY <1>7, <2>1, <2>2 DEF Publish, PublishGenerated
<1>8. CASE Unlink(t) /\ ~Fail(t)
  <2>1. Goto(t, "removed") /\ call' = call
    BY <1>8 DEF Unlink
  <2> QED BY <1>1, <2>1, GoesMoment DEF Watched
<1>9. CASE Trash(t) /\ ~Fail(t)
  <2>1. (Goto(t, "relocate") /\ Concerns(t)) \/ (Goto(t, "hide") /\ call' = call)
    BY <1>9 DEF Trash
  <2> QED BY <1>1, <2>1, GoesMoment, ConcernsCall DEF Watched
<1>10. CASE TrashHide(t) /\ ~Fail(t)
  <2>1. Goto(t, "show") /\ Concerns(t)
    BY <1>10 DEF TrashHide
  <2> QED BY <1>1, <2>1, GoesMoment, ConcernsCall DEF Watched
<1>11. CASE TrashShow(t)
  <2>1. CASE Goto(t, "forget") /\ call' = call
    BY <1>1, <2>1, GoesMoment DEF Watched
  <2>2. CASE Leave(t, "failed")
    BY <1>1, <2>2, ReturnMoment DEF Moment
  <2> QED BY <1>11, <2>1, <2>2 DEF TrashShow
<1>12. CASE TrashForget(t)
  <2>1. Goto(t, "relocate") /\ call' = call
    BY <1>12 DEF TrashForget
  <2> QED BY <1>1, <2>1, GoesMoment DEF Watched
<1> QED BY <1>1, <1>2, <1>3, <1>4, <1>6, <1>7, <1>8, <1>9, <1>10, <1>11, <1>12,
        RepositoryMoment DEF Perform

LEMMA NextActs ==
    ASSUME StoreInv, Next
    PROVE  \E t \in Threads : Only(t) /\ Moment(t) /\ Acts(t)
<1>1. Intake \in Threads /\ Callers \subseteq Threads /\ Types
  BY DEF Threads, StoreInv, IInv
<1>2. CASE User
  BY <1>1, <1>2 DEF User, Only, Moment, Same, Acts
<1>3. ASSUME NEW t \in Threads, Crash(t) PROVE Only(t) /\ Moment(t) /\ Acts(t)
  BY <1>1, <1>3, ReturnMoment DEF Crash, Moment, Acts
<1>4. CASE Reconcile
  BY <1>1, <1>4, ReconcileMoment DEF Acts
<1>5. ASSUME NEW t \in Callers, Perform(t) PROVE Only(t) /\ Moment(t) /\ Acts(t)
  BY <1>1, <1>5, PerformMoment DEF Acts
<1> QED BY <1>1, <1>2, <1>3, <1>4, <1>5 DEF Next

---------------------------------------------------------------------------
(* The invariant holds after every step.                                   *)

\* What a thread knows stays true while it rests.
LEMMA KnownStays ==
    ASSUME StoreInv, IInv', ObjectInv', Next, NEW u \in Threads, Same(u)
    PROVE  Knows(u)'
<1>1. /\ \A r : Nowhere(r) => Nowhere(r)'
      /\ \A r, p : SeenAt(r, p) => SeenAt(r, p)'
      /\ Grows /\ Knows(u)
  BY NextNative, NextGrows DEF StoreInv
<1>2. step'[u] = step[u] /\ call'[u] = call[u]
  BY DEF Same
<1>3. ASSUME step[u] = "write" PROVE SeenAt(Stamp(call[u].seen), call[u].at)'
  <2>1. \E r, p : r = Stamp(call'[u].seen) /\ p = call'[u].at /\ SeenAt(r, p)'
    BY <1>1, <1>2, <1>3 DEF Knows
  <2> QED BY <2>1 DEF SeenAt, Behind
<1>4. ASSUME step[u] \in {"moveObject", "erase", "doom"} PROVE Gone(call[u].row)'
  <2>1. \E row : row = call'[u].row /\ Gone(row)'
    <3>1. Gone(call[u].row)
      BY <1>1, <1>4 DEF Knows
    <3>2. \A row : Gone(row) => Gone(row)'
      BY <1>1, GoneStays
    <3> QED BY <1>2, <3>1, <3>2
  <2> QED BY <2>1 DEF Gone, Fresh, Nowhere, Behind, Current, Unchanged, Live
<1> QED BY <1>1, <1>2, <1>3, <1>4 DEF Knows

LEMMA KnowsNext ==
    ASSUME StoreInv, IInv', ObjectInv', Next, NEW t \in Threads, Moment(t)
    PROVE  Knows(t)'
<1>1. /\ \A r : Nowhere(r) => Nowhere(r)'
      /\ \A r, p : SeenAt(r, p) => SeenAt(r, p)'
      /\ Grows /\ Knows(t) /\ NativeInv /\ Types
  BY NextNative, NextGrows DEF StoreInv
<1>2. CASE Unwatched(t)
  BY <1>2 DEF Unwatched, Watched, Knows
<1>3. CASE Same(t)
  BY <1>3, KnownStays
<1>4. CASE Looks(t)
  BY <1>4 DEF Looks, Knows
<1>5. CASE Sees(t)
  <2>1. call[t].at \in Places /\ file[call[t].at] \in File
    BY <1>1, <1>5 DEF Sees, Knows, Types
  <2>2. SeenAt(Stamp(file[call[t].at]), call[t].at)
    BY <1>1, <1>5, <2>1, SeenNow DEF Sees
  <2>3. \E r, p : r = Stamp(call'[t].seen) /\ p = call'[t].at /\ SeenAt(r, p)'
    BY <1>1, <1>5, <2>2 DEF Sees
  <2>4. SeenAt(Stamp(call[t].seen), call[t].at)'
    BY <2>3 DEF SeenAt, Behind
  <2> QED BY <1>5, <2>1, <2>4 DEF Sees, Knows
<1>6. ASSUME NEW row, Gone(row), call'[t].row = row, step'[t] \in {"moveObject", "erase", "doom"}
      PROVE  Knows(t)'
  <2>1. Gone(row)'
    BY <1>1, <1>6, GoneStays
  <2>2. Gone(call[t].row)'
    BY <1>6, <2>1 DEF Gone, Fresh, Nowhere, Behind, Current, Unchanged, Live
  <2> QED BY <1>6, <2>2 DEF Knows
<1>7. CASE Finds(t)
  BY <1>6, <1>7, RowFresh DEF Finds
<1>8. CASE Dooms(t)
  BY <1>6, <1>8, RowGone DEF Dooms, StoreInv
<1> QED BY <1>2, <1>3, <1>4, <1>5, <1>7, <1>8 DEF Moment

LEMMA PagesNext ==
    ASSUME StoreInv, IInv', ObjectInv', Next
    PROVE  todo' \subseteq Places /\ \A row \in page' : Fresh(row)'
<1>1. Grows /\ ObjectInv /\ todo \subseteq Places /\ \A row \in page : Fresh(row)
  BY NextGrows DEF StoreInv
<1>2. ASSUME todo' \subseteq todo, page' \subseteq page
      PROVE  todo' \subseteq Places /\ \A row \in page' : Fresh(row)'
  BY <1>1, <1>2, FreshStays
<1>3. CASE ReconcileBegin
  BY <1>3 DEF ReconcileBegin
<1>4. CASE ReadIndex
  <2>1. page' = Index /\ object' = object /\ todo' = todo
    BY <1>4 DEF ReadIndex
  <2>2. \A row \in page' : Fresh(row)
    BY <2>1, RowFresh DEF Index
  <2>3. \A row : Fresh(row) => Fresh(row)'
    BY <1>1, FreshStays
  <2> QED BY <1>1, <2>1, <2>2, <2>3
<1>5. CASE Walk \/ SweepLook
  BY <1>2, <1>5 DEF Walk, SweepLook
<1>6. CASE UNCHANGED scan
  BY <1>2, <1>6 DEF scan
<1>7. CASE Reconcile
  BY <1>3, <1>4, <1>5, <1>6, <1>7 DEF Reconcile, SweepErase, ReconcileEnd, Repository, Shared
<1>8. ASSUME NEW c \in Callers, Perform(c) PROVE UNCHANGED scan
  BY <1>8 DEF Perform, BeginMove, BeginDuplicate, BeginTrash, BeginImport, BeginGenerated,
      BeginRemove, BeginRecord, Begin, Repository, Shared
<1>9. User \/ (\E t \in Threads : Crash(t)) => UNCHANGED scan
  BY DEF Shared, User, Crash
<1> QED BY <1>6, <1>7, <1>8, <1>9 DEF Next

LEMMA StoreNext == StoreInv /\ [Next]_vars => StoreInv'
<1>1. ASSUME StoreInv, Next PROVE StoreInv'
  <2>1. IInv'
    BY <1>1, Inductive DEF StoreInv
  <2>2. ObjectInv' /\ NativeInv'
    BY <1>1, <2>1, ObjectsStay, NextNative
  <2>3. PICK t \in Threads : Only(t) /\ Moment(t)
    BY <1>1, NextActs
  <2>4. ASSUME NEW u \in Threads PROVE Knows(u)'
    BY <1>1, <2>1, <2>2, <2>3, KnowsNext DEF Only, Moment, Same
  <2> QED BY <1>1, <2>1, <2>2, <2>4, PagesNext DEF StoreInv
<1>2. ASSUME StoreInv, UNCHANGED vars PROVE StoreInv'
  <2>1. IInv'
    BY <1>2, Inductive DEF StoreInv
  <2>2. UNCHANGED <<file, hidden, object, step, call, page, todo, nodes>>
    BY <1>2 DEF vars, native, scan
  <2>3. \A s \in Slots : In(s)' = In(s)
    BY <2>2 DEF In
  <2>4. NativeInv'
    BY <1>2, <2>2, <2>3 DEF StoreInv, NativeInv, SlotTypes, NodesKnown, OneSlot
  <2>5. \A r : /\ Behind(r) <=> Behind(r)'
               /\ Nowhere(r) <=> Nowhere(r)'
               /\ \A p : SeenAt(r, p) <=> SeenAt(r, p)'
    BY <2>2, <2>3 DEF Behind, Nowhere, SeenAt
  <2>6. ASSUME NEW k \in Keys, Live(k)'
        PROVE  object'[k].path \in Places /\ SeenAt(object[k].stamp, object[k].path)'
    <3>1. RecordsNext(k)
      BY <1>2, <2>2, <2>5, <2>6 DEF StoreInv, ObjectInv, Live, RecordsNext
    <3> QED BY <3>1, Rigid
  <2>7. ObjectInv'
    BY <1>2, <2>2, <2>6 DEF StoreInv, ObjectInv, UniquePath, Live
  <2>8. \A row : (Fresh(row) => Fresh(row)') /\ (Gone(row) => Gone(row)')
    <3>1. Grows /\ ObjectInv
      BY <1>2, <2>2 DEF Grows, StoreInv, ObjectInv, Object
    <3> QED BY <1>2, <2>5, <2>7, <3>1, FreshStays, GoneStays
  <2>9. ASSUME NEW t \in Threads PROVE Knows(t)'
    <3>1. Knows(t) /\ step'[t] = step[t] /\ call'[t] = call[t]
      BY <1>2, <2>2 DEF StoreInv
    <3>2. step[t] = "write" => SeenAt(Stamp(call[t].seen), call[t].at)'
      <4>1. step[t] = "write" => \E r, p : r = Stamp(call'[t].seen) /\ p = call'[t].at /\ SeenAt(r, p)'
        BY <2>5, <3>1 DEF Knows
      <4> QED BY <4>1 DEF SeenAt, Behind
    <3>3. step[t] \in {"moveObject", "erase", "doom"} => Gone(call[t].row)'
      <4>1. step[t] \in {"moveObject", "erase", "doom"} => \E row : row = call'[t].row /\ Gone(row)'
        BY <2>8, <3>1 DEF Knows
      <4> QED BY <4>1 DEF Gone, Fresh, Nowhere, Behind, Current, Unchanged, Live
    <3> QED BY <3>1, <3>2, <3>3 DEF Knows
  <2>10. todo' \subseteq Places /\ \A row \in page' : Fresh(row)'
    BY <1>2, <2>2, <2>8 DEF StoreInv
  <2> QED BY <2>1, <2>4, <2>7, <2>9, <2>10 DEF StoreInv
<1> QED BY <1>1, <1>2

LEMMA StoreInit == Init => StoreInv
<1> SUFFICES ASSUME Init PROVE StoreInv
  OBVIOUS
<1>1. PICK q \in Files : file = [p \in Places |-> IF p = q THEN NewFile(1, 1) ELSE None]
  BY DEF Init
<1>2. /\ hidden = [t \in Threads |-> NoHidden] /\ nodes = 1
      /\ step = [t \in Threads |-> "idle"] /\ object = [k \in Keys |-> NoObject]
      /\ page = {} /\ todo = {} /\ q \in Places
  BY DEF Init, Places
<1>3. IInv /\ SlotTypes
  BY InitIInv, SlotsTyped DEF IInv
<1>4. \A s \in Slots : In(s) # None => s = Public(q) /\ In(s).node = 1
  BY <1>1, <1>2, InSlots DEF NoHidden, NewFile
<1>5. NativeInv
  BY <1>2, <1>3, <1>4 DEF NativeInv, NodesKnown, OneSlot
<1>6. NoObject \in Object /\ NoObject.state = "unused" /\ NoObject.path = None
  BY DEF NoObject, Object
<1>7. ObjectInv
  BY <1>2, <1>6 DEF ObjectInv, UniquePath, Live
<1>8. \A t \in Threads : Knows(t)
  BY <1>2 DEF Knows
<1> QED BY <1>2, <1>3, <1>5, <1>7, <1>8 DEF StoreInv

(* The invariant of the store: no object is ahead of its file, no two objects
   are at one place, and what a thread has read of the index or of a file is
   still so, or its version or its stamp tells. *)
THEOREM StoreInvariance == Spec => []StoreInv
<1> QED BY StoreInit, StoreNext, PTL DEF Spec

(* An object is tombstoned only when its file is gone or has changed since it was
   recorded, although reconcile erases from a page that may be old, without the
   lease, and while any number of threads and the user move files about. *)
THEOREM TombstonesAlwaysDue == Spec => TombstonesAreDue
<1> DEFINE Due == \A k \in Keys : (Live(k) /\ object'[k].state # "live") =>
                     \/ file[object[k].path] = None
                     \/ object[k].stamp # Stamp(file[object[k].path])
<1>1. ASSUME StoreInv, Next PROVE Due
  <2> SUFFICES ASSUME NEW k \in Keys, Live(k), object'[k].state # "live",
                      file[object[k].path] # None
               PROVE  object[k].stamp # Stamp(file[object[k].path])
    OBVIOUS
  <2>1. object' # object
    BY DEF Live
  <2>2. ASSUME NEW t \in Threads, Observes(t) PROVE FALSE
    BY <1>1, <2>2, ObservesObject DEF Observes, Written, Live
  <2>3. ASSUME NEW t \in Threads, Moves(t) PROVE FALSE
    BY <1>1, <2>3, MovesObject DEF Live
  <2>4. PICK t \in Threads : Erases(t)
    BY <1>1, <2>1, <2>2, <2>3, NextChanges
  <2>5. k = call[t].row.key /\ Gone(call[t].row) /\ Current(call[t].row)
    BY <1>1, <2>4, ErasesObject DEF Live, Erases
  <2>6. Nowhere(object[k].stamp) /\ object[k].path \in Places
    BY <1>1, <2>5 DEF Gone, StoreInv, ObjectInv
  <2> QED BY <2>6 DEF Nowhere
<1>3. StoreInv /\ [Next]_vars =>
        [\A k \in Keys : (Live(k) /\ object'[k].state # "live") =>
            \/ file[object[k].path] = None
            \/ object[k].stamp # Stamp(file[object[k].path])]_vars
  BY <1>1
<1> QED BY <1>3, StoreInvariance, PTL DEF Spec, TombstonesAreDue

---------------------------------------------------------------------------
(* A move and its object: who changes the store holds the lease, and keeps *)
(* it until the object of the move has left the source.                    *)

Left(t) == LookupPath(call[t].from) = {}
Sources(t) ==
    /\ call[t].moved # None => step[t] = "idle"
    /\ step[t] = "idle" => call[t].key = None
    /\ t = Intake => call[t].act = "none" /\ call[t].moved = None
    /\ call[t].act \in {"move", "trash"} => call[t].from # call[t].to
    /\ call[t].key # None => call[t].key \in Keys /\ call[t].act \in {"move", "trash"}
    /\ step[t] = "moveObject" => call[t].row.path = call[t].from
    /\ step[t] \in {"write", "moveObject", "erase"} => lease = t
    /\ step[t] \in {"look", "write"} => call[t].then # "idle"
    /\ step[t] \in {"look", "write"} /\ call[t].key # None
         => lease = t /\ call[t].then = "done" /\ call[t].at = call[t].to /\ Left(t)

LeaseInv == StoreInv /\ \A t \in Threads : Sources(t)

---------------------------------------------------------------------------
(* What a step of a thread is, for its move and the lease.                 *)

\* The lease is taken when it is free, and given back by its owner.
LeaseMoves(t) == lease' = lease \/ (lease \in {None, t} /\ lease' \in {None, t})

Carried(t) == /\ call'[t].act = call[t].act /\ call'[t].key = call[t].key
           /\ call'[t].from = call[t].from /\ call'[t].to = call[t].to
           /\ call'[t].moved = call[t].moved

\* How a call succeeds.
Finished(t) ==
    /\ call'[t].moved = call[t].key
    /\ \/ step[t] = "relocate" /\ Left(t) /\ object' = object
       \/ step[t] = "moveObject" /\ Moves(t)
       \/ step[t] = "write" /\ Observes(t)
       \/ step[t] \in {"removed", "erase"} \/ t = Intake
Ended(t) == /\ step'[t] = "idle" /\ call'[t].key = None /\ call'[t].act = "none"
            /\ call'[t].moved # None => Finished(t)
Began(t) == /\ t \in Callers /\ step'[t] \notin {"idle", "write", "moveObject", "erase"}
            /\ call'[t].key = None /\ call'[t].moved = None
            /\ step'[t] = "look" => call'[t].then # "idle"
            /\ call'[t].act \in {"move", "trash"} => call'[t].from # call'[t].to
Goes(t) == /\ Carried(t) /\ (step[t] # "idle" \/ t = Intake)
           /\ step'[t] \notin {"idle", "write", "moveObject", "erase"}
           /\ step'[t] = "look" => call[t].key = None /\ call'[t].then # "idle"
Concerned(t) == /\ step[t] # "idle" /\ step'[t] \in {"relocate", "show"}
                /\ call[t].act \in {"move", "trash"} /\ call'[t].act = call[t].act
                /\ call'[t].from = call[t].from /\ call'[t].to = call[t].to
                /\ call'[t].moved = call[t].moved /\ call'[t].key \in Keys \cup {None}
Arrives(t) == /\ step[t] = "moveObject" /\ step'[t] = "look" /\ Carried(t)
              /\ call'[t].at = call[t].to /\ call'[t].then = "done"
              /\ lease' = lease /\ Moves(t)
Leases(t) == /\ Carried(t) /\ lease' = t /\ object' = object
             /\ \/ /\ step[t] = "look" /\ step'[t] = "write"
                   /\ call'[t].at = call[t].at /\ call'[t].then = call[t].then
                \/ /\ step[t] = "relocate" /\ step'[t] = "moveObject"
                   /\ call'[t].row.path = call[t].from
                \/ step[t] = "removed" /\ step'[t] = "erase"
Rests(t) == Same(t) /\ lease' = lease /\ object' = object
Course(t) == \/ Ended(t) \/ Began(t) \/ Goes(t) \/ Concerned(t)
             \/ Arrives(t) \/ Leases(t) \/ Rests(t)

LEMMA LeaveCourse ==
    ASSUME Types, NEW t \in Threads, NEW r, Leave(t, r), r = "done" => Finished(t)
    PROVE  LeaseMoves(t) /\ Ended(t)
<1> DEFINE m == IF r = "done" THEN call[t].key ELSE None
<1>1. step'[t] = "idle" /\ call'[t] = [NoCall EXCEPT !.moved = m]
  BY DEF Leave, Goto, Types
<1> HIDE DEF m
<1>2. call'[t].key = None /\ call'[t].act = "none" /\ call'[t].moved = m
  BY <1>1 DEF NoCall
<1>3. m # None => r = "done"
  BY DEF m
<1> QED BY <1>1, <1>2, <1>3 DEF Leave, LeaseMoves, Ended

LEMMA FailCourse ==
    ASSUME Types, NEW t \in Threads, Fail(t) \/ Return(t, "failed")
    PROVE  LeaseMoves(t) /\ Course(t)
BY LeaveCourse DEF Fail, Return, Course

LEMMA SuccessCourse ==
    ASSUME Types, NEW t \in Threads, Succeed(t),
           \/ step[t] = "relocate" /\ Left(t) /\ object' = object
           \/ step[t] = "moveObject" /\ Moves(t)
           \/ step[t] = "write" /\ Observes(t)
           \/ step[t] \in {"removed", "erase"} \/ t = Intake
    PROVE  LeaseMoves(t) /\ Course(t)
<1>1. call'[t].moved = call[t].key
  BY DEF Succeed, Return, Leave, Types, NoCall
<1>2. Finished(t)
  BY <1>1 DEF Finished
<1> QED BY <1>2, LeaveCourse DEF Succeed, Return, Course

LEMMA RepositoryCourse ==
    ASSUME LeaseInv, NEW t \in Threads, Repository(t)
    PROVE  LeaseMoves(t) /\ Course(t)
<1>1. /\ Types /\ Call(call[t]) /\ CallAt(call[t], step[t]) /\ Knows(t) /\ Sources(t)
      /\ StoreInv /\ t # None
  BY CallFacts, FilesAssumption DEF LeaseInv, StoreInv, IInv
<1>2. CASE Fail(t) \/ Return(t, "failed")
  BY <1>1, <1>2, FailCourse
<1>3. CASE ObserveLook(t) /\ ~Fail(t)
  <2>1. /\ step'[t] = "write" /\ step[t] = "look" /\ object' = object
        /\ call'[t].at = call[t].at /\ call'[t].then = call[t].then /\ Carried(t)
        /\ lease' = t /\ lease \in {None, t}
    BY <1>1, <1>3 DEF ObserveLook, Goto, Types, Call, Carried
  <2> QED BY <2>1 DEF Course, Leases, LeaseMoves
<1>4. CASE ObserveWrite(t) /\ ~Fail(t) /\ ~Return(t, "failed")
  <2>1. Observes(t) /\ ObserveDone(t) /\ step[t] = "write"
    BY <1>1, <1>4, WriteObserves DEF ObserveWrite
  <2>2. CASE Succeed(t)
    BY <1>1, <2>1, <2>2, SuccessCourse
  <2>3. CASE ~Succeed(t)
    <3>1. /\ call[t].then # "done" /\ Goto(t, call[t].then) /\ lease' = None
          /\ call' = [call EXCEPT ![t].at = None, ![t].then = "idle", ![t].seen = None]
      BY <2>1, <2>3 DEF ObserveDone
    <3>2. step'[t] = call[t].then /\ Carried(t)
      BY <1>1, <3>1 DEF Goto, Types, Call, Carried
    <3>3. lease = t
      BY <1>1, <2>1 DEF Sources
    <3>4. call[t].then # "idle"
      BY <1>1, <2>1 DEF Sources
    <3> QED BY <1>1, <2>1, <3>1, <3>2, <3>3, <3>4 DEF Course, Goes, LeaseMoves, Call
  <2> QED BY <2>2, <2>3
<1>5. CASE RelocateLook(t) /\ ~Fail(t)
  <2>1. CASE Succeed(t) /\ LookupPath(call[t].from) = {} /\ object' = object
    BY <1>1, <1>5, <2>1, SuccessCourse DEF RelocateLook, Left
  <2>2. CASE ~(Succeed(t) /\ LookupPath(call[t].from) = {} /\ object' = object)
    <3>1. PICK k \in LookupPath(call[t].from) : call' = [call EXCEPT ![t].row = Row(k)]
      BY <1>5, <2>2 DEF RelocateLook
    <3>2. /\ step[t] = "relocate" /\ step'[t] = "moveObject" /\ object' = object
          /\ call'[t].row = Row(k) /\ Row(k).path = call[t].from
          /\ Carried(t) /\ lease' = t /\ lease \in {None, t}
      BY <1>1, <1>5, <2>2, <3>1 DEF RelocateLook, Goto, Types, Call, Carried, LookupPath, Row
    <3> QED BY <3>2 DEF Course, Leases, LeaseMoves
  <2> QED BY <2>1, <2>2
<1>6. CASE RemovedLook(t) /\ ~Fail(t)
  <2>1. CASE Succeed(t)
    <3>1. step[t] = "removed" /\ call[t].act = "remove"
      BY <1>1, <1>6 DEF RemovedLook, CallAt
    <3> QED BY <1>1, <2>1, <3>1, SuccessCourse
  <2>2. CASE ~Succeed(t)
    <3>1. PICK k \in LookupPath(call[t].from) : call' = [call EXCEPT ![t].row = Row(k)]
      BY <1>6, <2>2 DEF RemovedLook
    <3>2. /\ step[t] = "removed" /\ step'[t] = "erase" /\ object' = object
          /\ Carried(t) /\ lease' = t /\ lease \in {None, t}
      BY <1>1, <1>6, <2>2, <3>1 DEF RemovedLook, Goto, Types, Call, Carried
    <3> QED BY <3>2 DEF Course, Leases, LeaseMoves
  <2> QED BY <2>1, <2>2
<1>7. CASE MoveObject(t) /\ ~Fail(t)
  <2>1. Moves(t) /\ step[t] = "moveObject"
    BY <1>1, <1>7, MoveMoves DEF MoveObject
  <2>2. CASE Succeed(t)
    BY <1>1, <2>1, <2>2, SuccessCourse
  <2>3. CASE /\ Goto(t, "look") /\ lease' = lease
             /\ call' = [call EXCEPT ![t].at = call[t].to, ![t].then = "done"]
    <3>1. /\ step'[t] = "look" /\ Carried(t)
          /\ call'[t].at = call[t].to /\ call'[t].then = "done"
      BY <1>1, <2>3 DEF Goto, Types, Call, Carried
    <3> QED BY <2>1, <2>3, <3>1 DEF Course, Arrives, LeaseMoves
  <2> QED BY <1>1, <1>7, <2>2, <2>3, MoveMoves
<1>8. CASE RemovedErase(t) /\ ~Fail(t)
  BY <1>1, <1>8, SuccessCourse DEF RemovedErase
<1> QED BY <1>2, <1>3, <1>4, <1>5, <1>6, <1>7, <1>8 DEF Repository, LeaseTimeout

\* A step that is neither of the repository nor a return: what it keeps of the call.
LEMMA GoesCourse ==
    ASSUME Types, NEW t \in Threads, NEW s, Goto(t, s), call' = call, lease' = lease,
           step[t] # "idle" \/ t = Intake,
           s \notin {"idle", "look", "write", "moveObject", "erase"}
    PROVE  LeaseMoves(t) /\ Course(t)
<1>1. step'[t] = s
  BY DEF Goto, Types
<1> QED BY <1>1 DEF LeaseMoves, Course, Goes, Carried

LEMMA ReconcileCourse ==
    ASSUME LeaseInv, Reconcile
    PROVE  LeaseMoves(Intake) /\ Course(Intake)
<1>1. /\ Types /\ Call(call[Intake]) /\ Intake \in Threads /\ Sources(Intake)
  BY CallFacts DEF LeaseInv, StoreInv, IInv, Threads
<1>2. CASE Fail(Intake)
  BY <1>1, <1>2, FailCourse
<1>3. CASE Succeed(Intake)
  BY <1>1, <1>3, SuccessCourse
<1>4. CASE ReconcileBegin
  BY <1>1, <1>4, GoesCourse DEF ReconcileBegin
<1>5. CASE Walk
  <2>1. PICK p \in (IF todo \cap Deleted # {} THEN todo \cap Deleted ELSE todo) :
           \/ UNCHANGED <<step, call>>
           \/ /\ call' = [call EXCEPT ![Intake].at = p, ![Intake].then = "walk"]
              /\ Goto(Intake, "look")
    BY <1>5 DEF Walk
  <2>2. lease' = lease /\ object' = object
    BY <1>5 DEF Walk
  <2>3. CASE UNCHANGED <<step, call>>
    BY <2>2, <2>3 DEF Course, Rests, Same, LeaseMoves
  <2>4. CASE call' = [call EXCEPT ![Intake].at = p, ![Intake].then = "walk"] /\ Goto(Intake, "look")
    <3>1. step'[Intake] = "look" /\ call'[Intake].then = "walk" /\ Carried(Intake)
      BY <1>1, <2>4 DEF Goto, Types, Call, Carried
    <3>2. call[Intake].key = None
      BY <1>1 DEF Sources
    <3> QED BY <2>2, <3>1, <3>2 DEF Course, Goes, LeaseMoves
  <2> QED BY <2>1, <2>3, <2>4
<1>6. CASE ReadIndex
  BY <1>1, <1>6, GoesCourse DEF ReadIndex
<1>7. CASE SweepLook
  <2>1. PICK row \in page :
           \/ UNCHANGED <<step, call>>
           \/ /\ call' = [call EXCEPT ![Intake].row = row]
              /\ Goto(Intake, "doom")
    BY <1>7 DEF SweepLook
  <2>2. lease' = lease /\ object' = object
    BY <1>7 DEF SweepLook
  <2>3. CASE UNCHANGED <<step, call>>
    BY <2>2, <2>3 DEF Course, Rests, Same, LeaseMoves
  <2>4. CASE call' = [call EXCEPT ![Intake].row = row] /\ Goto(Intake, "doom")
    <3>1. step'[Intake] = "doom" /\ Carried(Intake)
      BY <1>1, <2>4 DEF Goto, Types, Call, Carried
    <3> QED BY <2>2, <3>1 DEF Course, Goes, LeaseMoves
  <2> QED BY <2>1, <2>3, <2>4
<1>8. CASE SweepErase /\ ~Fail(Intake)
  <2>1. step'[Intake] = "sweep" /\ Carried(Intake) /\ lease' = lease
    BY <1>1, <1>8 DEF SweepErase, Goto, Types, Call, Carried
  <2> QED BY <2>1 DEF Course, Goes, LeaseMoves
<1> QED BY <1>1, <1>2, <1>3, <1>4, <1>5, <1>6, <1>7, <1>8, RepositoryCourse
        DEF Reconcile, ReconcileEnd, SweepErase

LEMMA BeginCourse ==
    ASSUME Types, NEW t \in Callers, NEW act, NEW from, NEW to, NEW at, NEW then, NEW first,
           Begin(t, act, from, to, at, then, first),
           first \notin {"idle", "write", "moveObject", "erase"}, then # "idle",
           act \in {"move", "trash"} => from # to
    PROVE  LeaseMoves(t) /\ Course(t)
<1>1. t \in Threads
  BY DEF Threads
<1>2. call'[t] = [NoCall EXCEPT !.act = act, !.from = from, !.to = to, !.at = at, !.then = then]
  BY <1>1 DEF Begin, Types
<1>3. /\ step'[t] = first /\ lease' = lease
      /\ call'[t].act = act /\ call'[t].from = from /\ call'[t].to = to /\ call'[t].then = then
      /\ call'[t].key = None /\ call'[t].moved = None
  BY <1>1, <1>2 DEF Begin, Goto, Types, NoCall
<1> QED BY <1>3 DEF Course, Began, LeaseMoves

LEMMA ConcernedCourse ==
    ASSUME Types, NEW t \in Threads, Call(call[t]), NEW s \in {"relocate", "show"}, Goto(t, s),
           Concerns(t), step[t] # "idle", call[t].act \in {"move", "trash"}, lease' = lease
    PROVE  LeaseMoves(t) /\ Course(t)
<1>1. step'[t] = s
  BY DEF Goto, Types
<1>2. PICK k : k \in Keys \cup {None} /\ call' = [call EXCEPT ![t].key = k]
  BY DEF Concerns, LookupPath
<1>3. /\ call'[t].act = call[t].act /\ call'[t].from = call[t].from /\ call'[t].to = call[t].to
      /\ call'[t].moved = call[t].moved /\ call'[t].key = k
  BY <1>2 DEF Types, Call
<1> QED BY <1>1, <1>2, <1>3 DEF Course, Concerned, LeaseMoves

LEMMA PerformCourse ==
    ASSUME LeaseInv, NEW t \in Callers, Perform(t)
    PROVE  LeaseMoves(t) /\ Course(t)
<1>1. Types /\ Call(call[t]) /\ CallAt(call[t], step[t]) /\ t \in Threads /\ Sources(t)
  BY CallFacts DEF LeaseInv, StoreInv, IInv, Threads
<1>2. ASSUME NEW p \in Places, NEW q \in Places,
             BeginMove(t, p, q) \/ BeginDuplicate(t, p, q) \/ BeginTrash(t, p, q)
      PROVE  LeaseMoves(t) /\ Course(t)
  <2>1. CASE BeginMove(t, p, q)
    BY <1>1, <2>1, BeginCourse DEF BeginMove
  <2>2. CASE BeginDuplicate(t, p, q)
    BY <1>1, <2>2, BeginCourse DEF BeginDuplicate
  <2>3. CASE BeginTrash(t, p, q)
    BY <1>1, <2>3, BeginCourse DEF BeginTrash
  <2> QED BY <1>2, <2>1, <2>2, <2>3
<1>3. ASSUME NEW p \in Places,
             BeginImport(t, p) \/ BeginGenerated(t, p) \/ BeginRemove(t, p) \/ BeginRecord(t, p)
      PROVE  LeaseMoves(t) /\ Course(t)
  BY <1>1, <1>3, BeginCourse DEF BeginImport, BeginGenerated, BeginRemove, BeginRecord
<1>4. CASE Fail(t)
  BY <1>1, <1>4, FailCourse
<1>5. ASSUME Show(t), call[t].act \notin {"move", "trash"}, step[t] # "idle"
      PROVE  LeaseMoves(t) /\ Course(t)
  <2>1. /\ step'[t] = "look" /\ call'[t].then = "done" /\ Carried(t) /\ lease' = lease
    BY <1>1, <1>5 DEF Show, Goto, Types, Call, Carried
  <2>2. call[t].key = None
    BY <1>1, <1>5 DEF Sources
  <2> QED BY <1>5, <2>1, <2>2 DEF Course, Goes, LeaseMoves
<1>6. CASE Stage(t) /\ ~Fail(t)
  BY <1>1, <1>6, GoesCourse DEF Stage
<1>7. CASE (Publish(t) \/ PublishGenerated(t)) /\ ~Fail(t)
  <2>1. CASE Show(t)
    <3>1. call[t].act \in {"move", "copy", "import", "generated"}
      BY <1>1, <1>7 DEF Publish, PublishGenerated, CallAt
    <3>2. step[t] = "publish" /\ (call[t].act # "move" \/ (Concerns(t) /\ Goto(t, "relocate")))
      BY <1>7 DEF Publish, PublishGenerated
    <3>3. CASE call[t].act # "move"
      BY <1>5, <2>1, <3>1, <3>2, <3>3
    <3>4. CASE call[t].act = "move"
      BY <1>1, <2>1, <3>2, <3>4, ConcernedCourse DEF Show
    <3> QED BY <3>3, <3>4
  <2>2. CASE Concerns(t) /\ Goto(t, "relocate") /\ call[t].act = "move" /\ lease' = lease /\ step[t] = "publish"
    BY <1>1, <2>2, ConcernedCourse
  <2> QED BY <1>7, <2>1, <2>2 DEF Publish, PublishGenerated
<1>8. CASE Unlink(t) /\ ~Fail(t)
  BY <1>1, <1>8, GoesCourse DEF Unlink
<1>9. CASE Trash(t) /\ ~Fail(t)
  <2>1. /\ step[t] = "trash" /\ lease' = lease
        /\ (Goto(t, "relocate") /\ Concerns(t)) \/ (Goto(t, "hide") /\ call' = call)
    BY <1>9 DEF Trash
  <2>2. call[t].act = "trash"
    BY <1>1, <2>1 DEF CallAt
  <2> QED BY <1>1, <2>1, <2>2, GoesCourse, ConcernedCourse
<1>10. CASE TrashHide(t) /\ ~Fail(t)
  <2>1. step[t] = "hide" /\ lease' = lease /\ Goto(t, "show") /\ Concerns(t)
    BY <1>10 DEF TrashHide
  <2>2. call[t].act = "trash"
    BY <1>1, <2>1 DEF CallAt
  <2> QED BY <1>1, <2>1, <2>2, ConcernedCourse
<1>11. CASE TrashShow(t)
  <2>1. CASE Goto(t, "forget") /\ call' = call /\ lease' = lease /\ step[t] = "show"
    BY <1>1, <2>1, GoesCourse
  <2>2. CASE Leave(t, "failed")
    BY <1>1, <2>2, LeaveCourse DEF Course
  <2> QED BY <1>11, <2>1, <2>2 DEF TrashShow
<1>12. CASE TrashForget(t)
  BY <1>1, <1>12, GoesCourse DEF TrashForget
<1> QED BY <1>1, <1>2, <1>3, <1>4, <1>6, <1>7, <1>8, <1>9, <1>10, <1>11, <1>12,
        RepositoryCourse DEF Perform

LEMMA NextCourse ==
    ASSUME LeaseInv, Next
    PROVE  \E t \in Threads : Only(t) /\ LeaseMoves(t) /\ Course(t)
<1>1. Intake \in Threads /\ Callers \subseteq Threads /\ Types /\ StoreInv
  BY DEF Threads, LeaseInv, StoreInv, IInv
<1>2. CASE User
  BY <1>1, <1>2 DEF User, Only, Same, Rests, LeaseMoves, Course
<1>3. ASSUME NEW t \in Threads, Crash(t) PROVE Only(t) /\ LeaseMoves(t) /\ Course(t)
  BY <1>1, <1>3, ReturnMoment, LeaveCourse DEF Crash, Course
<1>4. CASE Reconcile
  BY <1>1, <1>4, ReconcileMoment, ReconcileCourse
<1>5. ASSUME NEW t \in Callers, Perform(t) PROVE Only(t) /\ LeaseMoves(t) /\ Course(t)
  BY <1>1, <1>5, PerformMoment, PerformCourse
<1> QED BY <1>1, <1>2, <1>3, <1>4, <1>5 DEF Next

\* What has left the source of a move is not put back while the lease is held.
LEMMA LeftStays ==
    ASSUME LeaseInv, Next, NEW u \in Threads, step[u] \in {"look", "write"}, call[u].key # None,
           NEW p, p = call[u].from
    PROVE  LookupPath(p)' = {}
<1>1. /\ lease = u /\ call[u].at = call[u].to /\ LookupPath(p) = {} /\ call[u].from # call[u].to
      /\ StoreInv
  BY DEF LeaseInv, Sources, Left
<1>2. \A k \in Keys : ~(Live(k) /\ object[k].path = p)
  BY <1>1 DEF LookupPath
<1>3. \A t \in Threads : step[t] \in {"write", "moveObject", "erase"} => t = u
  BY <1>1 DEF LeaseInv, Sources
<1>4. ASSUME NEW t \in Threads, Observes(t)
      PROVE  \A k \in Keys : ~(object'[k].state = "live" /\ object'[k].path = p)
  <2>1. t = u /\ call[t].at # p
    BY <1>1, <1>3, <1>4 DEF Observes
  <2>2. PICK k \in Keys, new \in Object :
           Written(t, k, new) /\ object' = [object EXCEPT ![k] = new]
    BY <1>4 DEF Observes
  <2>3. object'[k] = new /\ (\A j \in Keys : j # k => object'[j] = object[j])
    BY <1>1, <1>4, <2>2, ObservesObject DEF Observes
  <2> QED BY <1>2, <2>1, <2>2, <2>3 DEF Written, Live
<1>5. ASSUME NEW t \in Threads, Moves(t) PROVE FALSE
  BY <1>3, <1>5 DEF Moves
<1>6. ASSUME NEW t \in Threads, Erases(t)
      PROVE  \A k \in Keys : ~(object'[k].state = "live" /\ object'[k].path = p)
  BY <1>1, <1>2, <1>6, ErasesObject DEF Live
<1>7. \A k \in Keys : ~(object'[k].state = "live" /\ object'[k].path = p)
  BY <1>1, <1>2, <1>4, <1>5, <1>6, NextChanges DEF Live
<1> QED BY <1>7 DEF LookupPath, Live

\* A move of the object leaves nothing at the source.
LEMMA MovesLeave ==
    ASSUME LeaseInv, NEW t \in Threads, Moves(t), NEW p, p = call[t].from
    PROVE  \A k \in Keys : ~(object'[k].state = "live" /\ object'[k].path = p)
<1>1. /\ call[t].row.path = p /\ call[t].act \in {"move", "trash"} /\ call[t].to # p /\ StoreInv
  BY CallFacts DEF LeaseInv, StoreInv, Sources, Moves, CallAt
<1> DEFINE k == call[t].row.key
<1>2. /\ k \in Keys /\ Live(k) /\ Gone(call[t].row) /\ object'[k].path = call[t].to /\ ObjectInv
      /\ \A j \in Keys : j # k => object'[j] = object[j]
  BY <1>1, MovesObject
<1>3. object[k].path = p
  BY <1>1, <1>2 DEF Gone, Fresh, Moves
<1> HIDE DEF k
<1>4. \A j \in Keys : Live(j) /\ object[j].path = p => j = k
  BY <1>2, <1>3 DEF ObjectInv, UniquePath
<1> QED BY <1>1, <1>2, <1>4 DEF Live

\* The thread that goes on.
LEMMA SourcesOfActor ==
    ASSUME LeaseInv, Next, NEW t \in Threads, Course(t), LeaseMoves(t)
    PROVE  Sources(t)'
<1>1. Sources(t) /\ StoreInv /\ Intake \notin Callers
  BY FilesAssumption DEF LeaseInv
<1>2. CASE Ended(t)
  BY <1>1, <1>2 DEF Ended, Finished, Sources
<1>3. CASE Began(t)
  BY <1>1, <1>3 DEF Began, Sources
<1>4. CASE Goes(t)
  BY <1>1, <1>4 DEF Goes, Carried, Sources
<1>5. CASE Concerned(t)
  BY <1>1, <1>5 DEF Concerned, Sources
<1>6. CASE Arrives(t)
  <2>1. LookupPath(call[t].from)' = {}
    <3>1. \E p : p = call'[t].from /\ \A k \in Keys : ~(object'[k].state = "live" /\ object'[k].path = p)
      BY <1>6, MovesLeave DEF Arrives, Carried
    <3> QED BY <3>1 DEF LookupPath, Live
  <2> QED BY <1>1, <1>6, <2>1 DEF Arrives, Carried, Sources, Left
<1>7. CASE Leases(t)
  <2>1. Left(t) => LookupPath(call[t].from)' = {}
    BY <1>7 DEF Leases, Carried, Left, LookupPath, Live
  <2> QED BY <1>1, <1>7, <2>1 DEF Leases, Carried, Sources, Left
<1>8. CASE Rests(t)
  <2>1. Left(t) => LookupPath(call[t].from)' = {}
    BY <1>8 DEF Rests, Same, Left, LookupPath, Live
  <2> QED BY <1>1, <1>8, <2>1 DEF Rests, Same, Sources, Left
<1> QED BY <1>2, <1>3, <1>4, <1>5, <1>6, <1>7, <1>8 DEF Course

LEMMA SourcesOfOthers ==
    ASSUME LeaseInv, Next, NEW t \in Threads, LeaseMoves(t),
           NEW u \in Threads, u # t, Same(u)
    PROVE  Sources(u)'
<1>1. Sources(u) /\ u # None
  BY FilesAssumption DEF LeaseInv
<1>2. lease = u => lease' = u
  BY <1>1 DEF LeaseMoves
<1>3. step[u] \in {"look", "write"} /\ call[u].key # None => LookupPath(call[u].from)' = {}
  <2>1. step[u] \in {"look", "write"} /\ call[u].key # None
          => \E p : p = call'[u].from /\ LookupPath(p)' = {}
    BY LeftStays DEF Same
  <2> QED BY <2>1 DEF LookupPath, Live
<1> QED BY <1>1, <1>2, <1>3 DEF Same, Sources, Left

LEMMA LeaseInit == Init => LeaseInv
<1> SUFFICES ASSUME Init PROVE LeaseInv
  OBVIOUS
<1>1. step = [t \in Threads |-> "idle"] /\ call = [t \in Threads |-> NoCall]
  BY DEF Init
<1>2. \A t \in Threads : Sources(t)
  BY <1>1 DEF Sources, NoCall
<1> QED BY <1>2, StoreInit DEF LeaseInv

LEMMA LeaseNext == LeaseInv /\ [Next]_vars => LeaseInv'
<1>1. ASSUME LeaseInv, Next PROVE LeaseInv'
  <2>1. StoreInv'
    BY <1>1, StoreNext DEF LeaseInv
  <2>2. PICK t \in Threads : Only(t) /\ LeaseMoves(t) /\ Course(t)
    BY <1>1, NextCourse
  <2>3. \A u \in Threads : Sources(u)'
    BY <1>1, <2>2, SourcesOfActor, SourcesOfOthers DEF Only, Same
  <2> QED BY <2>1, <2>3 DEF LeaseInv
<1>2. ASSUME LeaseInv, UNCHANGED vars PROVE LeaseInv'
  <2>1. StoreInv'
    BY <1>2, StoreNext DEF LeaseInv
  <2>2. UNCHANGED <<object, lease, step, call>>
    BY <1>2 DEF vars
  <2>3. \A u \in Threads : Sources(u)'
    BY <1>2, <2>2 DEF LeaseInv, Sources, Left, LookupPath, Live
  <2> QED BY <2>1, <2>3 DEF LeaseInv
<1> QED BY <1>1, <1>2

(* Who changes the store in a call of perform holds the lease "operations",
   and keeps it until the object of a move has left its old path. *)
THEOREM LeaseInvariance == Spec => []LeaseInv
<1> QED BY LeaseInit, LeaseNext, PTL DEF Spec

(* relocated: a move that reports success has taken the object from the path
   that it left, whoever else has found the file first. *)
THEOREM ObjectLeavesSourceAlways == Spec => ObjectLeavesSource
<1>1. ASSUME LeaseInv, Next, NEW u \in Callers, Ends(u), object'[call[u].key].state = "live"
      PROVE  object'[call[u].key].path # call[u].from
  <2>1. u \in Threads /\ Sources(u) /\ StoreInv /\ u # Intake
    BY <1>1, FilesAssumption DEF Threads, LeaseInv
  <2>2. PICK t \in Threads : Only(t) /\ LeaseMoves(t) /\ Course(t)
    BY <1>1, NextCourse
  <2>3. /\ call[u].key \in Keys /\ step[u] # "idle" /\ call[u].moved = None
        /\ call'[u].moved = call[u].key /\ call'[u].moved # None
    BY <1>1, <2>1 DEF Ends, Sources
  <2>4. t = u
    BY <2>1, <2>2, <2>3 DEF Only
  <2>5. Ended(u)
    BY <2>2, <2>3, <2>4 DEF Course, Began, Goes, Concerned, Arrives, Leases, Carried, Rests, Same
  <2>6. Finished(u)
    BY <2>3, <2>5 DEF Ended
  <2>7. CASE step[u] = "relocate" /\ Left(u) /\ object' = object
    BY <1>1, <2>3, <2>7 DEF Left, LookupPath, Live
  <2>8. CASE Moves(u)
    BY <1>1, <2>1, <2>3, <2>8, MovesLeave
  <2>9. CASE step[u] = "write"
    <3>1. \A p : p = call[u].from => LookupPath(p)' = {}
      BY <1>1, <2>1, <2>3, <2>9, LeftStays
    <3>2. \A p : p = call[u].from =>
             \A k \in Keys : ~(object'[k].state = "live" /\ object'[k].path = p)
      BY <3>1 DEF LookupPath, Live
    <3> QED BY <1>1, <2>3, <3>2
  <2>10. CASE step[u] \in {"removed", "erase"}
    BY <2>1, <2>3, <2>10, CallFacts DEF StoreInv, CallAt, Sources
  <2> QED BY <2>1, <2>6, <2>7, <2>8, <2>9, <2>10 DEF Finished
<1>2. LeaseInv /\ [Next]_vars =>
        [\A t \in Callers :
            Ends(t) /\ object'[call[t].key].state = "live"
               => object'[call[t].key].path # call[t].from]_vars
  BY <1>1
<1> QED BY <1>2, LeaseInvariance, PTL DEF Spec, ObjectLeavesSource

---------------------------------------------------------------------------
(* An intake that is alone: what it has walked is recorded, and what is    *)
(* not there is still on its page.                                         *)

Told(p) == file[p] # None => \E k \in LookupPath(p) : object[k].stamp = Stamp(file[p])
Missing(k) == Live(k) /\ file[object[k].path] = None
Observing(p) == step[Intake] \in {"look", "write"} /\ call[Intake].at = p
Alone ==
    /\ step[Intake] \in {"walk", "look", "write", "sweep", "doom"}
    /\ step[Intake] \in {"look", "write"} => call[Intake].then = "walk"
    /\ step[Intake] = "write" => call[Intake].seen = file[call[Intake].at]
    /\ step[Intake] \in {"sweep", "doom"} => todo = {}
    /\ \A p \in Places \ todo : Observing(p) \/ Told(p)
    /\ step[Intake] = "sweep" => \A k \in Keys : Missing(k) => Row(k) \in page
    /\ step[Intake] = "doom" =>
         \A k \in Keys : Missing(k) => Row(k) \in page \cup {call[Intake].row}
CalmInv == StoreInv /\ (calm => Alone)

\* While files and objects stay, so does what they say of each other.
LEMMA ToldStays ==
    ASSUME UNCHANGED <<file, object>>
    PROVE  /\ \A p : Told(p)' <=> Told(p)
           /\ \A k : Missing(k)' <=> Missing(k)
           /\ \A k : Row(k)' = Row(k)
<1>1. \A p : LookupPath(p)' = LookupPath(p)
  BY DEF LookupPath, Live
<1>2. \A k : Row(k)' = Row(k)
  BY DEF Row
<1>3. \A p : Told(p)' <=> Told(p)
  BY <1>1 DEF Told, Stamp
<1>4. \A k : Missing(k)' <=> Missing(k)
  BY DEF Missing, Live
<1> QED BY <1>2, <1>3, <1>4

LEMMA WriteTells ==
    ASSUME CalmInv, calm, ObserveWrite(Intake), todo' = todo, step'[Intake] # "idle"
    PROVE  Alone'
<1>1. /\ Intake \in Threads /\ StoreInv /\ Types /\ Alone /\ Call(call[Intake])
      /\ step[Intake] = "write"
  BY CallFacts DEF Threads, CalmInv, StoreInv, IInv, ObserveWrite
<1>2. ASSUME NEW r, Leave(Intake, r) PROVE FALSE
  BY <1>1, <1>2 DEF Leave, Goto, Types
<1>3. Observes(Intake) /\ ObserveDone(Intake)
  BY <1>1, <1>2, WriteObserves DEF Fail, Return
<1> DEFINE p == call[Intake].at
<1>4. call[Intake].then = "walk" /\ call[Intake].seen = file[p]
  BY <1>1 DEF Alone
<1>5. step'[Intake] = "walk" /\ file' = file
  BY <1>1, <1>3, <1>4 DEF ObserveDone, Goto, Types, native
<1>6. PICK k \in Keys, new \in Object :
           Written(Intake, k, new) /\ object' = [object EXCEPT ![k] = new]
  BY <1>3 DEF Observes
<1>7. /\ object'[k] = new /\ (\A j \in Keys : j # k => object'[j] = object[j]) /\ p \in Places
  BY <1>1, <1>6, ObservesObject
<1>8. new.state = "live" /\ new.path = p /\ new.stamp = Stamp(file[p])
  BY <1>4, <1>6 DEF Written
<1> HIDE DEF p
<1>9. ASSUME NEW q \in Places \ todo PROVE Told(q)'
  <2>1. CASE q = p
    <3>1. k \in LookupPath(q)' /\ object'[k].stamp = Stamp(file[q])'
      BY <1>5, <1>7, <1>8, <2>1 DEF LookupPath, Live, Stamp
    <3> QED BY <3>1 DEF Told
  <2>2. CASE q # p /\ file[q] # None
    <3>1. PICK j \in LookupPath(q) : object[j].stamp = Stamp(file[q])
      BY <1>1, <1>9, <2>2 DEF Alone, Observing, Told, p
    <3>2. j # k
      BY <1>6, <2>2, <3>1 DEF Written, LookupPath, Live, p
    <3>3. j \in LookupPath(q)' /\ object'[j].stamp = Stamp(file[q])'
      BY <1>5, <1>7, <3>1, <3>2 DEF LookupPath, Live, Stamp
    <3> QED BY <3>3 DEF Told
  <2>3. CASE file[q] = None
    BY <1>5, <2>3 DEF Told
  <2> QED BY <2>1, <2>2, <2>3
<1> QED BY <1>5, <1>9 DEF Alone

\* What the intake tombstones has no file that it could have recorded.
LEMMA EraseTells ==
    ASSUME CalmInv, calm, SweepErase, step'[Intake] # "idle"
    PROVE  Alone'
<1>1. /\ Intake \in Threads /\ StoreInv /\ Types /\ Alone /\ Call(call[Intake])
      /\ step[Intake] = "doom"
  BY CallFacts DEF Threads, CalmInv, StoreInv, IInv, SweepErase
<1>2. ASSUME Fail(Intake) PROVE FALSE
  BY <1>1, <1>2 DEF Fail, Return, Leave, Goto, Types
<1>3. /\ Erases(Intake) /\ step'[Intake] = "sweep" /\ file' = file
      /\ page' = page /\ todo' = todo
  BY <1>1, <1>2 DEF SweepErase, Erases, Goto, Types, native, Shared, scan
<1> DEFINE row == call[Intake].row
           k == row.key
<1>4. /\ k \in Keys /\ Gone(row) /\ Current(row) /\ object'[k].state = "tombstone"
      /\ \A j \in Keys : j # k => object'[j] = object[j]
  BY <1>1, <1>3, ErasesObject DEF Erases
<1>5. Nowhere(object[k].stamp)
  BY <1>4 DEF Gone
<1> HIDE DEF row
<1>6. ASSUME NEW q \in Places PROVE Told(q)'
  <2>1. CASE file[q] # None
    <3>1. PICK j \in LookupPath(q) : object[j].stamp = Stamp(file[q])
      BY <1>1, <1>6, <2>1 DEF Alone, Observing, Told
    <3>2. j # k
      BY <1>5, <1>6, <2>1, <3>1 DEF Nowhere
    <3>3. j \in LookupPath(q)' /\ object'[j].stamp = Stamp(file[q])'
      BY <1>3, <1>4, <3>1, <3>2 DEF LookupPath, Live, Stamp
    <3> QED BY <3>3 DEF Told
  <2>2. CASE file[q] = None
    BY <1>3, <2>2 DEF Told
  <2> QED BY <2>1, <2>2
<1>7. ASSUME NEW j \in Keys, Missing(j)' PROVE Row(j)' \in page
  <2>1. object'[j].state = "live"
    BY <1>7 DEF Missing, Live
  <2>2. j # k /\ object'[j] = object[j]
    BY <1>4, <2>1
  <2>3. Missing(j) /\ Row(j)' = Row(j) /\ Row(j).key = j
    BY <1>3, <1>7, <2>2 DEF Missing, Live, Row
  <2>4. Row(j) \in page \cup {row}
    BY <1>1, <2>3 DEF Alone, row
  <2> QED BY <2>2, <2>3, <2>4
<1> QED BY <1>1, <1>3, <1>6, <1>7 DEF Alone

LEMMA ReconcileAlone ==
    ASSUME CalmInv, Reconcile, calm'
    PROVE  Alone'
<1>1. Intake \in Threads /\ StoreInv /\ Types /\ step'[Intake] # "idle"
  BY DEF Threads, CalmInv, StoreInv, IInv, Reconcile
<1>2. ASSUME NEW r, Leave(Intake, r) PROVE FALSE
  BY <1>1, <1>2 DEF Leave, Goto, Types
<1>3. ~Fail(Intake) /\ ~Succeed(Intake) /\ ~Return(Intake, "failed")
  BY <1>2 DEF Fail, Succeed, Return
<1>4. CASE step[Intake] = "idle"
  <2>1. ReconcileBegin
    BY <1>3, <1>4 DEF Reconcile, Walk, ReadIndex, SweepLook, SweepErase, ReconcileEnd, Repository,
       LeaseTimeout, ObserveLook, ObserveWrite, RelocateLook, MoveObject, RemovedLook, RemovedErase
  <2>2. step'[Intake] = "walk" /\ todo' = Places
    BY <1>1, <2>1 DEF ReconcileBegin, Goto, Types
  <2> QED BY <2>2 DEF Alone
<1>5. ASSUME calm PROVE Alone'
  <2>1. Alone /\ Call(call[Intake])
    BY <1>1, <1>5, CallFacts DEF CalmInv, StoreInv
  <2>2. CASE Walk
    <3>1. PICK p \in (IF todo \cap Deleted # {} THEN todo \cap Deleted ELSE todo) :
             /\ todo' = todo \ {p}
             /\ \/ file[p] = None /\ UNCHANGED <<step, call>>
                \/ /\ file[p] # None
                   /\ call' = [call EXCEPT ![Intake].at = p, ![Intake].then = "walk"]
                   /\ Goto(Intake, "look")
      BY <2>2 DEF Walk
    <3>2. UNCHANGED <<file, object>> /\ step[Intake] = "walk" /\ p \in todo
      BY <2>2, <3>1 DEF Walk, native
    <3>3. \A q \in Places \ todo : Told(q)'
      BY <2>1, <3>2, ToldStays DEF Alone, Observing
    <3>4. CASE file[p] = None /\ UNCHANGED <<step, call>>
      <4>1. Told(p)'
        BY <3>2, <3>4, ToldStays DEF Told
      <4> QED BY <3>1, <3>2, <3>3, <3>4, <4>1 DEF Alone
    <3>5. CASE /\ call' = [call EXCEPT ![Intake].at = p, ![Intake].then = "walk"]
               /\ Goto(Intake, "look")
      <4>1. step'[Intake] = "look" /\ call'[Intake].at = p /\ call'[Intake].then = "walk"
        BY <1>1, <2>1, <3>5 DEF Goto, Types, Call
      <4>2. \A q \in Places \ todo' : Observing(q)' \/ Told(q)'
        BY <3>1, <3>3, <4>1 DEF Observing
      <4> QED BY <4>1, <4>2 DEF Alone
    <3> QED BY <3>1, <3>4, <3>5
  <2>3. CASE ReadIndex
    <3>1. /\ UNCHANGED <<file, object, todo>> /\ todo = {} /\ page' = Index
          /\ step[Intake] = "walk" /\ step'[Intake] = "sweep"
      BY <1>1, <2>3 DEF ReadIndex, native, Goto, Types
    <3>2. \A q \in Places : Told(q)'
      BY <2>1, <3>1, ToldStays DEF Alone, Observing
    <3>3. \A k \in Keys : Missing(k)' => Row(k)' \in page'
      BY <3>1, ToldStays DEF Index, Missing
    <3> QED BY <3>1, <3>2, <3>3 DEF Alone
  <2>4. CASE SweepLook
    <3>1. PICK row \in page :
             /\ page' = page \ {row}
             /\ \/ file[row.path] # None /\ UNCHANGED <<step, call>>
                \/ /\ file[row.path] = None
                   /\ call' = [call EXCEPT ![Intake].row = row]
                   /\ Goto(Intake, "doom")
      BY <2>4 DEF SweepLook
    <3>2. UNCHANGED <<file, object, todo>> /\ step[Intake] = "sweep"
      BY <2>4 DEF SweepLook, native
    <3>3. todo = {} /\ \A q \in Places : Told(q)'
      BY <2>1, <3>2, ToldStays DEF Alone, Observing
    <3>4. \A k \in Keys : Missing(k)' => Row(k)' = Row(k) /\ Row(k) \in page /\ file[Row(k).path] = None
      BY <2>1, <3>2, ToldStays DEF Alone, Missing, Row
    <3>5. CASE file[row.path] # None /\ UNCHANGED <<step, call>>
      BY <3>1, <3>2, <3>3, <3>4, <3>5 DEF Alone
    <3>6. CASE call' = [call EXCEPT ![Intake].row = row] /\ Goto(Intake, "doom")
      <4>1. step'[Intake] = "doom" /\ call'[Intake].row = row
        BY <1>1, <2>1, <3>6 DEF Goto, Types, Call
      <4> QED BY <3>1, <3>2, <3>3, <3>4, <4>1 DEF Alone
    <3> QED BY <3>1, <3>5, <3>6
  <2>5. CASE ObserveLook(Intake) /\ UNCHANGED Shared
    <3>1. /\ UNCHANGED <<file, object, todo>> /\ step[Intake] = "look" /\ step'[Intake] = "write"
          /\ call'[Intake].at = call[Intake].at /\ call'[Intake].then = call[Intake].then
          /\ call'[Intake].seen = file[call[Intake].at]
      BY <1>1, <1>3, <2>1, <2>5 DEF ObserveLook, native, Goto, Types, Call, Shared, scan
    <3>2. \A q \in Places \ todo' : Observing(q)' \/ Told(q)'
      BY <2>1, <3>1, ToldStays DEF Alone, Observing
    <3> QED BY <2>1, <3>1, <3>2 DEF Alone
  <2>6. CASE ObserveWrite(Intake) /\ UNCHANGED Shared
    BY <1>1, <1>5, <2>6, WriteTells DEF Shared, scan
  <2>7. CASE SweepErase
    BY <1>1, <1>5, <2>7, EraseTells
  <2>8. ~ReconcileBegin
    BY <2>1 DEF ReconcileBegin, Alone
  <2>9. ~RelocateLook(Intake) /\ ~MoveObject(Intake) /\ ~RemovedLook(Intake) /\ ~RemovedErase(Intake)
    BY <2>1 DEF RelocateLook, MoveObject, RemovedLook, RemovedErase, Alone
  <2> QED BY <1>3, <2>2, <2>3, <2>4, <2>5, <2>6, <2>7, <2>8, <2>9
          DEF Reconcile, ReconcileEnd, Repository, LeaseTimeout
<1> QED BY <1>4, <1>5 DEF Reconcile

LEMMA CalmNext == CalmInv /\ [Next]_vars => CalmInv'
<1>1. ASSUME CalmInv, [Next]_vars PROVE StoreInv'
  BY <1>1, StoreNext DEF CalmInv
<1>2. ASSUME CalmInv, Next, calm' PROVE Alone'
  BY <1>2, ReconcileAlone DEF Next
<1>3. ASSUME CalmInv, UNCHANGED vars, calm' PROVE Alone'
  <2>1. UNCHANGED <<file, object, step, call, page, todo, calm>>
    BY <1>3 DEF vars, native, scan
  <2>2. Alone
    BY <1>3, <2>1 DEF CalmInv
  <2> QED BY <2>1, <2>2, ToldStays DEF Alone, Observing
<1> QED BY <1>1, <1>2, <1>3 DEF CalmInv

LEMMA AloneIsComplete == CalmInv => IntakeComplete
<1> SUFFICES ASSUME CalmInv, calm, step[Intake] = "sweep", page = {}, NEW p \in Places
             PROVE  IF file[p] = None THEN LookupPath(p) = {}
                    ELSE \E k \in LookupPath(p) : object[k].stamp = Stamp(file[p])
  BY DEF IntakeComplete
<1>1. Told(p) /\ \A k \in Keys : ~Missing(k)
  BY DEF CalmInv, Alone, Observing
<1> QED BY <1>1 DEF Told, Missing, LookupPath

(* reconcile: an intake that nobody has disturbed and that has not failed has
   recorded every file as it is, and left no object without one. *)
THEOREM IntakeCompleteAlways == Spec => []IntakeComplete
<1>1. Init => CalmInv
  BY StoreInit DEF CalmInv, Init
<1> QED BY <1>1, CalmNext, AloneIsComplete, PTL DEF Spec

---------------------------------------------------------------------------
(* Types: every counter keeps its bound, a document that is alive has been *)
(* given a number, and a call never goes on to a step that there is not.   *)

\* How a call goes on once observe has recorded its file.
Continues(t) == /\ step[t] \in Steps
                /\ step[t] \in {"look", "write"}
                      => call[t].then \in {"publish", "stage", "done", "walk"}
\* There is no document 0: neither alive nor in a file.
Counted == 0 \notin docs /\ ~Document(0)
Bounds ==
    /\ lock \in Callers \cup {None} /\ lease \in Threads \cup {None}
    /\ nodes \in Nodes /\ calls \in 0 .. MaxCalls /\ events \in 0 .. MaxEvents
    /\ calm \in BOOLEAN
TypeInv == StoreInv /\ Counted /\ Bounds /\ \A t \in Threads : Continues(t)

LEMMA TypeInit == Init => TypeInv
<1> SUFFICES ASSUME Init PROVE TypeInv
  OBVIOUS
<1>1. PICK q \in Files : file = [p \in Places |-> IF p = q THEN NewFile(1, 1) ELSE None]
  BY DEF Init
<1>2. \A s \in Slots : In(s) # None => In(s).doc = 1
  BY <1>1, InSlots DEF Init, NoHidden, NewFile
<1>3. Counted
  BY <1>2 DEF Counted, Document, Init
<1>4. Bounds
  <2>1. lock = None /\ lease = None /\ nodes = 1 /\ calls = 0 /\ events = 0 /\ calm = FALSE
    BY DEF Init
  <2>2. 1 \in Nodes /\ 0 \in 0 .. MaxCalls /\ 0 \in 0 .. MaxEvents
    BY FilesAssumption DEF Nodes
  <2> QED BY <2>1, <2>2 DEF Bounds
<1>5. \A t \in Threads : Continues(t)
  BY DEF Continues, Init, Steps
<1> QED BY <1>3, <1>4, <1>5, StoreInit DEF TypeInv

\* What becomes a document has been a file.
LEMMA DocumentsAreFiles ==
    ASSUME IInv, Next PROVE \A d \in docs' : d \in docs \/ Document(d)
<1>1. Types /\ Intake \in Threads /\ Callers \subseteq Threads
  BY DEF IInv, Threads
<1>2. CASE docs' \subseteq docs
  BY <1>2
<1>3. ASSUME NEW t \in Threads, step[t] = "publish", call[t].act # "move", Show(t)
      PROVE  \A d \in docs' : d \in docs \/ Document(d)
  <2>1. hidden[t].staged \in File
    BY <1>3 DEF IInv, Staged, Pending
  <2>2. Document(hidden[t].staged.doc)
    BY <2>1, InSlots, NewFiles DEF Document
  <2> QED BY <1>3, <2>2 DEF Show
<1>4. ASSUME NEW t \in Threads, Fail(t) \/ Succeed(t) \/ Return(t, "failed")
      PROVE  docs' = docs
  BY <1>4 DEF Fail, Succeed, Return
<1>5. ASSUME NEW t \in Threads, Repository(t) PROVE docs' = docs
  BY <1>4, <1>5 DEF Repository, LeaseTimeout, ObserveLook, ObserveWrite, ObserveDone,
         RelocateLook, MoveObject, RemovedLook, RemovedErase, native
<1>6. CASE Reconcile
  BY <1>1, <1>2, <1>4, <1>5, <1>6 DEF Reconcile, ReconcileBegin, Walk, ReadIndex, SweepLook,
         SweepErase, ReconcileEnd, native
<1>7. ASSUME NEW t \in Callers, Perform(t)
      PROVE  \A d \in docs' : d \in docs \/ Document(d)
  <2>1. CASE UNCHANGED native
    BY <2>1 DEF native
  <2>2. CASE Fail(t)
    BY <1>1, <1>4, <2>2
  <2>3. CASE (Publish(t) \/ PublishGenerated(t)) /\ ~Fail(t)
    BY <1>1, <1>3, <2>3 DEF Publish, PublishGenerated
  <2>4. CASE (Stage(t) \/ Unlink(t) \/ Trash(t) \/ TrashHide(t) \/ TrashShow(t) \/ TrashForget(t))
             /\ ~Fail(t)
    BY <1>2, <2>4 DEF Stage, Unlink, Lost, Trash, TrashHide, TrashShow, TrashForget
  <2> QED BY <1>1, <1>5, <1>7, <2>1, <2>2, <2>3, <2>4
      DEF Perform, BeginMove, BeginDuplicate, BeginTrash, BeginImport, BeginGenerated,
          BeginRemove, BeginRecord, Begin
<1>8. CASE User
  BY <1>2, <1>8 DEF User, UserMove, UserEdit, UserSave, UserDelete, Lost
<1>9. ASSUME NEW t \in Threads, Crash(t) PROVE docs' = docs
  BY <1>9 DEF Crash
<1> QED BY <1>6, <1>7, <1>8, <1>9 DEF Next

LEMMA CountedNext ==
    ASSUME TypeInv, Next PROVE Counted'
<1>1. IInv /\ SlotTypes /\ nodes \in Nat /\ 0 \notin docs /\ ~Document(0)
  BY SlotsTyped DEF TypeInv, StoreInv, IInv, Types, Counted
<1>2. Flow
  BY <1>1, NextFlows
<1>3. ASSUME NEW s \in Slots, Stays(s) PROVE In(s)' # None => In(s)'.doc # 0
  BY <1>1, <1>3 DEF Stays, Document
<1>4. ASSUME NEW o \in Slots, NEW s \in Slots, Transfer(o, s)
      PROVE  \A x \in Slots : In(x)' # None => In(x)'.doc # 0
  <2>1. In(o) \in File /\ In(o).doc # 0
    BY <1>1, <1>4 DEF Transfer, SlotTypes, Document
  <2>2. In(s)'.doc # 0
    BY <1>4, <2>1, NewFiles DEF Transfer
  <2> QED BY <1>3, <1>4, <2>2 DEF Transfer
<1>5. ASSUME NEW s \in Slots, Arrival(s)
      PROVE  \A x \in Slots : In(x)' # None => In(x)'.doc # 0
  <2>1. nodes' # 0 /\ nodes' \in Nat
    BY <1>1, <1>5 DEF Arrival
  <2>2. In(s)'.doc # 0
    BY <1>1, <1>5, <2>1, NewFiles DEF Arrival
  <2> QED BY <1>3, <1>5, <2>2 DEF Arrival
<1>6. \A x \in Slots : In(x)' # None => In(x)'.doc # 0
  BY <1>2, <1>3, <1>4, <1>5 DEF Flow, Quietly
<1>7. ~Document(0)'
  BY <1>6 DEF Document
<1>8. 0 \notin docs'
  BY <1>1, DocumentsAreFiles
<1> QED BY <1>7, <1>8 DEF Counted

---------------------------------------------------------------------------
\* Every step is one that there is.
LEMMA LeaveContinues ==
    ASSUME Types, NEW t \in Threads, NEW r, Leave(t, r) PROVE Continues(t)'
<1>1. step'[t] = "idle"
  BY DEF Leave, Goto, Types
<1> QED BY <1>1 DEF Continues, Steps

LEMMA FailContinues ==
    ASSUME Types, NEW t \in Threads, Fail(t) \/ Succeed(t) \/ Return(t, "failed")
    PROVE  Continues(t)'
BY LeaveContinues DEF Fail, Succeed, Return

LEMMA GoesContinues ==
    ASSUME Types, NEW t \in Threads, NEW s \in Steps \ {"look", "write"}, Goto(t, s)
    PROVE  Continues(t)'
<1>1. step'[t] = s
  BY DEF Goto, Types
<1> QED BY <1>1 DEF Continues

LEMMA LooksContinues ==
    ASSUME Types, NEW t \in Threads, NEW s \in {"look", "write"}, Goto(t, s),
           call'[t].then \in {"publish", "stage", "done", "walk"}
    PROVE  Continues(t)'
<1>1. step'[t] = s
  BY DEF Goto, Types
<1> QED BY <1>1 DEF Continues, Steps

LEMMA RepositoryContinues ==
    ASSUME Types, NEW t \in Threads, Continues(t), Call(call[t]), Repository(t)
    PROVE  Continues(t)'
<1>1. CASE Fail(t) \/ Succeed(t) \/ Return(t, "failed")
  BY <1>1, FailContinues
<1>2. CASE ObserveLook(t) /\ ~Fail(t)
  <2>1. step[t] = "look" /\ Goto(t, "write") /\ call' = [call EXCEPT ![t].seen = file[call[t].at]]
    BY <1>2 DEF ObserveLook
  <2>2. call'[t].then = call[t].then
    BY <2>1 DEF Types, Call
  <2> QED BY <2>1, <2>2, LooksContinues DEF Continues
<1>3. CASE ObserveWrite(t) /\ ObserveDone(t) /\ ~Succeed(t)
  <2>1. step[t] = "write" /\ Goto(t, call[t].then) /\ call[t].then # "done"
    BY <1>3 DEF ObserveWrite, ObserveDone
  <2>2. call[t].then \in {"publish", "stage", "walk"}
    BY <2>1 DEF Continues
  <2> QED BY <2>1, <2>2, GoesContinues DEF Steps
<1>4. CASE Goto(t, "moveObject") \/ Goto(t, "erase")
  BY <1>4, GoesContinues DEF Steps
<1>5. CASE MoveObject(t) /\ ~Fail(t) /\ ~Succeed(t)
  <2>1. Goto(t, "look") /\ call' = [call EXCEPT ![t].at = call[t].to, ![t].then = "done"]
    BY <1>5 DEF MoveObject
  <2>2. call'[t].then = "done"
    BY <2>1 DEF Types, Call
  <2> QED BY <2>1, <2>2, LooksContinues
<1>6. CASE ObserveWrite(t)
  BY <1>1, <1>3, <1>6 DEF ObserveWrite, ObserveDone
<1> QED BY <1>1, <1>2, <1>4, <1>5, <1>6 DEF Repository, LeaseTimeout, RelocateLook, RemovedLook,
        RemovedErase

LEMMA ReconcileContinues ==
    ASSUME Types, Continues(Intake), Call(call[Intake]), Reconcile
    PROVE  Continues(Intake)'
<1>1. Intake \in Threads
  BY DEF Threads
<1>2. CASE Fail(Intake) \/ Succeed(Intake)
  BY <1>1, <1>2, FailContinues
<1>3. CASE \E s \in {"walk", "sweep", "doom"} : Goto(Intake, s)
  BY <1>1, <1>3, GoesContinues DEF Steps
<1>4. CASE UNCHANGED <<step, call>>
  BY <1>4 DEF Continues
<1>5. ASSUME NEW p, Goto(Intake, "look"),
             call' = [call EXCEPT ![Intake].at = p, ![Intake].then = "walk"]
      PROVE  Continues(Intake)'
  <2>1. call'[Intake].then = "walk"
    BY <1>1, <1>5 DEF Types, Call
  <2> QED BY <1>1, <1>5, <2>1, LooksContinues
<1>6. CASE Walk
  BY <1>4, <1>5, <1>6 DEF Walk
<1>7. CASE SweepLook
  BY <1>3, <1>4, <1>7 DEF SweepLook
<1>8. CASE SweepErase
  BY <1>2, <1>3, <1>8 DEF SweepErase
<1> QED BY <1>1, <1>2, <1>3, <1>6, <1>7, <1>8, RepositoryContinues
        DEF Reconcile, ReconcileBegin, ReadIndex, ReconcileEnd

LEMMA PerformContinues ==
    ASSUME Types, NEW t \in Callers, Continues(t), Call(call[t]), Perform(t)
    PROVE  Continues(t)'
<1>1. t \in Threads
  BY DEF Threads
<1>2. ASSUME NEW act, NEW from, NEW to, NEW at, NEW then, NEW first,
             Begin(t, act, from, to, at, then, first), first \in Steps \ {"write"},
             first = "look" => then \in {"publish", "stage", "done"}
      PROVE  Continues(t)'
  <2>1. step'[t] = first /\ call'[t].then = then
    BY <1>1, <1>2 DEF Begin, Goto, Types, NoCall
  <2> QED BY <1>2, <2>1 DEF Continues
<1>3. ASSUME NEW p \in Places, NEW q \in Places,
             BeginMove(t, p, q) \/ BeginDuplicate(t, p, q) \/ BeginTrash(t, p, q)
      PROVE  Continues(t)'
  BY <1>2, <1>3 DEF BeginMove, BeginDuplicate, BeginTrash, Steps
<1>4. ASSUME NEW p \in Places,
             BeginImport(t, p) \/ BeginGenerated(t, p) \/ BeginRemove(t, p) \/ BeginRecord(t, p)
      PROVE  Continues(t)'
  BY <1>2, <1>4 DEF BeginImport, BeginGenerated, BeginRemove, BeginRecord, Steps
<1>5. CASE Fail(t) \/ Leave(t, "failed")
  BY <1>1, <1>5, FailContinues, LeaveContinues
<1>6. CASE \E s \in {"publish", "relocate", "hide", "show", "forget", "removed"} : Goto(t, s)
  BY <1>1, <1>6, GoesContinues DEF Steps
<1>7. CASE Show(t)
  <2>1. call'[t].then = "done" /\ Goto(t, "look")
    BY <1>1, <1>7 DEF Show, Types, Call
  <2> QED BY <1>1, <2>1, LooksContinues
<1> QED BY <1>1, <1>3, <1>4, <1>5, <1>6, <1>7, RepositoryContinues
        DEF Perform, Stage, Publish, PublishGenerated, Unlink, Trash, TrashHide, TrashShow, TrashForget

LEMMA StepsContinue ==
    ASSUME TypeInv, Next PROVE \A t \in Threads : Continues(t)'
<1>1. /\ Types /\ StoreInv /\ IInv
      /\ \A t \in Threads : Continues(t) /\ Call(call[t])
  BY CallFacts DEF TypeInv, StoreInv, IInv
<1>2. PICK t \in Threads : Only(t) /\ Acts(t)
  BY <1>1, NextActs
<1>3. ASSUME NEW u \in Threads, step'[u] = step[u], call'[u] = call[u] PROVE Continues(u)'
  BY <1>1, <1>3 DEF Continues
<1>4. CASE User
  BY <1>3, <1>4 DEF User
<1>5. ASSUME ~User PROVE Continues(t)'
  BY <1>1, <1>2, <1>5, ReconcileContinues, PerformContinues, LeaveContinues DEF Acts, Crash
<1> QED BY <1>2, <1>3, <1>4, <1>5 DEF Only

---------------------------------------------------------------------------
\* The locks are nobody's or a thread's, and a guard is before every count.
Counts == /\ nodes' = nodes \/ (nodes < MaxNodes /\ nodes' = nodes + 1)
          /\ calls' = calls \/ (calls < MaxCalls /\ calls' = calls + 1)
          /\ events' = events \/ (events < MaxEvents /\ events' = events + 1)
Locks == /\ lock' \in Callers \cup {lock, None}
         /\ lease' \in Threads \cup {lease, None}

LEMMA FailCounts ==
    ASSUME NEW t \in Threads, Fail(t) \/ Succeed(t) \/ Return(t, "failed")
    PROVE  nodes' = nodes /\ Locks
BY DEF Fail, Succeed, Return, Leave, Locks

LEMMA RepositoryCounts ==
    ASSUME NEW t \in Threads, Repository(t) PROVE Counts /\ Locks
<1>1. calls' = calls /\ (events' = events \/ (events < MaxEvents /\ events' = events + 1))
  BY DEF Repository, ObserveWrite, Shared
<1>2. CASE Fail(t) \/ Succeed(t) \/ Return(t, "failed")
  BY <1>1, <1>2, FailCounts DEF Counts
<1>3. CASE UNCHANGED <<native, lock>> /\ lease' \in {t, None, lease}
  BY <1>1, <1>3 DEF Counts, Locks, native
<1> QED BY <1>2, <1>3 DEF Repository, LeaseTimeout, ObserveLook, ObserveWrite, ObserveDone,
        RelocateLook, MoveObject, RemovedLook, RemovedErase

LEMMA NextCounts == Next => Counts /\ Locks
<1>1. Intake \in Threads /\ Callers \subseteq Threads
  BY DEF Threads
<1>2. ASSUME NEW t \in Threads, Fail(t) \/ Succeed(t), UNCHANGED <<calls, events>>
      PROVE  Counts /\ Locks
  BY <1>2, FailCounts DEF Counts
<1>3. CASE UNCHANGED <<native, lock, lease, calls, events>>
  BY <1>3 DEF Counts, Locks, native
<1>4. CASE Reconcile
  BY <1>1, <1>2, <1>3, <1>4, RepositoryCounts DEF Reconcile, ReconcileBegin, Walk, ReadIndex,
         SweepLook, SweepErase, ReconcileEnd, Shared
<1>5. ASSUME NEW t \in Callers, Perform(t) PROVE Counts /\ Locks
  <2>1. CASE UNCHANGED <<native, lock, lease, events>> /\ calls < MaxCalls /\ calls' = calls + 1
    BY <2>1 DEF Counts, Locks, native
  <2>2. CASE Repository(t)
    BY <1>1, <2>2, RepositoryCounts
  <2>3. ASSUME Stage(t) \/ Publish(t) \/ PublishGenerated(t) \/ Unlink(t) \/ Trash(t)
                 \/ TrashHide(t) \/ TrashShow(t) \/ TrashForget(t),
               UNCHANGED <<Shared, events>>
        PROVE  Counts /\ Locks
    <3>1. UNCHANGED <<calls, events>>
      BY <2>3 DEF Shared
    <3>2. CASE Fail(t)
      BY <1>1, <1>2, <3>1, <3>2
    <3>3. CASE nodes' = nodes \/ (nodes < MaxNodes /\ nodes' = nodes + 1)
      <4>1. Locks
        BY <1>1, <2>3, FailCounts DEF Locks, Stage, Publish, PublishGenerated, Show, Unlink, Trash,
             TrashHide, TrashShow, TrashForget, Leave
      <4> QED BY <3>1, <3>3, <4>1 DEF Counts
    <3> QED BY <2>3, <3>2, <3>3 DEF Stage, Publish, PublishGenerated, Show, Unlink, Trash,
             TrashHide, TrashShow, TrashForget
  <2> QED BY <1>5, <2>1, <2>2, <2>3
      DEF Perform, BeginMove, BeginDuplicate, BeginTrash, BeginImport, BeginGenerated,
          BeginRemove, BeginRecord, Begin, scan
<1>6. CASE User
  BY <1>6 DEF User, Event, UserMove, UserEdit, UserSave, UserDelete, Counts, Locks, Shared
<1>7. ASSUME NEW t \in Threads, Crash(t) PROVE Counts /\ Locks
  BY <1>7 DEF Crash, Event, Leave, Counts, Locks, Shared
<1> QED BY <1>4, <1>5, <1>6, <1>7 DEF Next

LEMMA BoundsNext ==
    ASSUME TypeInv, Next PROVE Bounds'
<1>1. /\ nodes \in Nat /\ MaxNodes \in Nat /\ MaxCalls \in Nat /\ MaxEvents \in Nat /\ Bounds
  BY FilesAssumption DEF TypeInv, StoreInv, IInv, Types
<1>2. Counts /\ Locks
  BY NextCounts
<1>3. calm' \in BOOLEAN
  BY <1>1 DEF Next, Reconcile
<1>4. /\ nodes' \in Nodes /\ calls' \in 0 .. MaxCalls /\ events' \in 0 .. MaxEvents
  BY <1>1, <1>2 DEF Bounds, Counts, Nodes
<1> QED BY <1>1, <1>2, <1>3, <1>4 DEF Bounds, Locks

LEMMA TypeNext == TypeInv /\ [Next]_vars => TypeInv'
<1>1. ASSUME TypeInv, Next PROVE TypeInv'
  BY <1>1, CountedNext, BoundsNext, StepsContinue, StoreNext DEF TypeInv
<1>2. ASSUME TypeInv, UNCHANGED vars PROVE TypeInv'
  <2>1. StoreInv'
    BY <1>2, StoreNext DEF TypeInv
  <2>2. UNCHANGED <<file, hidden, docs, nodes, lock, lease, step, call, calls, events, calm>>
    BY <1>2 DEF vars, native
  <2> QED BY <1>2, <2>1, <2>2 DEF TypeInv, Counted, Document, In, Bounds, Continues
<1> QED BY <1>1, <1>2

LEMMA TypeFollows == TypeInv => TypeOK
<1> SUFFICES ASSUME TypeInv PROVE TypeOK
  OBVIOUS
<1>1. Types /\ ObjectInv /\ Counted /\ Bounds /\ todo \subseteq Places
  BY DEF TypeInv, StoreInv, IInv
<1>2. \A d \in docs : d \in Nat /\ d # 0 /\ d <= nodes
  BY <1>1 DEF Types, Counted, TypeInv, StoreInv, IInv, Numbered, Known
<1>4. docs \subseteq Nodes
  BY <1>1, <1>2, FilesAssumption DEF Bounds, Nodes
<1>5. step \in [Threads -> Steps]
  BY <1>1 DEF TypeInv, Continues, Types
<1> QED BY <1>1, <1>4, <1>5 DEF TypeOK, Types, Hidden, Bounds, ObjectInv, Object

(* Every variable stays in its type, for any places, threads and bounds. *)
THEOREM TypeCorrect == Spec => []TypeOK
<1> QED BY TypeInit, TypeNext, TypeFollows, PTL DEF Spec
=============================================================================
