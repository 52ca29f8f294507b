--------------------------- MODULE PreviewWorkers ---------------------------
(***************************************************************************)
(* The pool of threads that makes previews, and the image responses that   *)
(* queue for it: cancelled, outdated, still queued when the application    *)
(* shuts down.  What load returns is PreviewCache's: an image of the       *)
(* revision it found, or none.                                             *)
(***************************************************************************)
EXTENDS Naturals, SequencesExt

CONSTANTS
    Pool,        \* threads of Workers
    Responses,   \* image responses
    None,
    MaxRevision  \* bound: revisions of the file

VARIABLES
    source,    \* the revision of the file, which stands for its thumbnailUrl
    queue,     \* jobs of the pool
    response,  \* each response
    job,       \* the response each worker runs and its position, or NoJob
    stopping,  \* Workers::stopping
    asleep,    \* workers that wait for the condition variable
    exited     \* workers that have returned

vars == <<source, queue, response, job, stopping, asleep, exited>>

NoResponse == [step |-> "none", id |-> None, cancelled |-> FALSE, image |-> None]
NoJob == [of |-> None, step |-> "none", image |-> None]

\* notify_one wakes one of the workers that wait; who wakes looks again.
Wake(some) == asleep' = asleep \ some
NotifyOne == IF asleep = {} THEN Wake({}) ELSE \E t \in asleep : Wake({t})

\* The view asks for the url it has: the file may be a later revision by now.
Ask(r, id) ==
    /\ ~stopping /\ response[r] = NoResponse /\ id <= source
    /\ response' = [response EXCEPT ![r].step = "queued", ![r].id = id]
    /\ queue' = Append(queue, r)
    /\ NotifyOne
    /\ UNCHANGED <<source, job, stopping, exited>>

Cancel(r) ==
    /\ response[r].step = "queued" /\ ~response[r].cancelled
    /\ response' = [response EXCEPT ![r].cancelled = TRUE]
    /\ UNCHANGED <<source, queue, job, stopping, asleep, exited>>

\* A mutant of Leaves.
LeavesAtOnce == stopping
Leaves == stopping /\ queue = <<>>

\* Under the mutex: leave, wait, or take the first job.
Look(t) ==
    /\ job[t] = NoJob /\ t \notin asleep \cup exited
    /\ \/ Leaves /\ exited' = exited \cup {t} /\ UNCHANGED <<queue, asleep, job>>
       \/ ~stopping /\ queue = <<>> /\ asleep' = asleep \cup {t}
          /\ UNCHANGED <<queue, exited, job>>
       \/ /\ ~Leaves /\ queue # <<>>
          /\ queue' = Tail(queue)
          /\ job' = [job EXCEPT ![t] = [NoJob EXCEPT !.of = Head(queue), !.step = "check"]]
          /\ UNCHANGED <<asleep, exited>>
    /\ UNCHANGED <<source, response, stopping>>

At(t, step) == job[t].step = step
Goto(t, step, image) ==
    /\ job' = [job EXCEPT ![t].step = step, ![t].image = image]
    /\ UNCHANGED <<source, queue, response, stopping, asleep, exited>>

\* A response for an earlier revision stays empty; load asks for the url again.
Check(t) ==
    /\ At(t, "check")
    /\ LET r == response[job[t].of] IN
       Goto(t, IF ~r.cancelled /\ r.id = source THEN "load" ELSE "done", None)
LoadPreview(t) == At(t, "load") /\ \E image \in {None, source} : Goto(t, "done", image)

\* Whether there is an image or not.
Deliver(t) ==
    /\ At(t, "done")
    /\ response' = [response EXCEPT ![job[t].of].step = "finished",
                                    ![job[t].of].image = job[t].image]
    /\ job' = [job EXCEPT ![t] = NoJob]
    /\ UNCHANGED <<source, queue, stopping, asleep, exited>>

\* shutdown wakes all workers and joins them.
Shutdown ==
    /\ ~stopping /\ stopping' = TRUE /\ Wake(asleep)
    /\ UNCHANGED <<source, queue, response, job, exited>>

Edit ==
    /\ source < MaxRevision /\ source' = source + 1
    /\ UNCHANGED <<queue, response, job, stopping, asleep, exited>>

Init ==
    /\ source = 1
    /\ queue = <<>> /\ response = [r \in Responses |-> NoResponse]
    /\ job = [t \in Pool |-> NoJob]
    /\ stopping = FALSE /\ asleep = {} /\ exited = {}

Work(t) == Look(t) \/ Check(t) \/ LoadPreview(t) \/ Deliver(t)
Next ==
    \/ \E t \in Pool : Work(t)
    \/ \E r \in Responses, id \in 1 .. MaxRevision : Ask(r, id)
    \/ \E r \in Responses : Cancel(r)
    \/ Shutdown \/ Edit

Spec == Init /\ [][Next]_vars

\* The threads of the pool run.
Fairness == \A t \in Pool : WF_vars(Work(t))

---------------------------------------------------------------------------
(* Every response finishes, cancelled or not, and the join of shutdown returns:
   no worker sleeps through the last job or the end, and none leaves a job
   behind. *)
PoolDrains ==
    /\ \A r \in Responses : response[r].step = "queued" ~> response[r].step = "finished"
    /\ stopping ~> exited = Pool
=============================================================================
