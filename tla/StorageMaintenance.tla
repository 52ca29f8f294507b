--------------------------- MODULE StorageMaintenance ---------------------------
(***************************************************************************)
(* The Monitor of StorageMaintenance.cpp: a registry of roots that every   *)
(* opened SocietyDrive adds itself to, and one worker thread that scans    *)
(* the roots that are due and sleeps until the next one is.  It runs beside *)
(* the maintenance tool, whose process scans on its own.                   *)
(*                                                                         *)
(* Time is counted in steps: an interval is Interval ticks, a moment is    *)
(* the number of ticks until it comes.                                     *)
(***************************************************************************)
EXTENDS MaintenanceScan

CONSTANTS
    Monitor,    \* the scanner that is the worker thread
    Limit,      \* 128 in the code
    Interval    \* ticks between two scans of a root

ASSUME MonitorAssumption ==
    /\ Monitor \in Scanners
    /\ Limit \in Nat \ {0}
    /\ Interval \in Nat \ {0}
    /\ IsFiniteSet(Roots)

VARIABLES
    registrations,  \* root |-> its identifier and the time of its next scan
    worker,         \* the worker thread
    stopping,       \* the process is in its normal shutdown
    adding          \* callers of add that have found their root valid

monitorVars == <<registrations, worker, stopping, adding>>
vars == <<scanVars, monitorVars>>

Unregistered == [id |-> NoValue, next |-> 0]

\* worker.changed is revision # previous: it matters while the thread waits.
TypeOK ==
    /\ ScanTypeOK
    /\ registrations \in [Roots -> {Unregistered} \cup [id : Ids, next : 0..Interval]]
    /\ worker \in [pc : {"none", "deciding", "scanning", "waiting", "ended"},
                   due : SUBSET (Roots \X Ids), deadline : 0..Interval, changed : BOOLEAN]
    /\ stopping \in BOOLEAN
    /\ adding \in SUBSET (Roots \X Ids)

Init ==
    /\ ScanInit
    /\ registrations = [r \in Roots |-> Unregistered]
    /\ worker = [pc |-> "none", due |-> {}, deadline |-> 0, changed |-> FALSE]
    /\ stopping = FALSE
    /\ adding = {}

Registered == {r \in Roots : registrations[r] # Unregistered}

-----------------------------------------------------------------------------
(* add *)

\* Opening a drive calls add with the identifier it has read; an invalid root
\* is refused here, before the mutex is taken.
Add(r, i) ==
    /\ ~stopping
    /\ validRoot(r, i)
    /\ <<r, i>> \notin adding
    /\ Happens
    /\ adding' = adding \cup {<<r, i>>}
    /\ UNCHANGED <<identifier, files, newest, lease, writer, scan,
                   registrations, worker, stopping>>

\* A mutant: the revision is not counted up.
RegisterQuietly(r, i, kept) ==
    /\ registrations' = [x \in Roots |->
                           IF x = r THEN [id |-> i, next |-> 0]
                           ELSE IF x \in kept THEN registrations[x] ELSE Unregistered]
    /\ worker' = [worker EXCEPT !.pc = IF @ = "none" THEN "deciding" ELSE @]

\* A registration is due at once; the thread is started or woken.
Register(r, i, kept) ==
    /\ registrations' = [x \in Roots |->
                           IF x = r THEN [id |-> i, next |-> 0]
                           ELSE IF x \in kept THEN registrations[x] ELSE Unregistered]
    /\ worker' = [worker EXCEPT !.pc = IF @ = "none" THEN "deciding" ELSE @,
                                !.changed = TRUE]

\* A mutant: a full registry is emptied.
KeptNone == IF Cardinality(Registered) >= Limit THEN {} ELSE Registered

\* What is left of a full registry: stale roots go before another is refused.
Kept ==
    IF Cardinality(Registered) >= Limit
    THEN {x \in Registered : validRoot(x, registrations[x].id)}
    ELSE Registered

\* The same identifier again changes nothing; another one replaces it.
AddLocked(r, i) ==
    /\ <<r, i>> \in adding
    /\ adding' = adding \ {<<r, i>>}
    /\ \/ /\ registrations[r].id = i
          /\ UNCHANGED <<registrations, worker>>
       \/ /\ r \in Registered /\ registrations[r].id # i
          /\ Register(r, i, Registered)
       \/ /\ r \notin Registered
          /\ IF Cardinality(Kept) < Limit
             THEN Register(r, i, Kept)
             ELSE UNCHANGED <<registrations, worker>>
    /\ UNCHANGED <<scanVars, stopping>>

-----------------------------------------------------------------------------
(* work *)

Due == {r \in Registered : registrations[r].next = 0}

\* The registrations after those that are due have been put off.
PutOff == [r \in Roots |-> IF r \in Due THEN [registrations[r] EXCEPT !.next = Interval]
                                        ELSE registrations[r]]

Earliest(regs) ==
    CHOOSE t \in 0..Interval :
        /\ \E r \in Registered : regs[r].next = t
        /\ \A r \in Registered : regs[r].next >= t

\* A mutant: the loop does not ask whether it is to stop.
DecideUnstopped ==
    /\ worker.pc = "deciding"
    /\ registrations' = PutOff
    /\ worker' = [pc |-> IF Due # {} THEN "scanning" ELSE "waiting",
                  due |-> {<<r, registrations[r].id>> : r \in Due},
                  deadline |-> Earliest(PutOff),
                  changed |-> FALSE]
    /\ UNCHANGED <<scanVars, stopping, adding>>

\* One turn of the loop, under the mutex.
Decide ==
    /\ worker.pc = "deciding"
    /\ IF stopping
       THEN /\ worker' = [worker EXCEPT !.pc = "ended"]
            /\ UNCHANGED registrations
       ELSE /\ registrations' = PutOff
            /\ worker' = [pc |-> IF Due # {} THEN "scanning" ELSE "waiting",
                          due |-> {<<r, registrations[r].id>> : r \in Due},
                          deadline |-> Earliest(PutOff),
                          changed |-> FALSE]
    /\ UNCHANGED <<scanVars, stopping, adding>>

\* Without the mutex the due roots are scanned one after the other.
ScanDue ==
    /\ worker.pc = "scanning"
    /\ scan[Monitor].pc = "idle"
    /\ \/ \E p \in worker.due :
            /\ runOnce(Monitor, p[1], p[2])
            /\ worker' = [worker EXCEPT !.due = @ \ {p}]
       \/ /\ worker.due = {}
          /\ worker' = [worker EXCEPT !.pc = "deciding"]
          /\ UNCHANGED scan
    /\ UNCHANGED <<identifier, files, newest, lease, writer, events,
                   registrations, stopping, adding>>

\* A mutant: waits without the deadline.
WakeWhenNotified ==
    /\ worker.pc = "waiting"
    /\ stopping \/ worker.changed
    /\ worker' = [worker EXCEPT !.pc = "deciding"]
    /\ UNCHANGED <<scanVars, registrations, stopping, adding>>

\* wait_until: notified with its condition true, or the deadline has come.
Wake ==
    /\ worker.pc = "waiting"
    /\ stopping \/ worker.changed \/ worker.deadline = 0
    /\ worker' = [worker EXCEPT !.pc = "deciding"]
    /\ UNCHANGED <<scanVars, registrations, stopping, adding>>

\* Normal shutdown: no caller is inside add any more.
Stop ==
    /\ ~stopping
    /\ adding = {}
    /\ stopping' = TRUE
    /\ UNCHANGED <<scanVars, registrations, worker, adding>>

Sooner(t) == IF t = 0 THEN 0 ELSE t - 1

Tick ==
    /\ registrations' = [r \in Roots |-> [registrations[r] EXCEPT !.next = Sooner(@)]]
    /\ worker' = [worker EXCEPT !.deadline = Sooner(@)]
    /\ UNCHANGED <<scanVars, stopping, adding>>

-----------------------------------------------------------------------------
(* The maintenance tool: runOnce for whatever identifier it was given. *)

ToolRuns(s, r, i) ==
    /\ s # Monitor
    /\ scan[s].pc = "idle"
    /\ Happens
    /\ runOnce(s, r, i)
    /\ UNCHANGED <<identifier, files, newest, lease, writer, monitorVars>>

ToolCrash(s) == s # Monitor /\ ScannerCrash(s) /\ UNCHANGED monitorVars

ScanGoesOn(s) == ScanStep(s) /\ UNCHANGED monitorVars

Next ==
    \/ \E r \in Roots, i \in Ids :
         \/ Add(r, i)
         \/ AddLocked(r, i)
         \/ \E s \in Scanners : ToolRuns(s, r, i)
    \/ Decide \/ ScanDue \/ Wake \/ Stop \/ Tick
    \/ \E s \in Scanners : ScanGoesOn(s) \/ ToolCrash(s)
    \/ Surroundings /\ UNCHANGED monitorVars

Spec == Init /\ [][Next]_vars

\* Threads run, native locks are granted in time, and time passes.
Fairness ==
    /\ WF_vars(Decide) /\ WF_vars(ScanDue) /\ WF_vars(Wake) /\ WF_vars(Tick)
    /\ \A r \in Roots, i \in Ids : WF_vars(AddLocked(r, i))
    /\ \A s \in Scanners : WF_vars(ScanGoesOn(s))

FairSpec == Spec /\ Fairness

-----------------------------------------------------------------------------
(* Properties of the monitor *)

\* The thread never sleeps past a scan: when it waits and nobody has woken it,
\* no root is due before its deadline, although roots are added and renamed
\* between its decision and its waiting, and while it scans (Monitor::work).
NeverOversleeps ==
    worker.pc = "waiting" /\ ~worker.changed =>
        \A r \in Registered : registrations[r].next >= worker.deadline

\* Opening any number of drives keeps the registry within its bound
\* (Monitor::add).
RegistryBounded == Cardinality(Registered) <= Limit

\* Only a full registry of valid drives refuses a root, and no valid drive is
\* forgotten for another (Monitor::add).
ForgetsOnlyStale ==
    [][ /\ \A r \in Registered : validRoot(r, registrations[r].id) => r \in Registered'
        /\ \A p \in adding \ adding' : p[1] \notin Registered' =>
              /\ Cardinality(Registered') = Limit
              /\ \A r \in Registered' : validRoot(r, registrations[r].id) ]_vars

\* What crashed writers left in a registered drive goes: unless the drive or a
\* writer changes again, no temporary file and at most one log stay.
Maintained(r) == ~stopping /\ r \in Registered /\ validRoot(r, registrations[r].id)

Clean(r) ==
    /\ \A k \in Kinds \ {"workspaces"} : ~Candidates(<<r, k>>)
    /\ Doomed(<<r, "workspaces">>) = {}

AbandonedFilesGo ==
    \A r \in Roots :
        <>[](Maintained(r) /\ \A w \in Writers : writer[w].dir \notin {r} \X Kinds)
            => []<>Clean(r)

\* Shutdown joins the thread: it ends, whatever it was doing.
ShutdownEnds == stopping ~> worker.pc \in {"none", "ended"}
=============================================================================
