---------------------------- MODULE MaintenanceScan ----------------------------
(***************************************************************************)
(* One scan of StorageMaintenance.cpp over a Society directory, against    *)
(* the writers whose temporary files it must leave alone.                  *)
(*                                                                         *)
(* A directory is a root and a kind: "temporaries" stands for the          *)
(* directories that Scan::files cleans, "workspaces" for those of          *)
(* orphanJobs and snapshots, whose unknown contents preserve everything,   *)
(* "logs" for those of Scan::logs.  Writers hold a shared lease on the     *)
(* directory for as long as their file is temporary; a scan takes the      *)
(* exclusive one.  Scans run in several processes: the monitor of an       *)
(* application and the maintenance tool.                                   *)
(***************************************************************************)
EXTENDS Naturals, FiniteSets

CONSTANTS
    Roots,      \* directories that may be Society drives
    Ids,        \* drive identities (manifest identifier and native node)
    Owned,      \* file names in the temporary namespaces
    Foreign,    \* file names outside of them
    Writers,    \* lease-holding writers of any process
    Scanners,   \* those who run scans
    NoValue,    \* no identity, no file, no root
    OldLogs,    \* the logs that earlier processes have written
    MaxEvents   \* bound: what the surroundings do in one behaviour

ASSUME ScanAssumption ==
    /\ Owned \cap Foreign = {}
    /\ Writers \cap Scanners = {}
    /\ NoValue \notin Ids \cup Owned \cup Foreign \cup Roots
    /\ OldLogs \subseteq Owned
    /\ MaxEvents \in Nat

VARIABLES
    identifier, \* what validRoot recognises at each root
    files,      \* the regular files of each directory
    newest,     \* the log that was written last, in each root
    lease,      \* who holds the TemporaryLease of each directory
    writer,     \* the directory and the file of each writer
    scan,       \* the Scan of each scanner
    events      \* what the surroundings have done so far

scanVars == <<identifier, files, newest, lease, writer, scan, events>>

Order == <<"temporaries", "workspaces", "logs">>
Kinds == {"temporaries", "workspaces", "logs"}
Dirs  == Roots \X Kinds
Names == Owned \cup Foreign

NoWriter == [dir |-> NoValue, name |-> NoValue]
NoScan   == [pc |-> "idle", root |-> NoValue, id |-> NoValue, at |-> 1, todo |-> {}]
Running  == [pc : {"look", "lease", "check", "recheck", "unlink"}, root : Roots,
             id : Ids, at : 1..3, todo : SUBSET Names]

ScanTypeOK ==
    /\ identifier \in [Roots -> Ids \cup {NoValue}]
    /\ files \in [Dirs -> SUBSET Names]
    /\ newest \in [Roots -> Owned \cup {NoValue}]
    /\ lease \in [Dirs -> SUBSET (Writers \cup Scanners)]
    /\ writer \in [Writers -> {NoWriter} \cup [dir : Dirs, name : Owned \cup {NoValue}]]
    /\ scan \in [Scanners -> {NoScan} \cup Running]
    /\ events \in 0..MaxEvents

ScanInit ==
    /\ identifier \in [Roots -> Ids]
    /\ files = [d \in Dirs |-> IF d[2] = "logs" THEN OldLogs ELSE {}]
    /\ newest \in [Roots -> IF OldLogs = {} THEN {NoValue} ELSE OldLogs]
    /\ lease = [d \in Dirs |-> {}]
    /\ writer = [w \in Writers |-> NoWriter]
    /\ scan = [s \in Scanners |-> NoScan]
    /\ events = 0

Happens == events < MaxEvents /\ events' = events + 1

-----------------------------------------------------------------------------
(* Scan *)

Dir(s)   == <<scan[s].root, Order[scan[s].at]>>
validRoot(r, i) == identifier[r] = i
current(s) == validRoot(scan[s].root, scan[s].id)

\* What a policy finds worth a lease, and what it removes under the lease.
Candidates(d) ==
    CASE d[2] = "temporaries" -> files[d] \cap Owned # {}
      [] d[2] = "workspaces"  -> files[d] # {}
      [] d[2] = "logs"        -> Cardinality(files[d] \cap Owned) > 1

Doomed(d) ==
    CASE d[2] = "temporaries" -> files[d] \cap Owned
      [] d[2] = "workspaces"  -> IF files[d] \subseteq Owned THEN files[d] ELSE {}
      [] d[2] = "logs"        -> (files[d] \cap Owned) \ {newest[d[1]]}

\* The scan goes on with the next directory; after the last one it ends.
NextDirectory(s) ==
    scan' = [scan EXCEPT ![s] =
               IF scan[s].at = 3 THEN NoScan
               ELSE [scan[s] EXCEPT !.pc = "look", !.at = scan[s].at + 1, !.todo = {}]]

\* The files that are still to be removed from the directory.
Listed(s, names) == [scan[s] EXCEPT !.pc = "recheck", !.todo = names]

Release(s) == lease' = [lease EXCEPT ![Dir(s)] = @ \ {s}]

\* runOnce refuses a root that is not the drive it was called for.
runOnce(s, r, i) ==
    scan' = [scan EXCEPT ![s] =
               IF validRoot(r, i)
               THEN [pc |-> "look", root |-> r, id |-> i, at |-> 1, todo |-> {}]
               ELSE NoScan]

Look(s) ==
    /\ scan[s].pc = "look"
    /\ \/ /\ Candidates(Dir(s))
          /\ scan' = [scan EXCEPT ![s].pc = "lease"]
       \/ /\ ~Candidates(Dir(s))
          /\ NextDirectory(s)
    /\ UNCHANGED <<identifier, files, newest, lease, writer, events>>

\* A mutant: the lease is shared with writers.
TakeLeaseShared(s) ==
    /\ scan[s].pc = "lease"
    /\ \/ /\ lease[Dir(s)] \cap Scanners = {}
          /\ lease' = [lease EXCEPT ![Dir(s)] = @ \cup {s}]
          /\ scan' = [scan EXCEPT ![s].pc = "check"]
       \/ /\ lease[Dir(s)] \cap Scanners # {}
          /\ NextDirectory(s)
          /\ UNCHANGED lease
    /\ UNCHANGED <<identifier, files, newest, writer, events>>

\* TryExclusive: a busy directory is skipped.
TakeLease(s) ==
    /\ scan[s].pc = "lease"
    /\ \/ /\ lease[Dir(s)] = {}
          /\ lease' = [lease EXCEPT ![Dir(s)] = {s}]
          /\ scan' = [scan EXCEPT ![s].pc = "check"]
       \/ /\ lease[Dir(s)] # {}
          /\ NextDirectory(s)
          /\ UNCHANGED lease
    /\ UNCHANGED <<identifier, files, newest, writer, events>>

\* A mutant: the lease goes out of scope with the listing.
ListReleased(s) ==
    /\ scan[s].pc = "check"
    /\ Release(s)
    /\ \/ /\ current(s)
          /\ scan' = [scan EXCEPT ![s] = Listed(s, Doomed(Dir(s)))]
       \/ /\ ~current(s)
          /\ NextDirectory(s)
    /\ UNCHANGED <<identifier, files, newest, writer, events>>

\* The listing before the lease is out of date: the directory is listed again.
List(s) ==
    /\ scan[s].pc = "check"
    /\ \/ /\ current(s)
          /\ scan' = [scan EXCEPT ![s] = Listed(s, Doomed(Dir(s)))]
          /\ UNCHANGED lease
       \/ /\ ~current(s)
          /\ NextDirectory(s)
          /\ Release(s)
    /\ UNCHANGED <<identifier, files, newest, writer, events>>

\* The identity is checked before each file; ends the directory when it
\* changed or when nothing is left to remove.
Recheck(s) ==
    /\ scan[s].pc = "recheck"
    /\ \/ /\ scan[s].todo # {} /\ current(s)
          /\ scan' = [scan EXCEPT ![s].pc = "unlink"]
          /\ UNCHANGED lease
       \/ /\ scan[s].todo = {} \/ ~current(s)
          /\ NextDirectory(s)
          /\ Release(s)
    /\ UNCHANGED <<identifier, files, newest, writer, events>>

\* A file that cannot be removed is reported and left.
Unlink(s) ==
    /\ scan[s].pc = "unlink"
    /\ \E n \in scan[s].todo :
         /\ scan' = [scan EXCEPT ![s] = Listed(s, scan[s].todo \ {n})]
         /\ files' = [files EXCEPT ![Dir(s)] = @ \ {n}]
    /\ UNCHANGED <<identifier, newest, lease, writer, events>>

CannotUnlink(s) ==
    /\ scan[s].pc = "unlink"
    /\ Happens
    /\ \E n \in scan[s].todo :
         scan' = [scan EXCEPT ![s] = Listed(s, scan[s].todo \ {n})]
    /\ UNCHANGED <<identifier, files, newest, lease, writer>>

ScanStep(s) ==
    \/ Look(s) \/ TakeLease(s) \/ List(s) \/ Recheck(s) \/ Unlink(s) \/ CannotUnlink(s)

\* A process that scans ends; its native lock is free.
ScannerCrash(s) ==
    /\ scan[s].pc # "idle"
    /\ Happens
    /\ scan' = [scan EXCEPT ![s] = NoScan]
    /\ lease' = [d \in Dirs |-> lease[d] \ {s}]
    /\ UNCHANGED <<identifier, files, newest, writer>>

-----------------------------------------------------------------------------
(* Writers and the user *)

Begin(w, d) ==
    /\ writer[w] = NoWriter
    /\ lease[d] \cap Scanners = {}
    /\ Happens
    /\ lease' = [lease EXCEPT ![d] = @ \cup {w}]
    /\ writer' = [writer EXCEPT ![w] = [dir |-> d, name |-> NoValue]]
    /\ UNCHANGED <<identifier, files, newest, scan>>

\* A writer creates its file or goes on with the one a crashed transfer left;
\* no other living writer has the same one.  Logs are appended to.
Write(w, n) ==
    LET d == writer[w].dir IN
    /\ writer[w] # NoWriter
    /\ \/ writer[w].name = NoValue
       \/ writer[w].name = n /\ d[2] = "logs" /\ newest[d[1]] # n
    /\ \A v \in Writers \ {w} : writer[v] # [dir |-> d, name |-> n]
    /\ files' = [files EXCEPT ![d] = @ \cup {n}]
    /\ newest' = IF d[2] = "logs" THEN [newest EXCEPT ![d[1]] = n] ELSE newest
    /\ writer' = [writer EXCEPT ![w].name = n]
    /\ UNCHANGED <<identifier, lease, scan, events>>

\* The file is renamed to its final name, or removed; a log stays.
End(w) ==
    LET d == writer[w].dir IN
    /\ writer[w] # NoWriter
    /\ files' = IF d[2] = "logs" THEN files ELSE [files EXCEPT ![d] = @ \ {writer[w].name}]
    /\ lease' = [lease EXCEPT ![d] = @ \ {w}]
    /\ writer' = [writer EXCEPT ![w] = NoWriter]
    /\ UNCHANGED <<identifier, newest, scan, events>>

WriterCrash(w) ==
    /\ writer[w] # NoWriter
    /\ Happens
    /\ lease' = [lease EXCEPT ![writer[w].dir] = @ \ {w}]
    /\ writer' = [writer EXCEPT ![w] = NoWriter]
    /\ UNCHANGED <<identifier, files, newest, scan>>

\* Something unknown is put into a directory, without a lease.
UserAdds(d, n) ==
    /\ n \notin files[d]
    /\ Happens
    /\ files' = [files EXCEPT ![d] = @ \cup {n}]
    /\ UNCHANGED <<identifier, newest, lease, writer, scan>>

\* The drive is adopted by another host, created anew, or gone.
ChangeIdentity(r, i) ==
    /\ identifier[r] # i
    /\ Happens
    /\ identifier' = [identifier EXCEPT ![r] = i]
    /\ UNCHANGED <<files, newest, lease, writer, scan>>

Surroundings ==
    \/ \E w \in Writers : \/ \E d \in Dirs : Begin(w, d)
                          \/ \E n \in Owned : Write(w, n)
                          \/ End(w)
                          \/ WriterCrash(w)
    \/ \E d \in Dirs, n \in Foreign : UserAdds(d, n)
    \/ \E r \in Roots, i \in Ids \cup {NoValue} : ChangeIdentity(r, i)

-----------------------------------------------------------------------------
(* What a scan promises *)

\* The temporary file of a living writer stays until the writer is done with
\* it, whatever scans of whatever processes run: the listing before the lease,
\* the lease and the removals are far apart, and a transfer may go on with a
\* file that a scan has already seen as abandoned (Scan::files, orphanJobs).
LiveFilesKept ==
    \A w \in Writers : writer[w].name # NoValue => writer[w].name \in files[writer[w].dir]

\* The newest log stays: a log that was appended to after a scan looked is not
\* removed as an older one (Scan::logs).
NewestLogKept ==
    \A r \in Roots : newest[r] # NoValue => newest[r] \in files[<<r, "logs">>]
=============================================================================
