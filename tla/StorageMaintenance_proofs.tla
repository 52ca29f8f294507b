----------------------- MODULE StorageMaintenance_proofs -----------------------
(***************************************************************************)
(* Theorems about StorageMaintenance for any roots, writers, scanners and  *)
(* any size of the registry.                                               *)
(*                                                                         *)
(* The argument: a scanner that has listed a directory is the only holder  *)
(* of its lease, and a writer holds its directory's lease for as long as   *)
(* its file is temporary.  So whatever was seen before the lease was       *)
(* taken, the list that is worked off is still right when a file goes.     *)
(***************************************************************************)
EXTENDS StorageMaintenance, FiniteSetTheorems, WellFoundedInduction, TLAPS

Holding(s) == scan[s].pc \in {"check", "recheck", "unlink"}

\* Who holds which lease.
LeaseInv ==
    /\ \A s \in Scanners : Holding(s) => lease[Dir(s)] = {s}
    /\ \A w \in Writers : writer[w] # NoWriter => w \in lease[writer[w].dir]

\* The newest log is not on the list of a scan.
ListInv ==
    \A s \in Scanners :
        scan[s].pc \in {"recheck", "unlink"} /\ Order[scan[s].at] = "logs"
            => newest[scan[s].root] \notin scan[s].todo

\* No two writers have the same file.
NamesInv ==
    \A v, w \in Writers :
        v # w /\ writer[v].name # NoValue => writer[v] # writer[w]

ScanInv ==
    /\ ScanTypeOK
    /\ LeaseInv
    /\ ListInv
    /\ NamesInv
    /\ LiveFilesKept
    /\ NewestLogKept

\* The thread exists only for a registered root, and sleeps no longer than
\* until the first of them is due.
MonitorInv ==
    /\ worker.pc # "none" => Registered # {}
    /\ NeverOversleeps
    /\ RegistryBounded

IInv ==
    /\ TypeOK
    /\ ScanInv
    /\ MonitorInv

---------------------------------------------------------------------------
(* The records of the model. *)
Places == {"look", "lease", "check", "recheck", "unlink"}

LEMMA ScanFacts ==
    /\ NoScan.pc = "idle"
    /\ \A c \in Running :
         /\ c.pc \in Places /\ c # NoScan
         /\ c.root \in Roots /\ c.id \in Ids /\ c.at \in 1..3
         /\ c.todo \in SUBSET Names
         /\ c.at # 3 => [c EXCEPT !.pc = "look", !.at = c.at + 1, !.todo = {}] \in Running
    /\ \A r \in Roots, i \in Ids :
         [pc |-> "look", root |-> r, id |-> i, at |-> 1, todo |-> {}] \in Running
<1>1. NoScan.pc = "idle"
  BY DEF NoScan
<1>2. ASSUME NEW c \in Running
      PROVE  /\ c.pc \in Places
             /\ c.root \in Roots /\ c.id \in Ids /\ c.at \in 1..3
             /\ c.todo \in SUBSET Names
  BY DEF Running, Places
<1>3. \A c \in Running : c # NoScan
  BY <1>1, <1>2 DEF Places
<1>4. ASSUME NEW c \in Running, c.at # 3
      PROVE  [c EXCEPT !.pc = "look", !.at = c.at + 1, !.todo = {}] \in Running
  <2>1. c.at + 1 \in 1..3
    BY <1>4, <1>2
  <2> QED
    BY <2>1 DEF Running
<1>5. \A r \in Roots, i \in Ids :
        [pc |-> "look", root |-> r, id |-> i, at |-> 1, todo |-> {}] \in Running
  BY DEF Running
<1> QED
  BY <1>1, <1>2, <1>3, <1>4, <1>5

LEMMA WriterFacts ==
    /\ NoWriter.name = NoValue
    /\ \A x \in [dir : Dirs, name : Owned \cup {NoValue}] :
         /\ x.dir \in Dirs /\ x.name \in Owned \cup {NoValue}
         /\ \A n \in Owned : [x EXCEPT !.name = n] = [dir |-> x.dir, name |-> n]
    /\ \A d \in Dirs, n \in Owned \cup {NoValue} :
         [dir |-> d, name |-> n] \in [dir : Dirs, name : Owned \cup {NoValue}]
BY DEF NoWriter

LEMMA DirFacts ==
    /\ \A k \in 1..3 : Order[k] \in Kinds
    /\ \A r \in Roots, k \in Kinds :
         /\ <<r, k>> \in Dirs /\ <<r, k>>[1] = r /\ <<r, k>>[2] = k
    /\ \A d \in Dirs : d[1] \in Roots /\ d[2] \in Kinds /\ d = <<d[1], d[2]>>
<1>1. \A k \in 1..3 : Order[k] \in Kinds
  BY DEF Order, Kinds
<1> QED
  BY <1>1 DEF Dirs

\* A scanner at work is at a directory.
LEMMA AtDirectory ==
    ASSUME ScanTypeOK, NEW s \in Scanners, scan[s].pc # "idle"
    PROVE  /\ scan[s] \in Running
           /\ Dir(s) \in Dirs /\ Dir(s)[1] = scan[s].root
           /\ Dir(s)[2] = Order[scan[s].at]
<1>1. scan[s] \in Running
  BY ScanFacts DEF ScanTypeOK
<1>2. scan[s].root \in Roots /\ Order[scan[s].at] \in Kinds
  BY <1>1, ScanFacts, DirFacts
<1> QED
  BY <1>1, <1>2, DirFacts DEF Dir

\* A scan that moves on within its directory.
LEMMA MoveFacts ==
    ASSUME ScanTypeOK, NEW s \in Scanners, scan[s] \in Running, NEW k \in Places,
           scan' = [scan EXCEPT ![s].pc = k]
    PROVE  /\ scan' \in [Scanners -> {NoScan} \cup Running]
           /\ \A x \in Scanners \ {s} : scan'[x] = scan[x]
           /\ scan'[s].pc = k /\ scan'[s].todo = scan[s].todo
           /\ scan'[s].root = scan[s].root /\ scan'[s].at = scan[s].at
<1>1. [scan[s] EXCEPT !.pc = k] \in Running
  BY DEF Running, Places
<1>2. /\ [scan[s] EXCEPT !.pc = k].pc = k /\ [scan[s] EXCEPT !.pc = k].root = scan[s].root
      /\ [scan[s] EXCEPT !.pc = k].at = scan[s].at
      /\ [scan[s] EXCEPT !.pc = k].todo = scan[s].todo
  BY DEF Running
<1>3. scan'[s] = [scan[s] EXCEPT !.pc = k] /\ scan \in [Scanners -> {NoScan} \cup Running]
  BY DEF ScanTypeOK
<1>4. scan' \in [Scanners -> {NoScan} \cup Running]
      /\ \A x \in Scanners \ {s} : scan'[x] = scan[x]
  BY <1>1, <1>3
<1> QED
  BY <1>2, <1>3, <1>4

LEMMA MoveListFacts ==
    ASSUME ScanTypeOK, NEW s \in Scanners, scan[s] \in Running,
           NEW t \in SUBSET Names,
           scan' = [scan EXCEPT ![s] = Listed(s, t)]
    PROVE  /\ scan' \in [Scanners -> {NoScan} \cup Running]
           /\ \A x \in Scanners \ {s} : scan'[x] = scan[x]
           /\ scan'[s].pc = "recheck" /\ scan'[s].todo = t
           /\ scan'[s].root = scan[s].root /\ scan'[s].at = scan[s].at
<1>1. Listed(s, t) \in Running
  BY DEF Running, Listed
<1>2. /\ Listed(s, t).pc = "recheck"
      /\ Listed(s, t).root = scan[s].root
      /\ Listed(s, t).at = scan[s].at
      /\ Listed(s, t).todo = t
  BY DEF Running, Listed
<1>3. scan'[s] = Listed(s, t)
      /\ scan \in [Scanners -> {NoScan} \cup Running]
  BY DEF ScanTypeOK
<1>4. scan' \in [Scanners -> {NoScan} \cup Running]
      /\ \A x \in Scanners \ {s} : scan'[x] = scan[x]
  BY <1>1, <1>3
<1> QED
  BY <1>2, <1>3, <1>4

\* Going on with the next directory leaves the list and the lease behind.
LEMMA NextDirectoryFacts ==
    ASSUME ScanTypeOK, NEW s \in Scanners, scan[s].pc # "idle", NextDirectory(s)
    PROVE  /\ scan' \in [Scanners -> {NoScan} \cup Running]
           /\ scan'[s].pc \in {"idle", "look"}
           /\ \A x \in Scanners \ {s} : scan'[x] = scan[x]
<1>1. scan[s] \in Running
  BY AtDirectory
<1>2. CASE scan[s].at = 3
  BY <1>2, ScanFacts DEF NextDirectory, ScanTypeOK
<1>3. CASE scan[s].at # 3
  <2>1. [scan[s] EXCEPT !.pc = "look", !.at = scan[s].at + 1, !.todo = {}] \in Running
    BY <1>1, <1>3, ScanFacts
  <2>2. scan' = [scan EXCEPT ![s] = [scan[s] EXCEPT !.pc = "look", !.at = scan[s].at + 1, !.todo = {}]]
    BY <1>3 DEF NextDirectory
  <2>3. [scan[s] EXCEPT !.pc = "look", !.at = scan[s].at + 1, !.todo = {}].pc = "look"
    BY <1>1 DEF Running
  <2> QED
    BY <2>1, <2>2, <2>3 DEF ScanTypeOK
<1> QED
  BY <1>2, <1>3

\* What a scanner removes is no writer's, since a lease with a writer in it
\* is not the scanner's alone.
LEMMA NoWriterWhereHeld ==
    ASSUME ScanInv, NEW s \in Scanners, Holding(s), NEW w \in Writers,
           writer[w] # NoWriter
    PROVE  writer[w].dir # Dir(s)
<1>1. lease[Dir(s)] = {s} /\ w \in lease[writer[w].dir]
  BY DEF ScanInv, LeaseInv
<1> QED
  BY <1>1, ScanAssumption

---------------------------------------------------------------------------
(* A scanner's steps that only change its scan and its own lease. *)
LEMMA OnlyScan ==
    ASSUME ScanInv, NEW s \in Scanners,
           UNCHANGED <<identifier, files, newest, writer>>,
           events' \in 0..MaxEvents,
           scan' \in [Scanners -> {NoScan} \cup Running],
           \A x \in Scanners \ {s} : scan'[x] = scan[x],
           lease' \in [Dirs -> SUBSET (Writers \cup Scanners)],
           \A d \in Dirs, w \in Writers : w \in lease[d] => w \in lease'[d],
           \A x \in Scanners \ {s} : Holding(x) => lease'[Dir(x)] = {x},
           Holding(s)' => lease'[Dir(s)'] = {s},
           scan'[s].pc \in {"recheck", "unlink"} /\ Order[scan'[s].at] = "logs"
               => newest[scan'[s].root] \notin scan'[s].todo
    PROVE  ScanInv'
<1>1. ScanTypeOK'
  BY DEF ScanInv, ScanTypeOK
<1>2. LeaseInv'
  <2>1. ASSUME NEW x \in Scanners, Holding(x)' PROVE lease'[Dir(x)'] = {x}
    <3>1. CASE x = s
      BY <3>1, <2>1
    <3>2. CASE x # s
      <4>1. Holding(x) /\ Dir(x)' = Dir(x)
        BY <2>1, <3>2 DEF Holding, Dir
      <4> QED
        BY <4>1, <3>2
    <3> QED
      BY <3>1, <3>2
  <2>2. ASSUME NEW w \in Writers, writer'[w] # NoWriter PROVE w \in lease'[writer'[w].dir]
    <3>1. writer[w].dir \in Dirs /\ w \in lease[writer[w].dir]
      BY <2>2, WriterFacts DEF ScanInv, LeaseInv, ScanTypeOK
    <3> QED
      BY <3>1
  <2> QED
    BY <2>1, <2>2 DEF LeaseInv
<1>3. ListInv'
  BY DEF ScanInv, ListInv
<1>4. NamesInv' /\ LiveFilesKept' /\ NewestLogKept'
  BY DEF ScanInv, NamesInv, LiveFilesKept, NewestLogKept
<1> QED
  BY <1>1, <1>2, <1>3, <1>4 DEF ScanInv

\* Leaving a directory with its lease, or a scan that never had one.
LEMMA LeaveKeeps ==
    ASSUME ScanInv, NEW s \in Scanners,
           UNCHANGED <<identifier, files, newest, writer>>,
           events' \in 0..MaxEvents,
           scan' \in [Scanners -> {NoScan} \cup Running],
           scan'[s].pc \in {"idle", "look"},
           \A x \in Scanners \ {s} : scan'[x] = scan[x],
           \/ UNCHANGED lease
           \/ \E d \in Dirs : lease' = [lease EXCEPT ![d] = @ \ {s}]
           \/ lease' = [d \in Dirs |-> lease[d] \ {s}]
    PROVE  ScanInv'
<1>1. lease \in [Dirs -> SUBSET (Writers \cup Scanners)]
  BY DEF ScanInv, ScanTypeOK
<1>2. lease' \in [Dirs -> SUBSET (Writers \cup Scanners)]
  BY <1>1
<1>3. \A d \in Dirs : lease'[d] = lease[d] \/ lease'[d] = lease[d] \ {s}
  BY <1>1
<1>4. \A d \in Dirs, w \in Writers : w \in lease[d] => w \in lease'[d]
  BY <1>3, ScanAssumption
<1>5. ASSUME NEW x \in Scanners \ {s}, Holding(x) PROVE lease'[Dir(x)] = {x}
  <2>1. lease[Dir(x)] = {x}
    BY <1>5 DEF ScanInv, LeaseInv
  <2>2. Dir(x) \in Dirs
    BY <1>5, AtDirectory DEF ScanInv, Holding
  <2> QED
    BY <2>1, <2>2, <1>3
<1>6. ~Holding(s)' /\ scan'[s].pc \notin {"recheck", "unlink"}
  BY DEF Holding
<1> QED
  BY <1>2, <1>4, <1>5, <1>6, OnlyScan

LEMMA Counted ==
    ASSUME ScanTypeOK PROVE events' = events \/ Happens => events' \in 0..MaxEvents
BY ScanAssumption DEF ScanTypeOK, Happens

---------------------------------------------------------------------------
LEMMA ScanInitially == ScanInit => ScanInv
<1> SUFFICES ASSUME ScanInit PROVE ScanInv
  OBVIOUS
<1>1. NoScan.pc = "idle" /\ NoWriter.name = NoValue
  BY ScanFacts, WriterFacts
<1>2. ASSUME NEW r \in Roots
      PROVE  /\ newest[r] \in Owned \cup {NoValue}
             /\ newest[r] # NoValue => newest[r] \in files[<<r, "logs">>]
  <2>1. files[<<r, "logs">>] = OldLogs
    BY DirFacts DEF ScanInit, Kinds
  <2>2. newest[r] \in IF OldLogs = {} THEN {NoValue} ELSE OldLogs
    BY DEF ScanInit
  <2> QED
    BY <2>1, <2>2, ScanAssumption
<1>3. newest \in [Roots -> Owned \cup {NoValue}]
  BY <1>2 DEF ScanInit
<1>4. files \in [Dirs -> SUBSET Names]
  BY ScanAssumption DEF ScanInit, Names
<1>5. events \in 0..MaxEvents
  BY ScanAssumption DEF ScanInit
<1>6. ScanTypeOK
  BY <1>3, <1>4, <1>5 DEF ScanInit, ScanTypeOK
<1>7. \A s \in Scanners : scan[s].pc = "idle"
  BY <1>1 DEF ScanInit
<1>8. \A w \in Writers : writer[w] = NoWriter
  BY DEF ScanInit
<1>9. LeaseInv /\ ListInv /\ NamesInv
  BY <1>1, <1>7, <1>8 DEF LeaseInv, ListInv, NamesInv, Holding
<1>10. LiveFilesKept /\ NewestLogKept
  BY <1>1, <1>2, <1>8 DEF LiveFilesKept, NewestLogKept
<1> QED
  BY <1>6, <1>9, <1>10 DEF ScanInv

---------------------------------------------------------------------------
(* The scan. *)
LEMMA RunOnceKeeps ==
    ASSUME ScanInv, NEW s \in Scanners, NEW r \in Roots, NEW i \in Ids,
           scan[s].pc = "idle", runOnce(s, r, i),
           events' = events \/ Happens,
           UNCHANGED <<identifier, files, newest, lease, writer>>
    PROVE  ScanInv'
<1>1. scan' \in [Scanners -> {NoScan} \cup Running]
      /\ scan'[s].pc \in {"idle", "look"}
      /\ \A x \in Scanners \ {s} : scan'[x] = scan[x]
  BY ScanFacts DEF runOnce, ScanInv, ScanTypeOK
<1>2. events' \in 0..MaxEvents
  BY Counted DEF ScanInv
<1> QED
  BY <1>1, <1>2, LeaveKeeps

LEMMA LookKeeps ==
    ASSUME ScanInv, NEW s \in Scanners, Look(s) PROVE ScanInv'
<1>1. ScanTypeOK /\ scan[s].pc = "look" /\ scan[s] \in Running /\ events' \in 0..MaxEvents
  BY AtDirectory, Counted DEF ScanInv, Look
<1>2. CASE NextDirectory(s)
  BY <1>1, <1>2, NextDirectoryFacts, LeaveKeeps DEF Look
<1>3. CASE scan' = [scan EXCEPT ![s].pc = "lease"]
  <2>2. /\ scan' \in [Scanners -> {NoScan} \cup Running] /\ scan'[s].pc = "lease"
        /\ \A x \in Scanners \ {s} : scan'[x] = scan[x]
    BY <1>1, <1>3, MoveFacts DEF Places
  <2>4. ~Holding(s)' /\ scan'[s].pc \notin {"recheck", "unlink"}
    BY <2>2 DEF Holding
  <2> QED
    BY <1>1, <1>3, <2>2, <2>4, OnlyScan DEF Look, ScanInv, LeaseInv, ScanTypeOK
<1> QED
  BY <1>2, <1>3 DEF Look

LEMMA TakeLeaseKeeps ==
    ASSUME ScanInv, NEW s \in Scanners, TakeLease(s) PROVE ScanInv'
<1>1. ScanTypeOK /\ scan[s].pc = "lease" /\ scan[s] \in Running /\ events' \in 0..MaxEvents
      /\ Dir(s) \in Dirs
  BY AtDirectory, Counted DEF ScanInv, TakeLease
<1>2. CASE NextDirectory(s) /\ UNCHANGED lease
  BY <1>1, <1>2, NextDirectoryFacts, LeaveKeeps DEF TakeLease
<1>3. CASE /\ lease[Dir(s)] = {}
           /\ lease' = [lease EXCEPT ![Dir(s)] = {s}]
           /\ scan' = [scan EXCEPT ![s].pc = "check"]
  <2>2. scan'[s].pc = "check" /\ scan'[s].todo = scan[s].todo
        /\ scan'[s].root = scan[s].root /\ scan'[s].at = scan[s].at
    BY <1>1, <1>3, MoveFacts DEF Places
  <2>3. scan' \in [Scanners -> {NoScan} \cup Running]
        /\ \A x \in Scanners \ {s} : scan'[x] = scan[x]
    BY <1>1, <1>3, MoveFacts DEF Places
  <2>4. Dir(s)' = Dir(s) /\ lease'[Dir(s)] = {s}
    BY <1>1, <1>3, <2>2 DEF Dir, ScanTypeOK
  <2>5. ASSUME NEW x \in Scanners \ {s}, Holding(x) PROVE lease'[Dir(x)] = {x}
    <3>1. lease[Dir(x)] = {x} /\ Dir(x) \in Dirs
      BY <2>5, AtDirectory DEF ScanInv, LeaseInv, Holding
    <3> QED
      BY <3>1, <1>1, <1>3 DEF ScanTypeOK
  <2>6. lease' \in [Dirs -> SUBSET (Writers \cup Scanners)]
        /\ \A d \in Dirs, w \in Writers : w \in lease[d] => w \in lease'[d]
    BY <1>1, <1>3 DEF ScanTypeOK
  <2> QED
    BY <1>1, <2>2, <2>3, <2>4, <2>5, <2>6, OnlyScan DEF TakeLease
<1> QED
  BY <1>2, <1>3 DEF TakeLease

\* The list that is made under the lease is without the newest log.
LEMMA ListKeeps ==
    ASSUME ScanInv, NEW s \in Scanners, List(s) PROVE ScanInv'
<1>1. ScanTypeOK /\ scan[s].pc = "check" /\ scan[s] \in Running /\ events' \in 0..MaxEvents
      /\ Dir(s) \in Dirs /\ Dir(s)[1] = scan[s].root /\ Dir(s)[2] = Order[scan[s].at]
  BY AtDirectory, Counted DEF ScanInv, List
<1>2. CASE NextDirectory(s) /\ Release(s)
  BY <1>1, <1>2, NextDirectoryFacts, LeaveKeeps DEF List, Release
<1>3. CASE /\ scan' = [scan EXCEPT ![s] = Listed(s, Doomed(Dir(s)))]
           /\ UNCHANGED lease
  <2>1. /\ Doomed(Dir(s)) \in SUBSET Names
        /\ Dir(s)[2] = "logs" => newest[Dir(s)[1]] \notin Doomed(Dir(s))
    BY <1>1, DirFacts DEF Doomed, ScanTypeOK, Names, Kinds
  <2>2. PICK names \in SUBSET Names : names = Doomed(Dir(s))
    BY <2>1
  <2>3. scan' = [scan EXCEPT ![s] = Listed(s, names)]
    BY <1>3, <2>2
  <2>4. /\ scan' \in [Scanners -> {NoScan} \cup Running]
        /\ \A x \in Scanners \ {s} : scan'[x] = scan[x]
        /\ scan'[s].pc = "recheck" /\ scan'[s].todo = names
        /\ scan'[s].root = scan[s].root /\ scan'[s].at = scan[s].at
    BY <1>1, <2>3, MoveListFacts
  <2>5. Dir(s)' = Dir(s) /\ lease'[Dir(s)] = {s}
    BY <1>1, <1>3, <2>4 DEF Dir, ScanInv, LeaseInv, Holding
  <2>6. Order[scan'[s].at] = "logs" => newest[scan'[s].root] \notin scan'[s].todo
    BY <1>1, <2>1, <2>2, <2>4
  <2>7. \A x \in Scanners \ {s} : Holding(x) => lease'[Dir(x)] = {x}
    BY <1>3 DEF ScanInv, LeaseInv
  <2>8. lease' = lease /\ lease \in [Dirs -> SUBSET (Writers \cup Scanners)]
    BY <1>3 DEF ScanInv, ScanTypeOK
  <2> QED
    BY <1>1, <2>4, <2>5, <2>6, <2>7, <2>8, OnlyScan DEF List
<1> QED
  BY <1>2, <1>3 DEF List

LEMMA RecheckKeeps ==
    ASSUME ScanInv, NEW s \in Scanners, Recheck(s) PROVE ScanInv'
<1>1. ScanTypeOK /\ scan[s].pc = "recheck" /\ scan[s] \in Running /\ events' \in 0..MaxEvents
      /\ Dir(s) \in Dirs
  BY AtDirectory, Counted DEF ScanInv, Recheck
<1>2. CASE NextDirectory(s) /\ Release(s)
  BY <1>1, <1>2, NextDirectoryFacts, LeaveKeeps DEF Recheck, Release
<1>3. CASE scan' = [scan EXCEPT ![s].pc = "unlink"] /\ UNCHANGED lease
  <2>2. scan'[s].pc = "unlink" /\ scan'[s].todo = scan[s].todo
        /\ scan'[s].root = scan[s].root /\ scan'[s].at = scan[s].at
    BY <1>1, <1>3, MoveFacts DEF Places
  <2>3. scan' \in [Scanners -> {NoScan} \cup Running]
        /\ \A x \in Scanners \ {s} : scan'[x] = scan[x]
    BY <1>1, <1>3, MoveFacts DEF Places
  <2>4. Dir(s)' = Dir(s) /\ lease'[Dir(s)] = {s}
    BY <1>1, <1>3, <2>2 DEF Dir, ScanInv, LeaseInv, Holding
  <2>5. Order[scan'[s].at] = "logs" => newest[scan'[s].root] \notin scan'[s].todo
    BY <1>1, <2>2 DEF ScanInv, ListInv
  <2> QED
    BY <1>1, <1>3, <2>2, <2>3, <2>4, <2>5, OnlyScan DEF Recheck, ScanInv, LeaseInv, ScanTypeOK
<1> QED
  BY <1>2, <1>3 DEF Recheck

\* What both outcomes of a removal make of the scan.
LEMMA ShorterList ==
    ASSUME ScanInv, NEW s \in Scanners, scan[s].pc = "unlink", NEW n \in scan[s].todo,
           scan' = [scan EXCEPT ![s] = Listed(s, scan[s].todo \ {n})]
    PROVE  /\ scan' \in [Scanners -> {NoScan} \cup Running]
           /\ \A x \in Scanners \ {s} : scan'[x] = scan[x]
           /\ Dir(s)' = Dir(s) /\ lease[Dir(s)] = {s}
           /\ Order[scan'[s].at] = "logs" => newest[scan'[s].root] \notin scan'[s].todo
<1>1. ScanTypeOK /\ scan[s] \in Running
  BY AtDirectory DEF ScanInv
<1>3. scan[s].todo \ {n} \in SUBSET Names
  BY <1>1, ScanFacts
<1>4. scan'[s].todo = scan[s].todo \ {n}
      /\ scan'[s].root = scan[s].root /\ scan'[s].at = scan[s].at
  BY <1>1, <1>3, MoveListFacts
<1>5. scan' \in [Scanners -> {NoScan} \cup Running]
      /\ \A x \in Scanners \ {s} : scan'[x] = scan[x]
  BY <1>1, <1>3, MoveListFacts
<1>6. Dir(s)' = Dir(s) /\ lease[Dir(s)] = {s}
  BY <1>4 DEF Dir, ScanInv, LeaseInv, Holding
<1>7. Order[scan'[s].at] = "logs" => newest[scan'[s].root] \notin scan'[s].todo
  BY <1>4 DEF ScanInv, ListInv
<1> QED
  BY <1>5, <1>6, <1>7

LEMMA CannotUnlinkKeeps ==
    ASSUME ScanInv, NEW s \in Scanners, CannotUnlink(s) PROVE ScanInv'
<1>1. PICK n \in scan[s].todo : scan' = [scan EXCEPT ![s] = Listed(s, scan[s].todo \ {n})]
  BY DEF CannotUnlink
<1>2. events' \in 0..MaxEvents /\ scan[s].pc = "unlink"
  BY Counted DEF ScanInv, CannotUnlink
<1>3. \A x \in Scanners : Holding(x) => lease[Dir(x)] = {x}
  BY DEF ScanInv, LeaseInv
<1>4. UNCHANGED <<identifier, files, newest, writer, lease>>
  BY DEF CannotUnlink
<1>5. lease \in [Dirs -> SUBSET (Writers \cup Scanners)]
  BY DEF ScanInv, ScanTypeOK
<1>6. /\ scan' \in [Scanners -> {NoScan} \cup Running]
      /\ \A x \in Scanners \ {s} : scan'[x] = scan[x]
      /\ Dir(s)' = Dir(s) /\ lease[Dir(s)] = {s}
      /\ Order[scan'[s].at] = "logs" => newest[scan'[s].root] \notin scan'[s].todo
  BY <1>1, <1>2, ShorterList
<1> QED
  BY <1>2, <1>3, <1>4, <1>5, <1>6, OnlyScan

\* No writer is where the file goes, and it is not the newest log.
LEMMA UnlinkKeeps ==
    ASSUME ScanInv, NEW s \in Scanners, Unlink(s) PROVE ScanInv'
<1>1. PICK n \in scan[s].todo :
        /\ scan' = [scan EXCEPT ![s] = Listed(s, scan[s].todo \ {n})]
        /\ files' = [files EXCEPT ![Dir(s)] = @ \ {n}]
  BY DEF Unlink
<1>2. scan[s].pc = "unlink" /\ Holding(s)
      /\ UNCHANGED <<identifier, newest, lease, writer, events>>
  BY DEF Unlink, Holding
<1>3. ScanTypeOK /\ Dir(s) \in Dirs /\ Dir(s)[1] = scan[s].root
      /\ Dir(s)[2] = Order[scan[s].at]
  BY <1>2, AtDirectory DEF ScanInv
<1>4. /\ scan' \in [Scanners -> {NoScan} \cup Running]
      /\ \A x \in Scanners \ {s} : scan'[x] = scan[x]
      /\ Dir(s)' = Dir(s) /\ lease[Dir(s)] = {s}
      /\ Order[scan'[s].at] = "logs" => newest[scan'[s].root] \notin scan'[s].todo
  BY <1>1, <1>2, ShorterList
<1>5. files' \in [Dirs -> SUBSET Names]
  BY <1>1, <1>3 DEF ScanTypeOK
<1>6. ScanTypeOK'
  BY <1>2, <1>3, <1>4, <1>5 DEF ScanTypeOK
<1>7. LeaseInv'
  <2>1. ASSUME NEW x \in Scanners, Holding(x)' PROVE lease'[Dir(x)'] = {x}
    <3>1. CASE x = s
      BY <3>1, <1>2, <1>4
    <3>2. CASE x # s
      BY <2>1, <3>2, <1>2, <1>4 DEF ScanInv, LeaseInv, Holding, Dir
    <3> QED
      BY <3>1, <3>2
  <2> QED
    BY <2>1, <1>2 DEF LeaseInv, ScanInv
<1>8. ListInv'
  BY <1>2, <1>4 DEF ListInv, ScanInv
<1>9. NamesInv'
  BY <1>2 DEF NamesInv, ScanInv
<1>10. LiveFilesKept'
  <2> SUFFICES ASSUME NEW w \in Writers, writer[w].name # NoValue
               PROVE  writer[w].name \in files'[writer[w].dir]
    BY <1>2 DEF LiveFilesKept
  <2>1. writer[w] # NoWriter /\ writer[w].dir \in Dirs
        /\ writer[w].name \in files[writer[w].dir]
    BY <1>3, WriterFacts DEF ScanInv, LiveFilesKept, ScanTypeOK
  <2>2. writer[w].dir # Dir(s)
    BY <2>1, <1>2, NoWriterWhereHeld
  <2> QED
    BY <2>1, <2>2, <1>1, <1>3 DEF ScanTypeOK
<1>11. NewestLogKept'
  <2> SUFFICES ASSUME NEW r \in Roots, newest[r] # NoValue
               PROVE  newest[r] \in files'[<<r, "logs">>]
    BY <1>2 DEF NewestLogKept
  <2>1. newest[r] \in files[<<r, "logs">>] /\ <<r, "logs">> \in Dirs
        /\ <<r, "logs">>[1] = r /\ <<r, "logs">>[2] = "logs"
    BY DirFacts DEF ScanInv, NewestLogKept, Kinds
  <2>2. CASE <<r, "logs">> = Dir(s)
    <3>1. newest[r] # n
      BY <2>1, <2>2, <1>1, <1>2, <1>3 DEF ScanInv, ListInv
    <3> QED
      BY <3>1, <2>1, <1>1 DEF ScanTypeOK, ScanInv
  <2>3. CASE <<r, "logs">> # Dir(s)
    BY <2>1, <2>3, <1>1, <1>3 DEF ScanTypeOK
  <2> QED
    BY <2>2, <2>3
<1> QED
  BY <1>6, <1>7, <1>8, <1>9, <1>10, <1>11 DEF ScanInv

LEMMA ScannerCrashKeeps ==
    ASSUME ScanInv, NEW s \in Scanners, ScannerCrash(s) PROVE ScanInv'
<1>1. scan' \in [Scanners -> {NoScan} \cup Running] /\ scan'[s].pc \in {"idle", "look"}
      /\ \A x \in Scanners \ {s} : scan'[x] = scan[x]
  BY ScanFacts DEF ScannerCrash, ScanInv, ScanTypeOK
<1>2. events' \in 0..MaxEvents
  BY Counted DEF ScanInv, ScannerCrash
<1> QED
  BY <1>1, <1>2, LeaveKeeps DEF ScannerCrash

---------------------------------------------------------------------------
(* Writers, the user, and the drive's identity. *)

\* A directory in which a writer works is in no scanner's hands.
LEMMA NobodyHolds ==
    ASSUME ScanInv, NEW w \in Writers, writer[w] # NoWriter,
           NEW s \in Scanners, Holding(s)
    PROVE  Dir(s) # writer[w].dir
BY NoWriterWhereHeld

LEMMA WriterType ==
    ASSUME ScanTypeOK, NEW w \in Writers, writer[w] # NoWriter
    PROVE  /\ writer[w] \in [dir : Dirs, name : Owned \cup {NoValue}]
           /\ writer[w].dir \in Dirs /\ writer[w].name \in Owned \cup {NoValue}
<1>1. writer[w] \in [dir : Dirs, name : Owned \cup {NoValue}]
  BY DEF ScanTypeOK
<1> QED
  BY <1>1, WriterFacts

LEMMA BeginKeeps ==
    ASSUME ScanInv, NEW w \in Writers, NEW d \in Dirs, Begin(w, d) PROVE ScanInv'
<1> DEFINE new == [dir |-> d, name |-> NoValue]
<1>1. new \in [dir : Dirs, name : Owned \cup {NoValue}] /\ new.dir = d /\ new.name = NoValue
  BY WriterFacts
<1> HIDE DEF new
<1>2. ScanTypeOK /\ events' \in 0..MaxEvents
  BY Counted DEF ScanInv, Begin
<1>3. /\ writer[w] = NoWriter /\ lease[d] \cap Scanners = {}
      /\ lease' = [lease EXCEPT ![d] = @ \cup {w}]
      /\ writer' = [writer EXCEPT ![w] = new]
      /\ UNCHANGED <<identifier, files, newest, scan>>
  BY DEF Begin, new
<1>4. writer' \in [Writers -> {NoWriter} \cup [dir : Dirs, name : Owned \cup {NoValue}]]
      /\ writer'[w] = new /\ \A v \in Writers \ {w} : writer'[v] = writer[v]
  BY <1>1, <1>2, <1>3 DEF ScanTypeOK
<1>5. lease' \in [Dirs -> SUBSET (Writers \cup Scanners)]
      /\ lease'[d] = lease[d] \cup {w} /\ \A e \in Dirs \ {d} : lease'[e] = lease[e]
  BY <1>2, <1>3 DEF ScanTypeOK
<1>6. ScanTypeOK'
  BY <1>2, <1>3, <1>4, <1>5 DEF ScanTypeOK
<1>7. LeaseInv'
  <2>1. ASSUME NEW s \in Scanners, Holding(s)' PROVE lease'[Dir(s)'] = {s}
    <3>1. Holding(s) /\ Dir(s)' = Dir(s) /\ lease[Dir(s)] = {s}
      BY <2>1, <1>3 DEF Holding, Dir, ScanInv, LeaseInv
    <3>2. Dir(s) # d /\ Dir(s) \in Dirs
      BY <3>1, <1>2, <1>3, AtDirectory DEF Holding
    <3> QED
      BY <3>1, <3>2, <1>5
  <2>2. ASSUME NEW v \in Writers, writer'[v] # NoWriter PROVE v \in lease'[writer'[v].dir]
    <3>1. CASE v = w
      BY <3>1, <1>1, <1>4, <1>5
    <3>2. CASE v # w
      <4>1. writer'[v] = writer[v] /\ writer[v].dir \in Dirs /\ v \in lease[writer[v].dir]
        BY <3>2, <2>2, <1>2, <1>4, WriterType DEF ScanInv, LeaseInv
      <4> QED
        BY <4>1, <1>5
    <3> QED
      BY <3>1, <3>2
  <2> QED
    BY <2>1, <2>2 DEF LeaseInv
<1>8. ListInv' /\ NewestLogKept'
  BY <1>3 DEF ScanInv, ListInv, NewestLogKept
<1>9. NamesInv'
  <2> SUFFICES ASSUME NEW u \in Writers, NEW v \in Writers, u # v, writer'[u].name # NoValue
               PROVE  writer'[u] # writer'[v]
    BY DEF NamesInv
  <2>1. u # w /\ writer'[u] = writer[u]
    BY <1>1, <1>4
  <2>2. CASE v = w
    BY <2>1, <2>2, <1>1, <1>4
  <2>3. CASE v # w
    BY <2>1, <2>3, <1>4 DEF ScanInv, NamesInv
  <2> QED
    BY <2>2, <2>3
<1>10. LiveFilesKept'
  BY <1>1, <1>3, <1>4 DEF ScanInv, LiveFilesKept
<1> QED
  BY <1>6, <1>7, <1>8, <1>9, <1>10 DEF ScanInv

\* A writer's directory is in no scanner's hands, so the log that becomes the
\* newest is on no list.
LEMMA WriteKeeps ==
    ASSUME ScanInv, NEW w \in Writers, NEW n \in Owned, Write(w, n) PROVE ScanInv'
<1> DEFINE d == writer[w].dir
<1> DEFINE new == [dir |-> d, name |-> n]
<1>1. ScanTypeOK /\ writer[w] # NoWriter /\ UNCHANGED <<identifier, lease, scan, events>>
  BY DEF ScanInv, Write
<1>2. writer[w] \in [dir : Dirs, name : Owned \cup {NoValue}] /\ d \in Dirs
  BY <1>1, WriterType
<1>3. new \in [dir : Dirs, name : Owned \cup {NoValue}] /\ new.dir = d /\ new.name = n
  BY <1>2, WriterFacts
<1>4. writer' = [writer EXCEPT ![w] = new]
  <2>1. [writer[w] EXCEPT !.name = n] = new
    BY <1>2, WriterFacts
  <2> QED
    BY <2>1 DEF Write
<1> HIDE DEF new
<1>5. writer' \in [Writers -> {NoWriter} \cup [dir : Dirs, name : Owned \cup {NoValue}]]
      /\ writer'[w] = new /\ \A v \in Writers \ {w} : writer'[v] = writer[v]
  BY <1>1, <1>3, <1>4 DEF ScanTypeOK
<1>6. \A v \in Writers \ {w} : writer[v] # new
  BY DEF Write, new
<1>7. files' = [files EXCEPT ![d] = @ \cup {n}]
  BY DEF Write
<1>8. files' \in [Dirs -> SUBSET Names] /\ n \in files'[d]
      /\ \A e \in Dirs : files[e] \subseteq files'[e]
  BY <1>1, <1>2, <1>7 DEF ScanTypeOK, Names
<1>9. /\ d[1] \in Roots /\ d = <<d[1], d[2]>>
      /\ newest' = IF d[2] = "logs" THEN [newest EXCEPT ![d[1]] = n] ELSE newest
  BY <1>2, DirFacts DEF Write
<1>10. newest' \in [Roots -> Owned \cup {NoValue}]
  BY <1>1, <1>9 DEF ScanTypeOK
<1>11. ScanTypeOK'
  BY <1>1, <1>5, <1>8, <1>10 DEF ScanTypeOK
<1>12. LeaseInv'
  <2>1. ASSUME NEW v \in Writers, writer'[v] # NoWriter PROVE v \in lease[writer'[v].dir]
    <3>1. CASE v = w
      BY <3>1, <1>1, <1>3, <1>5 DEF ScanInv, LeaseInv
    <3>2. CASE v # w
      BY <2>1, <3>2, <1>5 DEF ScanInv, LeaseInv
    <3> QED
      BY <3>1, <3>2
  <2>2. \A s \in Scanners : Holding(s)' => lease'[Dir(s)'] = {s}
    BY <1>1 DEF ScanInv, LeaseInv, Holding, Dir
  <2> QED
    BY <2>1, <2>2, <1>1 DEF LeaseInv
<1>13. ListInv'
  <2> SUFFICES ASSUME NEW s \in Scanners, scan[s].pc \in {"recheck", "unlink"},
                      Order[scan[s].at] = "logs"
               PROVE  newest'[scan[s].root] \notin scan[s].todo
    BY <1>1 DEF ListInv
  <2>1. Dir(s) # d /\ Dir(s) = <<scan[s].root, "logs">> /\ scan[s].root \in Roots
    BY <1>1, NobodyHolds, AtDirectory, ScanFacts DEF Holding, Dir
  <2>2. newest'[scan[s].root] = newest[scan[s].root]
    BY <2>1, <1>1, <1>9 DEF ScanTypeOK
  <2> QED
    BY <2>2 DEF ScanInv, ListInv
<1>14. NamesInv'
  <2> SUFFICES ASSUME NEW u \in Writers, NEW v \in Writers, u # v, writer'[u].name # NoValue
               PROVE  writer'[u] # writer'[v]
    BY DEF NamesInv
  <2>1. CASE u = w
    BY <2>1, <1>5, <1>6
  <2>2. CASE v = w
    BY <2>2, <1>5, <1>6
  <2>3. CASE u # w /\ v # w
    BY <2>3, <1>5 DEF ScanInv, NamesInv
  <2> QED
    BY <2>1, <2>2, <2>3
<1>15. LiveFilesKept'
  <2> SUFFICES ASSUME NEW v \in Writers, writer'[v].name # NoValue
               PROVE  writer'[v].name \in files'[writer'[v].dir]
    BY DEF LiveFilesKept
  <2>1. CASE v = w
    BY <2>1, <1>3, <1>5, <1>8
  <2>2. CASE v # w
    <3>1. writer'[v] = writer[v] /\ writer[v] # NoWriter
      BY <2>2, <1>5, WriterFacts
    <3>2. writer[v].dir \in Dirs /\ writer[v].name \in files[writer[v].dir]
      BY <3>1, <1>1, WriterType DEF ScanInv, LiveFilesKept
    <3> QED
      BY <3>1, <3>2, <1>8
  <2> QED
    BY <2>1, <2>2
<1>16. NewestLogKept'
  <2> SUFFICES ASSUME NEW r \in Roots, newest'[r] # NoValue
               PROVE  newest'[r] \in files'[<<r, "logs">>]
    BY DEF NewestLogKept
  <2>1. <<r, "logs">> \in Dirs
    BY DirFacts DEF Kinds
  <2>2. CASE newest'[r] = newest[r]
    BY <2>1, <2>2, <1>8 DEF ScanInv, NewestLogKept
  <2>3. CASE newest'[r] # newest[r]
    <3>1. d[2] = "logs" /\ d[1] = r /\ newest'[r] = n
      BY <2>3, <1>1, <1>9 DEF ScanTypeOK
    <3> QED
      BY <3>1, <1>8, <1>9
  <2> QED
    BY <2>2, <2>3
<1> QED
  BY <1>11, <1>12, <1>13, <1>14, <1>15, <1>16 DEF ScanInv

\* What is alike when a writer ends and when it crashes.
LEMMA GoneKeeps ==
    ASSUME ScanInv, NEW w \in Writers, writer[w] # NoWriter,
           events' \in 0..MaxEvents, UNCHANGED <<identifier, newest, scan>>,
           lease' = [lease EXCEPT ![writer[w].dir] = @ \ {w}],
           writer' = [writer EXCEPT ![w] = NoWriter],
           files' \in [Dirs -> SUBSET Names],
           \A d \in Dirs : files'[d] = files[d]
                           \/ /\ d = writer[w].dir /\ d[2] # "logs"
                              /\ files'[d] = files[d] \ {writer[w].name}
    PROVE  ScanInv'
<1>1. ScanTypeOK /\ writer[w].dir \in Dirs
  BY WriterType DEF ScanInv
<1>2. writer' \in [Writers -> {NoWriter} \cup [dir : Dirs, name : Owned \cup {NoValue}]]
      /\ writer'[w] = NoWriter /\ \A v \in Writers \ {w} : writer'[v] = writer[v]
  BY <1>1 DEF ScanTypeOK
<1>3. lease' \in [Dirs -> SUBSET (Writers \cup Scanners)]
      /\ lease'[writer[w].dir] = lease[writer[w].dir] \ {w}
      /\ \A e \in Dirs \ {writer[w].dir} : lease'[e] = lease[e]
  BY <1>1 DEF ScanTypeOK
<1>4. ScanTypeOK'
  BY <1>1, <1>2, <1>3 DEF ScanTypeOK
<1>5. LeaseInv'
  <2>1. ASSUME NEW s \in Scanners, Holding(s)' PROVE lease'[Dir(s)'] = {s}
    <3>1. Holding(s) /\ Dir(s)' = Dir(s) /\ lease[Dir(s)] = {s}
      BY <2>1 DEF Holding, Dir, ScanInv, LeaseInv
    <3>2. Dir(s) # writer[w].dir /\ Dir(s) \in Dirs
      BY <3>1, <1>1, NobodyHolds, AtDirectory DEF Holding
    <3> QED
      BY <3>1, <3>2, <1>3
  <2>2. ASSUME NEW v \in Writers, writer'[v] # NoWriter PROVE v \in lease'[writer'[v].dir]
    <3>1. v # w /\ writer'[v] = writer[v]
      BY <2>2, <1>2
    <3>2. writer[v].dir \in Dirs /\ v \in lease[writer[v].dir]
      BY <3>1, <2>2, <1>1, WriterType DEF ScanInv, LeaseInv
    <3> QED
      BY <3>1, <3>2, <1>3
  <2> QED
    BY <2>1, <2>2 DEF LeaseInv
<1>6. ListInv'
  BY DEF ScanInv, ListInv
<1>7. NamesInv'
  <2> SUFFICES ASSUME NEW u \in Writers, NEW v \in Writers, u # v, writer'[u].name # NoValue
               PROVE  writer'[u] # writer'[v]
    BY DEF NamesInv
  <2>1. u # w /\ writer'[u] = writer[u]
    BY <1>2, WriterFacts
  <2>2. CASE v = w
    BY <2>1, <2>2, <1>2, WriterFacts
  <2>3. CASE v # w
    BY <2>1, <2>3, <1>2 DEF ScanInv, NamesInv
  <2> QED
    BY <2>2, <2>3
<1>8. LiveFilesKept'
  <2> SUFFICES ASSUME NEW v \in Writers, writer'[v].name # NoValue
               PROVE  writer'[v].name \in files'[writer'[v].dir]
    BY DEF LiveFilesKept
  <2>1. v # w /\ writer'[v] = writer[v] /\ writer[v] # NoWriter
    BY <1>2, WriterFacts
  <2>2. writer[v].dir \in Dirs /\ writer[v].name \in files[writer[v].dir]
    BY <2>1, <1>1, WriterType DEF ScanInv, LiveFilesKept
  <2>3. writer[v] # writer[w]
    BY <2>1 DEF ScanInv, NamesInv
  <2>4. writer[v].dir = writer[w].dir => writer[v].name # writer[w].name
    <3>1. writer[v] \in [dir : Dirs, name : Owned \cup {NoValue}]
          /\ writer[w] \in [dir : Dirs, name : Owned \cup {NoValue}]
      BY <2>1, <1>1, WriterType
    <3> QED
      BY <3>1, <2>3
  <2> QED
    BY <2>1, <2>2, <2>4
<1>9. NewestLogKept'
  <2> SUFFICES ASSUME NEW r \in Roots, newest[r] # NoValue
               PROVE  newest[r] \in files'[<<r, "logs">>]
    BY DEF NewestLogKept
  <2>1. <<r, "logs">> \in Dirs /\ <<r, "logs">>[2] = "logs"
    BY DirFacts DEF Kinds
  <2> QED
    BY <2>1 DEF ScanInv, NewestLogKept
<1> QED
  BY <1>4, <1>5, <1>6, <1>7, <1>8, <1>9 DEF ScanInv

LEMMA EndKeeps ==
    ASSUME ScanInv, NEW w \in Writers, End(w) PROVE ScanInv'
<1>1. ScanTypeOK /\ writer[w].dir \in Dirs
  BY WriterType DEF ScanInv, End
<1>2. /\ files' \in [Dirs -> SUBSET Names]
      /\ \A d \in Dirs : files'[d] = files[d]
                         \/ /\ d = writer[w].dir /\ d[2] # "logs"
                            /\ files'[d] = files[d] \ {writer[w].name}
  BY <1>1 DEF End, ScanTypeOK
<1>3. events' \in 0..MaxEvents
  BY <1>1 DEF End, ScanTypeOK
<1> QED
  BY <1>2, <1>3, GoneKeeps DEF End

LEMMA WriterCrashKeeps ==
    ASSUME ScanInv, NEW w \in Writers, WriterCrash(w) PROVE ScanInv'
<1>1. events' \in 0..MaxEvents /\ files' = files /\ files \in [Dirs -> SUBSET Names]
  BY Counted DEF ScanInv, WriterCrash, ScanTypeOK
<1> QED
  BY <1>1, GoneKeeps DEF WriterCrash

LEMMA UserAddsKeeps ==
    ASSUME ScanInv, NEW d \in Dirs, NEW n \in Foreign, UserAdds(d, n) PROVE ScanInv'
<1>1. ScanTypeOK /\ events' \in 0..MaxEvents
      /\ UNCHANGED <<identifier, newest, lease, writer, scan>>
  BY Counted DEF ScanInv, UserAdds
<1>2. files' \in [Dirs -> SUBSET Names] /\ \A e \in Dirs : files[e] \subseteq files'[e]
  BY <1>1 DEF UserAdds, ScanTypeOK, Names
<1>3. ScanTypeOK'
  BY <1>1, <1>2 DEF ScanTypeOK
<1>4. LeaseInv' /\ ListInv' /\ NamesInv'
  BY <1>1 DEF ScanInv, LeaseInv, ListInv, NamesInv, Holding, Dir
<1>5. LiveFilesKept'
  <2> SUFFICES ASSUME NEW v \in Writers, writer[v].name # NoValue
               PROVE  writer[v].name \in files'[writer[v].dir]
    BY <1>1 DEF LiveFilesKept
  <2>1. writer[v].dir \in Dirs /\ writer[v].name \in files[writer[v].dir]
    BY <1>1, WriterType, WriterFacts DEF ScanInv, LiveFilesKept
  <2> QED
    BY <2>1, <1>2
<1>6. NewestLogKept'
  <2> SUFFICES ASSUME NEW r \in Roots, newest[r] # NoValue
               PROVE  newest[r] \in files'[<<r, "logs">>]
    BY <1>1 DEF NewestLogKept
  <2>1. <<r, "logs">> \in Dirs
    BY DirFacts DEF Kinds
  <2> QED
    BY <2>1, <1>2 DEF ScanInv, NewestLogKept
<1> QED
  BY <1>3, <1>4, <1>5, <1>6 DEF ScanInv

LEMMA ScanUnchanged ==
    ASSUME ScanInv, UNCHANGED <<files, newest, lease, writer, scan>>,
           events' \in 0..MaxEvents,
           identifier' \in [Roots -> Ids \cup {NoValue}]
    PROVE  ScanInv'
BY DEF ScanInv, ScanTypeOK, LeaseInv, ListInv, NamesInv, LiveFilesKept, NewestLogKept,
       Holding, Dir

LEMMA ChangeIdentityKeeps ==
    ASSUME ScanInv, NEW r \in Roots, NEW i \in Ids \cup {NoValue}, ChangeIdentity(r, i)
    PROVE  ScanInv'
<1>1. events' \in 0..MaxEvents
  BY Counted DEF ScanInv, ChangeIdentity
<1>2. identifier' \in [Roots -> Ids \cup {NoValue}]
  BY DEF ScanInv, ScanTypeOK, ChangeIdentity
<1> QED
  BY <1>1, <1>2, ScanUnchanged DEF ChangeIdentity

LEMMA ScanStepKeeps ==
    ASSUME ScanInv, NEW s \in Scanners, ScanStep(s) PROVE ScanInv'
BY LookKeeps, TakeLeaseKeeps, ListKeeps, RecheckKeeps, UnlinkKeeps, CannotUnlinkKeeps
   DEF ScanStep

LEMMA SurroundingsKeep ==
    ASSUME ScanInv, Surroundings PROVE ScanInv'
BY BeginKeeps, WriteKeeps, EndKeeps, WriterCrashKeeps, UserAddsKeeps, ChangeIdentityKeeps
   DEF Surroundings

---------------------------------------------------------------------------
(* The monitor. *)
Registrations == {Unregistered} \cup [id : Ids, next : 0..Interval]
Workers == [pc : {"none", "deciding", "scanning", "waiting", "ended"},
            due : SUBSET (Roots \X Ids), deadline : 0..Interval, changed : BOOLEAN]

LEMMA RegistrationFacts ==
    /\ Unregistered \in Registrations /\ Unregistered.id = NoValue /\ Unregistered.next = 0
    /\ \A i \in Ids, t \in 0..Interval :
         /\ [id |-> i, next |-> t] \in Registrations
         /\ [id |-> i, next |-> t] # Unregistered
         /\ [id |-> i, next |-> t].id = i /\ [id |-> i, next |-> t].next = t
    /\ \A g \in Registrations :
         /\ g.next \in 0..Interval
         /\ g # Unregistered => g.id \in Ids
         /\ g.id \in Ids => g # Unregistered
         /\ g.id = NoValue => g = Unregistered
    /\ \A g \in Registrations, t \in 0..Interval :
         g # Unregistered \/ t = 0 =>
           /\ [g EXCEPT !.next = t] \in Registrations
           /\ [g EXCEPT !.next = t].next = t
           /\ [g EXCEPT !.next = t].id = g.id
<1>1. 0 \in 0..Interval
  BY MonitorAssumption
<1>2. NoValue \notin Ids
  BY ScanAssumption
<1>3. Unregistered \in Registrations /\ Unregistered.id = NoValue /\ Unregistered.next = 0
  BY DEF Registrations, Unregistered
<1>4. ASSUME NEW i \in Ids, NEW t \in 0..Interval
      PROVE  /\ [id |-> i, next |-> t] \in Registrations
             /\ [id |-> i, next |-> t] # Unregistered
             /\ [id |-> i, next |-> t].id = i /\ [id |-> i, next |-> t].next = t
  BY <1>2 DEF Registrations, Unregistered
<1>5. ASSUME NEW g \in Registrations
      PROVE  /\ g.next \in 0..Interval
             /\ g # Unregistered => g.id \in Ids
             /\ g.id \in Ids => g # Unregistered
             /\ g.id = NoValue => g = Unregistered
  BY <1>1, <1>2, <1>3 DEF Registrations
<1>6. ASSUME NEW g \in Registrations, NEW t \in 0..Interval, g # Unregistered \/ t = 0
      PROVE  /\ [g EXCEPT !.next = t] \in Registrations
             /\ [g EXCEPT !.next = t].next = t
             /\ [g EXCEPT !.next = t].id = g.id
  <2>1. CASE g = Unregistered
    <3>1. [g EXCEPT !.next = t] = Unregistered
      BY <2>1, <1>6, <1>3 DEF Unregistered
    <3> QED
      BY <3>1, <2>1, <1>6, <1>3
  <2>2. CASE g \in [id : Ids, next : 0..Interval]
    BY <2>2 DEF Registrations
  <2> QED
    BY <2>1, <2>2 DEF Registrations
<1> QED
  BY <1>3, <1>4, <1>5, <1>6

LEMMA WorkerFacts ==
    ASSUME NEW k \in Workers
    PROVE  /\ k.pc \in {"none", "deciding", "scanning", "waiting", "ended"}
           /\ k.due \in SUBSET (Roots \X Ids) /\ k.deadline \in 0..Interval
           /\ k.changed \in BOOLEAN
BY DEF Workers

\* What the types say in the words of this module.
LEMMA Types ==
    TypeOK <=> /\ ScanTypeOK
               /\ registrations \in [Roots -> Registrations]
               /\ worker \in Workers
               /\ stopping \in BOOLEAN
               /\ adding \in SUBSET (Roots \X Ids)
BY DEF TypeOK, Registrations, Workers

LEMMA TypesNext ==
    ASSUME ScanTypeOK', registrations' \in [Roots -> Registrations], worker' \in Workers,
           stopping' \in BOOLEAN, adding' \in SUBSET (Roots \X Ids)
    PROVE  TypeOK'
BY DEF TypeOK, Registrations, Workers

LEMMA Least ==
    ASSUME NEW S \in SUBSET Nat, S # {}
    PROVE  \E t \in S : \A u \in S : u >= t
<1>1. PICK t \in S : \A u \in S : ~(<<u, t>> \in OpToRel(<, Nat))
  BY NatLessThanWellFounded, WFMin
<1>2. \A u \in S : ~(u < t)
  BY <1>1 DEF OpToRel
<1> QED
  BY <1>2

\* The deadline is the first time at which a registered root is due.
LEMMA EarliestFacts ==
    ASSUME TypeOK, Registered # {}, NEW regs \in [Roots -> Registrations]
    PROVE  /\ Earliest(regs) \in 0..Interval
           /\ \A r \in Registered : regs[r].next >= Earliest(regs)
<1> DEFINE S == {t \in 0..Interval : \E r \in Registered : regs[r].next = t}
<1>1. Registered \subseteq Roots
  BY DEF Registered
<1>2. \A r \in Registered : regs[r].next \in S
  BY <1>1, RegistrationFacts
<1>3. S \in SUBSET Nat /\ S # {}
  BY <1>2, MonitorAssumption
<1>4. PICK t \in S : \A u \in S : u >= t
  BY <1>3, Least
<1>5. \E e \in 0..Interval : /\ \E r \in Registered : regs[r].next = e
                             /\ \A r \in Registered : regs[r].next >= e
  BY <1>2, <1>4
<1> QED
  BY <1>5 DEF Earliest

LEMMA RegisteredFinite ==
    /\ Registered \subseteq Roots
    /\ \A T \in SUBSET Roots : IsFiniteSet(T) /\ Cardinality(T) \in Nat
<1>1. ASSUME NEW T \in SUBSET Roots PROVE IsFiniteSet(T) /\ Cardinality(T) \in Nat
  BY MonitorAssumption, FS_Subset, FS_CardinalityType
<1> QED
  BY <1>1 DEF Registered

---------------------------------------------------------------------------
LEMMA Initially == Init => IInv
<1> SUFFICES ASSUME Init PROVE IInv
  OBVIOUS
<1>1. ScanInv
  BY ScanInitially DEF Init
<1>2. TypeOK
  <2>1. worker \in Workers
    BY MonitorAssumption DEF Init, Workers
  <2>2. registrations \in [Roots -> Registrations]
    BY RegistrationFacts DEF Init
  <2> QED
    BY <1>1, <2>1, <2>2, Types DEF Init, ScanInv
<1>3. Registered = {} /\ worker.pc = "none"
  BY DEF Init, Registered
<1>4. MonitorInv
  <2>1. Cardinality(Registered) = 0
    BY <1>3, FS_EmptySet
  <2> QED
    BY <1>3, <2>1, MonitorAssumption DEF MonitorInv, NeverOversleeps, RegistryBounded
<1> QED
  BY <1>1, <1>2, <1>4 DEF IInv

\* Steps that leave the monitor alone.
LEMMA OthersKeep ==
    ASSUME IInv, ScanInv', UNCHANGED <<registrations, worker, stopping>>,
           adding' \in SUBSET (Roots \X Ids)
    PROVE  IInv'
<1>1. TypeOK'
  BY Types, TypesNext DEF IInv, TypeOK, ScanInv
<1>2. MonitorInv'
  BY DEF IInv, MonitorInv, NeverOversleeps, RegistryBounded, Registered
<1> QED
  BY <1>1, <1>2 DEF IInv

\* What registering makes of the registry.
LEMMA RegisterFacts ==
    ASSUME TypeOK, NEW r \in Roots, NEW i \in Ids, NEW kept \in SUBSET Registered,
           Register(r, i, kept)
    PROVE  /\ registrations' \in [Roots -> Registrations]
           /\ Registered' = kept \cup {r}
           /\ worker' \in Workers /\ worker'.changed /\ worker'.pc # "none"
           /\ registrations'[r].id = i
           /\ \A x \in kept \ {r} : registrations'[x] = registrations[x]
<1> DEFINE new == [id |-> i, next |-> 0]
<1>1. registrations \in [Roots -> Registrations] /\ worker \in Workers
  BY Types
<1>2. new \in Registrations /\ new # Unregistered /\ new.id = i
  BY RegistrationFacts, MonitorAssumption
<1>3. registrations' = [x \in Roots |-> IF x = r THEN new
                                        ELSE IF x \in kept THEN registrations[x] ELSE Unregistered]
  BY DEF Register
<1> HIDE DEF new
<1>4. registrations' \in [Roots -> Registrations]
  BY <1>1, <1>2, <1>3, RegistrationFacts
<1>5. Registered' = kept \cup {r}
  BY <1>2, <1>3 DEF Registered
<1>6. worker' = [worker EXCEPT !.pc = IF worker.pc = "none" THEN "deciding" ELSE worker.pc,
                               !.changed = TRUE]
  BY DEF Register
<1>7. worker' \in Workers /\ worker'.changed /\ worker'.pc # "none"
  BY <1>1, <1>6 DEF Workers
<1>8. registrations'[r] = new /\ kept \subseteq Roots
  BY <1>3, RegisteredFinite
<1>9. \A x \in kept \ {r} : registrations'[x] = registrations[x]
  BY <1>3, <1>8
<1> QED
  BY <1>2, <1>4, <1>5, <1>7, <1>8, <1>9

LEMMA KeptFacts ==
    /\ Kept \subseteq Registered
    /\ \A r \in Registered : validRoot(r, registrations[r].id) => r \in Kept
BY DEF Kept

LEMMA AddLockedKeeps ==
    ASSUME IInv, NEW r \in Roots, NEW i \in Ids, AddLocked(r, i) PROVE IInv'
<1>1. ScanInv' /\ adding' \in SUBSET (Roots \X Ids) /\ stopping' \in BOOLEAN
  BY ScanUnchanged, Types DEF IInv, AddLocked, scanVars, ScanInv, ScanTypeOK
<1>2. CASE UNCHANGED <<registrations, worker>>
  BY <1>1, <1>2, OthersKeep DEF AddLocked
<1>3. ASSUME NEW kept \in SUBSET Registered, Register(r, i, kept),
             r \in kept \/ Cardinality(kept) < Limit
      PROVE  IInv'
  <2>1. /\ registrations' \in [Roots -> Registrations] /\ Registered' = kept \cup {r}
        /\ worker' \in Workers /\ worker'.changed /\ worker'.pc # "none"
    BY <1>3, RegisterFacts DEF IInv
  <2>2. TypeOK'
    BY <1>1, <2>1, Types, TypesNext DEF ScanInv
  <2>3. Cardinality(kept \cup {r}) <= Limit
    <3>1. kept \in SUBSET Roots /\ IsFiniteSet(kept) /\ Cardinality(kept) \in Nat
      BY RegisteredFinite
    <3>2. CASE r \in kept
      <4>1. kept \cup {r} = kept /\ Cardinality(kept) <= Cardinality(Registered)
        BY <3>2, RegisteredFinite, FS_Subset
      <4> QED
        BY <4>1, <3>1, RegisteredFinite, MonitorAssumption DEF IInv, MonitorInv, RegistryBounded
    <3>3. CASE Cardinality(kept) < Limit
      <4>1. Cardinality(kept \cup {r}) \in {Cardinality(kept), Cardinality(kept) + 1}
        BY <3>1, FS_AddElement
      <4> QED
        BY <4>1, <3>1, <3>3, MonitorAssumption
    <3> QED
      BY <3>2, <3>3, <1>3
  <2>4. MonitorInv'
    BY <2>1, <2>3 DEF MonitorInv, NeverOversleeps, RegistryBounded
  <2> QED
    BY <1>1, <2>2, <2>4 DEF IInv
<1>4. CASE r \in Registered /\ Register(r, i, Registered)
  BY <1>3, <1>4
<1>5. CASE r \notin Registered /\ Cardinality(Kept) < Limit /\ Register(r, i, Kept)
  BY <1>3, <1>5, KeptFacts
<1> QED
  BY <1>2, <1>4, <1>5 DEF AddLocked

LEMMA PutOffFacts ==
    ASSUME TypeOK
    PROVE  /\ PutOff \in [Roots -> Registrations]
           /\ \A r \in Roots : PutOff[r] = Unregistered <=> r \notin Registered
           /\ \A r \in Roots : PutOff[r].id = registrations[r].id
<1>1. registrations \in [Roots -> Registrations] /\ Interval \in 0..Interval
  BY Types, MonitorAssumption
<1>2. ASSUME NEW r \in Roots
      PROVE  /\ PutOff[r] \in Registrations /\ PutOff[r].id = registrations[r].id
             /\ PutOff[r] = Unregistered <=> r \notin Registered
  <2>1. CASE r \in Due
    <3>1. r \in Registered /\ registrations[r] # Unregistered /\ registrations[r].id \in Ids
      BY <2>1, <1>1, RegistrationFacts DEF Due, Registered
    <3>2. PutOff[r] = [registrations[r] EXCEPT !.next = Interval]
      BY <2>1 DEF PutOff
    <3>3. PutOff[r] \in Registrations /\ PutOff[r].id = registrations[r].id
      BY <1>1, <3>1, <3>2, RegistrationFacts
    <3> QED
      BY <3>1, <3>3, RegistrationFacts
  <2>2. CASE r \notin Due
    BY <2>2, <1>1 DEF PutOff, Registered
  <2> QED
    BY <2>1, <2>2
<1> QED
  BY <1>2 DEF PutOff

LEMMA DecideKeeps ==
    ASSUME IInv, Decide PROVE IInv'
<1>1. ScanInv' /\ adding' \in SUBSET (Roots \X Ids) /\ stopping' = stopping
      /\ stopping \in BOOLEAN
  BY ScanUnchanged, Types DEF IInv, Decide, scanVars, ScanInv, ScanTypeOK
<1>2. TypeOK /\ Registered # {} /\ worker \in Workers
      /\ registrations \in [Roots -> Registrations]
  BY Types DEF IInv, MonitorInv, Decide
<1>3. CASE stopping
  <2>1. worker' = [worker EXCEPT !.pc = "ended"] /\ registrations' = registrations
    BY <1>3 DEF Decide
  <2>2. worker' \in Workers /\ worker'.pc = "ended"
    BY <2>1, <1>2 DEF Workers
  <2>3. TypeOK'
    BY <1>1, <1>2, <2>1, <2>2, Types, TypesNext DEF ScanInv
  <2>4. MonitorInv'
    BY <1>2, <2>1, <2>2 DEF IInv, MonitorInv, NeverOversleeps, RegistryBounded, Registered
  <2> QED
    BY <1>1, <2>3, <2>4 DEF IInv
<1>4. CASE ~stopping
  <2>1. /\ registrations' = PutOff
        /\ worker' = [pc |-> IF Due # {} THEN "scanning" ELSE "waiting",
                      due |-> {<<r, registrations[r].id>> : r \in Due},
                      deadline |-> Earliest(PutOff),
                      changed |-> FALSE]
    BY <1>4 DEF Decide
  <2>2. PutOff \in [Roots -> Registrations] /\ Registered' = Registered
    BY <1>2, <2>1, PutOffFacts DEF Registered
  <2>3. /\ Earliest(PutOff) \in 0..Interval
        /\ \A r \in Registered : PutOff[r].next >= Earliest(PutOff)
    BY <1>2, <2>2, EarliestFacts
  <2>4. {<<r, registrations[r].id>> : r \in Due} \in SUBSET (Roots \X Ids)
    <3>1. \A r \in Due : r \in Roots /\ registrations[r].id \in Ids
      BY <1>2, RegistrationFacts DEF Due, Registered
    <3> QED
      BY <3>1
  <2>5. worker' \in Workers /\ worker'.deadline = Earliest(PutOff)
        /\ worker'.pc \in {"scanning", "waiting"}
    BY <2>1, <2>3, <2>4 DEF Workers
  <2>6. TypeOK'
    BY <1>1, <2>1, <2>2, <2>5, Types, TypesNext DEF ScanInv
  <2>7. MonitorInv'
    BY <1>2, <2>1, <2>2, <2>3, <2>5 DEF IInv, MonitorInv, NeverOversleeps, RegistryBounded
  <2> QED
    BY <1>1, <2>6, <2>7 DEF IInv
<1> QED
  BY <1>3, <1>4

\* Steps of the thread that leave the registry and the deadline alone.
LEMMA WorkerMoves ==
    ASSUME IInv, ScanInv', UNCHANGED <<registrations, stopping, adding>>,
           worker' \in Workers,
           worker.pc # "none", worker'.pc # "waiting"
    PROVE  IInv'
<1>1. TypeOK'
  BY Types, TypesNext DEF IInv, ScanInv
<1>2. MonitorInv'
  BY DEF IInv, MonitorInv, NeverOversleeps, RegistryBounded, Registered
<1> QED
  BY <1>1, <1>2 DEF IInv

LEMMA ScanDueKeeps ==
    ASSUME IInv, ScanDue PROVE IInv'
<1>1. worker \in Workers /\ worker.pc = "scanning"
      /\ UNCHANGED <<registrations, stopping, adding>>
  BY Types DEF IInv, ScanDue
<1>2. ASSUME NEW p \in worker.due, runOnce(Monitor, p[1], p[2]),
             worker' = [worker EXCEPT !.due = worker.due \ {p}]
      PROVE  IInv'
  <2>1. p[1] \in Roots /\ p[2] \in Ids
    BY <1>1, <1>2, WorkerFacts
  <2>2. ScanInv'
    BY <1>2, <2>1, RunOnceKeeps, MonitorAssumption DEF IInv, ScanDue
  <2>3. worker' \in Workers /\ worker'.pc = "scanning"
    BY <1>1, <1>2 DEF Workers
  <2> QED
    BY <1>1, <2>2, <2>3, WorkerMoves
<1>3. CASE worker.due = {} /\ worker' = [worker EXCEPT !.pc = "deciding"] /\ UNCHANGED scan
  <2>1. ScanInv'
    BY <1>3, ScanUnchanged DEF IInv, ScanDue, ScanInv, ScanTypeOK
  <2>2. worker' \in Workers /\ worker'.pc = "deciding"
    BY <1>1, <1>3 DEF Workers
  <2> QED
    BY <1>1, <2>1, <2>2, WorkerMoves
<1> QED
  BY <1>2, <1>3 DEF ScanDue

LEMMA WakeKeeps ==
    ASSUME IInv, Wake PROVE IInv'
<1>1. ScanInv'
  BY ScanUnchanged DEF IInv, Wake, scanVars, ScanInv, ScanTypeOK
<1>2. worker' \in Workers /\ worker'.pc = "deciding" /\ worker.pc = "waiting"
  BY Types DEF IInv, Wake, Workers
<1> QED
  BY <1>1, <1>2, WorkerMoves DEF Wake

LEMMA StopKeeps ==
    ASSUME IInv, Stop PROVE IInv'
<1>1. ScanInv'
  BY ScanUnchanged DEF IInv, Stop, scanVars, ScanInv, ScanTypeOK
<1>2. TypeOK'
  BY <1>1, Types, TypesNext DEF IInv, Stop, ScanInv
<1>3. MonitorInv'
  BY DEF IInv, Stop, MonitorInv, NeverOversleeps, RegistryBounded, Registered
<1> QED
  BY <1>1, <1>2, <1>3 DEF IInv

LEMMA SoonerFacts ==
    \A t \in 0..Interval :
        /\ Sooner(t) \in 0..Interval
        /\ t = 0 => Sooner(t) = 0
        /\ \A u \in 0..Interval : u >= t => Sooner(u) >= Sooner(t)
BY MonitorAssumption DEF Sooner

LEMMA TickFacts ==
    ASSUME TypeOK, Tick
    PROVE  /\ registrations' \in [Roots -> Registrations] /\ Registered' = Registered
           /\ \A r \in Roots : /\ registrations'[r].next = Sooner(registrations[r].next)
                               /\ registrations'[r].id = registrations[r].id
<1>1. registrations \in [Roots -> Registrations]
  BY Types
<1>2. ASSUME NEW r \in Roots
      PROVE  /\ registrations'[r] \in Registrations
             /\ registrations'[r].next = Sooner(registrations[r].next)
             /\ registrations'[r].id = registrations[r].id
             /\ registrations'[r] = Unregistered <=> registrations[r] = Unregistered
  <2>1. registrations'[r] = [registrations[r] EXCEPT !.next = Sooner(registrations[r].next)]
    BY DEF Tick
  <2>2. registrations[r].next \in 0..Interval
        /\ Sooner(registrations[r].next) \in 0..Interval
    BY <1>1, RegistrationFacts, SoonerFacts
  <2>3. registrations[r] # Unregistered \/ Sooner(registrations[r].next) = 0
    BY <2>2, RegistrationFacts, SoonerFacts
  <2>4. /\ registrations'[r] \in Registrations
        /\ registrations'[r].next = Sooner(registrations[r].next)
        /\ registrations'[r].id = registrations[r].id
    BY <1>1, <2>1, <2>2, <2>3, RegistrationFacts
  <2> QED
    BY <1>1, <2>4, RegistrationFacts, ScanAssumption
<1> QED
  BY <1>2 DEF Tick, Registered

LEMMA TickKeeps ==
    ASSUME IInv, Tick PROVE IInv'
<1>1. ScanInv'
  BY ScanUnchanged DEF IInv, Tick, scanVars, ScanInv, ScanTypeOK
<1>2. TypeOK /\ worker \in Workers /\ registrations \in [Roots -> Registrations]
  BY Types DEF IInv
<1>3. /\ registrations' \in [Roots -> Registrations] /\ Registered' = Registered
      /\ \A r \in Roots : registrations'[r].next = Sooner(registrations[r].next)
  BY <1>2, TickFacts
<1>4. worker' = [worker EXCEPT !.deadline = Sooner(worker.deadline)]
  BY DEF Tick
<1>5. worker' \in Workers /\ worker'.pc = worker.pc /\ worker'.changed = worker.changed
      /\ worker'.deadline = Sooner(worker.deadline)
  BY <1>2, <1>4, SoonerFacts DEF Workers
<1>6. TypeOK'
  BY <1>1, <1>2, <1>3, <1>5, Types, TypesNext DEF Tick, ScanInv
<1>7. NeverOversleeps'
  <2> SUFFICES ASSUME worker'.pc = "waiting", ~worker'.changed, NEW r \in Registered'
               PROVE  registrations'[r].next >= worker'.deadline
    BY DEF NeverOversleeps
  <2>1. r \in Roots /\ registrations[r].next >= worker.deadline
    BY <1>3, <1>5, RegisteredFinite DEF IInv, MonitorInv, NeverOversleeps
  <2>2. registrations[r].next \in 0..Interval /\ worker.deadline \in 0..Interval
    BY <2>1, <1>2, RegistrationFacts, WorkerFacts
  <2> QED
    BY <2>1, <2>2, <1>3, <1>5, SoonerFacts
<1>8. MonitorInv'
  BY <1>3, <1>5, <1>7 DEF IInv, MonitorInv, RegistryBounded
<1> QED
  BY <1>1, <1>6, <1>8 DEF IInv

\* Only the first component of monitorVars may be read by the scan's steps.
LEMMA ScanSideKeeps ==
    ASSUME IInv, ScanInv', UNCHANGED monitorVars PROVE IInv'
<1>1. adding' \in SUBSET (Roots \X Ids)
  BY Types DEF IInv, monitorVars
<1> QED
  BY <1>1, OthersKeep DEF monitorVars

---------------------------------------------------------------------------
LEMMA StepKeeps == IInv /\ [Next]_vars => IInv'
<1> SUFFICES ASSUME IInv, [Next]_vars PROVE IInv'
  OBVIOUS
<1>1. ScanInv /\ ScanTypeOK
  BY DEF IInv, ScanInv
<1>2. ASSUME NEW r \in Roots, NEW i \in Ids, Add(r, i) PROVE IInv'
  <2>1. events' \in 0..MaxEvents
    BY <1>1, <1>2, Counted DEF Add
  <2>2. ScanInv'
    BY <1>1, <1>2, <2>1, ScanUnchanged DEF Add, ScanTypeOK
  <2>3. adding' \in SUBSET (Roots \X Ids)
    BY <1>2, Types DEF Add, IInv
  <2> QED
    BY <1>2, <2>2, <2>3, OthersKeep DEF Add
<1>3. ASSUME NEW r \in Roots, NEW i \in Ids, AddLocked(r, i) PROVE IInv'
  BY <1>3, AddLockedKeeps
<1>4. ASSUME NEW r \in Roots, NEW i \in Ids, NEW s \in Scanners, ToolRuns(s, r, i) PROVE IInv'
  <2>1. ScanInv'
    BY <1>1, <1>4, RunOnceKeeps DEF ToolRuns
  <2> QED
    BY <1>4, <2>1, ScanSideKeeps DEF ToolRuns, monitorVars
<1>5. CASE Decide
  BY <1>5, DecideKeeps
<1>6. CASE ScanDue
  BY <1>6, ScanDueKeeps
<1>7. CASE Wake
  BY <1>7, WakeKeeps
<1>8. CASE Stop
  BY <1>8, StopKeeps
<1>9. CASE Tick
  BY <1>9, TickKeeps
<1>10. ASSUME NEW s \in Scanners, ScanGoesOn(s) PROVE IInv'
  BY <1>1, <1>10, ScanStepKeeps, ScanSideKeeps DEF ScanGoesOn
<1>11. ASSUME NEW s \in Scanners, ToolCrash(s) PROVE IInv'
  BY <1>1, <1>11, ScannerCrashKeeps, ScanSideKeeps DEF ToolCrash
<1>12. CASE Surroundings /\ UNCHANGED monitorVars
  BY <1>1, <1>12, SurroundingsKeep, ScanSideKeeps
<1>13. CASE UNCHANGED vars
  <2>1. ScanInv'
    BY <1>1, <1>13, ScanUnchanged DEF vars, scanVars, ScanTypeOK
  <2> QED
    BY <1>13, <2>1, ScanSideKeeps DEF vars
<1> QED
  BY <1>2, <1>3, <1>4, <1>5, <1>6, <1>7, <1>8, <1>9, <1>10, <1>11, <1>12, <1>13 DEF Next

\* The inductive invariant of the monitor and of all scans.
THEOREM Invariance == Spec => []IInv
BY Initially, StepKeeps, PTL DEF Spec

\* Every variable stays in its type.
THEOREM TypeCorrect == Spec => []TypeOK
BY Invariance, PTL DEF IInv

\* No scan removes the file of a living writer (Scan::files, orphanJobs).
THEOREM LiveFilesAreKept == Spec => []LiveFilesKept
<1>1. IInv => LiveFilesKept
  BY DEF IInv, ScanInv
<1> QED
  BY Invariance, <1>1, PTL

\* No scan removes the newest log (Scan::logs).
THEOREM NewestLogIsKept == Spec => []NewestLogKept
<1>1. IInv => NewestLogKept
  BY DEF IInv, ScanInv
<1> QED
  BY Invariance, <1>1, PTL

\* The thread does not sleep past a scan (Monitor::work).
THEOREM WakesInTime == Spec => []NeverOversleeps
<1>1. IInv => NeverOversleeps
  BY DEF IInv, MonitorInv
<1> QED
  BY Invariance, <1>1, PTL

\* The registry keeps its bound (Monitor::add).
THEOREM RegistryIsBounded == Spec => []RegistryBounded
<1>1. IInv => RegistryBounded
  BY DEF IInv, MonitorInv
<1> QED
  BY Invariance, <1>1, PTL

---------------------------------------------------------------------------
(* What a step may forget. *)
ForgetsStep ==
    /\ \A r \in Registered : validRoot(r, registrations[r].id) => r \in Registered'
    /\ \A p \in adding \ adding' : p[1] \notin Registered' =>
          /\ Cardinality(Registered') = Limit
          /\ \A r \in Registered' : validRoot(r, registrations[r].id)

LEMMA AddLockedForgets ==
    ASSUME IInv, NEW r \in Roots, NEW i \in Ids, AddLocked(r, i) PROVE ForgetsStep
<1>1. TypeOK /\ registrations \in [Roots -> Registrations] /\ RegistryBounded
  BY Types DEF IInv, MonitorInv
<1>2. \A p \in adding \ adding' : p[1] = r
  BY DEF AddLocked
<1>3. CASE registrations[r].id = i /\ UNCHANGED <<registrations, worker>>
  <2>1. Registered' = Registered /\ r \in Registered
    BY <1>1, <1>3, RegistrationFacts DEF Registered
  <2> QED
    BY <2>1, <1>2 DEF ForgetsStep
<1>4. ASSUME NEW kept \in SUBSET Registered, Register(r, i, kept),
             \A x \in Registered : validRoot(x, registrations[x].id) => x \in kept
      PROVE  ForgetsStep
  <2>1. Registered' = kept \cup {r}
    BY <1>1, <1>4, RegisterFacts
  <2> QED
    BY <2>1, <1>2, <1>4 DEF ForgetsStep
<1>5. CASE r \in Registered /\ Register(r, i, Registered)
  BY <1>4, <1>5
<1>6. CASE Register(r, i, Kept)
  BY <1>4, <1>6, KeptFacts
<1>7. CASE ~(Cardinality(Kept) < Limit) /\ UNCHANGED <<registrations, worker>>
  <2>1. Registered' = Registered
    BY <1>7 DEF Registered
  <2>2. /\ IsFiniteSet(Registered) /\ Cardinality(Registered) \in Nat
        /\ Kept \subseteq Registered /\ Cardinality(Kept) \in Nat
    BY RegisteredFinite, KeptFacts
  <2>3. /\ Cardinality(Kept) <= Cardinality(Registered)
        /\ Cardinality(Kept) = Cardinality(Registered) => Kept = Registered
    BY <2>2, FS_Subset
  <2>4. Cardinality(Registered) <= Limit /\ Limit \in Nat
    BY <1>1, MonitorAssumption DEF RegistryBounded
  <2>5. Cardinality(Registered) = Limit /\ Kept = Registered
    BY <2>2, <2>3, <2>4, <1>7
  <2>6. \A x \in Registered : validRoot(x, registrations[x].id)
    <3>1. Kept = {x \in Registered : validRoot(x, registrations[x].id)}
      BY <2>4, <2>5 DEF Kept
    <3> QED
      BY <3>1, <2>5
  <2> QED
    BY <2>1, <2>5, <2>6 DEF ForgetsStep
<1> QED
  BY <1>3, <1>5, <1>6, <1>7 DEF AddLocked

LEMMA OthersForget ==
    ASSUME Registered' = Registered, adding \subseteq adding' PROVE ForgetsStep
BY DEF ForgetsStep

LEMMA StepForgets == IInv /\ [Next]_vars => [ForgetsStep]_vars
<1> SUFFICES ASSUME IInv, Next PROVE ForgetsStep
  BY DEF vars
<1>1. TypeOK /\ registrations \in [Roots -> Registrations]
  BY Types DEF IInv
<1>2. ASSUME UNCHANGED registrations, adding \subseteq adding' PROVE ForgetsStep
  BY <1>2, OthersForget DEF Registered
<1>3. ASSUME NEW r \in Roots, NEW i \in Ids, Add(r, i) PROVE ForgetsStep
  BY <1>2, <1>3 DEF Add
<1>4. ASSUME NEW r \in Roots, NEW i \in Ids, AddLocked(r, i) PROVE ForgetsStep
  BY <1>4, AddLockedForgets
<1>5. CASE Decide
  <2>1. registrations' = registrations \/ registrations' = PutOff
    BY <1>5 DEF Decide
  <2>2. Registered' = Registered
    BY <1>1, <2>1, PutOffFacts DEF Registered
  <2> QED
    BY <1>5, <2>2, OthersForget DEF Decide
<1>6. CASE Tick
  <2>1. Registered' = Registered
    BY <1>1, <1>6, TickFacts
  <2> QED
    BY <1>6, <2>1, OthersForget DEF Tick
<1>7. CASE ScanDue \/ Wake \/ Stop
  BY <1>2, <1>7 DEF ScanDue, Wake, Stop
<1>8. CASE UNCHANGED monitorVars
  BY <1>2, <1>8 DEF monitorVars
<1>9. ASSUME NEW s \in Scanners, ScanGoesOn(s) \/ ToolCrash(s) PROVE ForgetsStep
  BY <1>8, <1>9 DEF ScanGoesOn, ToolCrash
<1>10. ASSUME NEW r \in Roots, NEW i \in Ids, NEW s \in Scanners, ToolRuns(s, r, i)
       PROVE  ForgetsStep
  BY <1>8, <1>10 DEF ToolRuns
<1> QED
  BY <1>3, <1>4, <1>5, <1>6, <1>7, <1>8, <1>9, <1>10 DEF Next

\* Adding a drive forgets no valid one, and only a registry full of valid drives
\* refuses it (Monitor::add).
THEOREM OnlyStaleAreForgotten == Spec => ForgetsOnlyStale
<1>1. [][ForgetsStep]_vars => ForgetsOnlyStale
  BY PTL DEF ForgetsStep, ForgetsOnlyStale
<1> QED
  BY Invariance, StepForgets, <1>1, PTL DEF Spec
=============================================================================
