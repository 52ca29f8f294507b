----------------------- MODULE DriveManifest_proofs -----------------------
(***************************************************************************)
(* Theorems about DriveManifest for any callers and identifiers.           *)
(*                                                                         *)
(* The manifest has two locks, so no single lock orders its writers.  The  *)
(* argument: a caller that upgrades the layout holds the layout lock and   *)
(* sees a legacy manifest equal to the file's; a caller that adopts or     *)
(* completes holds the drive lock and sees one that is not legacy, and no  *)
(* write makes a manifest legacy again.  So the two never meet.            *)
(***************************************************************************)
EXTENDS DriveManifest, TLAPS

\* The caller holds the drive lock.
DriveHeld(s) ==
    \/ s.call \in {"adoptLocked", "adoptFinal", "completeLocked",
                   "createOpen", "createReady", "createRecheck"}
    \/ s.call = "create" /\ s.pc # "createLock"

\* open is past its layout lock.
Upgrading(s) ==
    \/ s.pc \in {"files", "write"}
    \/ s.pc = "photos" /\ s.call # "create"

\* create makes a new drive.
Creating(s) ==
    \/ s.pc \in {"mkdir", "commit"}
    \/ s.pc = "photos" /\ s.call = "create"

DriveLock == \A p \in Procs : DriveHeld(proc[p]) => lock["drive"] = p

LayoutLock ==
    \A p \in Procs : (Upgrading(proc[p]) \/ proc[p].pc = "recheck") => lock["layout"] = p

\* A caller that upgrades has read a legacy manifest; it is still the file's.
UpgradeInv ==
    \A p \in Procs :
        /\ proc[p].pc \in {"layoutLock", "recheck"} \/ Upgrading(proc[p])
             => proc[p].seen \in Manifest /\ Legacy(proc[p].seen)
        /\ Upgrading(proc[p]) => manifest = proc[p].seen
        /\ proc[p].pc = "photos" /\ proc[p].call # "create"
             => ~proc[p].seen.photosListed
        /\ proc[p].pc = "files" => LegacyFiles(proc[p].seen)
        /\ proc[p].pc \in {"files", "write"} => photosDir

\* Under the drive lock the identity is the one open has just found.
ReplicaInv ==
    \A p \in Procs :
        /\ proc[p].pc = "opened" => manifest # NoManifest
        /\ proc[p].pc = "opened" /\ DriveHeld(proc[p])
             => ~Legacy(manifest) /\ manifest.id = proc[p].handle
        /\ proc[p].pc \in {"cleanup", "replace"}
             => /\ manifest # NoManifest
                /\ proc[p].seen = manifest
                /\ ~Legacy(manifest)
                /\ proc[p].call \in {"adoptLocked", "completeLocked"}
                /\ proc[p].call = "adoptLocked"
                     => proc[p].handle = manifest.id /\ proc[p].host \in Ids
                /\ proc[p].call = "completeLocked" => manifest.local # NoId
        /\ proc[p].pc = "cleanup"
             => ~manifest.filesVersion /\ proc[p].call = "completeLocked"
        /\ proc[p].call \in {"adopt", "adoptLocked"} => proc[p].host \in Ids
        /\ proc[p].call = "adoptFinal"
             => manifest # NoManifest /\ manifest.id = proc[p].host

\* A new drive is made while there is no manifest, by the drive lock's owner.
CreateInv ==
    \A p \in Procs :
        /\ proc[p].pc \in {"createLock", "createCheck", "mkdir", "commit"}
             => proc[p].call = "create"
        /\ proc[p].pc \in {"read", "layoutLock", "recheck", "files", "write", "opened"}
             => proc[p].call # "create"
        /\ Creating(proc[p]) => manifest = NoManifest
        /\ Creating(proc[p]) /\ proc[p].pc # "mkdir" => sections /\ photosDir
        /\ proc[p].pc = "validate"
             => manifest # NoManifest /\ ReadyNow(p) /\ proc[p].call = "createRecheck"
        /\ proc[p].pc = "modelsLock" => proc[p].call = "createReady"

IInv ==
    /\ TypeOK
    /\ DriveLock
    /\ LayoutLock
    /\ UpgradeInv
    /\ ReplicaInv
    /\ CreateInv
    /\ SectionsBackManifest

---------------------------------------------------------------------------
(* What an upgrade, an adoption, a completion and a creation write. *)
LEMMA UpgradedFacts ==
    ASSUME NEW m \in Manifest
    PROVE /\ Upgraded(m) \in Manifest /\ ~Legacy(Upgraded(m))
          /\ Upgraded(m).photosListed
          /\ Upgraded(m).id = m.id /\ Upgraded(m).ready = m.ready
          /\ Upgraded(m).local = m.local
          /\ Upgraded(m).previous = m.previous
BY DEF Manifest, Upgraded, Legacy, LegacyFiles, Readiness

(* An adoption keeps the layout and the first identity. *)
LEMMA AdoptedFacts ==
    ASSUME NEW m \in Manifest, NEW checked \in Ids, NEW host \in Ids
    PROVE /\ Adopted(m, checked, host) \in Manifest
          /\ Adopted(m, checked, host).id = host
          /\ Adopted(m, checked, host).ready = "syncing"
          /\ Adopted(m, checked, host).photosListed = m.photosListed
          /\ Adopted(m, checked, host).filesVersion = m.filesVersion
          /\ Adopted(m, checked, host).local =
               IF m.local = NoId THEN checked ELSE m.local
          /\ Adopted(m, checked, host).previous =
               IF checked # host \/ m.previous = NoId THEN checked ELSE m.previous
BY DEF Manifest, Adopted, Readiness

(* A completion keeps the identities and makes the layout current. *)
LEMMA CompletedFacts ==
    ASSUME NEW m \in Manifest
    PROVE /\ Completed(m) \in Manifest
          /\ Completed(m).id = m.id /\ Completed(m).local = m.local
          /\ Completed(m).previous = m.previous
          /\ Completed(m).photosListed = m.photosListed
          /\ Completed(m).filesVersion /\ Completed(m).ready = "ready"
BY DEF Manifest, Completed, Readiness

(* A new manifest is not legacy. *)
LEMMA CreatedFacts ==
    ASSUME NEW id \in Ids
    PROVE Created(id) \in Manifest /\ ~Legacy(Created(id))
BY DEF Manifest, Created, Legacy, LegacyFiles, Readiness

(* Under the drive lock a replacement is made from the file's manifest. *)
LEMMA ReplaceFacts ==
    ASSUME IInv, NEW p \in Procs, At(p, "replace")
    PROVE /\ manifest \in Manifest /\ manifest.photosListed
          /\ Replacement(proc[p]) \in Manifest
          /\ ~Legacy(Replacement(proc[p])) /\ Replacement(proc[p]).photosListed
          /\ proc[p].call = "adoptLocked" => Replacement(proc[p]).id = proc[p].host
          /\ proc[p].call \in {"adoptLocked", "completeLocked"}
<1>1. /\ manifest \in Manifest /\ manifest.photosListed
      /\ proc[p].seen = manifest /\ ~Legacy(manifest)
  BY DEF IInv, TypeOK, ReplicaInv, At, Legacy
<1>2. CASE proc[p].call = "adoptLocked"
  <2>1. proc[p].handle \in Ids /\ proc[p].host \in Ids
    BY <1>1, <1>2 DEF IInv, TypeOK, ReplicaInv, At, Manifest
  <2>2. Replacement(proc[p]) = Adopted(manifest, proc[p].handle, proc[p].host)
    BY <1>1, <1>2 DEF Replacement
  <2> QED
    BY <1>1, <1>2, <2>1, <2>2, AdoptedFacts DEF Legacy, LegacyFiles
<1>3. CASE proc[p].call = "completeLocked"
  <2>1. Replacement(proc[p]) = Completed(manifest)
    BY <1>1, <1>3 DEF Replacement
  <2> QED
    BY <1>1, <1>3, <2>1, CompletedFacts DEF Legacy, LegacyFiles
<1> QED
  BY <1>2, <1>3 DEF IInv, ReplicaInv, At

---------------------------------------------------------------------------
(* Every step preserves every part of the invariant.                       *)

(* A step keeps the types. *)
LEMMA TypeOKStep == IInv /\ [Next]_vars => TypeOK'
<1> SUFFICES ASSUME IInv, [Next]_vars PROVE TypeOK'
  OBVIOUS
<1> USE ConstantsDistinct DEF IInv, TypeOK, Labels, Calls, Openable, At, For, Goto,
   Return, Reopen, Take, Without, Locks, Idle, With, To, Start, Process, disk
<1>1. ASSUME NEW p \in Procs, Begin(p) PROVE TypeOK'
  BY <1>1 DEF Begin
<1>2. ASSUME NEW p \in Procs, Read(p) PROVE TypeOK'
  BY <1>2 DEF Read, Manifest
<1>3. ASSUME NEW p \in Procs, LockLayout(p) PROVE TypeOK'
  BY <1>3 DEF LockLayout
<1>4. ASSUME NEW p \in Procs, Recheck(p) PROVE TypeOK'
  BY <1>4 DEF Recheck, Unchanged
<1>5. ASSUME NEW p \in Procs, MovePhotos(p) PROVE TypeOK'
  <2>1. AfterPhotos(proc[p]) \in Labels
    BY DEF AfterPhotos
  <2>2. proc[p] \in Process /\ To(proc[p], AfterPhotos(proc[p])) \in Process
    BY <2>1
  <2>3. proc' \in [Procs -> Process]
    BY <1>5, <2>2 DEF MovePhotos
  <2>4. photosDir' \in BOOLEAN /\ sections' \in BOOLEAN /\ oldPhotos' \in BOOLEAN
    BY <1>5 DEF MovePhotos, Rollback
  <2>5. lock' \in [Locks -> Procs \cup {NoProc}]
    BY <1>5 DEF MovePhotos
  <2>6. UNCHANGED <<manifest, legacyDirs>>
    BY <1>5 DEF MovePhotos, Rollback
  <2> QED
    BY <2>3, <2>4, <2>5, <2>6
<1>6. ASSUME NEW p \in Procs, RemoveLegacyDirs(p) PROVE TypeOK'
  BY <1>6 DEF RemoveLegacyDirs
<1>7. ASSUME NEW p \in Procs, WriteUpgrade(p) PROVE TypeOK'
  BY <1>7, UpgradedFacts DEF WriteUpgrade, UpgradeInv, Upgrading, Manifest
<1>8. ASSUME NEW p \in Procs, HandOut(p) PROVE TypeOK'
  BY <1>8 DEF HandOut
<1>9. ASSUME NEW p \in Procs, LockDrive(p) PROVE TypeOK'
  BY <1>9 DEF LockDrive
<1>10. ASSUME NEW p \in Procs, LoadForAdoption(p) PROVE TypeOK'
  BY <1>10 DEF LoadForAdoption
<1>11. ASSUME NEW p \in Procs, LoadForCompletion(p) PROVE TypeOK'
  BY <1>11 DEF LoadForCompletion
<1>12. ASSUME NEW p \in Procs, Replace(p) PROVE TypeOK'
  BY <1>12, ReplaceFacts DEF Replace
<1>13. ASSUME NEW p \in Procs, CheckReady(p) PROVE TypeOK'
  BY <1>13 DEF CheckReady
<1>14. ASSUME NEW p \in Procs, LockCreate(p) PROVE TypeOK'
  BY <1>14 DEF LockCreate
<1>15. ASSUME NEW p \in Procs, CheckExisting(p) PROVE TypeOK'
  BY <1>15 DEF CheckExisting
<1>16. ASSUME NEW p \in Procs, ReopenExisting(p) PROVE TypeOK'
  BY <1>16 DEF ReopenExisting
<1>17. ASSUME NEW p \in Procs, LockModels(p) PROVE TypeOK'
  BY <1>17 DEF LockModels
<1>18. ASSUME NEW p \in Procs, ValidateModels(p) PROVE TypeOK'
  BY <1>18 DEF ValidateModels
<1>19. ASSUME NEW p \in Procs, MakeSections(p) PROVE TypeOK'
  <2>1. Making(Missing) \in Process
    BY DEF Making, Missing
  <2>2. proc' \in [Procs -> Process]
    BY <1>19, <2>1 DEF MakeSections
  <2>3. sections' \in BOOLEAN /\ photosDir' \in BOOLEAN
    BY <1>19 DEF MakeSections
  <2>4. lock' \in [Locks -> Procs \cup {NoProc}]
    BY <1>19 DEF MakeSections
  <2>5. UNCHANGED <<manifest, oldPhotos, legacyDirs>>
    BY <1>19 DEF MakeSections
  <2> QED
    BY <2>2, <2>3, <2>4, <2>5
<1>20. ASSUME NEW p \in Procs, CommitCreate(p) PROVE TypeOK'
  BY <1>20, CreatedFacts DEF CommitCreate, Rollback
<1>21. ASSUME NEW p \in Procs, Crash(p) PROVE TypeOK'
  BY <1>21 DEF Crash
<1>22. CASE UserMakesPhotos
  BY <1>22 DEF UserMakesPhotos
<1>23. CASE UserMakesDirectory
  BY <1>23 DEF UserMakesDirectory
<1>24. CASE UNCHANGED vars
  BY <1>24 DEF vars
<1> QED
  BY <1>1, <1>2, <1>3, <1>4, <1>5, <1>6, <1>7, <1>8, <1>9, <1>10, <1>11, <1>12,
     <1>13, <1>14, <1>15, <1>16, <1>17, <1>18, <1>19, <1>20, <1>21, <1>22, <1>23, <1>24 DEF Next, Step, OpenStep, ReplicaStep, CreateStep

(* A step keeps: a caller in an operation's locked part owns the drive lock. *)
LEMMA DriveLockStep == IInv /\ [Next]_vars => DriveLock'
<1> SUFFICES ASSUME IInv, [Next]_vars PROVE DriveLock'
  OBVIOUS
<1> USE ConstantsDistinct DEF IInv, DriveLock, DriveHeld, TypeOK, CreateInv, At, For,
   Goto, Return, Reopen, Take, Without, Locks, Idle, With, To, Start, Process, disk
<1>1. ASSUME NEW p \in Procs, Begin(p) PROVE DriveLock'
  BY <1>1 DEF Begin
<1>2. ASSUME NEW p \in Procs, Read(p) PROVE DriveLock'
  BY <1>2 DEF Read
<1>3. ASSUME NEW p \in Procs, LockLayout(p) PROVE DriveLock'
  BY <1>3 DEF LockLayout
<1>4. ASSUME NEW p \in Procs, Recheck(p) PROVE DriveLock'
  BY <1>4 DEF Recheck, Unchanged
<1>5. ASSUME NEW p \in Procs, MovePhotos(p) PROVE DriveLock'
  BY <1>5 DEF MovePhotos, Rollback, AfterPhotos
<1>6. ASSUME NEW p \in Procs, RemoveLegacyDirs(p) PROVE DriveLock'
  BY <1>6 DEF RemoveLegacyDirs
<1>7. ASSUME NEW p \in Procs, WriteUpgrade(p) PROVE DriveLock'
  BY <1>7, UpgradedFacts DEF WriteUpgrade
<1>8. ASSUME NEW p \in Procs, HandOut(p) PROVE DriveLock'
  BY <1>8 DEF HandOut
<1>9. ASSUME NEW p \in Procs, LockDrive(p) PROVE DriveLock'
  BY <1>9 DEF LockDrive
<1>10. ASSUME NEW p \in Procs, LoadForAdoption(p) PROVE DriveLock'
  BY <1>10 DEF LoadForAdoption
<1>11. ASSUME NEW p \in Procs, LoadForCompletion(p) PROVE DriveLock'
  BY <1>11 DEF LoadForCompletion
<1>12. ASSUME NEW p \in Procs, Replace(p) PROVE DriveLock'
  BY <1>12, ReplaceFacts DEF Replace
<1>13. ASSUME NEW p \in Procs, CheckReady(p) PROVE DriveLock'
  BY <1>13 DEF CheckReady
<1>14. ASSUME NEW p \in Procs, LockCreate(p) PROVE DriveLock'
  BY <1>14 DEF LockCreate
<1>15. ASSUME NEW p \in Procs, CheckExisting(p) PROVE DriveLock'
  BY <1>15 DEF CheckExisting
<1>16. ASSUME NEW p \in Procs, ReopenExisting(p) PROVE DriveLock'
  BY <1>16 DEF ReopenExisting
<1>17. ASSUME NEW p \in Procs, LockModels(p) PROVE DriveLock'
  BY <1>17 DEF LockModels
<1>18. ASSUME NEW p \in Procs, ValidateModels(p) PROVE DriveLock'
  BY <1>18 DEF ValidateModels
<1>19. ASSUME NEW p \in Procs, MakeSections(p) PROVE DriveLock'
  BY <1>19 DEF MakeSections, Making
<1>20. ASSUME NEW p \in Procs, CommitCreate(p) PROVE DriveLock'
  BY <1>20, CreatedFacts DEF CommitCreate, Rollback
<1>21. ASSUME NEW p \in Procs, Crash(p) PROVE DriveLock'
  BY <1>21 DEF Crash
<1>22. CASE UserMakesPhotos
  BY <1>22 DEF UserMakesPhotos
<1>23. CASE UserMakesDirectory
  BY <1>23 DEF UserMakesDirectory
<1>24. CASE UNCHANGED vars
  BY <1>24 DEF vars
<1> QED
  BY <1>1, <1>2, <1>3, <1>4, <1>5, <1>6, <1>7, <1>8, <1>9, <1>10, <1>11, <1>12,
     <1>13, <1>14, <1>15, <1>16, <1>17, <1>18, <1>19, <1>20, <1>21, <1>22, <1>23, <1>24 DEF Next, Step, OpenStep, ReplicaStep, CreateStep

(* A step keeps: a caller that upgrades owns the layout lock. *)
LEMMA LayoutLockStep == IInv /\ [Next]_vars => LayoutLock'
<1> SUFFICES ASSUME IInv, [Next]_vars PROVE LayoutLock'
  OBVIOUS
<1> USE ConstantsDistinct DEF IInv, LayoutLock, Upgrading, TypeOK, At, For, Goto,
   Return, Reopen, Take, Without, Locks, Idle, With, To, Start, Process, disk
<1>1. ASSUME NEW p \in Procs, Begin(p) PROVE LayoutLock'
  BY <1>1 DEF Begin
<1>2. ASSUME NEW p \in Procs, Read(p) PROVE LayoutLock'
  BY <1>2 DEF Read
<1>3. ASSUME NEW p \in Procs, LockLayout(p) PROVE LayoutLock'
  BY <1>3 DEF LockLayout
<1>4. ASSUME NEW p \in Procs, Recheck(p) PROVE LayoutLock'
  BY <1>4 DEF Recheck, Unchanged
<1>5. ASSUME NEW p \in Procs, MovePhotos(p) PROVE LayoutLock'
  BY <1>5 DEF MovePhotos, Rollback, AfterPhotos
<1>6. ASSUME NEW p \in Procs, RemoveLegacyDirs(p) PROVE LayoutLock'
  BY <1>6 DEF RemoveLegacyDirs
<1>7. ASSUME NEW p \in Procs, WriteUpgrade(p) PROVE LayoutLock'
  BY <1>7, UpgradedFacts DEF WriteUpgrade
<1>8. ASSUME NEW p \in Procs, HandOut(p) PROVE LayoutLock'
  BY <1>8 DEF HandOut
<1>9. ASSUME NEW p \in Procs, LockDrive(p) PROVE LayoutLock'
  BY <1>9 DEF LockDrive
<1>10. ASSUME NEW p \in Procs, LoadForAdoption(p) PROVE LayoutLock'
  BY <1>10 DEF LoadForAdoption
<1>11. ASSUME NEW p \in Procs, LoadForCompletion(p) PROVE LayoutLock'
  BY <1>11 DEF LoadForCompletion
<1>12. ASSUME NEW p \in Procs, Replace(p) PROVE LayoutLock'
  BY <1>12, ReplaceFacts DEF Replace
<1>13. ASSUME NEW p \in Procs, CheckReady(p) PROVE LayoutLock'
  BY <1>13 DEF CheckReady
<1>14. ASSUME NEW p \in Procs, LockCreate(p) PROVE LayoutLock'
  BY <1>14 DEF LockCreate
<1>15. ASSUME NEW p \in Procs, CheckExisting(p) PROVE LayoutLock'
  BY <1>15 DEF CheckExisting
<1>16. ASSUME NEW p \in Procs, ReopenExisting(p) PROVE LayoutLock'
  BY <1>16 DEF ReopenExisting
<1>17. ASSUME NEW p \in Procs, LockModels(p) PROVE LayoutLock'
  BY <1>17 DEF LockModels
<1>18. ASSUME NEW p \in Procs, ValidateModels(p) PROVE LayoutLock'
  BY <1>18 DEF ValidateModels
<1>19. ASSUME NEW p \in Procs, MakeSections(p) PROVE LayoutLock'
  BY <1>19 DEF MakeSections, Making
<1>20. ASSUME NEW p \in Procs, CommitCreate(p) PROVE LayoutLock'
  BY <1>20, CreatedFacts DEF CommitCreate, Rollback
<1>21. ASSUME NEW p \in Procs, Crash(p) PROVE LayoutLock'
  BY <1>21 DEF Crash
<1>22. CASE UserMakesPhotos
  BY <1>22 DEF UserMakesPhotos
<1>23. CASE UserMakesDirectory
  BY <1>23 DEF UserMakesDirectory
<1>24. CASE UNCHANGED vars
  BY <1>24 DEF vars
<1> QED
  BY <1>1, <1>2, <1>3, <1>4, <1>5, <1>6, <1>7, <1>8, <1>9, <1>10, <1>11, <1>12,
     <1>13, <1>14, <1>15, <1>16, <1>17, <1>18, <1>19, <1>20, <1>21, <1>22, <1>23, <1>24 DEF Next, Step, OpenStep, ReplicaStep, CreateStep

(* A step keeps what an upgrader has read equal to the file. *)
LEMMA UpgradeInvStep == IInv /\ [Next]_vars => UpgradeInv'
<1> SUFFICES ASSUME IInv, [Next]_vars PROVE UpgradeInv'
  OBVIOUS
<1> USE ConstantsDistinct DEF IInv, UpgradeInv, Upgrading, TypeOK, LayoutLock,
   CreateInv, Creating, At, For, Goto, Return, Reopen, Take, Without, Locks, Idle, With, To, Start, Process, disk
<1>1. ASSUME NEW p \in Procs, Begin(p) PROVE UpgradeInv'
  BY <1>1 DEF Begin
<1>2. ASSUME NEW p \in Procs, Read(p) PROVE UpgradeInv'
  BY <1>2 DEF Read, Openable
<1>3. ASSUME NEW p \in Procs, LockLayout(p) PROVE UpgradeInv'
  BY <1>3 DEF LockLayout
<1>4. ASSUME NEW p \in Procs, Recheck(p) PROVE UpgradeInv'
  <2>1. CASE Unchanged(p)
    BY <1>4, <2>1 DEF Recheck, Unchanged, Legacy, SectionsBackManifest, Openable
  <2>2. CASE ~Unchanged(p)
    BY <1>4, <2>2 DEF Recheck
  <2> QED
    BY <2>1, <2>2
<1>5. ASSUME NEW p \in Procs, MovePhotos(p) PROVE UpgradeInv'
  BY <1>5 DEF MovePhotos, Rollback, AfterPhotos, Legacy
<1>6. ASSUME NEW p \in Procs, RemoveLegacyDirs(p) PROVE UpgradeInv'
  BY <1>6 DEF RemoveLegacyDirs
<1>7. ASSUME NEW p \in Procs, WriteUpgrade(p) PROVE UpgradeInv'
  BY <1>7, UpgradedFacts DEF WriteUpgrade
<1>8. ASSUME NEW p \in Procs, HandOut(p) PROVE UpgradeInv'
  BY <1>8 DEF HandOut
<1>9. ASSUME NEW p \in Procs, LockDrive(p) PROVE UpgradeInv'
  BY <1>9 DEF LockDrive
<1>10. ASSUME NEW p \in Procs, LoadForAdoption(p) PROVE UpgradeInv'
  BY <1>10 DEF LoadForAdoption
<1>11. ASSUME NEW p \in Procs, LoadForCompletion(p) PROVE UpgradeInv'
  BY <1>11 DEF LoadForCompletion
<1>12. ASSUME NEW p \in Procs, Replace(p) PROVE UpgradeInv'
  BY <1>12, ReplaceFacts DEF Replace, ReplicaInv
<1>13. ASSUME NEW p \in Procs, CheckReady(p) PROVE UpgradeInv'
  BY <1>13 DEF CheckReady
<1>14. ASSUME NEW p \in Procs, LockCreate(p) PROVE UpgradeInv'
  BY <1>14 DEF LockCreate
<1>15. ASSUME NEW p \in Procs, CheckExisting(p) PROVE UpgradeInv'
  BY <1>15 DEF CheckExisting
<1>16. ASSUME NEW p \in Procs, ReopenExisting(p) PROVE UpgradeInv'
  BY <1>16 DEF ReopenExisting
<1>17. ASSUME NEW p \in Procs, LockModels(p) PROVE UpgradeInv'
  BY <1>17 DEF LockModels
<1>18. ASSUME NEW p \in Procs, ValidateModels(p) PROVE UpgradeInv'
  BY <1>18 DEF ValidateModels
<1>19. ASSUME NEW p \in Procs, MakeSections(p) PROVE UpgradeInv'
  BY <1>19 DEF MakeSections, Making
<1>20. ASSUME NEW p \in Procs, CommitCreate(p) PROVE UpgradeInv'
  BY <1>20, CreatedFacts DEF CommitCreate, Rollback, DriveLock, DriveHeld
<1>21. ASSUME NEW p \in Procs, Crash(p) PROVE UpgradeInv'
  BY <1>21 DEF Crash
<1>22. CASE UserMakesPhotos
  BY <1>22 DEF UserMakesPhotos
<1>23. CASE UserMakesDirectory
  BY <1>23 DEF UserMakesDirectory
<1>24. CASE UNCHANGED vars
  BY <1>24 DEF vars
<1> QED
  BY <1>1, <1>2, <1>3, <1>4, <1>5, <1>6, <1>7, <1>8, <1>9, <1>10, <1>11, <1>12,
     <1>13, <1>14, <1>15, <1>16, <1>17, <1>18, <1>19, <1>20, <1>21, <1>22, <1>23, <1>24 DEF Next, Step, OpenStep, ReplicaStep, CreateStep

(* A step keeps what an adopter or completer has read equal to the file. *)
LEMMA ReplicaInvStep == IInv /\ [Next]_vars => ReplicaInv'
<1> SUFFICES ASSUME IInv, [Next]_vars PROVE ReplicaInv'
  OBVIOUS
<1> USE ConstantsDistinct DEF IInv, ReplicaInv, DriveHeld, TypeOK, DriveLock,
   CreateInv, Creating, At, For, Goto, Return, Reopen, Take, Without, Locks, Idle, With, To, Start, Process, disk
<1>1. ASSUME NEW p \in Procs, Begin(p) PROVE ReplicaInv'
  BY <1>1 DEF Begin
<1>2. ASSUME NEW p \in Procs, Read(p) PROVE ReplicaInv'
  BY <1>2 DEF Read, Openable
<1>3. ASSUME NEW p \in Procs, LockLayout(p) PROVE ReplicaInv'
  BY <1>3 DEF LockLayout
<1>4. ASSUME NEW p \in Procs, Recheck(p) PROVE ReplicaInv'
  BY <1>4 DEF Recheck, Unchanged
<1>5. ASSUME NEW p \in Procs, MovePhotos(p) PROVE ReplicaInv'
  BY <1>5 DEF MovePhotos, Rollback, AfterPhotos
<1>6. ASSUME NEW p \in Procs, RemoveLegacyDirs(p) PROVE ReplicaInv'
  BY <1>6 DEF RemoveLegacyDirs
<1>7. ASSUME NEW p \in Procs, WriteUpgrade(p) PROVE ReplicaInv'
  BY <1>7, UpgradedFacts DEF WriteUpgrade, UpgradeInv, Upgrading
<1>8. ASSUME NEW p \in Procs, HandOut(p) PROVE ReplicaInv'
  BY <1>8 DEF HandOut
<1>9. ASSUME NEW p \in Procs, LockDrive(p) PROVE ReplicaInv'
  BY <1>9 DEF LockDrive
<1>10. ASSUME NEW p \in Procs, LoadForAdoption(p) PROVE ReplicaInv'
  BY <1>10 DEF LoadForAdoption
<1>11. ASSUME NEW p \in Procs, LoadForCompletion(p) PROVE ReplicaInv'
  BY <1>11 DEF LoadForCompletion, Legacy, LegacyFiles
<1>12. ASSUME NEW p \in Procs, Replace(p) PROVE ReplicaInv'
  BY <1>12, ReplaceFacts DEF Replace
<1>13. ASSUME NEW p \in Procs, CheckReady(p) PROVE ReplicaInv'
  BY <1>13 DEF CheckReady, ReadyCalls
<1>14. ASSUME NEW p \in Procs, LockCreate(p) PROVE ReplicaInv'
  BY <1>14 DEF LockCreate
<1>15. ASSUME NEW p \in Procs, CheckExisting(p) PROVE ReplicaInv'
  BY <1>15 DEF CheckExisting
<1>16. ASSUME NEW p \in Procs, ReopenExisting(p) PROVE ReplicaInv'
  BY <1>16 DEF ReopenExisting
<1>17. ASSUME NEW p \in Procs, LockModels(p) PROVE ReplicaInv'
  BY <1>17 DEF LockModels
<1>18. ASSUME NEW p \in Procs, ValidateModels(p) PROVE ReplicaInv'
  BY <1>18 DEF ValidateModels
<1>19. ASSUME NEW p \in Procs, MakeSections(p) PROVE ReplicaInv'
  BY <1>19 DEF MakeSections, Making
<1>20. ASSUME NEW p \in Procs, CommitCreate(p) PROVE ReplicaInv'
  BY <1>20, CreatedFacts DEF CommitCreate, Rollback
<1>21. ASSUME NEW p \in Procs, Crash(p) PROVE ReplicaInv'
  BY <1>21 DEF Crash
<1>22. CASE UserMakesPhotos
  BY <1>22 DEF UserMakesPhotos
<1>23. CASE UserMakesDirectory
  BY <1>23 DEF UserMakesDirectory
<1>24. CASE UNCHANGED vars
  BY <1>24 DEF vars
<1> QED
  BY <1>1, <1>2, <1>3, <1>4, <1>5, <1>6, <1>7, <1>8, <1>9, <1>10, <1>11, <1>12,
     <1>13, <1>14, <1>15, <1>16, <1>17, <1>18, <1>19, <1>20, <1>21, <1>22, <1>23, <1>24 DEF Next, Step, OpenStep, ReplicaStep, CreateStep

(* A step keeps: a drive is only made where none is. *)
LEMMA CreateInvStep == IInv /\ [Next]_vars => CreateInv'
<1> SUFFICES ASSUME IInv, [Next]_vars PROVE CreateInv'
  OBVIOUS
<1> USE ConstantsDistinct DEF IInv, CreateInv, Creating, ReadyNow, DriveHeld, TypeOK,
   DriveLock, At, For, Goto, Return, Reopen, Take, Without, Locks, Idle, With, To, Start, Process, disk
<1>1. ASSUME NEW p \in Procs, Begin(p) PROVE CreateInv'
  BY <1>1 DEF Begin
<1>2. ASSUME NEW p \in Procs, Read(p) PROVE CreateInv'
  BY <1>2 DEF Read
<1>3. ASSUME NEW p \in Procs, LockLayout(p) PROVE CreateInv'
  BY <1>3 DEF LockLayout
<1>4. ASSUME NEW p \in Procs, Recheck(p) PROVE CreateInv'
  BY <1>4 DEF Recheck, Unchanged
<1>5. ASSUME NEW p \in Procs, MovePhotos(p) PROVE CreateInv'
  BY <1>5 DEF MovePhotos, Rollback, AfterPhotos
<1>6. ASSUME NEW p \in Procs, RemoveLegacyDirs(p) PROVE CreateInv'
  BY <1>6 DEF RemoveLegacyDirs
<1>7. ASSUME NEW p \in Procs, WriteUpgrade(p) PROVE CreateInv'
  BY <1>7, UpgradedFacts DEF WriteUpgrade, UpgradeInv, Upgrading
<1>8. ASSUME NEW p \in Procs, HandOut(p) PROVE CreateInv'
  BY <1>8 DEF HandOut
<1>9. ASSUME NEW p \in Procs, LockDrive(p) PROVE CreateInv'
  BY <1>9 DEF LockDrive
<1>10. ASSUME NEW p \in Procs, LoadForAdoption(p) PROVE CreateInv'
  BY <1>10 DEF LoadForAdoption
<1>11. ASSUME NEW p \in Procs, LoadForCompletion(p) PROVE CreateInv'
  BY <1>11 DEF LoadForCompletion
<1>12. ASSUME NEW p \in Procs, Replace(p) PROVE CreateInv'
  BY <1>12, ReplaceFacts DEF Replace, ReplicaInv
<1>13. ASSUME NEW p \in Procs, CheckReady(p) PROVE CreateInv'
  BY <1>13 DEF CheckReady, ReadyCalls, ReplicaInv
<1>14. ASSUME NEW p \in Procs, LockCreate(p) PROVE CreateInv'
  BY <1>14 DEF LockCreate
<1>15. ASSUME NEW p \in Procs, CheckExisting(p) PROVE CreateInv'
  BY <1>15 DEF CheckExisting
<1>16. ASSUME NEW p \in Procs, ReopenExisting(p) PROVE CreateInv'
  BY <1>16 DEF ReopenExisting
<1>17. ASSUME NEW p \in Procs, LockModels(p) PROVE CreateInv'
  BY <1>17 DEF LockModels
<1>18. ASSUME NEW p \in Procs, ValidateModels(p) PROVE CreateInv'
  BY <1>18 DEF ValidateModels
<1>19. ASSUME NEW p \in Procs, MakeSections(p) PROVE CreateInv'
  BY <1>19 DEF MakeSections, Making
<1>20. ASSUME NEW p \in Procs, CommitCreate(p) PROVE CreateInv'
  BY <1>20, CreatedFacts DEF CommitCreate, Rollback
<1>21. ASSUME NEW p \in Procs, Crash(p) PROVE CreateInv'
  BY <1>21 DEF Crash
<1>22. CASE UserMakesPhotos
  BY <1>22 DEF UserMakesPhotos
<1>23. CASE UserMakesDirectory
  BY <1>23 DEF UserMakesDirectory
<1>24. CASE UNCHANGED vars
  BY <1>24 DEF vars
<1> QED
  BY <1>1, <1>2, <1>3, <1>4, <1>5, <1>6, <1>7, <1>8, <1>9, <1>10, <1>11, <1>12,
     <1>13, <1>14, <1>15, <1>16, <1>17, <1>18, <1>19, <1>20, <1>21, <1>22, <1>23, <1>24 DEF Next, Step, OpenStep, ReplicaStep, CreateStep

(* A step keeps the directories of a published manifest. *)
LEMMA SectionsBackManifestStep == IInv /\ [Next]_vars => SectionsBackManifest'
<1> SUFFICES ASSUME IInv, [Next]_vars PROVE SectionsBackManifest'
  OBVIOUS
<1> USE ConstantsDistinct DEF IInv, SectionsBackManifest, Openable, Creating, TypeOK,
   CreateInv, At, For, Goto, Return, Reopen, Take, Without, Locks, Idle, With, To, Start, Process, disk
<1>1. ASSUME NEW p \in Procs, Begin(p) PROVE SectionsBackManifest'
  BY <1>1 DEF Begin
<1>2. ASSUME NEW p \in Procs, Read(p) PROVE SectionsBackManifest'
  BY <1>2 DEF Read
<1>3. ASSUME NEW p \in Procs, LockLayout(p) PROVE SectionsBackManifest'
  BY <1>3 DEF LockLayout
<1>4. ASSUME NEW p \in Procs, Recheck(p) PROVE SectionsBackManifest'
  BY <1>4 DEF Recheck, Unchanged
<1>5. ASSUME NEW p \in Procs, MovePhotos(p) PROVE SectionsBackManifest'
  BY <1>5 DEF MovePhotos, Rollback, AfterPhotos
<1>6. ASSUME NEW p \in Procs, RemoveLegacyDirs(p) PROVE SectionsBackManifest'
  BY <1>6 DEF RemoveLegacyDirs
<1>7. ASSUME NEW p \in Procs, WriteUpgrade(p) PROVE SectionsBackManifest'
  BY <1>7, UpgradedFacts DEF WriteUpgrade, UpgradeInv, Upgrading
<1>8. ASSUME NEW p \in Procs, HandOut(p) PROVE SectionsBackManifest'
  BY <1>8 DEF HandOut
<1>9. ASSUME NEW p \in Procs, LockDrive(p) PROVE SectionsBackManifest'
  BY <1>9 DEF LockDrive
<1>10. ASSUME NEW p \in Procs, LoadForAdoption(p) PROVE SectionsBackManifest'
  BY <1>10 DEF LoadForAdoption
<1>11. ASSUME NEW p \in Procs, LoadForCompletion(p) PROVE SectionsBackManifest'
  BY <1>11 DEF LoadForCompletion
<1>12. ASSUME NEW p \in Procs, Replace(p) PROVE SectionsBackManifest'
  BY <1>12, ReplaceFacts DEF Replace, ReplicaInv
<1>13. ASSUME NEW p \in Procs, CheckReady(p) PROVE SectionsBackManifest'
  BY <1>13 DEF CheckReady
<1>14. ASSUME NEW p \in Procs, LockCreate(p) PROVE SectionsBackManifest'
  BY <1>14 DEF LockCreate
<1>15. ASSUME NEW p \in Procs, CheckExisting(p) PROVE SectionsBackManifest'
  BY <1>15 DEF CheckExisting
<1>16. ASSUME NEW p \in Procs, ReopenExisting(p) PROVE SectionsBackManifest'
  BY <1>16 DEF ReopenExisting
<1>17. ASSUME NEW p \in Procs, LockModels(p) PROVE SectionsBackManifest'
  BY <1>17 DEF LockModels
<1>18. ASSUME NEW p \in Procs, ValidateModels(p) PROVE SectionsBackManifest'
  BY <1>18 DEF ValidateModels
<1>19. ASSUME NEW p \in Procs, MakeSections(p) PROVE SectionsBackManifest'
  BY <1>19 DEF MakeSections, Making
<1>20. ASSUME NEW p \in Procs, CommitCreate(p) PROVE SectionsBackManifest'
  BY <1>20, CreatedFacts DEF CommitCreate, Rollback
<1>21. ASSUME NEW p \in Procs, Crash(p) PROVE SectionsBackManifest'
  BY <1>21 DEF Crash
<1>22. CASE UserMakesPhotos
  BY <1>22 DEF UserMakesPhotos
<1>23. CASE UserMakesDirectory
  BY <1>23 DEF UserMakesDirectory
<1>24. CASE UNCHANGED vars
  BY <1>24 DEF vars
<1> QED
  BY <1>1, <1>2, <1>3, <1>4, <1>5, <1>6, <1>7, <1>8, <1>9, <1>10, <1>11, <1>12,
     <1>13, <1>14, <1>15, <1>16, <1>17, <1>18, <1>19, <1>20, <1>21, <1>22, <1>23, <1>24 DEF Next, Step, OpenStep, ReplicaStep, CreateStep

(* The initial states satisfy the strengthened invariant. *)
LEMMA InitInv == Init => IInv
<1> SUFFICES ASSUME Init PROVE IInv
  OBVIOUS
<1>1. manifest \in Manifest \cup {NoManifest}
  BY DEF Init
<1>2. \A p \in Procs : proc[p] = Idle
  BY DEF Init
<1>3. TypeOK
  BY <1>1 DEF Init, TypeOK, Process, Idle, Labels, Calls
<1>4. DriveLock /\ LayoutLock
  BY <1>2 DEF DriveLock, LayoutLock, DriveHeld, Upgrading, Idle
<1>5. UpgradeInv /\ ReplicaInv /\ CreateInv
  BY <1>2 DEF UpgradeInv, ReplicaInv, CreateInv, DriveHeld, Upgrading,
              Creating, Idle
<1>6. SectionsBackManifest
  BY DEF Init, SectionsBackManifest
<1> QED
  BY <1>3, <1>4, <1>5, <1>6 DEF IInv

(* The strengthened invariant holds of every behaviour. *)
THEOREM Invariance == Spec => []IInv
<1>1. IInv /\ [Next]_vars => IInv'
  BY TypeOKStep, DriveLockStep, LayoutLockStep, UpgradeInvStep,
     ReplicaInvStep, CreateInvStep, SectionsBackManifestStep DEF IInv
<1> QED
  BY InitInv, <1>1, PTL DEF Spec

(* Every variable keeps its type (DriveManifest!TypeOK). *)
THEOREM TypeCorrect == Spec => []TypeOK
<1>1. IInv => TypeOK
  BY DEF IInv
<1> QED
  BY <1>1, Invariance, PTL

(* No two callers move user directories at once, though two locks guard the
   moves: an upgrade sees a legacy manifest, a replica's cleanup one that is
   not, and create none at all. *)
THEOREM MovesAreExclusive == Spec => []MovesExclusive
<1>1. IInv => MovesExclusive
  <2> SUFFICES ASSUME IInv, NEW p \in Procs, NEW q \in Procs,
                      MovesDirectories(p), MovesDirectories(q)
               PROVE p = q
    BY DEF MovesExclusive
  <2>1. CASE Upgrading(proc[p]) /\ Upgrading(proc[q])
    BY <2>1 DEF IInv, LayoutLock
  <2>2. CASE ~Upgrading(proc[p]) /\ ~Upgrading(proc[q])
    BY <2>2 DEF IInv, DriveLock, DriveHeld, Upgrading, MovesDirectories, ReplicaInv
  <2>3. ASSUME NEW u \in Procs, NEW d \in Procs, Upgrading(proc[u]),
               ~Upgrading(proc[d]), MovesDirectories(d)
        PROVE FALSE
    <3>1. manifest # NoManifest /\ Legacy(manifest)
      BY <2>3, ConstantsDistinct DEF IInv, UpgradeInv
    <3>2. manifest = NoManifest \/ ~Legacy(manifest)
      BY <2>3 DEF IInv, ReplicaInv, CreateInv, Creating, Upgrading, MovesDirectories
    <3> QED
      BY <3>1, <3>2
  <2> QED
    BY <2>1, <2>2, <2>3
<1> QED
  BY <1>1, Invariance, PTL

(* open never removes a Files directory of a mirror that is being filled. *)
THEOREM SyncingFilesSafe == Spec => []SyncingFilesUntouched
<1>1. IInv => SyncingFilesUntouched
  BY DEF IInv, SyncingFilesUntouched, UpgradeInv, Upgrading, At, LegacyFiles
<1> QED
  BY <1>1, Invariance, PTL

(* A manifest is never without the section directories it lists. *)
THEOREM SectionsBack == Spec => []SectionsBackManifest
<1>1. IInv => SectionsBackManifest
  BY DEF IInv
<1> QED
  BY <1>1, Invariance, PTL

(* An adoption that succeeds hands out the host's identity. *)
THEOREM AdoptionHandsOut == Spec => []AdoptionHandsOutHost
<1>1. IInv => AdoptionHandsOutHost
  BY DEF IInv, AdoptionHandsOutHost, ReplicaInv, DriveHeld, At, For
<1> QED
  BY <1>1, Invariance, PTL

(* create hands out a drive that is current and not a mirror in progress. *)
THEOREM CreateHandsOut == Spec => []CreateHandsOutReady
<1>1. IInv => CreateHandsOutReady
  BY DEF IInv, CreateHandsOutReady, CreateInv, At
<1> QED
  BY <1>1, Invariance, PTL

---------------------------------------------------------------------------
(* Every write of the manifest starts from the manifest that is there.     *)

UpgradeWrite == manifest # NoManifest /\ manifest' = Upgraded(manifest)
AdoptWrite ==
    /\ manifest # NoManifest
    /\ \E host \in Ids : manifest' = Adopted(manifest, manifest.id, host)
CompleteWrite ==
    /\ manifest # NoManifest /\ manifest.local # NoId
    /\ manifest.photosListed
    /\ manifest' = Completed(manifest)
CreateWrite ==
    /\ manifest = NoManifest
    /\ \E id \in Ids : manifest' = Created(id)
Write == UpgradeWrite \/ AdoptWrite \/ CompleteWrite \/ CreateWrite

(* A step that changes the manifest applies one writer's change to the manifest
   that is there: none overwrites what another one wrote. *)
LEMMA NoLostUpdate == IInv /\ [Next]_vars => UNCHANGED manifest \/ Write
<1> SUFFICES ASSUME IInv, [Next]_vars PROVE UNCHANGED manifest \/ Write
  OBVIOUS
<1>1. ASSUME NEW p \in Procs, WriteUpgrade(p), ~UNCHANGED manifest PROVE UpgradeWrite
  BY <1>1, ConstantsDistinct
  DEF UpgradeWrite, WriteUpgrade, IInv, UpgradeInv, Upgrading, At
<1>2. ASSUME NEW p \in Procs, Replace(p), ~UNCHANGED manifest
      PROVE AdoptWrite \/ CompleteWrite
  <2>1. /\ manifest # NoManifest /\ proc[p].seen = manifest
        /\ manifest' = Replacement(proc[p])
    BY <1>2 DEF Replace, IInv, ReplicaInv, At
  <2>2. CASE proc[p].call = "adoptLocked"
    <3>1. proc[p].host \in Ids /\ proc[p].handle = manifest.id
      BY <1>2, <2>2 DEF Replace, IInv, ReplicaInv, At
    <3> QED
      BY <2>1, <2>2, <3>1 DEF AdoptWrite, Replacement
  <2>3. CASE proc[p].call = "completeLocked"
    BY <1>2, <2>1, <2>3, ReplaceFacts DEF CompleteWrite, Replacement, Replace, IInv,
       ReplicaInv, At
  <2> QED
    BY <1>2, <2>2, <2>3 DEF Replace, IInv, ReplicaInv, At
<1>3. ASSUME NEW p \in Procs, CommitCreate(p), ~UNCHANGED manifest PROVE CreateWrite
  BY <1>3 DEF CreateWrite, CommitCreate, IInv, CreateInv, Creating, At
<1>4. ASSUME NEW p \in Procs, Begin(p) \/ Step(p) \/ Crash(p),
             ~WriteUpgrade(p), ~Replace(p), ~CommitCreate(p)
      PROVE UNCHANGED manifest
  BY <1>4 DEF Begin, Crash, Step, OpenStep, ReplicaStep, CreateStep, Read,
     LockLayout, Recheck, MovePhotos, RemoveLegacyDirs, HandOut, LockDrive,
     LoadForAdoption, LoadForCompletion, CheckReady, LockCreate, CheckExisting,
     ReopenExisting, LockModels, ValidateModels, MakeSections
<1>5. CASE UserMakesPhotos \/ UserMakesDirectory \/ UNCHANGED vars
  BY <1>5 DEF UserMakesPhotos, UserMakesDirectory, vars
<1> QED
  BY <1>1, <1>2, <1>3, <1>4, <1>5 DEF Next, Write

(* Settings written before a step find the drive after it: no adoption,
   completion or upgrade loses the identities the manifest recognises. *)
THEOREM IdentityIsRecognised == Spec => IdentityRecognised
<1> DEFINE Kept == manifest # NoManifest =>
             /\ manifest.id \in Recognised(manifest')
             /\ manifest'.id = manifest.id
                  => Recognised(manifest) \subseteq Recognised(manifest')
<1>1. IInv /\ [Next]_vars => [Kept]_manifest
  <2> SUFFICES ASSUME IInv, [Next]_vars, manifest # NoManifest, Write PROVE Kept
    BY NoLostUpdate
  <2>1. manifest \in Manifest
    BY DEF IInv, TypeOK
  <2>2. manifest.id \in Ids /\ manifest.id # NoId
    BY <2>1, ConstantsDistinct DEF Manifest
  <2>3. CASE UpgradeWrite
    BY <2>1, <2>2, <2>3, UpgradedFacts DEF UpgradeWrite, Recognised
  <2>4. CASE AdoptWrite
    <3>1. PICK host \in Ids : manifest' = Adopted(manifest, manifest.id, host)
      BY <2>4 DEF AdoptWrite
    <3> QED
      BY <2>1, <2>2, <3>1, AdoptedFacts DEF Recognised
  <2>5. CASE CompleteWrite
    BY <2>1, <2>2, <2>5, CompletedFacts DEF CompleteWrite, Recognised
  <2> QED
    BY <2>3, <2>4, <2>5 DEF Write, CreateWrite
<1> QED
  BY <1>1, Invariance, PTL DEF Spec, IdentityRecognised

(* What the user keeps under a legacy name after the upgrade stays. *)
THEOREM UserDirectoriesAreKept == Spec => UserDirectoriesKept
<1> DEFINE Kept == manifest # NoManifest =>
             /\ manifest.photosListed /\ oldPhotos => oldPhotos'
             /\ manifest.filesVersion /\ legacyDirs = "empty" => legacyDirs' # "none"
<1>1. IInv /\ [Next]_vars => [Kept]_vars
  <2> SUFFICES ASSUME IInv, Next, manifest # NoManifest PROVE Kept
    OBVIOUS
  <2>1. ASSUME NEW p \in Procs, MovePhotos(p) PROVE Kept
    <3>1. CASE proc[p].call = "create"
      BY <2>1, <3>1 DEF MovePhotos, IInv, CreateInv, Creating, At
    <3>2. CASE proc[p].call # "create"
      <4>1. ~manifest.photosListed
        BY <2>1, <3>2 DEF MovePhotos, IInv, UpgradeInv, Upgrading, At
      <4> QED
        BY <2>1, <4>1 DEF MovePhotos, Rollback
    <3> QED
      BY <3>1, <3>2
  <2>2. ASSUME NEW p \in Procs, RemoveLegacyDirs(p) PROVE Kept
    <3>1. ~manifest.filesVersion
      BY <2>2 DEF RemoveLegacyDirs, IInv, UpgradeInv, ReplicaInv, Upgrading,
                  LegacyFiles, At
    <3> QED
      BY <2>2, <3>1 DEF RemoveLegacyDirs
  <2>3. ASSUME NEW p \in Procs, Begin(p) \/ Step(p) \/ Crash(p),
               ~MovePhotos(p), ~RemoveLegacyDirs(p)
        PROVE UNCHANGED <<oldPhotos, legacyDirs>>
    BY <2>3 DEF Begin, Crash, Step, OpenStep, ReplicaStep, CreateStep, Read,
       LockLayout, Recheck, WriteUpgrade, HandOut, LockDrive, LoadForAdoption,
       LoadForCompletion, Replace, CheckReady, LockCreate, CheckExisting,
       ReopenExisting, LockModels, ValidateModels, MakeSections, CommitCreate,
       Rollback, disk
  <2>4. ASSUME UserMakesPhotos \/ UserMakesDirectory PROVE Kept
    BY <2>4 DEF UserMakesPhotos, UserMakesDirectory
  <2> QED
    BY <2>1, <2>2, <2>3, <2>4 DEF Next
<1> QED
  BY <1>1, Invariance, PTL DEF Spec, UserDirectoriesKept

---------------------------------------------------------------------------
(* The refinement of DriveIdentity.                                        *)

(* An identity record is not the absent drive. *)
LEMMA IdentityFacts ==
    ASSUME NEW m \in Manifest
    PROVE Record(m) # NoManifest
<1>1. Record(m) \in IdentityRecord
  BY DEF Record, Layout, Manifest, IdentityRecord
<1> QED
  BY <1>1, ConstantsDistinct

(* The manifest operations implement one atomic identity record: each write
   of the file is one abstract step, everything else a stutter. *)
THEOREM Refinement == Spec => ImplementsIdentity
<1>1. Init => Abstract!Init
  <2> SUFFICES ASSUME Init PROVE Abstract!Init
    OBVIOUS
  <2>1. CASE manifest = NoManifest
    BY <2>1 DEF Abstract!Init, Identity, NoDrive
  <2>2. CASE manifest # NoManifest
    <3>1. /\ manifest \in Manifest
          /\ (manifest.local = NoId) = (manifest.ready = "absent")
          /\ manifest.local = NoId => manifest.previous = NoId
      BY <2>2 DEF Init
    <3>2. Layout(manifest) \in SUBSET Abstract!Upgrades
      BY DEF Layout, Abstract!Upgrades
    <3>3. Identity = Record(manifest)
      BY <2>2 DEF Identity
    <3> QED
      BY <3>1, <3>2, <3>3 DEF Abstract!Init, Record, Manifest, Readiness
  <2> QED
    BY <2>1, <2>2
<1>2. IInv /\ [Next]_vars => [Abstract!Next]_Identity
  <2> SUFFICES ASSUME IInv, [Next]_vars, Write PROVE Abstract!Next
    BY NoLostUpdate DEF Identity
  <2>1. manifest \in Manifest \cup {NoManifest}
    BY DEF IInv, TypeOK
  <2>2. CASE CreateWrite
    <3>1. PICK id \in Ids : manifest' = Created(id)
      BY <2>2 DEF CreateWrite
    <3>2. Layout(Created(id)) = Abstract!Upgrades
      BY DEF Layout, Created, Abstract!Upgrades
    <3>3. Identity = NoDrive /\ Identity' = Record(Created(id))
      BY <2>2, <3>1, CreatedFacts, ConstantsDistinct DEF CreateWrite, Identity, NoDrive
    <3>4. Abstract!Created(id)
      BY <3>2, <3>3 DEF Abstract!Created, Record, Created
    <3> QED
      BY <3>4 DEF Abstract!Next
  <2>3. ASSUME manifest # NoManifest
        PROVE /\ manifest \in Manifest
              /\ Identity = Record(manifest) /\ Identity # NoDrive
              /\ Layout(manifest) \subseteq Abstract!Upgrades
    BY <2>1, <2>3, IdentityFacts DEF Identity, NoDrive, Layout, Abstract!Upgrades
  <2>4. CASE UpgradeWrite
    <3>1. /\ manifest' \in Manifest /\ manifest' # NoManifest
          /\ manifest' = Upgraded(manifest)
      BY <2>3, <2>4, UpgradedFacts, ConstantsDistinct DEF UpgradeWrite
    <3>2. Identity' = [Identity EXCEPT !.layout = Layout(Upgraded(manifest))]
      BY <2>3, <2>4, <3>1, UpgradedFacts DEF UpgradeWrite, Identity, Record
    <3>3. /\ Layout(manifest) \subseteq Layout(Upgraded(manifest))
          /\ Layout(Upgraded(manifest)) \in SUBSET Abstract!Upgrades
      BY <2>3, <2>4 DEF UpgradeWrite, Layout, Upgraded, Manifest, Abstract!Upgrades
    <3>4. Abstract!LayoutUpgraded
      BY <2>3, <2>4, <3>2, <3>3 DEF UpgradeWrite, Abstract!LayoutUpgraded, Record
    <3> QED
      BY <3>4 DEF Abstract!Next
  <2>5. CASE AdoptWrite
    <3>1. PICK host \in Ids : manifest' = Adopted(manifest, manifest.id, host)
      BY <2>5 DEF AdoptWrite
    <3>0. manifest \in Manifest /\ manifest.id \in Ids
      BY <2>3, <2>5 DEF AdoptWrite, Manifest
    <3>2. manifest' \in Manifest /\ manifest' # NoManifest
      BY <3>0, <3>1, AdoptedFacts, ConstantsDistinct
    <3>3. Layout(manifest') = Layout(manifest)
      <4>1. /\ manifest'.photosListed = manifest.photosListed
            /\ manifest'.filesVersion = manifest.filesVersion
        BY <3>0, <3>1, AdoptedFacts
      <4> QED
        BY <4>1 DEF Layout
    <3>4. Identity' = Record(manifest')
      BY <3>2 DEF Identity
    <3>5. /\ manifest'.id = host /\ manifest'.ready = "syncing"
          /\ manifest'.local = IF manifest.local = NoId THEN manifest.id ELSE manifest.local
          /\ manifest'.previous = IF manifest.id # host \/ manifest.previous = NoId
                                  THEN manifest.id ELSE manifest.previous
      BY <3>0, <3>1, AdoptedFacts
    <3>6. Identity.layout = Layout(manifest) /\ Layout(manifest) \in SUBSET Abstract!Upgrades
      BY <2>3, <2>5 DEF AdoptWrite, Record
    <3>7. Abstract!Adopted(host)
      BY <2>3, <2>5, <3>3, <3>4, <3>5, <3>6 DEF AdoptWrite, Abstract!Adopted, Record
    <3> QED
      BY <3>7 DEF Abstract!Next
  <2>6. CASE CompleteWrite
    <3>1. /\ manifest' \in Manifest /\ manifest' # NoManifest
          /\ manifest' = Completed(manifest)
      BY <2>3, <2>6, CompletedFacts, ConstantsDistinct DEF CompleteWrite
    <3>2. Layout(manifest') = Abstract!Upgrades
      <4>1. manifest'.photosListed /\ manifest'.filesVersion
        BY <2>3, <2>6, <3>1, CompletedFacts DEF CompleteWrite
      <4> QED
        BY <4>1 DEF Layout, Abstract!Upgrades
    <3>3. Identity' = [id |-> manifest.id, local |-> manifest.local,
                       previous |-> manifest.previous, ready |-> "ready",
                       layout |-> Abstract!Upgrades]
      <4>1. Identity' = Record(manifest')
        BY <3>1 DEF Identity
      <4>2. /\ manifest'.id = manifest.id /\ manifest'.local = manifest.local
            /\ manifest'.previous = manifest.previous /\ manifest'.ready = "ready"
        BY <2>3, <2>6, <3>1, CompletedFacts DEF CompleteWrite
      <4> QED
        BY <3>2, <4>1, <4>2 DEF Record
    <3>4. Abstract!Completed
      BY <2>3, <2>6, <3>3 DEF CompleteWrite, Abstract!Completed, Record
    <3> QED
      BY <3>4 DEF Abstract!Next
  <2> QED
    BY <2>2, <2>4, <2>5, <2>6 DEF Write
<1> QED
  BY <1>1, <1>2, Invariance, PTL DEF Spec, ImplementsIdentity, Abstract!Spec

======================================================================
