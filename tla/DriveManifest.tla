--------------------------- MODULE DriveManifest ---------------------------
(***************************************************************************)
(* The manifest of a Society drive, .society-drive.json, and every         *)
(* SocietyDrive operation that reads or replaces it: open with its layout  *)
(* upgrade, create, isReady, adoptReplicaIdentity and completeReplica.     *)
(*                                                                         *)
(* Callers are threads or processes.  Two different lock files guard the   *)
(* one manifest: .society-drive.lock (create, adopt, complete) and         *)
(* .society-layout.lock (the upgrade inside open); create also takes the   *)
(* Models lock.  A caller may crash between any two steps: the native      *)
(* locks it held are then free and what it wrote stays.                    *)
(***************************************************************************)

CONSTANTS
    Procs,      \* callers of SocietyDrive on one root
    Ids,        \* drive UUIDs: of this device and of hosts
    NoId,       \* an absent identifier field
    NoProc,     \* the owner of a free lock
    NoManifest  \* the root has no manifest file

Locks == {"drive", "layout", "models"}

\* replicaReady: absent, false or true.
Readiness == {"absent", "syncing", "ready"}

(* photosListed: the sections array lists Photos (the legacy one does not).
   filesVersion: the manifest contains filesLayoutVersion. *)
Manifest == [id: Ids, photosListed: BOOLEAN, filesVersion: BOOLEAN,
             local: Ids \cup {NoId}, previous: Ids \cup {NoId},
             ready: Readiness]

\* The part of a manifest that the abstract specification speaks of.
IdentityRecord == [id: Ids, local: Ids \cup {NoId}, previous: Ids \cup {NoId},
                   ready: Readiness, layout: SUBSET {"photos", "files"}]

ASSUME ConstantsDistinct ==
    /\ NoId \notin Ids
    /\ NoProc \notin Procs
    /\ NoManifest \notin Manifest \cup IdentityRecord

VARIABLES
    manifest,   \* the manifest file: a Manifest or NoManifest
    sections,   \* every section directory but Photos exists
    photosDir,  \* the Photos section directory exists
    oldPhotos,  \* Files/Photos exists: the old place of the Photos section
    legacyDirs, \* Files/Documents and its kind: none, empty or used
    lock,       \* the owner of each lock
    proc        \* the caller's progress through its current operation

disk == <<sections, photosDir, oldPhotos, legacyDirs>>
vars == <<manifest, sections, photosDir, oldPhotos, legacyDirs, lock, proc>>

(* "call" says on whose behalf open runs, so where it returns to:
   open, ready         SocietyDrive::open, isReady;
   adopt, complete     their first open, before the drive lock;
   adoptLocked, completeLocked   their second open, under it;
   adoptFinal          the open whose handle adoptReplicaIdentity returns;
   create, createOpen  create itself, its open of a drive that exists already;
   createReady, createRecheck    isReady before and under the Models lock. *)
Calls == {"none", "open", "ready", "adopt", "adoptLocked", "adoptFinal",
          "complete", "completeLocked",
          "create", "createOpen", "createReady", "createRecheck"}
ReadyCalls == {"ready", "createReady", "createRecheck"}

Labels == {"idle", "read", "layoutLock", "recheck", "photos", "files",
           "write", "opened", "cleanup", "replace", "createLock", "createCheck",
           "mkdir", "commit", "modelsLock", "validate"}

Process == [pc: Labels, call: Calls,
            expected: Ids \cup {NoId}, host: Ids \cup {NoId},
            seen: Manifest \cup {NoManifest},
            handle: Ids \cup {NoId},
            made: SUBSET {"sections", "photos"}]

Idle == [pc |-> "idle", call |-> "none", expected |-> NoId, host |-> NoId,
         seen |-> NoManifest, handle |-> NoId, made |-> {}]

---------------------------------------------------------------------------
(* What open makes of a manifest, and what each writer turns it into.      *)

\* A name that ends in a bug, "...Unlocked" or "...Ignored", is a mutant: the
\* definition after it with that bug, which a run shows the properties to catch.
LegacyFilesMirrorIgnored(m) == ~m.filesVersion

\* A mirror that is still syncing keeps the host's Files directories.
LegacyFiles(m) == ~m.filesVersion /\ m.ready # "syncing"
Legacy(m) == ~m.photosListed \/ LegacyFiles(m)

Upgraded(m) ==
    [m EXCEPT !.photosListed = TRUE, !.filesVersion = @ \/ LegacyFiles(m)]

AdoptedForgetful(m, checked, host) ==
    [m EXCEPT !.id = host,
              !.local = IF @ = NoId THEN checked ELSE @,
              !.previous = checked,
              !.ready = "syncing"]

Adopted(m, checked, host) ==
    [m EXCEPT !.id = host,
              !.local = IF @ = NoId THEN checked ELSE @,
              !.previous = IF checked # host \/ @ = NoId THEN checked ELSE @,
              !.ready = "syncing"]

Completed(m) == [m EXCEPT !.filesVersion = TRUE, !.ready = "ready"]

Created(id) ==
    [id |-> id, photosListed |-> TRUE, filesVersion |-> TRUE,
     local |-> NoId, previous |-> NoId, ready |-> "absent"]

\* The identifiers under which an application's settings still find the drive.
Recognised(m) == {m.id, m.local, m.previous} \ {NoId}

---------------------------------------------------------------------------
(* Steps of a caller.                                                      *)

At(p, label) == proc[p].pc = label
For(p, calls) == proc[p].call \in calls
Goto(p, state) == proc' = [proc EXCEPT ![p] = state]

\* A new call, and the state s with other values of what its step decides.
Start(call, label, expected, host) ==
    [pc |-> label, call |-> call, expected |-> expected, host |-> host,
     seen |-> NoManifest, handle |-> NoId, made |-> {}]
With(s, label, seen, handle) ==
    [pc |-> label, call |-> s.call, expected |-> s.expected, host |-> s.host,
     seen |-> seen, handle |-> handle, made |-> s.made]
Making(made) ==
    [pc |-> "photos", call |-> "create", expected |-> NoId, host |-> NoId,
     seen |-> NoManifest, handle |-> NoId, made |-> made]
To(s, label) == With(s, label, s.seen, s.handle)

Take(p, l) == lock[l] = NoProc /\ lock' = [lock EXCEPT ![l] = p]
Without(p, ls) == [l \in Locks |-> IF l \in ls /\ lock[l] = p THEN NoProc ELSE lock[l]]

\* Return to the application, whatever the answer: the locks are scoped.
Return(p) == Goto(p, Idle) /\ lock' = Without(p, Locks)

\* A nested open begins: it reads the manifest afresh.
Reopen(p, call) ==
    Goto(p, Start(call, "read", proc[p].expected, proc[p].host))

Begin(p) ==
    /\ At(p, "idle")
    /\ \/ Goto(p, Start("open", "read", NoId, NoId))
       \/ \E handle \in Ids : Goto(p, Start("ready", "read", handle, NoId))
       \/ \E expected, host \in Ids :
            Goto(p, Start("adopt", "read", expected, host))
       \/ \E expected \in Ids :
            Goto(p, Start("complete", "read", expected, NoId))
       \/ Goto(p, Start("create", "createLock", NoId, NoId))
    /\ UNCHANGED <<manifest, lock>> /\ UNCHANGED disk

\* The manifest is read and validated, then the directories it promises.
Openable ==
    /\ manifest # NoManifest
    /\ sections
    /\ photosDir \/ ~manifest.photosListed

Read(p) ==
    /\ At(p, "read")
    /\ \/ /\ ~Openable
          /\ Return(p)
       \/ /\ Openable
          /\ Goto(p, IF Legacy(manifest)
                     THEN With(proc[p], "layoutLock", manifest, NoId)
                     ELSE With(proc[p], "opened", NoManifest, manifest.id))
          /\ UNCHANGED lock
    /\ UNCHANGED manifest /\ UNCHANGED disk

\* tryLock(5000) on the layout lock: taken, or still busy at the timeout.
LockLayout(p) ==
    /\ At(p, "layoutLock")
    /\ \/ Take(p, "layout") /\ Goto(p, To(proc[p], "recheck"))
       \/ lock["layout"] # NoProc /\ Return(p)
    /\ UNCHANGED manifest /\ UNCHANGED disk

UnchangedIgnored(p) == TRUE
UnchangedIdentifier(p) == manifest # NoManifest /\ manifest.id = proc[p].seen.id
UnchangedRewritten(p) == manifest = Upgraded(proc[p].seen)

\* Under the lock the bytes must be those the decision was made from.
Unchanged(p) == manifest = proc[p].seen

Recheck(p) ==
    /\ At(p, "recheck")
    /\ \/ /\ ~Unchanged(p)
          /\ Reopen(p, proc[p].call)
          /\ lock' = Without(p, {"layout"})
       \/ /\ Unchanged(p)
          /\ Goto(p, To(proc[p], IF proc[p].seen.photosListed THEN "files" ELSE "photos"))
          /\ UNCHANGED lock
    /\ UNCHANGED manifest /\ UNCHANGED disk

\* rmdir of the directories this create call made: only the empty ones go.
Rollback(p) ==
    /\ sections' \in BOOLEAN /\ (sections' => sections)
    /\ photosDir' \in BOOLEAN /\ (photosDir' => photosDir)
    /\ "sections" \in proc[p].made \/ sections' = sections
    /\ "photos" \in proc[p].made \/ photosDir' = photosDir
    /\ UNCHANGED legacyDirs

(* migratePhotosLayout: Files/Photos becomes Photos, or fails half-way on a
   conflicting entry, both directories then being there. *)
AfterPhotos(s) ==
    IF s.call = "create" THEN "commit"
    ELSE IF LegacyFiles(s.seen) THEN "files" ELSE "write"

MovePhotos(p) ==
    /\ At(p, "photos")
    /\ \/ /\ oldPhotos' = FALSE
          /\ photosDir' = TRUE
          /\ Goto(p, To(proc[p], AfterPhotos(proc[p])))
          /\ UNCHANGED <<sections, legacyDirs, lock>>
       \/ /\ ~For(p, {"create"})
          /\ photosDir' \in BOOLEAN /\ (photosDir => photosDir')
          /\ Return(p)
          /\ UNCHANGED <<sections, oldPhotos, legacyDirs>>
       \/ /\ For(p, {"create"})
          /\ Rollback(p)
          /\ Return(p)
          /\ UNCHANGED oldPhotos
    /\ UNCHANGED manifest

(* removeLegacyFilesDirectories, called by open under the layout lock and by
   completeReplica ("cleanup") under the drive lock: rmdir only takes empty
   directories. *)
RemoveLegacyDirs(p) ==
    /\ At(p, "files") \/ At(p, "cleanup")
    /\ \/ /\ legacyDirs' = IF legacyDirs = "empty" THEN "none" ELSE legacyDirs
          /\ Goto(p, To(proc[p], IF At(p, "files") THEN "write" ELSE "replace"))
          /\ UNCHANGED lock
       \/ legacyDirs = "empty" /\ Return(p) /\ UNCHANGED legacyDirs
    /\ UNCHANGED <<manifest, sections, photosDir, oldPhotos>>

\* open replaces the manifest, atomically, and returns: the layout lock goes.
WriteUpgrade(p) ==
    /\ At(p, "write")
    /\ \/ /\ manifest' = Upgraded(proc[p].seen)
          /\ Goto(p, With(proc[p], "opened", NoManifest, proc[p].seen.id))
          /\ lock' = Without(p, {"layout"})
       \/ Return(p) /\ UNCHANGED manifest
    /\ UNCHANGED disk

---------------------------------------------------------------------------
(* What follows an open that succeeded.                                    *)

\* SocietyDrive::open and the last open of adoptReplicaIdentity hand it out.
HandOut(p) ==
    /\ At(p, "opened")
    /\ For(p, {"open", "adoptFinal"})
    /\ Return(p)
    /\ UNCHANGED manifest /\ UNCHANGED disk

LockDriveUnlocked(p) ==
    /\ At(p, "opened")
    /\ For(p, {"adopt", "complete"})
    /\ Reopen(p, IF For(p, {"adopt"}) THEN "adoptLocked" ELSE "completeLocked")
    /\ UNCHANGED <<manifest, lock>> /\ UNCHANGED disk

\* adoptReplicaIdentity, completeReplica: tryLock() without waiting, reopen.
LockDrive(p) ==
    /\ At(p, "opened")
    /\ For(p, {"adopt", "complete"})
    /\ \/ /\ Take(p, "drive")
          /\ Reopen(p, IF For(p, {"adopt"}) THEN "adoptLocked" ELSE "completeLocked")
       \/ lock["drive"] # NoProc /\ Return(p)
    /\ UNCHANGED manifest /\ UNCHANGED disk

LoadForAdoption(p) ==
    /\ At(p, "opened")
    /\ For(p, {"adoptLocked"})
    /\ IF proc[p].handle \in {proc[p].expected, proc[p].host}
       THEN /\ Goto(p, With(proc[p], "replace", manifest, proc[p].handle))
            /\ UNCHANGED lock
       ELSE Return(p)
    /\ UNCHANGED manifest /\ UNCHANGED disk

LoadForCompletion(p) ==
    /\ At(p, "opened")
    /\ For(p, {"completeLocked"})
    /\ IF proc[p].handle = proc[p].expected /\ manifest.local # NoId
       THEN /\ Goto(p, With(proc[p],
                            IF manifest.filesVersion THEN "replace" ELSE "cleanup",
                            manifest, proc[p].handle))
            /\ UNCHANGED lock
       ELSE Return(p)
    /\ UNCHANGED manifest /\ UNCHANGED disk

Replacement(s) ==
    IF s.call = "adoptLocked" THEN Adopted(s.seen, s.handle, s.host)
                              ELSE Completed(s.seen)

ReplaceUnlocked(p) ==
    /\ At(p, "replace")
    /\ manifest' = Replacement(proc[p])
    /\ IF For(p, {"adoptLocked"})
       THEN Reopen(p, "adoptFinal") /\ lock' = Without(p, {"drive"})
       ELSE Return(p)
    /\ UNCHANGED disk

\* replaceManifest: adoption then opens the drive again, still locked.
Replace(p) ==
    /\ At(p, "replace")
    /\ \/ /\ manifest' = Replacement(proc[p])
          /\ IF For(p, {"adoptLocked"})
             THEN Reopen(p, "adoptFinal") /\ UNCHANGED lock
             ELSE Return(p)
       \/ Return(p) /\ UNCHANGED manifest
    /\ UNCHANGED disk

\* isReady: isValid compares the identity open found, a second read decides.
ReadyNow(p) ==
    /\ proc[p].handle = proc[p].expected
    /\ manifest.id = proc[p].expected
    /\ manifest.ready # "syncing"

CheckReady(p) ==
    /\ At(p, "opened")
    /\ For(p, ReadyCalls)
    /\ IF ReadyNow(p) /\ ~For(p, {"ready"})
       THEN /\ Goto(p, To(proc[p], IF For(p, {"createReady"}) THEN "modelsLock"
                                                              ELSE "validate"))
            /\ UNCHANGED lock
       ELSE Return(p)
    /\ UNCHANGED manifest /\ UNCHANGED disk

---------------------------------------------------------------------------
(* SocietyDrive::create.                                                   *)

LockCreateUnlocked(p) ==
    /\ At(p, "createLock")
    /\ Goto(p, To(proc[p], "createCheck"))
    /\ UNCHANGED <<manifest, lock>> /\ UNCHANGED disk

LockCreate(p) ==
    /\ At(p, "createLock")
    /\ \/ Take(p, "drive") /\ Goto(p, To(proc[p], "createCheck"))
       \/ lock["drive"] # NoProc /\ Return(p)
    /\ UNCHANGED manifest /\ UNCHANGED disk

CheckExisting(p) ==
    /\ At(p, "createCheck")
    /\ \/ manifest # NoManifest /\ Reopen(p, "createOpen")
       \/ manifest = NoManifest /\ Goto(p, To(proc[p], "mkdir"))
    /\ UNCHANGED <<manifest, lock>> /\ UNCHANGED disk

ReopenExistingUnlocked(p) ==
    /\ At(p, "opened")
    /\ For(p, {"createOpen"})
    /\ Goto(p, Start("createReady", "read", proc[p].handle, NoId))
    /\ lock' = Without(p, {"drive"})
    /\ UNCHANGED manifest /\ UNCHANGED disk

\* An existing drive was opened: is it ready?
ReopenExisting(p) ==
    /\ At(p, "opened")
    /\ For(p, {"createOpen"})
    /\ Goto(p, Start("createReady", "read", proc[p].handle, NoId))
    /\ UNCHANGED <<manifest, lock>> /\ UNCHANGED disk

LockModels(p) ==
    /\ At(p, "modelsLock")
    /\ \/ Take(p, "models") /\ Reopen(p, "createRecheck")
       \/ lock["models"] # NoProc /\ Return(p)
    /\ UNCHANGED manifest /\ UNCHANGED disk

\* validateModelLayout reads the categories; the drive is handed out or not.
ValidateModels(p) ==
    /\ At(p, "validate")
    /\ Return(p)
    /\ UNCHANGED manifest /\ UNCHANGED disk

\* The directories a create call makes, so the ones it may take back.  One
\* that fails or dies between two mkdirs leaves some of them.
Missing == {d \in {"sections", "photos"} :
              IF d = "sections" THEN ~sections ELSE ~photosDir}

MakeSections(p) ==
    /\ At(p, "mkdir")
    /\ \/ /\ sections' = TRUE
          /\ photosDir' = TRUE
          /\ Goto(p, Making(Missing))
          /\ UNCHANGED lock
       \/ /\ sections' \in BOOLEAN /\ (sections => sections')
          /\ photosDir' \in BOOLEAN /\ (photosDir => photosDir')
          /\ Return(p)
    /\ UNCHANGED <<manifest, oldPhotos, legacyDirs>>

\* A fresh UUID is committed, or the directories of this call are taken back.
CommitCreate(p) ==
    /\ At(p, "commit")
    /\ \/ /\ \E id \in Ids : manifest' = Created(id)
          /\ UNCHANGED disk
       \/ Rollback(p) /\ UNCHANGED <<manifest, oldPhotos>>
    /\ Return(p)

---------------------------------------------------------------------------
(* The surroundings.                                                       *)

\* The process dies: nothing it knew survives, its native locks are free.
Crash(p) ==
    /\ ~At(p, "idle")
    /\ Return(p)
    /\ UNCHANGED manifest /\ UNCHANGED disk

\* The user works in Files meanwhile, with names the old layout used too.
UserMakesPhotos ==
    /\ sections /\ oldPhotos' = TRUE
    /\ UNCHANGED <<manifest, sections, photosDir, legacyDirs, lock, proc>>

UserMakesDirectory ==
    /\ sections
    /\ legacyDirs' = IF legacyDirs = "none" THEN "empty" ELSE "used"
    /\ UNCHANGED <<manifest, sections, photosDir, oldPhotos, lock, proc>>

\* A package without a manifest, or a drive an earlier release has left.
Init ==
    /\ manifest \in {m \in Manifest :
                        /\ ~m.photosListed => ~m.filesVersion
                        /\ (m.local = NoId) = (m.ready = "absent")
                        /\ m.local = NoId => m.previous = NoId} \cup {NoManifest}
    /\ sections \in BOOLEAN
    /\ photosDir \in BOOLEAN
    /\ oldPhotos \in BOOLEAN
    /\ legacyDirs \in {"none", "empty", "used"}
    /\ manifest # NoManifest => Openable
    /\ lock = [l \in Locks |-> NoProc]
    /\ proc = [p \in Procs |-> Idle]

OpenStep(p) ==
    Read(p) \/ LockLayout(p) \/ Recheck(p) \/ MovePhotos(p)
        \/ RemoveLegacyDirs(p) \/ WriteUpgrade(p) \/ HandOut(p)
ReplicaStep(p) ==
    LockDrive(p) \/ LoadForAdoption(p) \/ LoadForCompletion(p)
        \/ Replace(p) \/ CheckReady(p)
CreateStep(p) ==
    LockCreate(p) \/ CheckExisting(p) \/ ReopenExisting(p) \/ LockModels(p)
        \/ ValidateModels(p) \/ MakeSections(p) \/ CommitCreate(p)
Step(p) == OpenStep(p) \/ ReplicaStep(p) \/ CreateStep(p)

Next ==
    \/ \E p \in Procs : Begin(p) \/ Step(p) \/ Crash(p)
    \/ UserMakesPhotos
    \/ UserMakesDirectory

Spec == Init /\ [][Next]_vars

\* Every tryLock has a timeout and every step is local work: a live caller goes on.
FairSpec == Spec /\ \A p \in Procs : WF_vars(Step(p))

---------------------------------------------------------------------------
(* Properties.                                                             *)

\* Every variable stays in its type.
TypeOK ==
    /\ manifest \in Manifest \cup {NoManifest}
    /\ sections \in BOOLEAN /\ photosDir \in BOOLEAN /\ oldPhotos \in BOOLEAN
    /\ legacyDirs \in {"none", "empty", "used"}
    /\ lock \in [Locks -> Procs \cup {NoProc}]
    /\ proc \in [Procs -> Process]

(* At most one caller moves user directories at a time, although open does so
   under the layout lock and create and completeReplica under the drive lock
   only (SocietyDrive.cpp: create, open, completeReplica). *)
MovesDirectories(p) == proc[p].pc \in {"photos", "files", "cleanup"}
MovesExclusive ==
    \A p, q \in Procs : MovesDirectories(p) /\ MovesDirectories(q) => p = q

(* While a mirror is being filled, open never removes the host's empty Files
   directories, even when the adoption began after open read the manifest. *)
SyncingFilesUntouched ==
    \A p \in Procs : At(p, "files") => manifest.ready # "syncing"

(* A manifest is only ever there together with the section directories it
   lists: no create call takes back directories another one has published. *)
SectionsBackManifest == manifest # NoManifest => Openable

(* adoptReplicaIdentity hands out a drive of the host it was asked for, though
   it learns the identity from a fresh open after its own write. *)
AdoptionHandsOutHost ==
    \A p \in Procs : (At(p, "opened") /\ For(p, {"adoptFinal"}))
        => proc[p].handle = proc[p].host

(* The drive that create hands out after its Models check is current and not
   a mirror in progress at that moment, whoever adopts in between. *)
CreateHandsOutReady ==
    \A p \in Procs : At(p, "validate") => ReadyNow(p)

(* After an upgrade is recorded, Files/Photos and empty directories with a
   legacy name belong to the user: no late upgrader takes them away. *)
UserDirectoriesKept ==
    [][manifest # NoManifest =>
        /\ manifest.photosListed /\ oldPhotos => oldPhotos'
        /\ manifest.filesVersion /\ legacyDirs = "empty" => legacyDirs' # "none"]_vars

(* A settings file written before any step still finds the drive after it:
   the identity until now stays recognised, and a step that does not change
   the identity (a repeated adoption, an upgrade) forgets nothing. *)
IdentityRecognised ==
    [][manifest # NoManifest =>
        /\ manifest.id \in Recognised(manifest')
        /\ manifest'.id = manifest.id => Recognised(manifest) \subseteq Recognised(manifest')]_manifest

(* The manifest operations implement one atomic identity record. *)
NoDrive == NoManifest
Layout(m) == {u \in {"photos", "files"} :
                IF u = "photos" THEN m.photosListed ELSE m.filesVersion}
Record(m) == [id |-> m.id, local |-> m.local, previous |-> m.previous,
              ready |-> m.ready, layout |-> Layout(m)]
Identity == IF manifest = NoManifest THEN NoDrive ELSE Record(manifest)
Abstract == INSTANCE DriveIdentity WITH drive <- Identity
ImplementsIdentity == Abstract!Spec

(* Every call returns, by an answer or by the timeout of a lock: open's
   repetition after a concurrent change cannot go on for ever. *)
CallsReturn == \A p \in Procs : ~At(p, "idle") ~> At(p, "idle")
=============================================================================
