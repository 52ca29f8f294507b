---------------------------- MODULE PreviewCache ----------------------------
(***************************************************************************)
(* The preview of one image file that somebody may be editing: threads of  *)
(* this process and other processes load it at once, from the cache on     *)
(* disk or from the file, while entries are written, pruned, and left half *)
(* written by a process that crashes.                                      *)
(*                                                                         *)
(* A revision of the file stands for its thumbnailUrl, which has size and  *)
(* time of the file and names the entry of the cache: <key>.png, the image *)
(* made of some revision, and <key>.json, which says what the image is.    *)
(***************************************************************************)
EXTENDS Naturals

CONSTANTS
    Pool,        \* threads of this process
    Others,      \* other processes
    None,
    MaxRevision, \* bound: revisions of the file, a removal counted as one
    MaxPrunes,   \* bound: prunes of the cache
    MaxLoads     \* bound: calls of load

Loaders == Pool \cup Others
Revisions == 1 .. MaxRevision

ASSUME PreviewAssumption ==
    /\ Pool \cap Others = {} /\ None \notin Nat
    /\ MaxRevision \in Nat \ {0} /\ MaxPrunes \in Nat /\ MaxLoads \in Nat

VARIABLES
    source,    \* the file: its revision, or None
    revised,   \* revisions and removals so far
    png, json, \* the entry of each revision
    load,      \* each loader's position in PreviewCache::load
    prunes, loads

file == <<source, revised>>
cache == <<png, json>>
vars == <<file, cache, load, prunes, loads>>

NoRecord == [preview |-> None, hash |-> None, legacy |-> FALSE]
NoLoad == [step |-> "none", url |-> None, record |-> NoRecord, image |-> None,
           hash |-> None, hit |-> FALSE, required |-> FALSE]

At(t, step) == load[t].step = step
Goto(t, changed, step) == load' = [load EXCEPT ![t] = [changed EXCEPT !.step = step]]

---------------------------------------------------------------------------
(* PreviewCache::load                                                      *)

\* The lock of the entry is one of this process.
SameProcess(t, u) == {t, u} \subseteq Pool
Locked(t) == load[t].step \in {"record", "preview", "decode", "hash", "recheck", "png", "json", "prune"}

Begin(t) ==
    /\ At(t, "begin")
    /\ IF source = None THEN Goto(t, load[t], "done")
       ELSE Goto(t, [load[t] EXCEPT !.url = source], "lock")
    /\ UNCHANGED <<cache, prunes>>

LockEntry(t) ==
    /\ At(t, "lock")
    /\ \A u \in Loaders \ {t} : SameProcess(t, u) /\ Locked(u) => load[u].url # load[t].url
    /\ Goto(t, load[t], "record")
    /\ UNCHANGED <<cache, prunes>>

ReadRecord(t) ==
    /\ At(t, "record")
    /\ Goto(t, [load[t] EXCEPT !.record = json[load[t].url]],
            IF json[load[t].url] = NoRecord THEN "decode" ELSE "preview")
    /\ UNCHANGED <<cache, prunes>>

\* The digest of the image; records of the first version have none.
Intact(record, image) == image # None /\ (record.legacy \/ record.preview = image)
ReadPreview(t) ==
    LET r == load[t].record
        image == png[load[t].url]
        kept == IF Intact(r, image) THEN image ELSE None
        hit == kept # None /\ source = load[t].url
    IN
    /\ At(t, "preview")
    /\ Goto(t, [load[t] EXCEPT !.image = kept, !.hit = hit,
                               !.hash = IF hit THEN r.hash ELSE None],
            IF hit /\ (~load[t].required \/ r.hash # None) THEN "done" ELSE "decode")
    /\ UNCHANGED <<cache, prunes>>

\* A file that is gone or no image has no preview.
Decode(t) ==
    /\ At(t, "decode")
    /\ LET image == IF load[t].image # None THEN load[t].image ELSE source IN
       \/ image # None
          /\ Goto(t, [load[t] EXCEPT !.image = image], IF load[t].required THEN "hash" ELSE "recheck")
       \/ load[t].image = None /\ Goto(t, [load[t] EXCEPT !.image = None], "done")
    /\ UNCHANGED <<cache, prunes>>

Hash(t) ==
    /\ At(t, "hash")
    /\ IF source = None THEN Goto(t, [load[t] EXCEPT !.image = None], "done")
       ELSE Goto(t, [load[t] EXCEPT !.hash = source], "recheck")
    /\ UNCHANGED <<cache, prunes>>

\* A mutant of Recheck.
RecheckMissing(t) ==
    /\ At(t, "recheck")
    /\ Goto(t, load[t], IF load[t].hit THEN "json" ELSE "png")
    /\ UNCHANGED <<cache, prunes>>

\* "Concurrent edit: never publish the wrong revision."
Recheck(t) ==
    /\ At(t, "recheck")
    /\ IF source # load[t].url
       THEN Goto(t, [load[t] EXCEPT !.image = None, !.hash = None], "done")
       ELSE Goto(t, load[t], IF load[t].hit THEN "json" ELSE "png")
    /\ UNCHANGED <<cache, prunes>>

\* Each file is replaced as a whole; a write may fail.
WritePreview(t) ==
    /\ At(t, "png") /\ UNCHANGED <<json, prunes>>
    /\ \/ png' = [png EXCEPT ![load[t].url] = load[t].image] /\ Goto(t, load[t], "json")
       \/ UNCHANGED png /\ Goto(t, load[t], "done")

WriteRecord(t) ==
    /\ At(t, "json") /\ UNCHANGED <<png, prunes>>
    /\ \/ json' = [json EXCEPT ![load[t].url] =
              [preview |-> load[t].image, hash |-> load[t].hash, legacy |-> FALSE]]
       \/ UNCHANGED json
    /\ Goto(t, load[t], "prune")

\* Every thirty-second write removes the oldest files beyond the budget, in
\* whatever entries and under no lock of theirs.
Prune(t) ==
    /\ At(t, "prune") /\ Goto(t, load[t], "done")
    /\ \/ UNCHANGED <<cache, prunes>>
       \/ /\ prunes < MaxPrunes /\ prunes' = prunes + 1
          /\ \E p, j \in SUBSET Revisions :
                /\ png' = [r \in Revisions |-> IF r \in p THEN None ELSE png[r]]
                /\ json' = [r \in Revisions |-> IF r \in j THEN NoRecord ELSE json[r]]

Load(t) ==
    /\ \/ Begin(t) \/ LockEntry(t) \/ ReadRecord(t) \/ ReadPreview(t) \/ Decode(t)
       \/ Hash(t) \/ Recheck(t) \/ WritePreview(t) \/ WriteRecord(t) \/ Prune(t)
    /\ UNCHANGED <<file, loads>>

---------------------------------------------------------------------------
(* Callers, other processes and the editor                                 *)

Call(t) ==
    /\ At(t, "none") /\ loads < MaxLoads /\ loads' = loads + 1
    /\ \E required \in BOOLEAN : Goto(t, [NoLoad EXCEPT !.required = required], "begin")
    /\ UNCHANGED <<file, cache, prunes>>
Return(t) ==
    /\ At(t, "done")
    /\ load' = [load EXCEPT ![t] = NoLoad]
    /\ UNCHANGED <<file, cache, prunes, loads>>
Crash(t) == \* the lock of the entry goes with the process
    /\ t \in Others /\ Locked(t)
    /\ load' = [load EXCEPT ![t] = NoLoad]
    /\ UNCHANGED <<file, cache, prunes, loads>>

Edit ==
    /\ revised < MaxRevision /\ revised' = revised + 1
    /\ source' = revised' \/ (source # None /\ source' = None)
    /\ UNCHANGED <<cache, load, prunes, loads>>

\* The entry of an earlier session: none, or of either version.
Init ==
    /\ source = 1 /\ revised = 1
    /\ \E record \in {NoRecord, [preview |-> 1, hash |-> None, legacy |-> FALSE],
                     [preview |-> None, hash |-> 1, legacy |-> TRUE]} :
          /\ png = [r \in Revisions |-> IF r = 1 /\ record # NoRecord THEN 1 ELSE None]
          /\ json = [r \in Revisions |-> IF r = 1 THEN record ELSE NoRecord]
    /\ load = [t \in Loaders |-> NoLoad]
    /\ prunes = 0 /\ loads = 0

Next ==
    \/ \E t \in Loaders : Call(t) \/ Load(t) \/ Return(t) \/ Crash(t)
    \/ Edit

Spec == Init /\ [][Next]_vars

---------------------------------------------------------------------------
(* Whatever others write, prune or leave half written while the file is being
   edited, an image that load hands out, from the cache or not, shows the
   revision whose url it asked for, and a hash is that revision's. *)
PreviewIsOfRevision ==
    \A t \in Loaders : At(t, "done") /\ load[t].image # None =>
        /\ load[t].image = load[t].url
        /\ load[t].hash \in {None, load[t].url}
=============================================================================
