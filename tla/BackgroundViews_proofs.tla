------------------------ MODULE BackgroundViews_proofs ------------------------
(***************************************************************************)
(* Theorems about PreviewCache for any threads, processes, revisions and   *)
(* prunes, about CatalogView for any directories, about PreviewWorkers for *)
(* any pool and responses, and about their composition.                    *)
(*                                                                         *)
(* The argument for previews: a revision that the file has left never      *)
(* comes back.  So what a loader holds shows the revision it asked for, or *)
(* the file has left that revision, and the recheck sees it.  Only what    *)
(* has passed the recheck is written, hence every entry, however it was    *)
(* pruned or left half written, holds its own revision or nothing.         *)
(* For the catalog view: at most one thread counts, and it was started for *)
(* the directory that is set, so that its rows are a step Show of the      *)
(* abstract view.                                                          *)
(* For the pool: a response that is not finished is in the queue or with a *)
(* worker, and while a job waits a worker is awake.                        *)
(***************************************************************************)
EXTENDS BackgroundViews, TLAPS

Url == Revisions \cup {None}
Record == [preview : Url, hash : Url, legacy : BOOLEAN]
Steps == {"none", "begin", "lock", "record", "preview", "decode", "hash",
          "recheck", "png", "json", "prune", "done"}
LoadType == [step : Steps, url : Url, record : Record, image : Url, hash : Url,
             hit : BOOLEAN, required : BOOLEAN]

TypeOK ==
    /\ revised \in Revisions
    /\ source \in Url
    /\ png \in [Revisions -> Url]
    /\ json \in [Revisions -> Record]
    /\ load \in [Loaders -> LoadType]

\* The file is at the last revision or gone.
SourceIsLast == source \in {None, revised}

\* An entry holds the image and the hash of its own revision, or nothing.
OfRevision(record, u) == record.preview \in {None, u} /\ record.hash \in {None, u}
EntriesInv ==
    \A u \in Revisions : png[u] \in {None, u} /\ OfRevision(json[u], u)

\* What a loader holds may not be of its revision before it was compared with
\* the file once more; then the file has left that revision for good.
Unchecked(l, step) == step \in {"decode", "hash", "recheck"} /\ source # l.url
Holds(l, step) ==
    /\ l.url = None => step \in {"none", "begin", "done"}
    /\ l.url # None => l.url <= revised /\ OfRevision(l.record, l.url)
    /\ step = "begin" => l.image = None /\ l.hash = None /\ l.record = NoRecord
    /\ l.image \in {None, l.url} \/ Unchecked(l, step)
    /\ l.hash \in {None, l.url} \/ (step = "recheck" /\ source # l.url)
LoadInv(l) == Holds(l, l.step)

IInv ==
    /\ TypeOK
    /\ SourceIsLast
    /\ EntriesInv
    /\ \A t \in Loaders : LoadInv(load[t])

---------------------------------------------------------------------------
LEMMA Constants ==
    /\ None \notin Nat /\ None \notin Revisions /\ Revisions \subseteq Nat
    /\ 1 \in Revisions /\ NoRecord \in Record
    /\ \A required \in BOOLEAN :
          [NoLoad EXCEPT !.required = required] \in LoadType
    /\ NoLoad \in LoadType /\ NoLoad.step = "none"
<1>1. None \notin Nat /\ Revisions \subseteq Nat /\ 1 \in Revisions
  BY PreviewAssumption DEF Revisions
<1> QED
  BY <1>1 DEF NoRecord, NoLoad, Record, LoadType, Url, Steps

\* What Goto makes of the record of its thread.
LEMMA GotoFacts ==
    ASSUME TypeOK, NEW t \in Loaders, NEW l \in LoadType, NEW step \in Steps,
           Goto(t, l, step)
    PROVE /\ load' \in [Loaders -> LoadType]
          /\ load'[t].step = step /\ load'[t].url = l.url /\ load'[t].record = l.record
          /\ load'[t].image = l.image /\ load'[t].hash = l.hash
          /\ \A u \in Loaders : u # t => load'[u] = load[u]
<1>1. [l EXCEPT !.step = step] \in LoadType
  BY DEF LoadType
<1>2. load' = [load EXCEPT ![t] = [l EXCEPT !.step = step]]
  BY DEF Goto
<1> QED
  BY <1>1, <1>2 DEF TypeOK, LoadType

LEMMA InitIInv == Init => IInv
<1> SUFFICES ASSUME Init PROVE IInv
  OBVIOUS
<1>1. PICK record \in {NoRecord, [preview |-> 1, hash |-> None, legacy |-> FALSE],
                       [preview |-> None, hash |-> 1, legacy |-> TRUE]} :
         /\ png = [r \in Revisions |-> IF r = 1 /\ record # NoRecord THEN 1 ELSE None]
         /\ json = [r \in Revisions |-> IF r = 1 THEN record ELSE NoRecord]
  BY DEF Init
<1>2. record \in Record /\ OfRevision(record, 1) /\ \A u : OfRevision(NoRecord, u)
  <2>1. \A u : OfRevision(NoRecord, u)
    BY DEF OfRevision, NoRecord
  <2>2. CASE record = NoRecord
    BY <2>1, <2>2, Constants
  <2>3. CASE record = [preview |-> 1, hash |-> None, legacy |-> FALSE]
    BY <2>1, <2>3, Constants DEF Record, Url, OfRevision
  <2>4. CASE record = [preview |-> None, hash |-> 1, legacy |-> TRUE]
    BY <2>1, <2>4, Constants DEF Record, Url, OfRevision
  <2> QED
    BY <1>1, <2>2, <2>3, <2>4
<1>3. TypeOK
  BY <1>1, <1>2, Constants DEF Init, TypeOK, Url
<1>4. SourceIsLast /\ EntriesInv
  BY <1>1, <1>2 DEF Init, SourceIsLast, EntriesInv
<1>5. \A t \in Loaders : LoadInv(load[t])
  BY DEF Init, LoadInv, Holds, NoLoad
<1> QED
  BY <1>3, <1>4, <1>5 DEF IInv

(* A step of one loader that leaves the file alone. *)
LEMMA OneLoader ==
    ASSUME IInv, NEW t \in Loaders, UNCHANGED file,
           load' \in [Loaders -> LoadType],
           \A u \in Loaders : u # t => load'[u] = load[u],
           LoadInv(load[t])',
           png' \in [Revisions -> Url], json' \in [Revisions -> Record], EntriesInv'
    PROVE IInv'
<1>1. TypeOK' /\ SourceIsLast'
  BY DEF IInv, TypeOK, SourceIsLast, file
<1>2. ASSUME NEW u \in Loaders PROVE LoadInv(load[u])'
  <2>1. CASE u = t
    BY <2>1
  <2>2. CASE u # t
    BY <2>2 DEF IInv, LoadInv, Holds, Unchecked, file
  <2> QED
    BY <2>1, <2>2
<1> QED
  BY <1>1, <1>2 DEF IInv

(* A loader goes on, and changes at most the entries. *)
LEMMA GoesOn ==
    ASSUME IInv, NEW t \in Loaders, UNCHANGED file,
           NEW l \in LoadType, NEW step \in Steps, Goto(t, l, step), Holds(l, step),
           png' \in [Revisions -> Url], json' \in [Revisions -> Record], EntriesInv'
    PROVE IInv'
<1>1. /\ load' \in [Loaders -> LoadType]
      /\ load'[t].step = step /\ load'[t].url = l.url /\ load'[t].record = l.record
      /\ load'[t].image = l.image /\ load'[t].hash = l.hash
      /\ \A u \in Loaders : u # t => load'[u] = load[u]
  BY GotoFacts DEF IInv
<1>2. LoadInv(load[t])'
  BY <1>1 DEF LoadInv, Holds, Unchecked, file
<1> QED
  BY <1>1, <1>2, OneLoader

\* As GoesOn, when the entries stay.
LEMMA ReadsOn ==
    ASSUME IInv, NEW t \in Loaders, UNCHANGED <<file, cache>>,
           NEW l \in LoadType, NEW step \in Steps, Goto(t, l, step), Holds(l, step)
    PROVE IInv'
<1>1. png' \in [Revisions -> Url] /\ json' \in [Revisions -> Record] /\ EntriesInv'
  BY DEF IInv, TypeOK, EntriesInv, cache
<1>2. UNCHANGED file
  OBVIOUS
<1> QED
  BY <1>1, <1>2, GoesOn

LEMMA LoadKeepsIInv ==
    ASSUME IInv, NEW t \in Loaders, Load(t)
    PROVE IInv'
<1> DEFINE l == load[t]
<1>1. l \in LoadType /\ Holds(l, l.step) /\ TypeOK /\ EntriesInv /\ SourceIsLast
  BY DEF IInv, TypeOK, LoadInv
<1>2. /\ UNCHANGED file /\ source \in Url /\ revised \in Nat
      /\ \A s : At(t, s) <=> l.step = s
      /\ l.url \in Url /\ l.image \in Url /\ l.hash \in Url /\ l.record \in Record
  BY <1>1, Constants DEF Load, IInv, TypeOK, At, LoadType
<1>3. \A i, h \in Url, u \in Url, r \in Record, b \in BOOLEAN :
         /\ [l EXCEPT !.url = u] \in LoadType
         /\ [l EXCEPT !.record = r] \in LoadType
         /\ [l EXCEPT !.image = i] \in LoadType
         /\ [l EXCEPT !.hash = h] \in LoadType
         /\ [l EXCEPT !.image = i, !.hash = h] \in LoadType
         /\ [l EXCEPT !.image = i, !.hit = b, !.hash = h] \in LoadType
  BY <1>1 DEF LoadType
<1> HIDE DEF l
<1> USE DEF Steps
<1>4. None \in Url
  BY DEF Url
<1>5. CASE Begin(t)
  <2>0. l.step = "begin" /\ l.image = None /\ l.hash = None /\ l.record = NoRecord
    BY <1>1, <1>2, <1>5 DEF Begin, Holds
  <2>1. CASE source = None
    <3>1. Goto(t, l, "done") /\ UNCHANGED cache
      BY <1>5, <2>1 DEF Begin, l
    <3>2. Holds(l, "done")
      BY <1>1, <2>0 DEF Holds
    <3> QED
      BY <1>1, <1>2, <3>1, <3>2, ReadsOn
  <2>2. CASE source # None
    <3> DEFINE asked == [l EXCEPT !.url = source]
    <3>1. Goto(t, asked, "lock") /\ UNCHANGED cache /\ asked \in LoadType
      BY <1>2, <1>3, <1>5, <2>2 DEF Begin, l
    <3>2. /\ asked.url = revised /\ asked.image = None /\ asked.hash = None
          /\ asked.record = NoRecord
      BY <1>1, <2>0, <2>2 DEF SourceIsLast, LoadType
    <3>3. Holds(asked, "lock")
      BY <1>2, <2>2, <3>2, Constants DEF Holds, OfRevision, NoRecord, SourceIsLast
    <3> QED
      BY <1>2, <3>1, <3>3, ReadsOn
  <2> QED
    BY <2>1, <2>2
<1>6. CASE LockEntry(t)
  <2>1. l.step = "lock" /\ Goto(t, l, "record") /\ UNCHANGED cache
    BY <1>2, <1>6 DEF LockEntry, l
  <2>2. Holds(l, "record")
    BY <1>1, <2>1 DEF Holds, Unchecked
  <2> QED
    BY <1>1, <1>2, <2>1, <2>2, ReadsOn
<1>7. CASE ReadRecord(t)
  <2> DEFINE read == [l EXCEPT !.record = json[l.url]]
             next == IF json[l.url] = NoRecord THEN "decode" ELSE "preview"
  <2>1. l.step = "record" /\ Goto(t, read, next) /\ UNCHANGED cache
    BY <1>2, <1>7 DEF ReadRecord, l
  <2>2. l.url \in Revisions
    BY <1>1, <1>2, <2>1 DEF Holds, Url
  <2>3. json[l.url] \in Record /\ OfRevision(json[l.url], l.url)
    BY <1>1, <2>2 DEF EntriesInv, TypeOK
  <2>4. /\ read \in LoadType /\ read.url = l.url /\ read.record = json[l.url]
        /\ read.image = l.image /\ read.hash = l.hash
    BY <1>1, <1>3, <2>3 DEF LoadType
  <2>5. Holds(read, next)
    BY <1>1, <2>1, <2>2, <2>3, <2>4, Constants DEF Holds, Unchecked
  <2>6. next \in Steps
    OBVIOUS
  <2> QED
    BY <1>2, <2>1, <2>4, <2>5, <2>6, ReadsOn
<1>8. CASE ReadPreview(t)
  <2> DEFINE image == png[l.url]
             kept == IF Intact(l.record, image) THEN image ELSE None
             hit == kept # None /\ source = l.url
             hash == IF hit THEN l.record.hash ELSE None
             found == [l EXCEPT !.image = kept, !.hit = hit, !.hash = hash]
             next == IF hit /\ (~l.required \/ l.record.hash # None)
                     THEN "done" ELSE "decode"
  <2>1. l.step = "preview" /\ Goto(t, found, next) /\ UNCHANGED cache
    BY <1>2, <1>8 DEF ReadPreview, l
  <2>2. l.url \in Revisions
    BY <1>1, <1>2, <2>1 DEF Holds, Url
  <2>3. kept \in {None, l.url} /\ hash \in {None, l.url}
    BY <1>1, <2>2, Constants DEF EntriesInv, Holds, OfRevision
  <2>4. kept \in Url /\ hash \in Url /\ hit \in BOOLEAN
    BY <2>2, <2>3 DEF Url
  <2> HIDE DEF kept, hash, hit
  <2>5. /\ found \in LoadType /\ found.url = l.url /\ found.record = l.record
        /\ found.image = kept /\ found.hash = hash
    BY <1>1, <1>3, <2>4 DEF LoadType
  <2>6. Holds(found, next)
    BY <1>1, <2>1, <2>2, <2>3, <2>5, Constants DEF Holds
  <2>7. next \in Steps
    OBVIOUS
  <2> QED
    BY <1>2, <2>1, <2>5, <2>6, <2>7, ReadsOn
<1>9. CASE Decode(t)
  <2> DEFINE image == IF l.image # None THEN l.image ELSE source
             made == [l EXCEPT !.image = image]
             failed == [l EXCEPT !.image = None]
  <2>1. l.step = "decode" /\ UNCHANGED cache
    BY <1>2, <1>9 DEF Decode
  <2>2. CASE /\ image # None
             /\ Goto(t, made, IF l.required THEN "hash" ELSE "recheck")
    <3> DEFINE next == IF l.required THEN "hash" ELSE "recheck"
    <3>1. /\ made \in LoadType /\ made.url = l.url /\ made.record = l.record
          /\ made.image = image /\ made.hash = l.hash
      BY <1>1, <1>2, <1>3 DEF LoadType
    <3>2. image \in {None, l.url} \/ source # l.url
      BY <1>1 DEF Holds, Unchecked
    <3>3. Holds(made, next)
      <4> HIDE DEF image
      <4> QED
        BY <1>1, <2>1, <3>1, <3>2 DEF Holds, Unchecked
    <3>4. next \in Steps
      OBVIOUS
    <3> QED
      BY <1>2, <2>1, <2>2, <3>1, <3>3, <3>4, ReadsOn
  <2>3. CASE l.image = None /\ Goto(t, failed, "done")
    <3>1. /\ failed \in LoadType /\ failed.url = l.url /\ failed.record = l.record
          /\ failed.image = None /\ failed.hash = l.hash
      BY <1>1, <1>3, <1>4 DEF LoadType
    <3>2. Holds(failed, "done")
      BY <1>1, <2>1, <3>1 DEF Holds, Unchecked
    <3> QED
      BY <1>2, <2>1, <2>3, <3>1, <3>2, ReadsOn
  <2> QED
    BY <1>9, <2>2, <2>3 DEF Decode, l
<1>10. CASE Hash(t)
  <2>1. l.step = "hash" /\ UNCHANGED cache
    BY <1>2, <1>10 DEF Hash
  <2>2. CASE source = None
    <3> DEFINE failed == [l EXCEPT !.image = None]
    <3>0. failed \in LoadType
      BY <1>2, <1>3, <1>4
    <3>1. Goto(t, failed, "done")
      BY <1>10, <2>2 DEF Hash, l
    <3>2. /\ failed.url = l.url /\ failed.record = l.record
          /\ failed.image = None /\ failed.hash = l.hash
      BY <1>1 DEF LoadType
    <3>3. Holds(failed, "done")
      BY <1>1, <2>1, <3>2 DEF Holds, Unchecked
    <3> QED
      BY <1>2, <2>1, <3>0, <3>1, <3>3, ReadsOn
  <2>3. CASE source # None
    <3> DEFINE hashed == [l EXCEPT !.hash = source]
    <3>0. hashed \in LoadType
      BY <1>2, <1>3
    <3>1. Goto(t, hashed, "recheck")
      BY <1>10, <2>3 DEF Hash, l
    <3>2. /\ hashed.url = l.url /\ hashed.record = l.record
          /\ hashed.image = l.image /\ hashed.hash = source
      BY <1>1 DEF LoadType
    <3>3. Holds(hashed, "recheck")
      BY <1>1, <2>1, <3>2 DEF Holds, Unchecked
    <3> QED
      BY <1>2, <2>1, <3>0, <3>1, <3>3, ReadsOn
  <2> QED
    BY <2>2, <2>3
<1>11. CASE Recheck(t)
  <2>1. l.step = "recheck" /\ UNCHANGED cache
    BY <1>2, <1>11 DEF Recheck
  <2>2. CASE source # l.url
    <3> DEFINE refused == [l EXCEPT !.image = None, !.hash = None]
    <3>0. refused \in LoadType
      BY <1>2, <1>3, <1>4
    <3>1. Goto(t, refused, "done")
      BY <1>11, <2>2 DEF Recheck, l
    <3>2. /\ refused.url = l.url /\ refused.record = l.record
          /\ refused.image = None /\ refused.hash = None
      BY <1>1 DEF LoadType
    <3>3. Holds(refused, "done")
      BY <1>1, <2>1, <3>2 DEF Holds
    <3> QED
      BY <1>2, <2>1, <3>0, <3>1, <3>3, ReadsOn
  <2>3. CASE source = l.url
    <3> DEFINE next == IF l.hit THEN "json" ELSE "png"
    <3>1. Goto(t, l, next) /\ next \in Steps
      BY <1>11, <2>3 DEF Recheck, l
    <3>2. Holds(l, next)
      BY <1>1, <2>1, <2>3 DEF Holds, Unchecked
    <3> QED
      BY <1>1, <1>2, <2>1, <3>1, <3>2, ReadsOn
  <2> QED
    BY <2>2, <2>3
<1>12. CASE WritePreview(t)
  <2>1. /\ l.step = "png" /\ UNCHANGED json /\ l.url \in Revisions
        /\ l.image \in {None, l.url} /\ Holds(l, "json") /\ Holds(l, "done")
    BY <1>1, <1>2, <1>12 DEF WritePreview, Holds, Unchecked, Url
  <2>2. CASE png' = [png EXCEPT ![l.url] = l.image] /\ Goto(t, l, "json")
    <3>1. png' \in [Revisions -> Url] /\ json' \in [Revisions -> Record] /\ EntriesInv'
      BY <1>1, <1>2, <2>1, <2>2 DEF TypeOK, EntriesInv
    <3> QED
      BY <1>1, <1>2, <2>1, <2>2, <3>1, GoesOn
  <2>3. CASE UNCHANGED png /\ Goto(t, l, "done")
    BY <1>1, <1>2, <2>1, <2>3, ReadsOn DEF cache
  <2> QED
    BY <1>12, <2>2, <2>3 DEF WritePreview, l
<1>13. CASE WriteRecord(t)
  <2> DEFINE record == [preview |-> l.image, hash |-> l.hash, legacy |-> FALSE]
  <2>1. /\ l.step = "json" /\ UNCHANGED png /\ Goto(t, l, "prune") /\ l.url \in Revisions
        /\ Holds(l, "prune") /\ record \in Record /\ OfRevision(record, l.url)
    BY <1>1, <1>2, <1>13 DEF WriteRecord, Holds, Unchecked, Url, Record, OfRevision, l
  <2>2. json' = [json EXCEPT ![l.url] = record] \/ json' = json
    BY <1>13 DEF WriteRecord, l
  <2>3. png' \in [Revisions -> Url] /\ json' \in [Revisions -> Record] /\ EntriesInv'
    BY <1>1, <2>1, <2>2 DEF TypeOK, EntriesInv
  <2> QED
    BY <1>1, <1>2, <2>1, <2>3, GoesOn
<1>14. CASE Prune(t)
  <2>1. l.step = "prune" /\ Goto(t, l, "done")
    BY <1>2, <1>14 DEF Prune, l
  <2>2. Holds(l, "done")
    BY <1>1, <2>1 DEF Holds, Unchecked
  <2>3. \A r \in Revisions : OfRevision(NoRecord, r)
    BY DEF OfRevision, NoRecord
  <2>4. png' \in [Revisions -> Url] /\ json' \in [Revisions -> Record] /\ EntriesInv'
    <3>1. CASE UNCHANGED cache
      BY <1>1, <3>1 DEF cache, TypeOK, EntriesInv
    <3>2. CASE \E p, j \in SUBSET Revisions :
                  /\ png' = [r \in Revisions |-> IF r \in p THEN None ELSE png[r]]
                  /\ json' = [r \in Revisions |-> IF r \in j THEN NoRecord ELSE json[r]]
      BY <1>1, <1>4, <2>3, <3>2, Constants DEF TypeOK, EntriesInv
    <3> QED
      BY <1>14, <3>1, <3>2 DEF Prune
  <2> QED
    BY <1>1, <1>2, <2>1, <2>2, <2>4, GoesOn
<1> QED
  BY <1>5, <1>6, <1>7, <1>8, <1>9, <1>10, <1>11, <1>12, <1>13, <1>14 DEF Load

\* A call, a return and a crash leave the loader with nothing.
LEMMA CallersKeepIInv ==
    ASSUME IInv, NEW t \in Loaders, Call(t) \/ Return(t) \/ Crash(t)
    PROVE IInv'
<1>1. PICK required \in BOOLEAN :
         \/ Goto(t, [NoLoad EXCEPT !.required = required], "begin")
         \/ load' = [load EXCEPT ![t] = NoLoad]
  BY DEF Call, Return, Crash
<1>2. UNCHANGED <<file, cache>>
  BY DEF Call, Return, Crash
<1> DEFINE asking == [NoLoad EXCEPT !.required = required]
<1>3. /\ asking \in LoadType /\ asking.url = None /\ asking.image = None
      /\ asking.hash = None /\ asking.record = NoRecord
  BY Constants DEF NoLoad
<1>4. CASE Goto(t, asking, "begin")
  <2>1. Holds(asking, "begin")
    BY <1>3 DEF Holds
  <2> QED
    BY <1>2, <1>3, <1>4, <2>1, ReadsOn DEF Steps
<1>5. CASE load' = [load EXCEPT ![t] = NoLoad]
  <2>1. /\ load' \in [Loaders -> LoadType] /\ load'[t] = NoLoad
        /\ \A u \in Loaders : u # t => load'[u] = load[u]
    BY <1>5, Constants DEF IInv, TypeOK
  <2>2. LoadInv(load[t])'
    BY <2>1 DEF LoadInv, Holds, NoLoad
  <2>3. png' \in [Revisions -> Url] /\ json' \in [Revisions -> Record] /\ EntriesInv'
    BY <1>2 DEF IInv, TypeOK, EntriesInv, cache
  <2> QED
    BY <1>2, <2>1, <2>2, <2>3, OneLoader
<1> QED
  BY <1>1, <1>4, <1>5

\* An edit takes the file away from whatever revision anybody has asked for.
LEMMA EditKeepsIInv ==
    ASSUME IInv, Edit
    PROVE IInv'
<1>1. /\ revised \in Nat /\ revised' = revised + 1 /\ revised' \in Revisions
      /\ source' \in {None, revised'} /\ UNCHANGED <<cache, load>>
  BY PreviewAssumption DEF Edit, IInv, TypeOK, Revisions
<1>2. TypeOK' /\ SourceIsLast' /\ EntriesInv'
  BY <1>1 DEF IInv, TypeOK, SourceIsLast, EntriesInv, cache, Url
<1>3. ASSUME NEW t \in Loaders PROVE LoadInv(load[t])'
  <2>1. load[t] \in LoadType /\ LoadInv(load[t])
    BY DEF IInv, TypeOK
  <2>2. CASE load[t].url = None
    BY <1>1, <2>1, <2>2 DEF LoadInv, Holds, Unchecked
  <2>3. CASE load[t].url # None
    <3>1. load[t].url \in Nat /\ load[t].url <= revised
      BY <2>1, <2>3, Constants DEF LoadInv, Holds, LoadType, Url
    <3>2. source' # load[t].url /\ load[t].url <= revised'
      BY <1>1, <3>1, Constants
    <3> QED
      BY <1>1, <2>1, <2>3, <3>2 DEF LoadInv, Holds, Unchecked
  <2> QED
    BY <2>2, <2>3
<1> QED
  BY <1>2, <1>3 DEF IInv

\* Every step keeps the invariant.
LEMMA PreviewsStep == IInv /\ [Next]_vars => IInv'
<1>1. IInv /\ Next => IInv'
  BY LoadKeepsIInv, CallersKeepIInv, EditKeepsIInv DEF Next
<1>2. IInv /\ UNCHANGED vars => IInv'
  BY DEF IInv, TypeOK, SourceIsLast, EntriesInv, LoadInv, Holds, Unchecked,
         vars, file, cache
<1> QED
  BY <1>1, <1>2

(* The inductive invariant holds in every state: in particular every entry of
   the cache holds an image and a hash of its own revision, or nothing. *)
THEOREM Invariance == Spec => []IInv
<1> QED
  BY InitIInv, PreviewsStep, PTL DEF Spec

(* Every image that load hands out shows the revision that was asked for,
   whatever others write, prune or leave half written, and for any number of
   loaders, edits and prunes. *)
THEOREM PreviewsAreOfRevision == Spec => []PreviewIsOfRevision
<1>1. IInv => PreviewIsOfRevision
  BY DEF IInv, LoadInv, Holds, Unchecked, PreviewIsOfRevision, At
<1> QED
  BY Invariance, <1>1, PTL
---------------------------------------------------------------------------
(* The catalog view                                                        *)

ScanThread == [of : Directories \cup {Catalog!Cut}, step : {"read", "done"},
               cancelled : BOOLEAN, current : BOOLEAN]

CatalogTypes ==
    /\ directory \in Directories \cup {None}
    /\ workers \in SUBSET ScanThread
    /\ scanning \in BOOLEAN

\* The thread that counts scans the directory of the view and runs to its end.
CurrentScans ==
    /\ \A t \in workers : t.current => t.of = directory /\ directory # None /\ ~t.cancelled
    /\ \A t, u \in workers : t.current /\ u.current => t = u

\* m_scanning is set exactly while one thread will reset it.
ScanningHasThread == scanning <=> \E t \in workers : t.current

CatalogInv == CatalogTypes /\ CurrentScans /\ ScanningHasThread

LEMMA StartedThread ==
    ASSUME NEW d \in Directories
    PROVE  /\ Catalog!Started(d) \in ScanThread
           /\ Catalog!Started(d).current /\ Catalog!Started(d).of = d
           /\ ~Catalog!Started(d).cancelled
BY DEF Catalog!Started, ScanThread

LEMMA SupersededThreads ==
    ASSUME NEW T \in SUBSET ScanThread
    PROVE  /\ Catalog!Superseded(T) \in SUBSET ScanThread
           /\ \A t \in Catalog!Superseded(T) : ~t.current
           /\ Catalog!Cancelled(T) \in SUBSET ScanThread
           /\ \A t \in Catalog!Cancelled(T) : ~t.current
<1>1. /\ Catalog!Superseded(T) \in SUBSET ScanThread
      /\ \A t \in Catalog!Superseded(T) : ~t.current
  BY DEF Catalog!Superseded, ScanThread
<1>2. \A t \in Catalog!Superseded(T) :
         /\ [t EXCEPT !.cancelled = TRUE] \in ScanThread
         /\ ~[t EXCEPT !.cancelled = TRUE].current
  BY <1>1 DEF ScanThread
<1> QED BY <1>1, <1>2 DEF Catalog!Cancelled

\* What a new thread, and the lack of one, does to the invariant.
LEMMA OneStarted ==
    ASSUME NEW T \in SUBSET ScanThread, \A t \in T : ~t.current,
           directory' \in Directories, workers' = T \cup {Catalog!Started(directory')},
           scanning' = TRUE
    PROVE  CatalogInv'
<1> DEFINE new == Catalog!Started(directory')
<1>1. new \in ScanThread /\ new.current /\ new.of = directory' /\ ~new.cancelled
  BY StartedThread
<1>2. workers' = T \cup {new}
  OBVIOUS
<1> HIDE DEF new
<1>3. CatalogTypes' /\ ScanningHasThread'
  BY <1>1, <1>2 DEF CatalogTypes, ScanningHasThread
<1>4. \A t \in workers' : t.current => t = new
  BY <1>2
<1>5. directory' # None
  BY ViewsAssumption
<1>6. CurrentScans'
  BY <1>1, <1>4, <1>5 DEF CurrentScans
<1> QED BY <1>3, <1>6 DEF CatalogInv

LEMMA NoneStarted ==
    ASSUME NEW T \in SUBSET ScanThread, \A t \in T : ~t.current,
           directory' \in Directories \cup {None}, workers' = T, scanning' = FALSE
    PROVE  CatalogInv'
BY DEF CatalogInv, CatalogTypes, CurrentScans, ScanningHasThread

LEMMA RefreshKeeps ==
    ASSUME CatalogInv, Catalog!Refresh, UNCHANGED directory PROVE CatalogInv'
<1>1. CASE UNCHANGED <<scanning, workers>>
  BY <1>1 DEF CatalogInv, CatalogTypes, CurrentScans, ScanningHasThread
<1>2. CASE /\ directory # None /\ scanning' = TRUE
           /\ workers' = Catalog!Superseded(workers) \cup {Catalog!Started(directory)}
  <2>1. directory' \in Directories
    BY <1>2 DEF CatalogInv, CatalogTypes
  <2>2. workers' = Catalog!Superseded(workers) \cup {Catalog!Started(directory')}
    BY <1>2
  <2> QED BY <1>2, <2>1, <2>2, SupersededThreads, OneStarted DEF CatalogInv, CatalogTypes
<1> QED BY <1>1, <1>2 DEF Catalog!Refresh

LEMMA ScanKeeps ==
    ASSUME CatalogInv, NEW t \in workers, Catalog!Scan(t) PROVE CatalogInv'
<1> DEFINE u == [t EXCEPT !.step = "done", !.of = IF t.cancelled THEN Catalog!Cut ELSE @]
<1>1. /\ workers' = (workers \ {t}) \cup {u} /\ UNCHANGED <<directory, scanning>>
      /\ t \in ScanThread
  BY DEF Catalog!Scan, CatalogInv, CatalogTypes
<1>2. /\ u \in ScanThread /\ u.current = t.current /\ u.cancelled = t.cancelled
      /\ ~t.cancelled => u.of = t.of
  BY <1>1 DEF ScanThread
<1> HIDE DEF u
<1>3. CatalogTypes'
  BY <1>1, <1>2 DEF CatalogInv, CatalogTypes
<1>4. CurrentScans' /\ ScanningHasThread'
  BY <1>1, <1>2 DEF CatalogInv, CurrentScans, ScanningHasThread
<1> QED BY <1>3, <1>4 DEF CatalogInv

LEMMA FinishedKeeps ==
    ASSUME CatalogInv, NEW t \in workers, Catalog!Finished(t) PROVE CatalogInv'
<1>1. workers' = workers \ {t} /\ UNCHANGED directory
  BY DEF Catalog!Finished
<1>2. CASE ~t.current /\ UNCHANGED scanning
  BY <1>1, <1>2 DEF CatalogInv, CatalogTypes, CurrentScans, ScanningHasThread
<1>3. CASE t.current /\ scanning' = FALSE
  <2>1. \A u \in workers \ {t} : ~u.current
    BY <1>3 DEF CatalogInv, CurrentScans
  <2> QED BY <1>1, <1>3, <2>1, NoneStarted DEF CatalogInv, CatalogTypes
<1> QED BY <1>2, <1>3 DEF Catalog!Finished

LEMMA SetDirectoryKeeps ==
    ASSUME CatalogInv, NEW d \in Directories \cup {None}, Catalog!SetDirectory(d)
    PROVE  CatalogInv'
<1> DEFINE T == Catalog!Cancelled(workers)
<1>1. T \in SUBSET ScanThread /\ \A t \in T : ~t.current
  BY SupersededThreads DEF CatalogInv, CatalogTypes
<1>2. directory' = d /\ scanning' = (d # None)
  BY DEF Catalog!SetDirectory
<1>3. CASE d = None
  BY <1>1, <1>2, <1>3, NoneStarted DEF Catalog!SetDirectory
<1>4. CASE d # None
  <2>1. d \in Directories /\ scanning' = TRUE
    BY <1>2, <1>4
  <2>2. workers' = T \cup {Catalog!Started(directory')}
    BY <1>2, <1>4 DEF Catalog!SetDirectory
  <2> QED BY <1>1, <1>2, <2>1, <2>2, OneStarted
<1> QED BY <1>3, <1>4

LEMMA CatalogKeeps == CatalogInv /\ [Catalog!Next]_catalogVars => CatalogInv'
<1> SUFFICES ASSUME CatalogInv, [Catalog!Next]_catalogVars PROVE CatalogInv'
  OBVIOUS
<1>1. CASE Catalog!Settled \/ Catalog!Poll
  BY <1>1, RefreshKeeps DEF Catalog!Settled, Catalog!Poll
<1>2. CASE UNCHANGED <<directory, scanning, workers>>
  BY <1>2 DEF CatalogInv, CatalogTypes, CurrentScans, ScanningHasThread
<1>3. CASE \E t \in workers : Catalog!Scan(t) \/ Catalog!Finished(t)
  BY <1>3, ScanKeeps, FinishedKeeps
<1>4. CASE \E d \in Directories \cup {None} : Catalog!SetDirectory(d)
  BY <1>4, SetDirectoryKeeps
<1> QED BY <1>1, <1>2, <1>3, <1>4 DEF Catalog!Next, Catalog!WatchReports, catalogVars

\* Each step of the view is a step of the abstract one, or changes nothing there.
LEMMA CatalogStep ==
    CatalogInv /\ [Catalog!Next]_catalogVars => [Catalog!Shown!Next]_(Catalog!Shown!vars)
<1> SUFFICES ASSUME CatalogInv, [Catalog!Next]_catalogVars
             PROVE  [Catalog!Shown!Next]_(Catalog!Shown!vars)
  OBVIOUS
<1>1. CASE UNCHANGED <<directory, groups>>
  BY <1>1 DEF Catalog!Shown!vars
<1>2. CASE \E t \in workers : Catalog!Finished(t)
  <2>1. PICK t \in workers : Catalog!Finished(t)
    BY <1>2
  <2>2. CASE ~t.current
    BY <2>1, <2>2 DEF Catalog!Finished, Catalog!Shown!vars
  <2>3. CASE t.current
    <3>1. groups' = directory /\ UNCHANGED directory
      BY <2>1, <2>3 DEF Catalog!Finished, CatalogInv, CurrentScans
    <3> QED BY <3>1 DEF Catalog!Shown!Next, Catalog!Shown!Show
  <2> QED BY <2>2, <2>3
<1>3. CASE \E d \in Directories \cup {None} : Catalog!SetDirectory(d)
  BY <1>3 DEF Catalog!SetDirectory, Catalog!Shown!Next, Catalog!Shown!Ask
<1> QED BY <1>1, <1>2, <1>3 DEF Catalog!Next, Catalog!Settled, Catalog!Poll,
    Catalog!WatchReports, Catalog!Scan, catalogVars

---------------------------------------------------------------------------
(* The composition                                                         *)

\* The pool only has load's answer: where previews are not followed, none is loaded.
PreviewsInv == IF follows = "previews" THEN IInv ELSE load = [t \in Loaders |-> NoLoad]

ViewsNext == PreviewsNext \/ CatalogNext \/ ImagesNext
ViewsInv == CatalogInv /\ PreviewsInv

LEMMA ViewsInitially == ViewsInit => ViewsInv
<1> SUFFICES ASSUME ViewsInit PROVE ViewsInv
  OBVIOUS
<1>1. CatalogInv
  BY DEF ViewsInit, Catalog!Init, CatalogInv, CatalogTypes, CurrentScans, ScanningHasThread
<1>2. IInv /\ load = [t \in Loaders |-> NoLoad]
  BY InitIInv DEF ViewsInit, Init
<1> QED BY <1>1, <1>2 DEF ViewsInv, PreviewsInv

LEMMA ViewsStep ==
    ViewsInv /\ [ViewsNext]_<<follows, vars, catalogVars, poolVars>> => ViewsInv'
<1> SUFFICES ASSUME ViewsInv, [ViewsNext]_<<follows, vars, catalogVars, poolVars>>
             PROVE  ViewsInv'
  OBVIOUS
<1>1. CatalogInv'
  <2>1. [Catalog!Next]_catalogVars
    BY DEF ViewsNext, PreviewsNext, CatalogNext, ImagesNext
  <2> QED BY <2>1, CatalogKeeps DEF ViewsInv
<1>2. PreviewsInv'
  <2>1. follows' = follows
    BY DEF ViewsNext, PreviewsNext, CatalogNext, ImagesNext
  <2>2. CASE follows = "previews"
    <3>1. [Next]_vars
      BY <2>2 DEF ViewsNext, PreviewsNext, CatalogNext, ImagesNext
    <3> QED BY <2>1, <2>2, <3>1, PreviewsStep DEF ViewsInv, PreviewsInv
  <2>3. CASE follows # "previews"
    <3>1. load' = load
      BY <2>3 DEF ViewsNext, PreviewsNext, CatalogNext, ImagesNext, vars, allButSource
    <3> QED BY <2>1, <2>3, <3>1 DEF ViewsInv, PreviewsInv
  <2> QED BY <2>2, <2>3
<1> QED BY <1>1, <1>2 DEF ViewsInv

(* The invariant of the composition: that of the previews, and that a thread
   that counts was started for the directory that is set. *)
THEOREM ViewsInvariance == ViewsSpec => []ViewsInv
<1> QED BY ViewsInitially, ViewsStep, PTL DEF ViewsSpec, ViewsNext

\* In the composition every image that load hands out is of the revision asked for.
THEOREM ViewsPreviewsAreOfRevision == ViewsSpec => []PreviewIsOfRevision
<1>1. ViewsInv => PreviewIsOfRevision
  <2>1. IInv => PreviewIsOfRevision
    BY DEF IInv, LoadInv, Holds, Unchecked, PreviewIsOfRevision, At
  <2>2. load = [t \in Loaders |-> NoLoad] => PreviewIsOfRevision
    BY DEF PreviewIsOfRevision, At, NoLoad
  <2> QED BY <2>1, <2>2 DEF ViewsInv, PreviewsInv
<1> QED BY <1>1, ViewsInvariance, PTL

(* m_scanning is set exactly while one thread will reset it, whatever setDirectory,
   polls and watches come in between. *)
THEOREM ScanningIsReset == ViewsSpec => []ScanningHasThread
<1>1. ViewsInv => ScanningHasThread
  BY DEF ViewsInv, CatalogInv
<1> QED BY <1>1, ViewsInvariance, PTL

\* What CatalogServes says without its liveness.
CatalogSafe == Catalog!Shown!Init /\ [][Catalog!Shown!Next]_(Catalog!Shown!vars)

(* The models shown change only to those of the directory that is set then, or to
   none: no late or cancelled scan shows its rows. *)
THEOREM CatalogServesSafely == ViewsSpec => CatalogSafe
<1>1. ViewsInit => Catalog!Shown!Init
  BY DEF ViewsInit, Catalog!Init, Catalog!Shown!Init
<1>2. ViewsInv /\ [ViewsNext]_<<follows, vars, catalogVars, poolVars>>
        => [Catalog!Shown!Next]_(Catalog!Shown!vars)
  <2>1. [ViewsNext]_<<follows, vars, catalogVars, poolVars>> => [Catalog!Next]_catalogVars
    BY DEF ViewsNext, PreviewsNext, CatalogNext, ImagesNext
  <2> QED BY <2>1, CatalogStep DEF ViewsInv
<1> QED BY <1>1, <1>2, ViewsInvariance, PTL DEF ViewsSpec, ViewsNext, CatalogSafe

---------------------------------------------------------------------------
(* The pool: the safety under PoolDrains.                                  *)

Answer == Nat \cup {None}
Response == [step : {"none", "queued", "finished"}, id : Answer, cancelled : BOOLEAN, image : Answer]
Job == [of : Responses \cup {None}, step : {"none", "check", "load", "done"}, image : Answer]
Busy == {j \in Job : j.of \in Responses /\ j.step # "none"}

PoolTypes ==
    /\ queue \in Seq(Responses) /\ response \in [Responses -> Response]
    /\ job \in [Pool -> Busy \cup {Images!NoJob}]
    /\ stopping \in BOOLEAN /\ asleep \subseteq Pool /\ exited \subseteq Pool

\* A response that is not finished waits in the queue, once, or has one worker.
InQueue(r) == \E i \in 1 .. Len(queue) : queue[i] = r
WithWorker(r) == \E t \in Pool : job[t].of = r
OneHome ==
    /\ \A r \in Responses : response[r].step = "queued" <=> InQueue(r) \/ WithWorker(r)
    /\ \A r \in Responses : ~(InQueue(r) /\ WithWorker(r))
    /\ \A t, u \in Pool : job[t].of = job[u].of /\ job[t].of # None => t = u
    /\ \A i, j \in 1 .. Len(queue) : queue[i] = queue[j] => i = j

\* Nobody sleeps through the last job or the end, and nobody leaves a job behind.
Wakeful ==
    /\ stopping => asleep = {}
    /\ exited # {} => stopping /\ queue = <<>>
    /\ \A t \in exited : job[t] = Images!NoJob
    /\ queue # <<>> => \E t \in Pool : t \notin asleep \cup exited

PoolInv == PoolTypes /\ OneHome /\ Wakeful

LEMMA NoWork ==
    /\ Images!NoJob \in Job /\ Images!NoJob.of = None /\ Images!NoJob.step = "none"
    /\ Images!NoResponse \in Response /\ Images!NoResponse.step = "none"
    /\ None \notin Responses /\ \A j \in Busy : j \in Job /\ j # Images!NoJob /\ j.of # None
BY ViewsAssumption DEF Images!NoJob, Images!NoResponse, Job, Response, Answer, Busy

LEMMA PoolInit == Images!Init => PoolInv
<1> SUFFICES ASSUME Images!Init PROVE PoolInv
  OBVIOUS
<1> USE NoWork
<1>1. /\ queue = <<>> /\ response = [r \in Responses |-> Images!NoResponse]
      /\ job = [t \in Pool |-> Images!NoJob]
      /\ stopping = FALSE /\ asleep = {} /\ exited = {}
  BY DEF Images!Init
<1> HIDE DEF Images!NoJob, Images!NoResponse
<1>2. PoolTypes
  <2>1. queue \in Seq(Responses)
    BY <1>1
  <2>2. response \in [Responses -> Response] /\ job \in [Pool -> Busy \cup {Images!NoJob}]
    BY <1>1
  <2> QED BY <1>1, <2>1, <2>2 DEF PoolTypes
<1>3. OneHome
  BY <1>1 DEF OneHome, InQueue, WithWorker
<1>4. Wakeful
  BY <1>1 DEF Wakeful
<1> QED BY <1>2, <1>3, <1>4 DEF PoolInv

\* What a step of a worker does to its own job alone.
LEMMA JobSteps ==
    ASSUME PoolInv, NEW t \in Pool, NEW s \in {"load", "done"}, NEW image \in Answer,
           job[t].step # "none", Images!Goto(t, s, image)
    PROVE  PoolInv'
<1>1. /\ job' = [job EXCEPT ![t].step = s, ![t].image = image]
      /\ UNCHANGED <<queue, response, stopping, asleep, exited>>
  BY DEF Images!Goto
<1>2. job[t] \in Busy
  BY NoWork DEF PoolInv, PoolTypes
<1> DEFINE n == [job[t] EXCEPT !.step = s, !.image = image]
<1>3. n \in Busy /\ n.of = job[t].of
  BY <1>2 DEF Busy, Job
<1>4. job' = [job EXCEPT ![t] = n]
  BY <1>1 DEF PoolInv, PoolTypes
<1> HIDE DEF n
<1>5. /\ job'[t] = n /\ \A u \in Pool : u # t => job'[u] = job[u]
      /\ job' \in [Pool -> Busy \cup {Images!NoJob}]
  BY <1>3, <1>4 DEF PoolInv, PoolTypes
<1>6. \A u \in Pool : job'[u].of = job[u].of
  BY <1>3, <1>5
<1>7. PoolTypes'
  BY <1>1, <1>5 DEF PoolInv, PoolTypes, Images!NoJob
<1>8. OneHome'
  <2>1. \A x \in Responses : (InQueue(x)' <=> InQueue(x)) /\ (WithWorker(x)' <=> WithWorker(x))
    BY <1>1, <1>6 DEF InQueue, WithWorker
  <2> QED BY <1>1, <1>6, <2>1 DEF PoolInv, OneHome
<1>9. t \notin exited
  BY <1>2, NoWork DEF PoolInv, Wakeful
<1>10. Wakeful'
  BY <1>1, <1>5, <1>9 DEF PoolInv, PoolTypes, Wakeful, Images!NoJob
<1> QED BY <1>7, <1>8, <1>10 DEF PoolInv

LEMMA AskKeeps ==
    ASSUME PoolInv, NEW r \in Responses, NEW id \in Answer, Images!Ask(r, id)
    PROVE  PoolInv'
<1>1. /\ ~stopping /\ response[r] = Images!NoResponse
      /\ response' = [response EXCEPT ![r].step = "queued", ![r].id = id]
      /\ queue' = Append(queue, r) /\ UNCHANGED <<job, stopping, exited>>
  BY DEF Images!Ask
<1>2. /\ response'[r].step = "queued" /\ response' \in [Responses -> Response]
      /\ \A x \in Responses : x # r => response'[x] = response[x]
  <2> DEFINE n == [response[r] EXCEPT !.step = "queued", !.id = id]
  <2>1. response[r] \in Response
    BY DEF PoolInv, PoolTypes
  <2>2. n \in Response /\ n.step = "queued"
    BY <2>1 DEF Response
  <2>3. response' = [response EXCEPT ![r] = n]
    BY <1>1 DEF PoolInv, PoolTypes
  <2> HIDE DEF n
  <2> QED BY <2>2, <2>3 DEF PoolInv, PoolTypes
<1>3. /\ queue' \in Seq(Responses) /\ Len(queue') = Len(queue) + 1 /\ Len(queue) \in Nat
      /\ \A i \in 1 .. Len(queue) : queue'[i] = queue[i]
      /\ queue'[Len(queue) + 1] = r
  BY <1>1 DEF PoolInv, PoolTypes
<1>4. asleep' \subseteq asleep /\ \E t \in Pool : t \notin asleep'
  <2>1. CASE asleep = {}
    BY <2>1, ViewsAssumption DEF Images!Ask, Images!NotifyOne, Images!Wake
  <2>2. CASE asleep # {}
    BY <2>2 DEF Images!Ask, Images!NotifyOne, Images!Wake, PoolInv, PoolTypes
  <2> QED BY <2>1, <2>2
<1>5. response[r].step = "none"
  BY <1>1, NoWork
<1>6. ~InQueue(r) /\ ~WithWorker(r)
  BY <1>5 DEF PoolInv, OneHome
<1>7. PoolTypes'
  BY <1>1, <1>2, <1>3, <1>4 DEF PoolInv, PoolTypes
<1>8. \A x \in Responses : InQueue(x)' <=> InQueue(x) \/ x = r
  <2> TAKE x \in Responses
  <2>1. InQueue(x) => InQueue(x)'
    BY <1>3 DEF InQueue
  <2>2. x = r => InQueue(x)'
    BY <1>3 DEF InQueue
  <2>3. InQueue(x)' => InQueue(x) \/ x = r
    BY <1>3 DEF InQueue
  <2> QED BY <2>1, <2>2, <2>3
<1>9. OneHome'
  <2>1. \A x \in Responses : WithWorker(x)' <=> WithWorker(x)
    BY <1>1 DEF WithWorker
  <2>2. \A i, j \in 1 .. Len(queue') : queue'[i] = queue'[j] => i = j
    BY <1>3, <1>6 DEF InQueue, PoolInv, OneHome
  <2>3. \A x \in Responses : response'[x].step = "queued" <=> InQueue(x)' \/ WithWorker(x)'
    BY <1>2, <1>8, <2>1 DEF PoolInv, OneHome
  <2>4. \A x \in Responses : ~(InQueue(x)' /\ WithWorker(x)')
    BY <1>6, <1>8, <2>1 DEF PoolInv, OneHome
  <2> QED BY <1>1, <2>2, <2>3, <2>4 DEF PoolInv, OneHome
<1>10. Wakeful'
  BY <1>1, <1>4 DEF PoolInv, Wakeful
<1> QED BY <1>7, <1>9, <1>10 DEF PoolInv

LEMMA LookKeeps ==
    ASSUME PoolInv, NEW t \in Pool, Images!Look(t)
    PROVE  PoolInv'
<1>1. job[t] = Images!NoJob /\ t \notin asleep \cup exited /\ UNCHANGED <<response, stopping>>
  BY DEF Images!Look
<1>2. CASE Images!Leaves /\ exited' = exited \cup {t} /\ UNCHANGED <<queue, asleep, job>>
  BY <1>1, <1>2 DEF Images!Leaves, PoolInv, PoolTypes, OneHome, InQueue, WithWorker, Wakeful
<1>3. CASE ~stopping /\ queue = <<>> /\ asleep' = asleep \cup {t} /\ UNCHANGED <<queue, exited, job>>
  BY <1>1, <1>3 DEF PoolInv, PoolTypes, OneHome, InQueue, WithWorker, Wakeful
<1>4. CASE /\ queue # <<>> /\ queue' = Tail(queue)
           /\ job' = [job EXCEPT ![t] = [Images!NoJob EXCEPT !.of = Head(queue), !.step = "check"]]
           /\ UNCHANGED <<asleep, exited>>
  <2>0. PICK h : h = Head(queue)
    OBVIOUS
  <2>1. /\ h \in Responses /\ h = queue[1] /\ queue' \in Seq(Responses)
        /\ Len(queue') = Len(queue) - 1 /\ Len(queue) \in Nat /\ Len(queue) # 0
        /\ \A i \in 1 .. Len(queue') : queue'[i] = queue[i + 1]
    BY <1>4, <2>0 DEF PoolInv, PoolTypes
  <2> DEFINE n == [Images!NoJob EXCEPT !.of = h, !.step = "check"]
  <2>2. n \in Busy /\ n.of = h
    <3>1. n = [[of |-> None, step |-> "none", image |-> None] EXCEPT !.of = h, !.step = "check"]
      BY DEF Images!NoJob
    <3> HIDE DEF n
    <3>2. n = [of |-> h, step |-> "check", image |-> None]
      BY <3>1
    <3> QED BY <2>1, <3>2 DEF Busy, Job, Answer
  <2> HIDE DEF n
  <2>3. /\ job'[t] = n /\ \A u \in Pool : u # t => job'[u] = job[u]
        /\ job' \in [Pool -> Busy \cup {Images!NoJob}]
    <3>1. job' = [job EXCEPT ![t] = n]
      BY <1>4, <2>0 DEF n
    <3> QED BY <2>2, <3>1 DEF PoolInv, PoolTypes
  <2>4. \A x \in Responses : InQueue(x) <=> InQueue(x)' \/ x = h
    <3> TAKE x \in Responses
    <3>1. InQueue(x)' => InQueue(x)
      BY <2>1 DEF InQueue
    <3>2. x = h => InQueue(x)
      BY <2>1 DEF InQueue
    <3>3. ASSUME InQueue(x), x # h PROVE InQueue(x)'
      <4>1. PICK i \in 1 .. Len(queue) : queue[i] = x
        BY <3>3 DEF InQueue
      <4>2. i # 1 /\ i - 1 \in 1 .. Len(queue') /\ queue'[i - 1] = x
        BY <2>1, <3>3, <4>1
      <4> QED BY <4>2 DEF InQueue
    <3> QED BY <3>1, <3>2, <3>3
  <2>5. ~InQueue(h)'
    <3>1. \A i \in 1 .. Len(queue') : queue[i + 1] # queue[1]
      BY <2>1 DEF PoolInv, OneHome
    <3> QED BY <2>1, <3>1 DEF InQueue
  <2>6. job[t].of = None /\ None \notin Responses
    BY <1>1, NoWork
  <2>7. \A x \in Responses : WithWorker(x)' <=> WithWorker(x) \/ x = h
    BY <2>2, <2>3, <2>6 DEF WithWorker
  <2>8. InQueue(h) /\ ~WithWorker(h)
    BY <2>1, <2>4 DEF PoolInv, OneHome
  <2>9. OneHome'
    <3>1. \A x \in Responses : response'[x].step = "queued" <=> InQueue(x)' \/ WithWorker(x)'
      BY <1>1, <2>4, <2>7, <2>8 DEF PoolInv, OneHome
    <3>2. \A x \in Responses : ~(InQueue(x)' /\ WithWorker(x)')
      BY <2>4, <2>5, <2>7 DEF PoolInv, OneHome
    <3>3. \A u, v \in Pool : job'[u].of = job'[v].of /\ job'[u].of # None => u = v
      BY <2>2, <2>3, <2>8 DEF PoolInv, OneHome, WithWorker
    <3>4. \A i, j \in 1 .. Len(queue') : queue'[i] = queue'[j] => i = j
      <4> SUFFICES ASSUME NEW i \in 1 .. Len(queue'), NEW j \in 1 .. Len(queue'), queue'[i] = queue'[j]
                   PROVE  i = j
        OBVIOUS
      <4>1. i + 1 \in 1 .. Len(queue) /\ j + 1 \in 1 .. Len(queue) /\ queue[i + 1] = queue[j + 1]
        BY <2>1
      <4>2. i + 1 = j + 1
        BY <4>1 DEF PoolInv, OneHome
      <4> QED BY <4>2
    <3> QED BY <3>1, <3>2, <3>3, <3>4 DEF OneHome
  <2>10. PoolTypes'
    BY <1>1, <1>4, <2>1, <2>3 DEF PoolInv, PoolTypes, Images!NoJob
  <2>11. Wakeful'
    BY <1>1, <1>4, <2>1, <2>3 DEF PoolInv, Wakeful, Images!NoJob
  <2> QED BY <2>9, <2>10, <2>11 DEF PoolInv
<1> QED BY <1>2, <1>3, <1>4 DEF Images!Look

LEMMA DeliverKeeps ==
    ASSUME PoolInv, NEW t \in Pool, Images!Deliver(t)
    PROVE  PoolInv'
<1> DEFINE r == job[t].of
<1>1. /\ job[t].step = "done" /\ UNCHANGED <<queue, stopping, asleep, exited>>
      /\ response' = [response EXCEPT ![r].step = "finished", ![r].image = job[t].image]
      /\ job' = [job EXCEPT ![t] = Images!NoJob]
  BY DEF Images!Deliver, Images!At
<1>2. job[t] \in Busy /\ r \in Responses /\ WithWorker(r) /\ job[t].image \in Answer
  <2>1. job[t] \in Busy
    BY <1>1, NoWork DEF PoolInv, PoolTypes
  <2> QED BY <2>1 DEF Busy, Job, WithWorker
<1> HIDE DEF r
<1>3. /\ response'[r].step = "finished" /\ response' \in [Responses -> Response]
      /\ \A x \in Responses : x # r => response'[x] = response[x]
  <2> DEFINE n == [response[r] EXCEPT !.step = "finished", !.image = job[t].image]
  <2>1. response[r] \in Response
    BY <1>2 DEF PoolInv, PoolTypes
  <2>2. n \in Response /\ n.step = "finished"
    BY <1>2, <2>1 DEF Response
  <2>3. response' = [response EXCEPT ![r] = n]
    BY <1>1, <1>2 DEF PoolInv, PoolTypes
  <2> HIDE DEF n
  <2> QED BY <1>2, <2>2, <2>3 DEF PoolInv, PoolTypes
<1>4. /\ job'[t] = Images!NoJob /\ \A u \in Pool : u # t => job'[u] = job[u]
      /\ job' \in [Pool -> Busy \cup {Images!NoJob}]
  BY <1>1 DEF PoolInv, PoolTypes, Images!NoJob
<1>5. Images!NoJob.of = None /\ None \notin Responses
  BY NoWork
<1>6. \A x \in Responses : WithWorker(x)' <=> WithWorker(x) /\ x # r
  <2>1. \A u \in Pool : job[u].of = r => u = t
    BY <1>2, <1>5 DEF PoolInv, OneHome, r
  <2> QED BY <1>4, <1>5, <2>1 DEF WithWorker, r
<1>7. \A x \in Responses : InQueue(x)' <=> InQueue(x)
  BY <1>1 DEF InQueue
<1>8. OneHome'
  <2>1. \A x \in Responses : response'[x].step = "queued" <=> InQueue(x)' \/ WithWorker(x)'
    BY <1>2, <1>3, <1>6, <1>7 DEF PoolInv, OneHome
  <2>2. \A x \in Responses : ~(InQueue(x)' /\ WithWorker(x)')
    BY <1>6, <1>7 DEF PoolInv, OneHome
  <2>3. \A u, v \in Pool : job'[u].of = job'[v].of /\ job'[u].of # None => u = v
    BY <1>4, <1>5 DEF PoolInv, OneHome
  <2> QED BY <1>1, <2>1, <2>2, <2>3 DEF PoolInv, OneHome
<1>9. PoolTypes'
  BY <1>1, <1>3, <1>4 DEF PoolInv, PoolTypes, Images!NoJob
<1>10. Wakeful'
  BY <1>1, <1>4 DEF PoolInv, PoolTypes, Wakeful, Images!NoJob
<1> QED BY <1>8, <1>9, <1>10 DEF PoolInv

LEMMA CancelKeeps ==
    ASSUME PoolInv, NEW r \in Responses, Images!Cancel(r)
    PROVE  PoolInv'
<1>1. /\ response' = [response EXCEPT ![r].cancelled = TRUE]
      /\ UNCHANGED <<queue, job, stopping, asleep, exited>>
  BY DEF Images!Cancel
<1>2. response' \in [Responses -> Response] /\ \A x \in Responses : response'[x].step = response[x].step
  <2> DEFINE n == [response[r] EXCEPT !.cancelled = TRUE]
  <2>1. response[r] \in Response
    BY DEF PoolInv, PoolTypes
  <2>2. n \in Response /\ n.step = response[r].step
    BY <2>1 DEF Response
  <2>3. response' = [response EXCEPT ![r] = n]
    BY <1>1
  <2> HIDE DEF n
  <2> QED BY <2>2, <2>3 DEF PoolInv, PoolTypes
<1>3. \A x \in Responses : (InQueue(x)' <=> InQueue(x)) /\ (WithWorker(x)' <=> WithWorker(x))
  BY <1>1 DEF InQueue, WithWorker
<1>4. OneHome'
  BY <1>1, <1>2, <1>3 DEF PoolInv, OneHome
<1> QED BY <1>1, <1>2, <1>4 DEF PoolInv, PoolTypes, Wakeful, Images!NoJob

LEMMA ShutdownKeeps ==
    ASSUME PoolInv, Images!Shutdown
    PROVE  PoolInv'
<1>1. /\ ~stopping /\ stopping' = TRUE /\ asleep' = {}
      /\ UNCHANGED <<queue, response, job, exited>>
  BY DEF Images!Shutdown, Images!Wake
<1>2. \A x \in Responses : (InQueue(x)' <=> InQueue(x)) /\ (WithWorker(x)' <=> WithWorker(x))
  BY <1>1 DEF InQueue, WithWorker
<1>3. OneHome'
  BY <1>1, <1>2 DEF PoolInv, OneHome
<1> QED BY <1>1, <1>3 DEF PoolInv, PoolTypes, Wakeful, Images!NoJob

LEMMA PoolStutter ==
    ASSUME PoolInv, UNCHANGED poolVars
    PROVE  PoolInv'
<1>1. UNCHANGED <<queue, response, job, stopping, asleep, exited>>
  BY DEF poolVars
<1>2. \A x \in Responses : (InQueue(x)' <=> InQueue(x)) /\ (WithWorker(x)' <=> WithWorker(x))
  BY <1>1 DEF InQueue, WithWorker
<1>3. OneHome'
  BY <1>1, <1>2 DEF PoolInv, OneHome
<1> QED BY <1>1, <1>3 DEF PoolInv, PoolTypes, Wakeful, Images!NoJob

LEMMA PoolKeeps ==
    ASSUME PoolInv, source \in Nat, Images!Next
    PROVE  PoolInv' /\ source' \in Nat
<1>1. source' \in Nat
  <2>1. CASE Images!Edit
    BY <2>1 DEF Images!Edit
  <2>2. ASSUME NEW t \in Pool, Images!Work(t) PROVE source' = source
    BY <2>2 DEF Images!Work, Images!Look, Images!Check, Images!LoadPreview, Images!Deliver, Images!Goto
  <2>3. CASE Images!Shutdown \/ \E r \in Responses : Images!Cancel(r)
    BY <2>3 DEF Images!Shutdown, Images!Cancel
  <2>4. CASE \E r \in Responses, id \in 1 .. MaxRevision : Images!Ask(r, id)
    BY <2>4 DEF Images!Ask
  <2> QED BY <2>1, <2>2, <2>3, <2>4 DEF Images!Next
<1>2. ASSUME NEW t \in Pool, Images!Work(t) PROVE PoolInv'
  <2>1. CASE Images!Check(t)
    <3>1. PICK s \in {"load", "done"} : Images!Goto(t, s, None)
      BY <2>1 DEF Images!Check
    <3> QED BY <2>1, <3>1, JobSteps DEF Images!Check, Images!At, Answer
  <2>2. CASE Images!LoadPreview(t)
    <3>1. PICK image \in {None, source} : Images!Goto(t, "done", image)
      BY <2>2 DEF Images!LoadPreview
    <3>2. image \in Answer
      BY <3>1 DEF Answer
    <3> QED BY <2>2, <3>1, <3>2, JobSteps DEF Images!LoadPreview, Images!At
  <2> QED BY <1>2, <2>1, <2>2, LookKeeps, DeliverKeeps DEF Images!Work
<1>3. ASSUME NEW r \in Responses, NEW id \in 1 .. MaxRevision, Images!Ask(r, id) PROVE PoolInv'
  <2>1. id \in Answer
    BY DEF Answer
  <2> QED BY <1>3, <2>1, AskKeeps
<1>4. CASE Images!Edit
  BY <1>4, PoolStutter DEF Images!Edit, poolVars
<1>5. PoolInv'
  BY <1>2, <1>3, <1>4, CancelKeeps, ShutdownKeeps DEF Images!Next
<1> QED BY <1>1, <1>5

PoolFollowed == PoolInv /\ (follows = "images" => source \in Nat)

LEMMA PoolFollowedAlways == ViewsSpec => []PoolFollowed
<1>1. ViewsInit => PoolFollowed
  BY PoolInit DEF ViewsInit, PoolFollowed, Unused
<1>2. PoolFollowed /\ [ViewsNext]_<<follows, vars, catalogVars, poolVars>> => PoolFollowed'
  <2> SUFFICES ASSUME PoolFollowed, [ViewsNext]_<<follows, vars, catalogVars, poolVars>>
               PROVE  PoolFollowed'
    OBVIOUS
  <2>1. CASE PreviewsNext
    BY <2>1, PoolStutter DEF PreviewsNext, PoolFollowed
  <2>2. CASE CatalogNext
    BY <2>2, PoolStutter DEF CatalogNext, PoolFollowed
  <2>3. CASE ImagesNext
    BY <2>3, PoolKeeps DEF ImagesNext, PoolFollowed
  <2>4. CASE UNCHANGED <<follows, vars, catalogVars, poolVars>>
    BY <2>4, PoolStutter DEF vars, file, PoolFollowed
  <2> QED BY <2>1, <2>2, <2>3, <2>4 DEF ViewsNext
<1> QED BY <1>1, <1>2, PTL DEF ViewsSpec, ViewsNext

(* A response that is not finished is the job of one worker or is in the queue
   once: it is neither lost nor made twice, however responses are cancelled and
   outdated, and so is finished once. *)
THEOREM ResponsesHaveOneHome == ViewsSpec => []OneHome
<1>1. PoolFollowed => OneHome
  BY DEF PoolFollowed, PoolInv
<1> QED BY <1>1, PoolFollowedAlways, PTL

(* While a job waits a worker is awake, notify_one and the sleep under the mutex
   notwithstanding; after shutdown nobody sleeps; and when all have left no
   response is left behind. *)
THEOREM NobodySleepsThrough ==
    ViewsSpec => [](/\ queue # <<>> => \E t \in Pool : t \notin asleep \cup exited
                    /\ stopping => asleep = {}
                    /\ exited = Pool => \A r \in Responses : response[r].step # "queued")
<1>1. ASSUME PoolInv, exited = Pool, NEW r \in Responses PROVE response[r].step # "queued"
  <2>1. queue = <<>> /\ \A t \in Pool : job[t] = Images!NoJob
    BY <1>1, ViewsAssumption DEF PoolInv, Wakeful
  <2>2. ~InQueue(r) /\ ~WithWorker(r)
    BY <2>1, NoWork DEF InQueue, WithWorker
  <2> QED BY <1>1, <2>2 DEF PoolInv, OneHome
<1>2. PoolFollowed =>
        /\ queue # <<>> => \E t \in Pool : t \notin asleep \cup exited
        /\ stopping => asleep = {}
        /\ exited = Pool => \A r \in Responses : response[r].step # "queued"
  BY <1>1 DEF PoolFollowed, PoolInv, Wakeful
<1> QED BY <1>2, PoolFollowedAlways, PTL
=============================================================================
