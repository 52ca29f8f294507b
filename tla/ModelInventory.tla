--------------------------- MODULE ModelInventory ---------------------------
(***************************************************************************)
(* Which models a container has: SharedStorage::models lists them for a    *)
(* generator and resolveModel follows a reference that one of them gave;   *)
(* the catalog view (scan) lists the same files for the user.              *)
(*                                                                         *)
(* The device that owns the files (the authority) may add and change them  *)
(* before the synchronizing app has hashed them into catalog.json; another *)
(* device (a replica) holds what it has downloaded of its host's files.    *)
(* models reads catalog.json first and the native files afterwards.        *)
(***************************************************************************)
EXTENDS Naturals, SequencesExt

CONSTANTS
    Files,     \* files below Models: directory, stem and kind
    Initial,   \* the sets of files that a container may start with
    Types,     \* names of the model types, each a directory of Models
    None,
    MaxChanges \* bound: changes of files, publications and downloads

VARIABLES
    native,    \* the files of this device: size and time of each, or None
    host,      \* on a replica, those of its host
    catalog,   \* .society-sync/catalog.json: its entries, or None
    authority, \* isLocalAuthority
    call,      \* models in progress for the generator, with what it has read
    held,      \* the reference that the generator keeps
    answer,    \* of the last resolveModel
    touched,   \* ghost: something has changed since the reference was taken
    changes

disk == <<native, host, catalog>>
vars == <<disk, authority, call, held, answer, touched, changes>>

Idle == [act |-> "none", objects |-> None]
NoReference == [row |-> None, fingerprint |-> {}, sizes |-> {}]

There(files) == {f \in Files : files[f] # None}
TypeDirectories == {<<t>> : t \in Types}
Below(dir, f) == IsPrefix(dir, f.dir)
Outermost(dirs) == {d \in dirs : \A e \in dirs : ~IsStrictPrefix(e, d)}

---------------------------------------------------------------------------
(* SharedStorage::models                                                   *)

\* A file that the index has not seen, or not at this size, gets a version of
\* its own; otherwise references that other devices hold stay good.
LocalEntry(f) == [version |-> <<"local", native[f].size, native[f].time>>,
                  size |-> native[f].size, resident |-> TRUE]
OwnedEntryAsIndexed(objects, f) ==
    IF f \in DOMAIN objects THEN objects[f] ELSE [LocalEntry(f) EXCEPT !.resident = FALSE]
OwnedEntry(objects, f) ==
    IF f \in DOMAIN objects /\ objects[f].size = native[f].size
    THEN [objects[f] EXCEPT !.resident = TRUE] ELSE LocalEntry(f)

\* Without a catalog a fingerprint has size, time and the first 64 KiB.
NativeEntry(f) == [LocalEntry(f) EXCEPT !.version[1] = "head"]
Entries(objects) ==
    IF objects = None THEN [f \in There(native) |-> NativeEntry(f)]
    ELSE IF authority THEN [f \in There(native) |-> OwnedEntry(objects, f)]
    ELSE objects

Packages(files) == {f.dir : f \in {g \in files : g.kind = "index"}}
PackageRow(dir) == [package |-> TRUE, dir |-> dir, file |-> None]
FileRow(f) == [package |-> FALSE, dir |-> f.dir, file |-> f]
Loose(f, roots) == \A d \in roots : ~Below(d, f)
InnerPackagesToo(dirs) == dirs
Roots(dirs) == Outermost(dirs)
Rows(files) ==
    LET roots == Roots(Packages(files))
        weights == {f \in files : f.kind = "weights" /\ Loose(f, roots)}
    IN {PackageRow(d) : d \in roots} \cup {FileRow(f) : f \in weights}

RowFiles(row, files) ==
    {f \in files : IF row.package THEN Below(row.dir, f) ELSE f = row.file}
FingerprintOfIndex(row, e) ==
    {<<f, e[f].version>> : f \in {g \in RowFiles(row, DOMAIN e) : row.package => g.kind = "index"}}
Fingerprint(row, e) == {<<f, e[f].version>> : f \in RowFiles(row, DOMAIN e)}
Sizes(row, e) == {<<f, e[f].size>> : f \in RowFiles(row, DOMAIN e)}

\* isResident: what is here has the size of the entry.
Resident(f, entry) ==
    entry.resident /\ native[f] # None /\ native[f].size = entry.size
Available(row, e) == \A f \in RowFiles(row, DOMAIN e) : Resident(f, e[f])
Reference(row, e) == [row |-> row, fingerprint |-> Fingerprint(row, e), sizes |-> Sizes(row, e)]

---------------------------------------------------------------------------
(* StorageModelCatalog: fromMap, and the native scan without a catalog     *)

CatalogFile(f) == f.kind = "weights" \/ f.dir = <<>> \/ f.dir[1] \notin Types
Shallow == {f \in There(native) : f.dir \in TypeDirectories /\ CatalogFile(f)}
MapFilesOfIndex(objects) == {f \in DOMAIN objects : authority => native[f] # None}
MapFiles(objects) ==
    MapFilesOfIndex(objects) \cup (IF authority THEN Shallow ELSE {})

Marked(files) == {f.dir : f \in {g \in files : g.kind \in {"index", "adapter"}}}
Configured(files) ==
    {f.dir : f \in {c \in files : /\ c.kind = "config"
                                 /\ \E w \in files : w.dir = c.dir /\ w.kind = "weights"}}
MapPackages(objects) ==
    Outermost((Marked(MapFilesOfIndex(objects)) \cup Configured(MapFiles(objects)))
                  \ TypeDirectories)

\* The scan does not look into a directory that isPackage.
IsPackage(dir) == dir \in Marked(There(native)) \cup Configured(There(native))
NativePackages ==
    Outermost({d \in {f.dir : f \in There(native)} \ TypeDirectories : IsPackage(d)})

\* A preview beside the file whose stem it has is no row of its own.
Companions(files) ==
    {c \in files : /\ c.kind = "preview"
                   /\ \E f \in files \ {c} : f.dir = c.dir /\ f.stem = c.stem}
RowsOf(files, roots) ==
    LET single == {f \in files \ Companions(files) : Loose(f, roots) /\ CatalogFile(f)}
    IN {PackageRow(d) : d \in roots} \cup {FileRow(f) : f \in single}

ShownFiles(objects) == IF objects = None THEN There(native) ELSE MapFiles(objects)
ShownRows(objects) ==
    RowsOf(ShownFiles(objects),
           IF objects = None THEN NativePackages ELSE MapPackages(objects))

---------------------------------------------------------------------------
(* The generator                                                           *)

\* What may have changed counts from the moment the selection starts to read.
Ask(act) ==
    /\ call = Idle
    /\ (act = "select") = (held = NoReference)
    /\ call' = [act |-> act, objects |-> catalog]
    /\ answer' = "none"
    /\ touched' = IF act = "select" THEN FALSE ELSE touched
    /\ UNCHANGED <<disk, authority, held, changes>>

\* The rows of models, from the catalog read before and the files there now.
Select ==
    LET e == Entries(call.objects) IN
    /\ call.act = "select" /\ call' = Idle
    /\ held' \in {Reference(r, e) : r \in Rows(DOMAIN e)} \cup {NoReference}
    /\ UNCHANGED <<disk, authority, answer, touched, changes>>

\* resolveModel: the same row, with the same fingerprint, and all of it here.
\* Without a catalog it looks at the path alone.
Resolve ==
    LET e == Entries(call.objects)
        good == /\ call.objects = None \/ held.row \in Rows(DOMAIN e)
                /\ Fingerprint(held.row, e) = held.fingerprint
                /\ Available(held.row, e)
    IN
    /\ call.act = "resolve" /\ call' = Idle
    /\ answer' = IF good THEN "resolved" ELSE "refused"
    /\ UNCHANGED <<disk, authority, held, touched, changes>>

---------------------------------------------------------------------------
(* The user and the synchronizing app                                      *)

Change == /\ changes < MaxChanges /\ changes' = changes + 1
          /\ touched' = TRUE
          /\ UNCHANGED <<authority, call, held, answer>>

\* A file is added, edited at the same size or another, or taken away.
Written(files, f) ==
    {[files EXCEPT ![f] = [size |-> s, time |-> changes']] : s \in {1, 2}}
        \cup {[files EXCEPT ![f] = None]}
ChangeFile ==
    /\ Change
    /\ \E f \in Files :
          \/ native' \in Written(native, f) /\ UNCHANGED host
          \/ ~authority /\ host' \in Written(host, f) /\ UNCHANGED native
    /\ UNCHANGED catalog

Indexed(files) ==
    [f \in There(files) |-> [version |-> <<"index", files[f].size, files[f].time>>,
                             size |-> files[f].size, resident |-> native[f] = files[f]]]
Publish ==
    /\ Change
    /\ catalog' = Indexed(IF authority THEN native ELSE host)
    /\ UNCHANGED <<native, host>>

Download ==
    /\ Change /\ ~authority
    /\ \E f \in There(host) : native' = [native EXCEPT ![f] = host[f]]
    /\ UNCHANGED <<host, catalog>>

Init ==
    LET old == [size |-> 1, time |-> 0]
        some(set) == [f \in Files |-> IF f \in set THEN old ELSE None]
    IN
    /\ authority \in BOOLEAN
    /\ \E set \in Initial :
          /\ native = some(set)
          /\ host = IF authority THEN some({}) ELSE native
    /\ catalog \in {None, Indexed(native)}
    /\ call = Idle /\ held = NoReference /\ answer = "none"
    /\ touched = FALSE /\ changes = 0

Next == \/ \E act \in {"select", "resolve"} : Ask(act)
        \/ Select \/ Resolve
        \/ ChangeFile \/ Publish \/ Download

Spec == Init /\ [][Next]_vars

---------------------------------------------------------------------------
TypeOK ==
    /\ \A f \in Files : \A files \in {native, host} :
          files[f] # None => files[f].size \in {1, 2} /\ files[f].time \in 0 .. MaxChanges
    /\ catalog # None => DOMAIN catalog \subseteq Files
    /\ call.act \in {"none", "select", "resolve"}
    /\ answer \in {"none", "resolved", "refused"}
    /\ changes \in 0 .. MaxChanges

Apart(rows, files) ==
    \A r, s \in rows : r # s => RowFiles(r, files) \cap RowFiles(s, files) = {}

(* "Individual weights inside the package are not redundantly listed"
   (README.md:217), and none is forgotten: in either list every weights file
   belongs to exactly one row, whatever packages lie within each other. *)
RowsPartition ==
    LET e == DOMAIN Entries(catalog)
        m == ShownFiles(catalog)
        covered(rows, files) == \A f \in files : f.kind = "weights" =>
                                    \E r \in rows : f \in RowFiles(r, files)
    IN /\ Apart(Rows(e), e) /\ covered(Rows(e), e)
       /\ Apart(ShownRows(catalog), m) /\ covered(ShownRows(catalog), m)

(* Two algorithms list the same files.  What a generator may be offered the
   user finds in the catalog view, as a row or within a package: all of it
   that is indexed, and new files that lie directly in a type directory.  Not
   claimed: a type directory that models takes for a package. *)
OfferedIsShown ==
    LET e == DOMAIN Entries(catalog)
        known == IF catalog = None THEN e ELSE DOMAIN catalog \cup Shallow
    IN \A r \in Rows(e) :
          LET files == RowFiles(r, e) IN
          \/ r.package /\ r.dir \in TypeDirectories
          \/ ~(files \subseteq known)
          \/ \E s \in ShownRows(catalog) : files \subseteq RowFiles(s, ShownFiles(catalog))

(* References to "deleted, redirected, or modified models are rejected"
   (README.md:219), as far as the versions of the catalog tell: a reference
   that resolves stands for the files it was taken for, none added or missing,
   each at its size; also when files and catalog change between the two reads. *)
ResolvedUnchanged ==
    [][answer' = "resolved" /\ answer # "resolved" =>
          {<<f, native[f].size>> : f \in RowFiles(held.row,
              IF authority THEN There(native) ELSE There(native) \cap {s[1] : s \in held.sizes})}
              = held.sizes]_vars

(* The owner of the files is never refused a model that it was just offered:
   what the index has not seen yet is no reason, only a change since the
   selection began is. *)
RefusalHasReason == authority /\ answer = "refused" => touched
=============================================================================
