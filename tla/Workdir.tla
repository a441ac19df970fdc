------------------------------ MODULE Workdir ------------------------------
(***************************************************************************)
(* A working directory: a dataset as component files that a user edits.    *)
(* It is read back as a dataset (base/component, fsi), compared with the   *)
(* newest version (status), and written by checkout, save, restore, remove *)
(* and the API's write, one file after the other, while the user edits.    *)
(*                                                                         *)
(* A component's value is a number, with the fields it sets: Empty is a    *)
(* component that is there and has no field set.  Bad stands for bytes     *)
(* that do not parse.  The body has one format, and dataset.json holds no  *)
(* body.  Whether refstore and link file agree is the subject of Datasets: *)
(* here the directory is linked or it is not.                              *)
(***************************************************************************)
EXTENDS Integers, Sequences, FiniteSets, FiniteSetsExt

CONSTANTS Clients,       \* commands and API requests under way at once
          Values,        \* the contents a component may have, beside Empty
          FieldsOf,      \* FieldsOf[v]: the fields value v sets, as pairs of a name and a content
          Switches,      \* the sets of switches a save may be given
          DatasetFiles,  \* the components a dataset.json may hold, and what they are
          ReadOnly,      \* whether the API is read-only
          MaxVersions,   \* BOUND: versions saved
          MaxCalls,      \* BOUND: commands and requests
          MaxEdits,      \* BOUND: changes of files by hand
          MaxFaults,     \* BOUND: writes that fail, and crashes
          MaxTrouble     \* BOUND: edits, and twice the faults and the commands under way, together

Absent == -1
Bad    == -2
Empty  == 0
ASSUME ValuesAssumption == Values \subseteq Nat \ {0} /\ Values # {}

\* Assign of a component: what the second one sets replaces, the other fields stay.
Patched(old, new) == new \union {f \in old : \A g \in new : g[1] # f[1]}

\* Of a transform one field is its script, and the others are its configuration.
ScriptField(fields) == {f \in fields : f[1] = "script"}

ASSUME FieldsAssumption ==
  \A a \in Values : /\ \E v \in Values : FieldsOf[v] = ScriptField(FieldsOf[a])
                    /\ \A b \in Values : \E v \in Values : FieldsOf[v] = Patched(FieldsOf[a], FieldsOf[b])

\* lib.SaveParams: Force saves what has not changed, Replace saves the directory and
\* not the previous version with what the directory changes, Apply runs the transform
\* before.  (Drop is refused where there is a directory.)
SwitchNames == {"Force", "Replace", "Apply"}
ASSUME SwitchesAssumption == Switches \subseteq SUBSET SwitchNames

VARIABLES versions,  \* versions[v]: the components of version v and its previous version
          head,      \* the version of the reference; 0 is none
          linked,
          dir,       \* the directory: [files, ds], ds is dataset.json
          me,        \* me[c]: the command or request of client c
          calls, edits, faults

vars == <<versions, head, linked, dir, me, calls, edits, faults>>

-----------------------------------------------------------------------------
(***************************************************************************)
(* The kinds of component: the file one is written to, whether that        *)
(* happens for an empty one, what removing it removes, whether its file is *)
(* parsed (or is just bytes), and whether a save merges its fields.        *)
(***************************************************************************)
MetaComponent      == [file |-> "meta.json",      empties |-> TRUE,  byFormat |-> FALSE, parsed |-> TRUE,  merged |-> TRUE]
StructureComponent == [file |-> "structure.json", empties |-> FALSE,
                       byFormat |-> FALSE, parsed |-> TRUE,  merged |-> TRUE]
CommitComponent    == [file |-> "commit.json",    empties |-> FALSE,
                       byFormat |-> FALSE, parsed |-> TRUE,  merged |-> TRUE]
ReadmeComponent    == [file |-> "readme.md",      empties |-> FALSE,
                       byFormat |-> TRUE,  parsed |-> FALSE, merged |-> FALSE]
TransformComponent == [file |-> "transform.star", empties |-> FALSE,
                       byFormat |-> TRUE,  parsed |-> FALSE, merged |-> TRUE]
BodyComponent      == [file |-> "body.csv",       empties |-> TRUE,  byFormat |-> TRUE,  parsed |-> TRUE,  merged |-> FALSE]

\* The order everything goes through them in (viz has no component any more).
AllSubcomponentNames == <<"commit", "meta", "structure", "readme", "transform", "body">>
Kinds == {AllSubcomponentNames[i] : i \in DOMAIN AllSubcomponentNames}

SetSubcomponent(k) ==
  CASE k = "meta" -> MetaComponent [] k = "commit" -> CommitComponent [] k = "structure" -> StructureComponent
    [] k = "readme" -> ReadmeComponent [] k = "transform" -> TransformComponent [] k = "body" -> BodyComponent

\* The files that are known; of the extensions one is kept beside the one written.
GetKnownFilenames ==
  [k \in Kinds |-> {SetSubcomponent(k).file} \union
                   (CASE k = "meta" -> {"meta.yaml"} [] k = "readme" -> {"readme.html"} [] OTHER -> {})]

Files == UNION {GetKnownFilenames[k] : k \in Kinds}
Contents == Values \union {Absent, Bad, Empty}
NoDataset == [k \in Kinds |-> Absent]
Broken    == [k \in Kinds |-> Bad]       \* a dataset.json that does not parse
EmptyDir  == [files |-> [f \in Files |-> Absent], ds |-> NoDataset]

\* A dataset.json that is given holds components that parse, and like a directory
\* (MayHold) no script that is empty.
ASSUME DatasetFilesAssumption ==
  \A ds \in DatasetFiles : /\ ds \in [Kinds -> Values \union {Absent, Empty}]
                           /\ ds["readme"] # Empty /\ ds["transform"] # Empty

-----------------------------------------------------------------------------
(***************************************************************************)
(* Reading the directory.                                                  *)
(***************************************************************************)
ListDirectoryComponents(d) == [k \in Kinds |-> {f \in GetKnownFilenames[k] : d.files[f] # Absent}]

NoDatasetFiles(d) == d.ds = NoDataset /\ \A k \in Kinds : ListDirectoryComponents(d)[k] = {}

\* assignField: a component has two files, or one that is also in dataset.json.
assignField(d, k) ==
  LET n == Cardinality(ListDirectoryComponents(d)[k]) IN n > 1 \/ (n = 1 /\ d.ds[k] # Absent)

\* ExpandListedComponents, where it does not fail: where a component comes from, and
\* its content.
ExpandListedComponents(d) ==
  [k \in Kinds |->
     LET listed == ListDirectoryComponents(d)[k] IN
     IF assignField(d, k) THEN [problem |-> TRUE, val |-> Absent, file |-> "none"]
     ELSE IF listed # {} THEN LET f == CHOOSE f \in listed : TRUE IN [problem |-> FALSE, val |-> d.files[f], file |-> f]
     ELSE [problem |-> FALSE, val |-> d.ds[k], file |-> IF d.ds[k] = Absent THEN "none" ELSE "dataset.json"]]

Unreadable(d) == NoDatasetFiles(d) \/ d.ds = Broken

\* BaseComponent.LoadFile: whether the bytes of a component are what its kind needs.
LoadFile(k, v) == SetSubcomponent(k).parsed => v # Bad

\* What the file of a kind holds of a component: of a transform the script alone.
Script == [v \in Values |-> CHOOSE w \in Values : FieldsOf[w] = ScriptField(FieldsOf[v])]
InFile(k, v) == IF k = "transform" /\ v \in Values THEN Script[v] ELSE v

\* ToDataset loads every component but the body.
ToDataset(comps) == [ok |-> \A k \in Kinds \ {"body"} : LoadFile(k, comps[k].val),
                     ds |-> [k \in Kinds |-> comps[k].val]]

GetProblems(comps) == {k \in Kinds : comps[k].problem}

ReadDir(d) ==
  IF Unreadable(d) \/ GetProblems(ExpandListedComponents(d)) # {} THEN [ok |-> FALSE, ds |-> NoDataset]
  ELSE ToDataset(ExpandListedComponents(d))

-----------------------------------------------------------------------------
(***************************************************************************)
(* Status: the directory against a stored version, component by component. *)
(***************************************************************************)
\* What a version is compared as: its components without the commit.
ConvertDatasetToComponents(v) == IF v = 0 THEN NoDataset ELSE [versions[v].ds EXCEPT !["commit"] = Absent]

\* Compare, of any kind: the JSON of both sides, or the bytes of both scripts, whatever
\* the configuration of a transform; an error when the file does not parse.
Compare(k, stored, val) ==
  IF ~LoadFile(k, val) THEN "unparsed"
  ELSE IF InFile(k, stored) = InFile(k, val) THEN "unmodified" ELSE "modified"

\* MUTANT: a component that is not in the directory any more is passed over.
CalculateStateTransitionSkips(prev, next) ==
  [k \in Kinds |->
     IF next[k].problem THEN "conflict" ELSE IF next[k].val = Absent THEN "none"
     ELSE IF prev[k] = Absent /\ next[k].val # Absent THEN "add" ELSE Compare(k, prev[k], next[k].val)]

CalculateStateTransition(prev, next) ==
  [k \in Kinds |->
     CASE next[k].problem -> "conflict"
       [] prev[k] = Absent /\ next[k].val = Absent /\ ~next[k].problem -> "none"
       [] prev[k] = Absent /\ next[k].val # Absent /\ ~next[k].problem -> "add"
       [] prev[k] # Absent /\ next[k].val = Absent /\ ~next[k].problem -> "removed"
       [] OTHER -> Compare(k, prev[k], next[k].val)]

Status(d, v) == CalculateStateTransition(ConvertDatasetToComponents(v), ExpandListedComponents(d))

IsWorkingDirectoryClean(d, v) ==
  /\ ~Unreadable(d)
  /\ LET st == Status(d, v) IN \A k \in Kinds : st[k] \in {"none", "unmodified"}

\* FSI.StatusAtVersion: a version against the one before it.
StatusAtVersion(v) ==
  CalculateStateTransition(ConvertDatasetToComponents(versions[v].prev),
                           [k \in Kinds |-> [problem |-> FALSE, val |-> ConvertDatasetToComponents(v)[k]]])

-----------------------------------------------------------------------------
(***************************************************************************)
(* Writing the directory.                                                  *)
(***************************************************************************)
\* WriteTo: to the one file of the kind, whatever file the component came from.
WriteTo(d, k, v) ==
  LET c == SetSubcomponent(k) IN
  IF v = Absent \/ (v = Empty /\ ~c.empties) THEN d ELSE [d EXCEPT !.files[c.file] = InFile(k, v)]

\* RemoveFrom, of the component that was read: the one file of the kind, or the file of
\* the format it was read in; of a readme with two files that of the first one listed.
FormatFile(d, k) ==
  LET listed == ListDirectoryComponents(d)[k] IN
  IF listed = {} THEN "none" ELSE IF "readme.html" \in listed THEN "readme.html" ELSE SetSubcomponent(k).file

RemoveFrom(d, k) ==
  LET c == SetSubcomponent(k)
      f == IF c.byFormat THEN FormatFile(d, k) ELSE c.file
  IN  IF f \in Files THEN [d EXCEPT !.files[f] = Absent] ELSE d

\* A write that does not finish leaves the old bytes or some of the new ones.
Torn(d, k) == {d} \union {[d EXCEPT !.files[SetSubcomponent(k).file] = Bad]}

\* DeleteComponentFiles: the file each component was listed with, of several any one;
\* dataset.json stays.
DeleteComponentFiles(d) ==
  IF NoDatasetFiles(d) THEN {d}
  ELSE {[d EXCEPT !.files = [f \in Files |-> IF f \in gone THEN Absent ELSE d.files[f]]] :
          gone \in {g \in SUBSET Files :
                      \A k \in Kinds : LET here == ListDirectoryComponents(d)[k] IN
                                       Cardinality(g \intersect GetKnownFilenames[k]) = (IF here = {} THEN 0 ELSE 1)
                                       /\ g \intersect GetKnownFilenames[k] \subseteq here}}

-----------------------------------------------------------------------------
(***************************************************************************)
(* Commands and requests.  quiet says that nobody else has changed the     *)
(* directory or the head since this one began, and that no write failed.   *)
(***************************************************************************)
All == "all"
Field == "field"    \* a field of a component, such as meta.title

Idle == [op |-> "none", pc |-> "idle", at |-> 0, ds |-> NoDataset, scope |-> All, i |-> 0,
         sw |-> {}, quiet |-> FALSE]

\* Client c goes on with rec; the others learn whether something changed under them.
Goes(c, rec) ==
  me' = [x \in Clients |->
           IF x = c THEN rec
           ELSE [me[x] EXCEPT !.quiet = @ /\ UNCHANGED <<dir, head, linked>>]]

Room == 2 * (Cardinality({c \in Clients : me[c].op # "none"}) + faults) + edits < MaxTrouble

Begin(c, rec) ==
  /\ me[c].op = "none" /\ calls < MaxCalls /\ Room
  /\ calls' = calls + 1
  /\ UNCHANGED <<versions, head, linked, dir, edits, faults>>
  /\ Goes(c, rec)

Fault == faults < MaxFaults /\ Room /\ faults' = faults + 1
Return(c) == Goes(c, Idle)

\* Directories qri itself could have written; what is not of its own making it may not
\* be able to put right.
Plain(d) ==
  /\ d.ds = NoDataset
  /\ \A f \in Files : d.files[f] # Absent => \E k \in Kinds : f = SetSubcomponent(k).file
Tidy(op, d) ==
  CASE op = "save" -> Plain(d) /\ d.files["commit.json"] = Absent
    [] op = "remove" -> d.ds = NoDataset /\ \A k \in Kinds : ~assignField(d, k)
    [] OTHER -> Plain(d)

\* One component after the other, in their order: those of scope are written, or, where
\* there is none to write and the request restores, removed.  Errors are not looked at.
Ahead(r) ==
  {j \in DOMAIN AllSubcomponentNames :
     LET k == AllSubcomponentNames[j] IN
     j > r.i /\ r.scope \in {All, k} /\ (r.ds[k] # Absent \/ r.op = "restore")}

Component(c) == AllSubcomponentNames[Min(Ahead(me[c]))]

\* MUTANT: the component of the version is written, one it does not have stays.
WriteComponentOnly(d, k, v, op) == WriteTo(d, k, v)

WriteOrDelete(d, k, v, op) == IF v = Absent /\ op = "restore" THEN RemoveFrom(d, k) ELSE WriteTo(d, k, v)

WriteComponent(c) ==
  /\ me[c].pc = "files"
  /\ UNCHANGED <<versions, head, linked, calls, edits>>
  /\ IF Ahead(me[c]) = {} THEN UNCHANGED <<dir, faults>> /\ Return(c)
     ELSE LET k    == Component(c)
              next == [me[c] EXCEPT !.i = Min(Ahead(me[c]))]
              last == Ahead(next) = {}
          IN  \/ /\ dir' = WriteOrDelete(dir, k, me[c].ds[k], me[c].op) /\ UNCHANGED faults
                 /\ Goes(c, IF last THEN Idle ELSE next)
              \/ /\ me[c].ds[k] # Absent /\ Fault /\ dir' \in Torn(dir, k)
                 /\ Goes(c, IF last THEN Idle ELSE [next EXCEPT !.quiet = FALSE])

-----------------------------------------------------------------------------
\* FSIMethods.Checkout: into a directory that is not there, then linked.
Checkout(c) ==
  /\ ~linked /\ head # 0 /\ dir = EmptyDir
  /\ Begin(c, [Idle EXCEPT !.op = "checkout", !.pc = "link", !.at = head,
                           !.ds = ConvertDatasetToComponents(head), !.quiet = TRUE])

CheckoutLinks(c) ==
  /\ me[c].pc = "link"
  /\ UNCHANGED <<versions, head, dir, calls, edits, faults>>
  /\ linked' = TRUE
  /\ Goes(c, IF linked THEN Idle ELSE [me[c] EXCEPT !.pc = "files"])

\* DatasetMethods.Save of a linked dataset, with what the parameters say.
Save(c, params, sw) ==
  /\ linked
  /\ Begin(c, [Idle EXCEPT !.op = "save", !.pc = "read", !.at = head, !.ds = params, !.sw = sw, !.quiet = TRUE])

\* Assign, component by component: one that is there replaces, or is merged field by field.
Merge == [a \in Values |-> [b \in Values |-> CHOOSE v \in Values : FieldsOf[v] = Patched(FieldsOf[a], FieldsOf[b])]]
Merged(k, a, b) == IF SetSubcomponent(k).merged /\ a \in Values /\ b \in Values THEN Merge[a][b] ELSE b
Assign(a, b) ==
  [k \in Kinds |-> IF b[k] = Absent \/ (b[k] = Empty /\ a[k] # Absent) THEN a[k] ELSE Merged(k, a[k], b[k])]

NothingToSave(ds, sw) == sw \intersect {"Force", "Apply"} = {} /\ \A k \in Kinds \ {"commit"} : ds[k] = Absent

\* The directory is read, and what the parameters say goes before it.
SaveReads(c) ==
  LET r    == ReadDir(dir)
      ds   == Assign(r.ds, me[c].ds)
      next == IF "Apply" \in me[c].sw THEN "apply" ELSE "commit"
  IN
  /\ me[c].pc = "read"
  /\ UNCHANGED <<versions, head, linked, dir, calls, edits, faults>>
  /\ IF r.ok /\ ~NothingToSave(ds, me[c].sw)
       THEN Goes(c, [me[c] EXCEPT !.pc = next, !.ds = ds, !.quiet = @ /\ Tidy("save", dir)])
       ELSE Return(c)

\* The transform of the directory, or one of the history (which one is LoadRevs' doing,
\* see HistoryWalk), is applied, and sets components that the directory does not have.
Transforms(r) ==
  {t \in {r.ds["transform"]} \union {versions[v].ds["transform"] : v \in 1 .. r.at} :
     t # Absent /\ r.ds["transform"] \in {Absent, t}}

SaveApplies(c) ==
  /\ me[c].pc = "apply"
  /\ UNCHANGED <<versions, head, linked, dir, calls, edits, faults>>
  /\ \/ Return(c)
     \/ \E t \in Transforms(me[c]), set \in SUBSET {"meta", "structure", "body"} :
          /\ \A k \in set : me[c].ds[k] = Absent
          /\ Goes(c, [me[c] EXCEPT !.pc = "commit",
                        !.ds = [k \in Kinds |-> IF k \in set THEN Min(Values)
                                                ELSE IF k = "transform" THEN t ELSE me[c].ds[k]]])

\* InferValues: the structure of a body that comes without one.
Inferred == Min(Values)
InferValues(ds) ==
  [ds EXCEPT !["structure"] = IF @ \in {Absent, Empty} /\ ds["body"] # Absent THEN Inferred ELSE @,
             !["commit"] = Absent]

\* MUTANT: what the previous version has stands.
NextVersionKeeps(prev, r) == InferValues(Assign(r.ds, prev))

\* The version a save makes of what it read: patches for the previous version, or all of
\* it; the body of the previous version where there is none.
NextVersion(prev, r) ==
  LET ds == InferValues(IF "Replace" \in r.sw THEN r.ds ELSE Assign(prev, r.ds))
  IN  [ds EXCEPT !["body"] = IF @ = Absent THEN prev["body"] ELSE @]

\* No body or one that does not parse, no structure, or nothing that has changed.
Refused(prev, next, sw) ==
  \/ next["body"] \in {Absent, Bad} \/ next["structure"] \in {Absent, Empty}
  \/ next = prev /\ "Force" \notin sw

\* base.SaveDataset of the version that was resolved; the result is the head.
SaveDataset(c) ==
  LET prev == ConvertDatasetToComponents(me[c].at)
      next == NextVersion(prev, me[c])
  IN
  /\ me[c].pc = "commit"
  /\ UNCHANGED <<linked, dir, calls, edits, faults>>
  /\ \/ Refused(prev, next, me[c].sw) /\ UNCHANGED <<versions, head>> /\ Return(c)
     \/ /\ ~Refused(prev, next, me[c].sw) /\ Len(versions) < MaxVersions
        /\ versions' = Append(versions, [ds |-> next, prev |-> me[c].at])
        /\ head' = Len(versions) + 1
        /\ Goes(c, [me[c] EXCEPT !.pc = "files", !.ds = next, !.at = Len(versions) + 1])

\* FSIMethods.Restore, of version v and of one component or all: the directory has to
\* be readable.  The name of a field is the name of no component.
Restore(c, v, scope) ==
  /\ linked /\ ~Unreadable(dir)
  /\ Begin(c, [Idle EXCEPT !.op = "restore", !.pc = "files", !.at = v, !.scope = scope,
                           !.ds = ConvertDatasetToComponents(v), !.quiet = Tidy("restore", dir)])

\* FSIMethods.Write: some components are written.
Write(c, ds) ==
  /\ linked
  /\ Begin(c, [Idle EXCEPT !.op = "write", !.pc = "files", !.ds = ds])

\* DatasetMethods.Remove of the newest version of several, unless the directory is not clean.
Remove(c, force) ==
  /\ linked /\ head # 0 /\ versions[head].prev # 0
  /\ force \/ IsWorkingDirectoryClean(dir, head)
  /\ Begin(c, [Idle EXCEPT !.op = "remove", !.pc = "rewind", !.at = head, !.quiet = Tidy("remove", dir)])

RemoveRewinds(c) ==
  LET v == versions[head].prev IN
  /\ me[c].pc = "rewind"
  /\ UNCHANGED <<versions, linked, dir, calls, edits, faults>>
  /\ head' = IF v = 0 THEN head ELSE v
  /\ IF v = 0 THEN Return(c)
     ELSE Goes(c, [me[c] EXCEPT !.pc = "delete", !.at = v, !.ds = ConvertDatasetToComponents(v)])

RemoveDeletes(c) ==
  /\ me[c].pc = "delete"
  /\ dir' \in DeleteComponentFiles(dir)
  /\ UNCHANGED <<versions, head, linked, calls, edits, faults>>
  /\ Goes(c, [me[c] EXCEPT !.pc = "files", !.quiet = @ /\ Tidy("remove", dir)])

\* FSIMethods.Unlink; the files stay.
Unlink(c) ==
  /\ linked /\ me[c].op = "none" /\ calls < MaxCalls
  /\ linked' = FALSE /\ calls' = calls + 1
  /\ UNCHANGED <<versions, head, dir, edits, faults>>
  /\ Goes(c, Idle)

\* The process dies; a file that was being written is torn.
Crash(c) ==
  /\ me[c].op # "none" /\ Fault
  /\ dir' \in IF me[c].pc = "files" /\ Ahead(me[c]) # {} /\ me[c].ds[Component(c)] # Absent
              THEN Torn(dir, Component(c)) ELSE {dir}
  /\ UNCHANGED <<versions, head, linked, calls, edits>>
  /\ Goes(c, Idle)

-----------------------------------------------------------------------------
\* The user changes or deletes a file.
Edit(d) ==
  /\ edits < MaxEdits /\ Room /\ edits' = edits + 1
  /\ dir' = d /\ dir # d
  /\ me' = [c \in Clients |-> [me[c] EXCEPT !.quiet = FALSE]]
  /\ UNCHANGED <<versions, head, linked, calls, faults>>

EditFile(f, v) == Edit([dir EXCEPT !.files[f] = v])
EditDatasetFile(ds) == Edit([dir EXCEPT !.ds = ds])

\* The contents a file may be given: scripts are never empty here, a body has rows, one
\* parsed file is enough to have more fields or fewer, and of the files that qri does not
\* write one content is enough.
Bytes == {Script[v] : v \in Values}
MayHold(f) ==
  CASE f = "meta.json" -> Contents
    [] f = "structure.json" -> Bytes \union {Absent, Bad, Empty}
    [] f = "body.csv" -> Bytes \union {Absent, Bad}
    [] f \in {"readme.md", "transform.star"} -> Bytes \union {Absent}
    [] OTHER -> {Absent, Min(Values)}

-----------------------------------------------------------------------------
\* What the API's write and the parameters of a save may hold.
Patches == {NoDataset} \union {[NoDataset EXCEPT !["meta"] = v] : v \in Bytes}
                       \union {[NoDataset EXCEPT !["readme"] = Min(Values)]}

\* The API hands on what the commands do, unless it is read-only.
CheckoutHandler(c) == ~ReadOnly /\ Checkout(c)
RestoreHandler(c) == ~ReadOnly /\ \E v \in DOMAIN versions, k \in Kinds \union {All} : Restore(c, v, k)
WriteHandler(c) == ~ReadOnly /\ \E p \in Patches \ {NoDataset} : Write(c, p)

\* `qri restore`: the newest version, or one that is named; a component, or a field.
RestoreCommand(c) ==
  \/ \E k \in Kinds \union {All, Field} : Restore(c, head, k)
  \/ \E v \in DOMAIN versions : Restore(c, v, All)
CheckoutCommand(c) == Checkout(c)

Next ==
  \/ \E c \in Clients :
       \/ CheckoutHandler(c) \/ RestoreHandler(c) \/ WriteHandler(c)
       \/ RestoreCommand(c) \/ CheckoutCommand(c)
       \/ \E p \in Patches, sw \in Switches : Save(c, p, sw)
       \/ \E force \in BOOLEAN : Remove(c, force)
       \/ Unlink(c) \/ CheckoutLinks(c) \/ SaveReads(c) \/ SaveApplies(c) \/ SaveDataset(c)
       \/ RemoveRewinds(c) \/ RemoveDeletes(c) \/ WriteComponent(c) \/ Crash(c)
  \/ \E f \in Files : \E v \in MayHold(f) : EditFile(f, v)
  \/ \E ds \in DatasetFiles \union {NoDataset, Broken} : EditDatasetFile(ds)

\* What `qri init` writes for a csv body.
initDs == [NoDataset EXCEPT !["meta"] = Empty, !["structure"] = Inferred, !["body"] = Min(Values)]
InitFiles(ds) == [EmptyDir EXCEPT !.files = [f \in Files |->
                    LET ks == {k \in Kinds : SetSubcomponent(k).file = f} IN
                    IF ks = {} THEN Absent ELSE LET k == CHOOSE k \in ks : TRUE IN InFile(k, ds[k])]]

\* A directory that was just initialised; or a dataset of two versions, the newest of them
\* checked out, or without a directory.
Bare    == [initDs EXCEPT !["meta"] = Absent]
Dressed == [initDs EXCEPT !["readme"] = Min(Values), !["transform"] = Min(Values)]
History(first, second) == versions = <<[ds |-> first, prev |-> 0], [ds |-> second, prev |-> 1]>> /\ head = 2

Init ==
  /\ \/ versions = <<>> /\ head = 0 /\ linked = TRUE /\ dir = InitFiles(initDs)
     \/ History(Bare, Dressed) /\ linked = TRUE /\ dir = InitFiles(Dressed)
     \/ History(Dressed, Bare) /\ linked = FALSE /\ dir = EmptyDir
  /\ me = [c \in Clients |-> Idle]
  /\ calls = 0 /\ edits = 0 /\ faults = 0

Spec == Init /\ [][Next]_vars

-----------------------------------------------------------------------------
Calls == [op : {"none", "checkout", "save", "restore", "write", "remove"},
          pc : {"idle", "link", "read", "apply", "commit", "files", "rewind", "delete"},
          at : Nat, ds : [Kinds -> Contents], scope : Kinds \union {All, Field}, i : 0..6,
          sw : SUBSET SwitchNames, quiet : BOOLEAN]

TypeOK ==
  /\ versions \in Seq([ds : [Kinds -> Contents], prev : Nat]) /\ head \in 0..Len(versions) /\ linked \in BOOLEAN
  /\ \A v \in DOMAIN versions : versions[v].prev \in 0..Len(versions)
  /\ dir \in [files : [Files -> Contents], ds : [Kinds -> Contents]]
  /\ me \in [Clients -> Calls] /\ \A c \in Clients : me[c].at \in 0..Len(versions)
  /\ calls \in Nat /\ edits \in Nat /\ faults \in Nat

\* What status calls clean, on which DatasetMethods.Remove relies before it deletes the
\* files, is the newest version: reading the directory gives it component by component,
\* however the components are spread over files, dataset.json and other formats
\* (fsi/status.go and fsi/mapping.go read the same listing, each in its own way).  But
\* for the configuration of a transform: scripts are all that is compared of it
\* (base/component/kinds.go:678), so a dataset.json may hold a configuration that the
\* version does not have, and be clean.
CleanMeansHead ==
  linked /\ IsWorkingDirectoryClean(dir, head) =>
    LET read == ReadDir(dir)
        was  == ConvertDatasetToComponents(head)
    IN  /\ read.ok
        /\ \A k \in Kinds : /\ k # "transform" => read.ds[k] = was[k]
                            /\ InFile(k, read.ds[k]) = InFile(k, was[k])

\* When a checkout, a save, a restore or a remove of a version has written its last file,
\* nobody else has changed the directory or the head since it began, no write failed and
\* the directory held the files qri writes and no others, then what it was to write has
\* no change: `qri status` is clean against the version that was checked out, saved,
\* restored or gone back to (WriteComponents, fsi/mapping.go; FSIMethods.Restore, lib/fsi.go).
SettledIsClean ==
  [][ \A c \in Clients :
        (me[c].pc = "files" /\ me[c].op # "write" /\ me[c].quiet /\ me'[c].pc = "idle" /\ faults' = faults)
        => \A x \in Kinds : me[c].scope \in {All, x} => Status(dir', me[c].at)[x] \in {"none", "unmodified"} ]_vars

\* A component as it is sets something that another did not.
SetsAnew(k, was, here) ==
  SetSubcomponent(k).merged /\ was \in Values /\ here \in Values => ~(FieldsOf[here] \subseteq FieldsOf[was])

\* What the directory has is what a save commits.  When nobody touches the directory
\* between reading it and committing it, of each component that neither the parameters
\* nor a transform changed every field is in the new version, with its content; and what
\* status showed as added or modified, and by a save that replaces as removed, `what
\* changed` shows at the new version (FSI.StatusAtVersion, fsi/status.go, against
\* FSI.Status).  A save that patches the version before it (SaveDataset, base/save.go)
\* keeps the fields that were taken out of a component, and the component that was
\* emptied or removed: where nothing was set anew, nothing is shown.
SaveCommitsStatus ==
  [][ \A c \in Clients :
        (me[c].op = "save" /\ me[c].pc = "commit" /\ me[c].quiet /\ me'[c].pc = "files")
        => \A k \in Kinds :
             LET here == ReadDir(dir).ds[k]
                 was  == ConvertDatasetToComponents(me[c].at)[k]
             IN  here = me[c].ds[k] =>
                   /\ here \in Values => FieldsOf[here] \subseteq FieldsOf[ConvertDatasetToComponents(head)'[k]]
                   /\ \/ Status(dir, me[c].at)[k] \in {"add", "modified"} /\ here # Empty
                         /\ ("Replace" \in me[c].sw \/ SetsAnew(k, was, here))
                      \/ Status(dir, me[c].at)[k] = "removed" /\ "Replace" \in me[c].sw
                         /\ k \notin {"structure", "body"}
                      => StatusAtVersion(head)'[k] = Status(dir, me[c].at)[k] ]_vars

=============================================================================
