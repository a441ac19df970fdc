------------------------------ MODULE Datasets ------------------------------
(***************************************************************************)
(* The methods of lib that change a repository's own datasets: save,       *)
(* rename, remove, init, checkout, link and unlink.  Each of them touches  *)
(* up to four stores, one after the other and without a transaction:       *)
(*   - the versions in the content-addressed store,                        *)
(*   - the refstore, a file with one reference per name,                   *)
(*   - the logbook,                                                        *)
(*   - the working directories, each with its .qri-ref link file.          *)
(* A step here is one access to one of them, so that requests interleave   *)
(* between accesses and any access may be the one that fails.              *)
(*                                                                         *)
(* There is one user.  A version is the rank of its creation and 0 is no   *)
(* version; its path is never shared, since the commit has a timestamp, so *)
(* that a reference matches by name.  NoDir stands for an empty FSIPath.   *)
(***************************************************************************)
EXTENDS Integers, Sequences, FiniteSets, FiniteSetsExt

CONSTANTS Clients,      \* requests that may be under way at once
          Names, Dirs, NoName, NoDir,
          MaxLogs,      \* BOUND: logs begun in a behaviour
          MaxVersions,  \* BOUND: versions written
          MaxOps,       \* BOUND: requests, and changes to directories by hand
          MaxFaults     \* BOUND: accesses that fail, and crashes

ASSUME NoneAssumption == NoName \notin Names /\ NoDir \notin Dirs

VARIABLES prev,    \* prev[v]: the previous version named by version v
          store,   \* the versions that are in the store
          refs,    \* the refstore
          book,    \* the logs of the logbook, in the order they were begun
          runs,    \* the bare runs of the logs: <<log, position among its items>>
          dirs,    \* the working directories
          me,      \* me[c]: where client c's request is, and its local variables
          ops, faults,
          spoiled, \* kinds of request that an access failed or that crashed
          muddled, \* whether two live logs have ever had the same name, or a
                   \* remove has taken a bare run for a version
          moved    \* directories changed by hand in a way that breaks a link, or
                   \* whose dataset was then linked with one of those

vars == <<prev, store, refs, book, runs, dirs, me, ops, faults, spoiled, muddled, moved>>

NoRef    == [path |-> 0, fsi |-> NoDir, stored |-> FALSE]
Ref(p, d) == [path |-> p, fsi |-> d, stored |-> TRUE]
NoFiles  == 0
Edited   == -1     \* component files that are no version's
NoDirectory == [exists |-> FALSE, link |-> NoName, files |-> NoFiles]

Idle == [op |-> "none", pc |-> "idle", name |-> NoName, next |-> NoName, dir |-> NoDir,
         n |-> 0, left |-> 0, new |-> FALSE, keep |-> FALSE, force |-> FALSE, id |-> 0, path |-> 0, at |-> 0, fsi |-> NoDir,
         held |-> [x \in Names |-> NoRef], fresh |-> FALSE, why |-> "none",
         before |-> [refs |-> {}, dirs |-> {}, known |-> FALSE]]

Init ==
  /\ prev = <<>> /\ store = {} /\ book = <<>> /\ runs = {}
  /\ refs = [x \in Names |-> NoRef]
  /\ dirs = [d \in Dirs |-> NoDirectory]
  /\ me = [c \in Clients |-> Idle]
  /\ ops = 0 /\ faults = 0 /\ spoiled = {} /\ muddled = FALSE /\ moved = {}

-----------------------------------------------------------------------------
(***************************************************************************)
(* The logbook, as far as these methods see it.                            *)
(***************************************************************************)
First(S) == IF S = {} THEN 0 ELSE Min(S)
Live(i)  == i # 0 /\ book[i].state = "live"

\* Book.RefToInitID: the first live log with the name; 0 is ErrNotFound.
RefToInitID(x) == First({i \in DOMAIN book : book[i].state = "live" /\ book[i].name = x})

\* Book.RemoveLog takes out the first log with the name, removed or not.
RemoveLog(b, x) ==
  LET gone == First({i \in DOMAIN b : b[i].state # "gone" /\ b[i].name = x})
  IN  IF gone = 0 THEN b ELSE [b EXCEPT ![gone].state = "gone"]

\* Book.WriteDatasetInit refuses a name in use, unless its log is blank.
NameFree(x) == LET i == RefToInitID(x) IN i # 0 => book[i].blank

WriteDatasetInit(x) ==
  Append(IF RefToInitID(x) = 0 THEN book ELSE RemoveLog(book, x),
         [state |-> "live", name |-> x, vs |-> <<>>, blank |-> TRUE, minus |-> FALSE])

\* Book.Items: what a reader of the log i gets, its versions and, among them, the
\* transform runs that made no version.  The newest n items may be such runs.
Items(i)     == Len(book[i].vs) + Cardinality({r \in runs : r[1] = i})
Popped(i, n) == {r \in runs : r[1] = i /\ r[2] > Items(i) - n}

\* The newest n items are versions, and an older version is left.
Clear(i, n)  == n < Len(book[i].vs) /\ Popped(i, n) = {}

\* Book.get fails for a log that was taken out, not for one marked removed.
Writable(i) == i # 0 /\ book[i].state # "gone"

-----------------------------------------------------------------------------
\* Some name stands for more than one log of the book b.
Twins(b) ==
  \E i, k \in DOMAIN b : i # k /\ b[i].state = "live" /\ b[k].state = "live" /\ b[i].name = b[k].name

(***************************************************************************)
(* One access, and what may go wrong in it.                                *)
(***************************************************************************)
At(c, p)       == me[c].pc = p
Go(c, p)       == me' = [me EXCEPT ![c].pc = p]
Return(c)      == me' = [me EXCEPT ![c] = Idle]
NoFault        == UNCHANGED <<faults, spoiled>>
Fault(c)       == /\ faults < MaxFaults
                  /\ faults' = faults + 1
                  /\ spoiled' = spoiled \union {me[c].op}
RefsOnly       == UNCHANGED <<prev, store, book, runs, dirs, ops, muddled, moved>>
BookOnly       == /\ muddled' = (muddled \/ Twins(book'))
                  /\ UNCHANGED <<prev, store, refs, runs, dirs, ops, moved>>
BookAndRuns    == UNCHANGED <<prev, store, refs, dirs, ops, moved>>
DirsOnly       == UNCHANGED <<prev, store, refs, book, runs, ops, muddled, moved>>
StoreOnly      == UNCHANGED <<refs, book, runs, dirs, ops, muddled, moved>>
Nothing        == UNCHANGED <<prev, store, refs, book, runs, dirs, ops, muddled, moved>>

\* Refstore.PutRef and DeleteRef read the whole file before they write it.
RefWrites == {"dropRef", "putRef", "putLink", "renDelete", "renPut", "unlink", "rewind",
              "rewindPut", "rmRef", "iniPut", "outPut", "ensure", "unlinkRef"}

ReadRefs(c) ==
  /\ \E p \in RefWrites : me[c].pc = p
  /\ ~me[c].fresh
  /\ me' = [me EXCEPT ![c].held = refs, ![c].fresh = TRUE]
  /\ NoFault /\ Nothing

\* The write that ends the access and the way on.
PutRef(c, x, r, p) ==
  /\ me[c].fresh
  /\ refs' = [me[c].held EXCEPT ![x] = r]
  /\ me' = [me EXCEPT ![c].pc = p, ![c].fresh = FALSE]
  /\ NoFault /\ RefsOnly

Begin(c, rec) ==
  /\ At(c, "idle") /\ ops < MaxOps
  /\ ops' = ops + 1
  /\ me' = [me EXCEPT ![c] = rec]
  /\ NoFault
  /\ UNCHANGED <<prev, store, refs, book, runs, dirs, muddled, moved>>

\* The process dies: what a request keeps in memory is gone.
Crash(c) == ~At(c, "idle") /\ Fault(c) /\ Return(c) /\ Nothing

-----------------------------------------------------------------------------
(***************************************************************************)
(* DatasetMethods.Save                                                     *)
(***************************************************************************)
Save(c) ==
  \E x \in Names : Begin(c, [Idle EXCEPT !.op = "save", !.pc = "prepare", !.name = x])

\* MUTANT: the name is taken for a new one without asking the refstore.
PrepareSaveRefNew(c) ==
  /\ At(c, "prepare") /\ Len(book) < MaxLogs
  /\ book' = WriteDatasetInit(me[c].name)
  /\ me' = [me EXCEPT ![c].pc = "working", ![c].id = Len(book) + 1, ![c].new = TRUE]
  /\ NoFault /\ BookOnly

\* base.PrepareSaveRef: the refstore says whether the dataset exists and what
\* its newest version is, the logbook gives the ID or begins a log.
PrepareSaveRef(c) ==
  LET x == me[c].name IN
  /\ At(c, "prepare")
  /\ \/ /\ refs[x].stored /\ RefToInitID(x) # 0
        /\ me' = [me EXCEPT ![c].pc = "working", ![c].id = RefToInitID(x),
                            ![c].path = refs[x].path]
        /\ NoFault /\ Nothing
     \/ /\ refs[x].stored /\ RefToInitID(x) = 0
        /\ Return(c) /\ NoFault /\ Nothing
     \/ /\ ~refs[x].stored /\ ~NameFree(x)
        /\ Return(c) /\ NoFault /\ Nothing
     \/ /\ ~refs[x].stored /\ NameFree(x) /\ Len(book) < MaxLogs
        /\ book' = WriteDatasetInit(x)
        /\ me' = [me EXCEPT ![c].pc = "working", ![c].id = Len(book) + 1, ![c].new = TRUE]
        /\ NoFault /\ BookOnly
     \/ /\ ~refs[x].stored /\ NameFree(x) /\ Len(book) < MaxLogs
        /\ Fault(c) /\ book' \in {book, WriteDatasetInit(x)}
        /\ Return(c) /\ BookOnly

\* The files of a linked directory become part of what is saved.
ReadWorkingDir(c) ==
  LET d == refs[me[c].name].fsi IN
  /\ At(c, "working")
  /\ IF me[c].new \/ d = NoDir THEN Go(c, "write")
     ELSE IF dirs[d].exists THEN me' = [me EXCEPT ![c].pc = "write", ![c].fsi = d]
     ELSE Return(c)
  /\ NoFault /\ Nothing

\* A save that fails takes the log away that it began for a new dataset.
Failed(c) == IF me[c].new THEN Go(c, "cleanup") ELSE Return(c)

Cleanup(c) ==
  /\ At(c, "cleanup")
  /\ book' = RemoveLog(book, me[c].name)
  /\ Return(c) /\ NoFault /\ BookOnly

\* The save is refused: nothing changed, invalid, no body ...  An applied
\* transform that failed, or that changed nothing, is recorded in the logbook
\* all the same: Book.WriteTransformRun adds an item without a version.
SaveRefused(c) ==
  LET i == me[c].id IN
  /\ At(c, "write")
  /\ \/ book' = book /\ runs' = runs
     \/ /\ Writable(i)
        /\ book' = [book EXCEPT ![i].blank = FALSE]
        /\ runs' = runs \union {<<i, Items(i) + 1>>}
  /\ Failed(c) /\ NoFault /\ muddled' = (muddled \/ Twins(book')) /\ BookAndRuns

\* MUTANT: the new version does not name the previous one.
WriteVersionNoPrev(c) ==
  /\ At(c, "write") /\ Len(prev) < MaxVersions
  /\ prev' = Append(prev, 0) /\ store' = store \union {Len(prev) + 1}
  /\ me' = [me EXCEPT ![c].at = Len(prev) + 1,
                      ![c].pc = IF me[c].path = 0 THEN "putRef" ELSE "dropRef"]
  /\ NoFault /\ StoreOnly

\* base.SaveDataset loads the previous version and dsfs.CreateDataset writes the next.
WriteVersion(c) ==
  LET v == Len(prev) + 1 IN
  /\ At(c, "write")
  /\ \/ /\ me[c].path # 0 => me[c].path \in store
        /\ Len(prev) < MaxVersions
        /\ prev' = Append(prev, me[c].path)
        /\ store' = store \union {v}
        /\ me' = [me EXCEPT ![c].at = v, ![c].pc = IF me[c].path = 0 THEN "putRef" ELSE "dropRef"]
        /\ NoFault /\ StoreOnly
     \/ /\ me[c].path # 0 /\ me[c].path \notin store
        /\ Failed(c) /\ NoFault /\ Nothing
     \/ Fault(c) /\ Failed(c) /\ Nothing

\* base.CreateDataset: the reference of the previous version goes, whatever
\* comes of it, and the one of the new version is put, without its directory.
DropRef(c) ==
  /\ At(c, "dropRef")
  /\ \/ me[c].held[me[c].name].stored /\ PutRef(c, me[c].name, NoRef, "putRef")
     \/ /\ me[c].fresh /\ ~me[c].held[me[c].name].stored
        /\ me' = [me EXCEPT ![c].pc = "putRef", ![c].fresh = FALSE] /\ NoFault /\ Nothing
     \/ /\ Fault(c) /\ me' = [me EXCEPT ![c].pc = "putRef", ![c].fresh = FALSE] /\ Nothing

CreateDatasetRef(c) ==
  /\ At(c, "putRef")
  /\ \/ PutRef(c, me[c].name, Ref(me[c].at, NoDir), "log")
     \/ Fault(c) /\ Failed(c) /\ Nothing

\* MUTANT: the version is not appended to the log.
WriteVersionSaveNot(c) ==
  At(c, "log") /\ Go(c, "putLink") /\ NoFault /\ Nothing

\* Book.WriteVersionSave.  When the file cannot be written, the version is
\* in the log that is in memory all the same.
WriteVersionSave(c) ==
  LET i    == me[c].id
      done == [book EXCEPT ![i].vs = Append(@, me[c].at), ![i].blank = FALSE]
  IN
  /\ At(c, "log")
  /\ \/ /\ Writable(i)
        /\ book' = done
        /\ IF me[c].fsi = NoDir THEN Return(c) ELSE Go(c, "putLink")
        /\ NoFault /\ BookOnly
     \/ ~Writable(i) /\ Failed(c) /\ NoFault /\ Nothing
     \/ Writable(i) /\ Fault(c) /\ book' \in {book, done} /\ Failed(c) /\ BookOnly

\* A linked dataset gets its directory back, and its files are written.
PutLink(c) ==
  /\ At(c, "putLink")
  /\ \/ PutRef(c, me[c].name, Ref(me[c].at, me[c].fsi), "files")
     \/ Fault(c) /\ Return(c) /\ Nothing

WriteComponents(c) ==
  /\ At(c, "files")
  /\ dirs' = [dirs EXCEPT ![me[c].fsi].files = IF dirs[me[c].fsi].exists THEN me[c].at ELSE @]
  /\ Return(c) /\ NoFault /\ DirsOnly

-----------------------------------------------------------------------------
(***************************************************************************)
(* DatasetMethods.Rename                                                   *)
(***************************************************************************)
Rename(c) ==
  \E x, y \in Names :
    x # y /\ Begin(c, [Idle EXCEPT !.op = "rename", !.pc = "renResolve", !.name = x, !.next = y])

ResolveRename(c) ==
  LET x == me[c].name IN
  /\ At(c, "renResolve")
  /\ IF refs[x].stored /\ RefToInitID(x) # 0 /\ ~refs[me[c].next].stored
       THEN me' = [me EXCEPT ![c].pc = "renLog", ![c].id = RefToInitID(x)]
       ELSE Return(c)
  /\ NoFault /\ Nothing

WriteDatasetRename(c) ==
  LET done == [book EXCEPT ![me[c].id].name = me[c].next, ![me[c].id].blank = FALSE] IN
  /\ At(c, "renLog")
  /\ \/ Writable(me[c].id) /\ book' = done /\ Go(c, "renDelete") /\ NoFault /\ BookOnly
     \/ ~Writable(me[c].id) /\ Return(c) /\ NoFault /\ Nothing
     \/ Writable(me[c].id) /\ Fault(c) /\ book' \in {book, done} /\ Return(c) /\ BookOnly

\* What was deleted is put under the new name, its directory included.
RenameDelete(c) ==
  LET was == me[c].held[me[c].name] IN
  /\ At(c, "renDelete")
  /\ \/ /\ me[c].fresh /\ was.stored
        /\ refs' = [me[c].held EXCEPT ![me[c].name] = NoRef]
        /\ me' = [me EXCEPT ![c].pc = "renPut", ![c].fresh = FALSE,
                            ![c].path = was.path, ![c].fsi = was.fsi]
        /\ NoFault /\ RefsOnly
     \/ me[c].fresh /\ ~was.stored /\ Return(c) /\ NoFault /\ Nothing
     \/ Fault(c) /\ Return(c) /\ Nothing

RenamePut(c) ==
  /\ At(c, "renPut")
  /\ \/ PutRef(c, me[c].next, Ref(me[c].path, me[c].fsi), "renLink")
     \/ Fault(c) /\ Return(c) /\ Nothing

\* FSI.ModifyLinkReference; the link file cannot be written where there is no directory.
RenameLink(c) ==
  LET d == me[c].fsi IN
  /\ At(c, "renLink")
  /\ \/ /\ d # NoDir
        /\ dirs' = [dirs EXCEPT ![d].link = IF dirs[d].exists THEN me[c].next ELSE @]
        /\ Return(c) /\ NoFault /\ DirsOnly
     \/ d = NoDir /\ Return(c) /\ NoFault /\ Nothing
     \/ d # NoDir /\ Fault(c) /\ Return(c) /\ Nothing

-----------------------------------------------------------------------------
(***************************************************************************)
(* DatasetMethods.Remove: n versions, or all of them (n = -1).             *)
(***************************************************************************)
All == -1

Remove(c) ==
  \E x \in Names, n \in {All, 1, 2}, keep, force \in BOOLEAN :
    Begin(c, [Idle EXCEPT !.op = "remove", !.pc = "rmResolve", !.name = x, !.n = n, !.keep = keep,
                          !.force = force])

\* FSI.Status compares the files with the newest version of the dataset the
\* link file names, whichever that is; a directory without a link has no status.
Status(d) ==
  LET y == dirs[d].link IN
  IF y = NoName THEN "not linked"
  ELSE IF ~refs[y].stored THEN "error"
  ELSE IF dirs[d].files = refs[y].path THEN "clean" ELSE "modified"

IsWorkingDirectoryClean(d) == Status(d) \in {"clean", "not linked"}

\* A request for at least as many items as there are is one for all.  For a
\* request that asks for all, DatasetLog finds no history (its limit is then 0),
\* so that the versions of such a request stay in the store.
PlanRemove(c, i, r) ==
  LET n == IF me[c].n = All \/ me[c].n >= Items(i) THEN All ELSE me[c].n IN
  /\ me' = [me EXCEPT ![c].id = i, ![c].n = n, ![c].left = n, ![c].fsi = r.fsi,
                      ![c].path = r.path, ![c].at = r.path,
                      ![c].pc = IF n # All THEN "rmVersion"
                                ELSE IF r.fsi # NoDir THEN "unlink"
                                ELSE IF me[c].n # All /\ Items(i) > 0 /\ r.path # 0 THEN "rmVersion"
                                ELSE "rmLog"]
  /\ muddled' = (muddled \/ (n # All /\ ~Clear(i, n)))

\* Resolves the reference and refuses a directory with changes, unless forced.
\* What cannot be resolved is cleaned up all the same where only the logbook
\* does not know it, or by force.
ResolveRemove(c) ==
  LET x == me[c].name
      i == RefToInitID(x)
      d == refs[x].fsi
      found   == refs[x].stored /\ i # 0
      forgets == refs[x].stored \/ me[c].force
      refused == \/ d = NoDir /\ me[c].keep
                 \/ d # NoDir /\ ~(me[c].keep \/ me[c].force) /\ ~IsWorkingDirectoryClean(d)
                 \/ book[i].minus
  IN
  /\ At(c, "rmResolve")
  /\ \/ found /\ ~refused /\ PlanRemove(c, i, refs[x])
     \/ found /\ refused /\ Return(c) /\ muddled' = muddled
     \/ ~found /\ ~forgets /\ Return(c) /\ muddled' = muddled
     \/ ~found /\ forgets /\ me' = [me EXCEPT ![c].pc = "rmLog", ![c].n = All] /\ muddled' = muddled
  /\ NoFault /\ UNCHANGED <<prev, store, refs, book, runs, dirs, ops, moved>>

\* FSI.Unlink before everything goes.  The reference of a linked dataset now
\* has the directory for its path, so that RemoveNVersionsFromStore finds no
\* version under it: those stay in the store.
UnlinkRemoved(c) ==
  LET d   == me[c].fsi
      was == me[c].held[me[c].name] IN
  /\ At(c, "unlink")
  /\ \/ /\ me[c].fresh
        /\ dirs' = [dirs EXCEPT ![d].link = NoName]
        /\ refs' = IF was.stored /\ was.path # 0
                     THEN [me[c].held EXCEPT ![me[c].name] = Ref(was.path, NoDir)] ELSE refs
        /\ me' = [me EXCEPT ![c].pc = "rmLog", ![c].fresh = FALSE]
        /\ NoFault /\ UNCHANGED <<prev, store, book, runs, ops, muddled, moved>>
     \/ Fault(c) /\ me' = [me EXCEPT ![c].pc = "rmLog", ![c].fresh = FALSE] /\ Nothing

\* RemoveNVersionsFromStore: one version after the other, newest first.
\* A failure ends a request for some versions, not one for all.
GoOn(c) == IF me[c].n = All THEN Go(c, "rmLog") ELSE Return(c)

DeleteVersion(c) ==
  LET v == me[c].at IN
  /\ At(c, "rmVersion")
  /\ \/ /\ v \in store
        /\ store' = store \ {v}
        /\ IF prev[v] = 0 \/ prev[v] \notin store THEN Go(c, "rewind")
           ELSE me' = [me EXCEPT ![c].at = prev[v], ![c].left = @ - 1,
                                 ![c].pc = IF me[c].left = 1 THEN "rewind" ELSE @]
        /\ NoFault /\ UNCHANGED <<prev, refs, book, runs, dirs, ops, muddled, moved>>
     \/ v \notin store /\ GoOn(c) /\ NoFault /\ Nothing
     \/ Fault(c) /\ GoOn(c) /\ Nothing

\* RewindDatasetRef: the reference is read and deleted, ...
Rewind(c) ==
  LET was == me[c].held[me[c].name] IN
  /\ At(c, "rewind")
  /\ \/ /\ me[c].fresh /\ was.stored
        /\ refs' = [me[c].held EXCEPT ![me[c].name] = NoRef]
        /\ me' = [me EXCEPT ![c].pc = "rewindPut", ![c].fresh = FALSE, ![c].dir = was.fsi]
        /\ NoFault /\ RefsOnly
     \/ me[c].fresh /\ ~was.stored /\ GoOn(c) /\ NoFault /\ Nothing
     \/ Fault(c) /\ GoOn(c) /\ Nothing

\* ... and put with the older path.  Until then the dataset has no reference.
RewindPut(c) ==
  /\ At(c, "rewindPut")
  /\ \/ PutRef(c, me[c].name, Ref(me[c].at, me[c].dir), "rmWrite")
     \/ Fault(c) /\ GoOn(c) /\ Nothing

\* The newest n items go, k versions and else bare runs, where the store lost
\* versions only.  A delete of all versions is recorded with the size -1, which
\* no reader of the branch can make sense of (branchToVersionInfos slices past
\* the end).  A version that this log never held cannot be taken off it either.
DeleteItems(i, n) ==
  \/ /\ n = All
     /\ book' = [book EXCEPT ![i].minus = TRUE] /\ runs' = runs
     /\ muddled' = (muddled \/ Twins(book'))
  \/ /\ n # All
     /\ \E k \in 0 .. n : /\ Cardinality(Popped(i, n)) = n - k
                         /\ book' = [book EXCEPT ![i].vs = SubSeq(@, 1, Len(@) - k)]
     /\ runs' = runs \ Popped(i, n)
     /\ muddled' = (muddled \/ Twins(book') \/ Popped(i, n) # {})

\* Book.WriteVersionDelete
WriteVersionDelete(c) ==
  LET i  == RefToInitID(me[c].name)
      on == IF me[c].n = All THEN "rmLog" ELSE "rmFiles"
  IN
  /\ At(c, "rmWrite")
  /\ \/ i # 0 /\ DeleteItems(i, me[c].n) /\ Go(c, on) /\ NoFault /\ BookAndRuns
     \/ i = 0 /\ Go(c, on) /\ NoFault /\ Nothing
     \/ i # 0 /\ Fault(c) /\ DeleteItems(i, me[c].n) /\ GoOn(c) /\ BookAndRuns
     \/ i # 0 /\ Fault(c) /\ GoOn(c) /\ Nothing

\* RemoveEntireDataset goes on whatever fails.
WriteDatasetDelete(c) ==
  LET i == RefToInitID(me[c].name) IN
  /\ At(c, "rmLog")
  /\ \/ i # 0 /\ book' = [book EXCEPT ![i].state = "removed"] /\ Go(c, "rmRef") /\ NoFault /\ BookOnly
     \/ i = 0 /\ Go(c, "rmRef") /\ NoFault /\ Nothing
     \/ i # 0 /\ Fault(c) /\ Go(c, "rmRef") /\ Nothing

RemoveRef(c) ==
  /\ At(c, "rmRef")
  /\ \/ PutRef(c, me[c].name, NoRef, "rmFiles")
     \/ Fault(c) /\ Go(c, "rmFiles") /\ Nothing

\* Of all versions: the directory goes too, unless it is to be kept.  Of some:
\* a linked directory gets the files of the version that is now the newest.
RemoveFiles(c) ==
  LET d == IF me[c].n = All THEN me[c].fsi ELSE me[c].dir IN
  /\ At(c, "rmFiles")
  /\ \/ /\ d # NoDir /\ ~me[c].keep /\ dirs[d].exists
        /\ dirs' = [dirs EXCEPT ![d] = IF me[c].n # All THEN [@ EXCEPT !.files = me[c].at]
                                       ELSE IF @.link = NoName THEN NoDirectory
                                       ELSE [@ EXCEPT !.files = NoFiles]]
        /\ Return(c) /\ NoFault /\ DirsOnly
     \/ (d # NoDir /\ ~me[c].keep => ~dirs[d].exists) /\ Return(c) /\ NoFault /\ Nothing

-----------------------------------------------------------------------------
(***************************************************************************)
(* FSI.InitDataset: a directory becomes a new dataset.  What is done so    *)
(* far is undone when a later step fails.                                  *)
(***************************************************************************)
InitDataset(c) ==
  \E x \in Names, d \in Dirs :
    Begin(c, [Idle EXCEPT !.op = "init", !.pc = "iniCheck", !.name = x, !.dir = d,
                          !.before = [refs |-> refs, dirs |-> dirs, known |-> RefToInitID(x) # 0]])

\* FSI.CanInitDatasetWorkDir: no link file and no component files.
CanInitDatasetWorkDir(d) == dirs[d].link = NoName /\ dirs[d].files = NoFiles

CheckInit(c) ==
  LET x == me[c].name IN
  /\ At(c, "iniCheck")
  /\ IF CanInitDatasetWorkDir(me[c].dir) /\ ~(refs[x].stored /\ RefToInitID(x) # 0)
       THEN /\ dirs' = [dirs EXCEPT ![me[c].dir].exists = TRUE]
            /\ Go(c, "iniLog")
       ELSE dirs' = dirs /\ Go(c, "rolled")
  /\ NoFault /\ DirsOnly

RollBack(c, step) == me' = [me EXCEPT ![c].pc = "rollback", ![c].why = step]

InitLog(c) ==
  LET x == me[c].name IN
  /\ At(c, "iniLog")
  /\ \/ /\ NameFree(x) /\ Len(book) < MaxLogs
        /\ book' = WriteDatasetInit(x)
        /\ Go(c, "iniPut") /\ NoFault /\ BookOnly
     \/ ~NameFree(x) /\ RollBack(c, "log") /\ NoFault /\ Nothing
     \/ /\ NameFree(x) /\ Len(book) < MaxLogs
        /\ Fault(c) /\ book' \in {book, WriteDatasetInit(x)} /\ RollBack(c, "log") /\ BookOnly

\* The format may be refused before the reference is put.
InitRef(c) ==
  /\ At(c, "iniPut")
  /\ \/ PutRef(c, me[c].name, Ref(0, me[c].dir), "iniLink")
     \/ RollBack(c, "ref") /\ NoFault /\ Nothing
     \/ Fault(c) /\ RollBack(c, "ref") /\ Nothing

\* CreateLink writes the link file and publishes two events.
InitLink(c) ==
  LET done == [dirs EXCEPT ![me[c].dir].link = me[c].name] IN
  /\ At(c, "iniLink")
  /\ \/ dirs' = done /\ Go(c, "iniFiles") /\ NoFault /\ DirsOnly
     \/ Fault(c) /\ dirs' \in {dirs, done} /\ RollBack(c, "link") /\ DirsOnly

InitFiles(c) ==
  LET done == [dirs EXCEPT ![me[c].dir].files = Edited] IN
  /\ At(c, "iniFiles")
  /\ \/ dirs' = done /\ Return(c) /\ NoFault /\ DirsOnly
     \/ Fault(c) /\ RollBack(c, "files") /\ Nothing

\* MUTANT: the reference is not taken back.
RollbackInitNoRef(c) ==
  LET d == me[c].dir IN
  /\ At(c, "rollback")
  /\ book' = IF me[c].why = "log" THEN book ELSE RemoveLog(book, me[c].name)
  /\ dirs' = IF ~me[c].before.dirs[d].exists THEN [dirs EXCEPT ![d] = NoDirectory]
             ELSE IF me[c].why = "files" THEN [dirs EXCEPT ![d].link = NoName] ELSE dirs
  /\ Go(c, "rolled") /\ NoFault /\ UNCHANGED <<prev, store, refs, runs, ops, muddled, moved>>

\* The rollback function: what is undone depends on the step that failed.
\* The undo function of CreateLink is only kept when CreateLink succeeds.
RollbackInit(c) ==
  LET d == me[c].dir IN
  /\ At(c, "rollback")
  /\ refs' = IF me[c].why = "files" THEN [refs EXCEPT ![me[c].name] = NoRef] ELSE refs
  /\ book' = IF me[c].why = "log" THEN book ELSE RemoveLog(book, me[c].name)
  /\ dirs' = IF ~me[c].before.dirs[d].exists THEN [dirs EXCEPT ![d] = NoDirectory]
             ELSE IF me[c].why = "files" THEN [dirs EXCEPT ![d].link = NoName] ELSE dirs
  /\ Go(c, "rolled") /\ NoFault /\ UNCHANGED <<prev, store, runs, ops, muddled, moved>>

InitFailed(c) == At(c, "rolled") /\ Return(c) /\ NoFault /\ Nothing

-----------------------------------------------------------------------------
(***************************************************************************)
(* FSIMethods: Checkout, Unlink, EnsureRef, Write and Restore.             *)
(***************************************************************************)
Checkout(c) ==
  \E x \in Names, d \in Dirs :
    Begin(c, [Idle EXCEPT !.op = "checkout", !.pc = "outCheck", !.name = x, !.dir = d])

\* FSI.EnsureRefNotLinked: a link counts while its directory has a link file.
EnsureRefNotLinked(x) ==
  LET d == refs[x].fsi IN d = NoDir \/ dirs[d].link = NoName

CheckCheckout(c) ==
  LET x == me[c].name IN
  /\ At(c, "outCheck")
  /\ IF /\ ~dirs[me[c].dir].exists
        /\ refs[x].stored /\ RefToInitID(x) # 0
        /\ EnsureRefNotLinked(x)
        /\ refs[x].path \in store
       THEN /\ dirs' = [dirs EXCEPT ![me[c].dir].exists = TRUE]
            /\ me' = [me EXCEPT ![c].pc = "outPut", ![c].at = refs[x].path]
       ELSE dirs' = dirs /\ Return(c)
  /\ NoFault /\ DirsOnly

\* FSI.ModifyLinkDirectory
CheckoutRef(c) ==
  LET was == me[c].held[me[c].name] IN
  /\ At(c, "outPut")
  /\ \/ was.stored /\ PutRef(c, me[c].name, Ref(was.path, me[c].dir), "outLink")
     \/ me[c].fresh /\ ~was.stored /\ Return(c) /\ NoFault /\ Nothing
     \/ Fault(c) /\ Return(c) /\ Nothing

\* Nobody calls the undo function that CreateLink returns.
CheckoutLink(c) ==
  LET done == [dirs EXCEPT ![me[c].dir].link = me[c].name] IN
  /\ At(c, "outLink")
  /\ \/ dirs' = done /\ Go(c, "outFiles") /\ NoFault /\ DirsOnly
     \/ Fault(c) /\ dirs' \in {dirs, done} /\ Return(c) /\ DirsOnly

CheckoutFiles(c) ==
  /\ At(c, "outFiles")
  /\ dirs' = [dirs EXCEPT ![me[c].dir].files = me[c].at]
  /\ Return(c) /\ NoFault /\ DirsOnly

\* Unlink by reference.
Unlink(c) ==
  \E x \in Names :
    /\ refs[x].stored /\ RefToInitID(x) # 0 /\ refs[x].fsi # NoDir
    /\ Begin(c, [Idle EXCEPT !.op = "unlink", !.pc = "unlinkFile", !.name = x, !.path = refs[x].path,
                             !.dir = refs[x].fsi])

UnlinkFile(c) ==
  /\ At(c, "unlinkFile")
  /\ \/ dirs' = [dirs EXCEPT ![me[c].dir].link = NoName] /\ NoFault
     \/ dirs' = dirs /\ Fault(c)
  /\ Go(c, "unlinkRef") /\ DirsOnly

\* A dataset without a version is forgotten, the others lose their directory.
UnlinkRef(c) ==
  LET was == me[c].held[me[c].name] IN
  /\ At(c, "unlinkRef")
  /\ \/ was.stored /\ PutRef(c, me[c].name, IF me[c].path = 0 THEN NoRef ELSE Ref(was.path, NoDir), "done")
     \/ me[c].fresh /\ ~was.stored /\ Return(c) /\ NoFault /\ Nothing
     \/ Fault(c) /\ Return(c) /\ Nothing

Done(c) == At(c, "done") /\ Return(c) /\ NoFault /\ Nothing

\* EnsureRef: a command run in a linked directory puts the directory right.
EnsureRef(c) ==
  \E d \in Dirs :
    /\ dirs[d].link # NoName
    /\ Begin(c, [Idle EXCEPT !.op = "ensure", !.pc = "ensure", !.name = dirs[d].link, !.dir = d])

ModifyLinkDirectory(c) ==
  LET was == me[c].held[me[c].name] IN
  /\ At(c, "ensure")
  /\ \/ /\ me[c].fresh /\ was.stored
        /\ refs' = [me[c].held EXCEPT ![me[c].name] = Ref(was.path, me[c].dir)]
        /\ me' = [me EXCEPT ![c].pc = "done", ![c].fresh = FALSE]
        /\ moved' = moved \union ({was.fsi} \ {me[c].dir, NoDir})
        /\ NoFault /\ UNCHANGED <<prev, store, book, runs, dirs, ops, muddled>>
     \/ me[c].fresh /\ ~was.stored /\ Return(c) /\ NoFault /\ Nothing
     \/ Fault(c) /\ Return(c) /\ Nothing

\* FSIMethods.Write: the files of a linked directory become something else.
Linked(x) == /\ refs[x].stored /\ RefToInitID(x) # 0
             /\ refs[x].fsi # NoDir /\ dirs[refs[x].fsi].exists

SetFiles(c, x, f) ==
  /\ At(c, "idle") /\ ops < MaxOps /\ Linked(x)
  /\ dirs' = [dirs EXCEPT ![refs[x].fsi].files = f]
  /\ ops' = ops + 1
  /\ NoFault /\ UNCHANGED <<prev, store, refs, book, runs, me, muddled, moved>>

Write(c) == \E x \in Names : SetFiles(c, x, Edited)

\* FSIMethods.Restore: they become the newest version's, or none.
Restore(c) ==
  \E x \in Names : refs[x].path \in store \union {0} /\ SetFiles(c, x, refs[x].path)

\* The owner moves a directory, or unlinks one by its path: FSIMethods.Unlink
\* with a directory only removes the link file.  Both happen between requests.
ByHand ==
  /\ \A c \in Clients : At(c, "idle")
  /\ ops < MaxOps /\ ops' = ops + 1
  /\ \/ \E d, e \in Dirs :
          /\ dirs[d].exists /\ ~dirs[e].exists
          /\ dirs' = [dirs EXCEPT ![e] = dirs[d], ![d] = NoDirectory]
          /\ moved' = moved \union {d, e}
     \/ \E d \in Dirs :
          /\ dirs[d].link # NoName
          /\ dirs' = [dirs EXCEPT ![d].link = NoName]
          /\ moved' = moved \union {d}
  /\ NoFault /\ UNCHANGED <<prev, store, refs, book, runs, me, muddled>>

-----------------------------------------------------------------------------
SaveStep(c)   == PrepareSaveRef(c) \/ ReadWorkingDir(c) \/ SaveRefused(c) \/ WriteVersion(c)
                 \/ DropRef(c) \/ CreateDatasetRef(c) \/ WriteVersionSave(c) \/ PutLink(c)
                 \/ WriteComponents(c) \/ Cleanup(c)
RenameStep(c) == ResolveRename(c) \/ WriteDatasetRename(c) \/ RenameDelete(c) \/ RenamePut(c)
                 \/ RenameLink(c)
RemoveStep(c) == ResolveRemove(c) \/ UnlinkRemoved(c) \/ DeleteVersion(c) \/ Rewind(c) \/ RewindPut(c)
                 \/ WriteVersionDelete(c) \/ WriteDatasetDelete(c) \/ RemoveRef(c) \/ RemoveFiles(c)
InitStep(c)   == CheckInit(c) \/ InitLog(c) \/ InitRef(c) \/ InitLink(c) \/ InitFiles(c)
                 \/ RollbackInit(c) \/ InitFailed(c)
LinkStep(c)   == CheckCheckout(c) \/ CheckoutRef(c) \/ CheckoutLink(c) \/ CheckoutFiles(c)
                 \/ UnlinkFile(c) \/ UnlinkRef(c) \/ ModifyLinkDirectory(c) \/ Done(c)
Request(c)    == Save(c) \/ Rename(c) \/ Remove(c) \/ InitDataset(c) \/ Checkout(c)
                 \/ Unlink(c) \/ EnsureRef(c) \/ Write(c) \/ Restore(c)

Next ==
  \/ \E c \in Clients : \/ Request(c) \/ ReadRefs(c) \/ Crash(c)
                        \/ SaveStep(c) \/ RenameStep(c) \/ RemoveStep(c)
                        \/ InitStep(c) \/ LinkStep(c)
  \/ ByHand

Spec == Init /\ [][Next]_vars

-----------------------------------------------------------------------------
Quiet == \A c \in Clients : At(c, "idle")
Newest(i) == IF book[i].vs = <<>> THEN 0 ELSE book[i].vs[Len(book[i].vs)]

\* What the variables hold.
TypeOK ==
  /\ store \subseteq 1 .. Len(prev)
  /\ \A v \in DOMAIN prev : prev[v] \in 0 .. v - 1
  /\ \A x \in Names : refs[x].path \in 0 .. Len(prev) /\ refs[x].fsi \in Dirs \union {NoDir}
  /\ \A i \in DOMAIN book : /\ book[i].state \in {"live", "removed", "gone"}
                            /\ \A k \in DOMAIN book[i].vs : book[i].vs[k] \in DOMAIN prev
  /\ \A d \in Dirs : /\ dirs[d].link \in Names \union {NoName}
                     /\ dirs[d].files \in {Edited} \union 0 .. Len(prev)
                     /\ dirs[d].link # NoName => dirs[d].exists

\* When no access has failed and no request is under way, the refstore and the
\* logbook agree: a reference has a live log, its path is the log's newest
\* version and that version is stored (Save, Rename, Remove, InitDataset and
\* Unlink each change both, one after the other).  Nothing of the kind holds once
\* two live logs have shared a name, or a remove has met a bare run: it takes n
\* versions from the store and n items, runs included, off the log (muddled).
RefsAgree ==
  Quiet /\ faults = 0 /\ ~muddled =>
    \A x \in Names :
      refs[x].stored =>
        LET i == RefToInitID(x) IN
        i # 0 /\ refs[x].path = Newest(i) /\ (refs[x].path # 0 => refs[x].path \in store)

\* When no access has failed, no request is under way and no directory was
\* changed by hand, a reference names a directory exactly when the link file
\* there names it back (Rename rewrites the file, Save drops and restores the
\* reference's directory, Rewind carries it over).
LinksAgree ==
  Quiet /\ faults = 0 =>
    \A x \in Names, d \in Dirs \ moved :
      (refs[x].stored /\ refs[x].fsi = d) <=> dirs[d].link = x

\* Refstore, logbook and store, refstore and link files: the records a request leaves agree
\* (RefsAgree, LinksAgree).
RecordsAgree == RefsAgree /\ LinksAgree

\* The version v can be read back from version w along previous paths.
Reaches(w, v) ==
  LET back[k \in 0 .. Len(prev)] == IF k = 0 THEN FALSE ELSE k \in store /\ (k = v \/ back[prev[k]])
  IN  back[w]

\* A save, init, checkout or unlink that fails halfway, or a crash in one, does
\* not cut a dataset's history: while there is a reference, every version the
\* logbook lists is stored and reached from it along previous paths, even if
\* the refstore is ahead of the logbook.  A remove that fails may cut it, and
\* so may a rename, whose old name can be taken before the reference follows.
\* A remove that meets a bare run leaves versions listed that it deleted (muddled).
HistoryReachable ==
  Quiet /\ ~muddled /\ spoiled \intersect {"remove", "rename"} = {} =>
    \A x \in Names :
      refs[x].stored /\ RefToInitID(x) # 0 =>
        LET i == RefToInitID(x) IN
        \A k \in DOMAIN book[i].vs : Reaches(refs[x].path, book[i].vs[k])

\* InitDataset takes back what it did: after a failure other than the one of
\* CreateLink, references and directories are as they were.  A reference of the
\* name whose log is gone, as a remove that failed leaves it behind, may go too.
InitAllOrNothing ==
  \A c \in Clients :
    At(c, "rolled") /\ me[c].why # "link" /\ Clients = {c} =>
      LET was == me[c].before IN
      /\ dirs = was.dirs
      /\ refs = was.refs \/ (~was.known /\ refs = [was.refs EXCEPT ![me[c].name] = NoRef])

\* The clean-up of a failed save, and the removal of stray logs, never take out
\* a log that has versions and is not removed: the log a save takes away by
\* name is the one it began.  Once two live logs have shared a name, it may be
\* the other one (muddled).
CleanUpSparesHistory ==
  [][faults' = 0 /\ ~muddled =>
       \A i \in DOMAIN book : book[i].state = "live" /\ book[i].vs # <<>> => book'[i].state # "gone"]_vars

=============================================================================
