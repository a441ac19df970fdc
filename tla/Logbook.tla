------------------------------ MODULE Logbook ------------------------------
(***************************************************************************)
(* The logbook of one author (logbook.Book): the journal in memory, the    *)
(* file it is kept in, and the requests that write to it.                  *)
(*                                                                         *)
(* A request is one call of the library (save, rename, remove, push...).   *)
(* Nothing in the Book excludes two of them: each appends to the journal   *)
(* in memory first and calls Book.save afterwards, and a push waits for    *)
(* the remote between its write and its rollback.  One client is the       *)
(* command line; several are the API server.                               *)
(***************************************************************************)
EXTENDS Oplog

CONSTANTS Clients,      \* the requests that may be under way together
          MaxVersions,  \* BOUND: dataset versions saved in a behaviour
          MaxRuns,      \* BOUND: transform runs in a behaviour
          MaxOps,       \* BOUND: operations in one branch log
          MaxRenames,   \* BOUND: renames of one dataset
          FsFaults      \* whether the filesystem may refuse a Put

ASSUME ClientsAssumption == IsFiniteSet(Clients)
ASSUME BoundsAssumption  == /\ MaxVersions \in Nat
                            /\ MaxRuns \in Nat
                            /\ MaxOps \in Nat
                            /\ MaxRenames \in Nat
ASSUME FaultsAssumption  == FsFaults \in BOOLEAN

VARIABLES mem,      \* Book.store: the journal in memory
          disk,     \* the journal in the file the next start will load
          located,  \* whether Book.fsLocation still names that file
          used,     \* init IDs handed out so far
          paths,    \* versions saved so far
          runs,     \* transform runs so far
          req,      \* what each client is in the middle of
          bus       \* the event the last step published

book == <<mem, disk, located>>
vars == <<mem, disk, located, used, paths, runs, req, bus>>

\* event.DsChange, with the type of the event.
Event   == [type : {"none", "init", "rename", "delete", "change"},
            id : Nat, name : Names \union {NoName}, top : Int, head : Nat]
NoEvent == [type |-> "none", id |-> 0, name |-> NoName, top |-> 0, head |-> 0]

NameInit(id, n)   == [NoEvent EXCEPT !.type = "init", !.id = id, !.name = n]
Rename(id, n)     == [NoEvent EXCEPT !.type = "rename", !.id = id, !.name = n]
DeleteAll(id)     == [NoEvent EXCEPT !.type = "delete", !.id = id]
Change(id, k, p)  == [NoEvent EXCEPT !.type = "change", !.id = id,
                                     !.top = k, !.head = p]

(***************************************************************************)
(* Where a request is:                                                     *)
(*   "save"    memory is changed, Book.save comes next, then "then"        *)
(*   "init"    a stray blank log is gone, the dataset is to be created     *)
(*   "new"     the dataset is created, its first version is to be saved    *)
(*   "failed"  the first save of a new dataset failed, its log is to go    *)
(*   "put"     the push is in the log, the remote has not answered         *)
(*   "drop"    all versions are marked deleted, the dataset is to follow   *)
(***************************************************************************)
PCs  == {"idle", "init", "new", "failed", "put", "drop"}
Req  == [pc : PCs \union {"save"}, then : PCs, id : Nat,
         name : Names \union {NoName}, evt : Event]
Idle == [pc |-> "idle", then |-> "idle", id |-> 0, name |-> NoName, evt |-> NoEvent]

At(c, pc) == req[c].pc = pc

Init == /\ mem = EmptyJournal
        /\ disk = EmptyJournal
        /\ located = TRUE
        /\ used = 0
        /\ paths = 0
        /\ runs = 0
        /\ req = [c \in Clients |-> Idle]
        /\ bus = NoEvent

\* Client c has changed the journal to j; book.save is the next thing it
\* does, after which it publishes e and goes on at "then".
Write(c, j, then, id, n, e) ==
  /\ mem' = j
  /\ req' = [req EXCEPT ![c] = [pc |-> "save", then |-> then,
                                id |-> id, name |-> n, evt |-> e]]
  /\ UNCHANGED <<disk, located>>

Room(id, k) == Len(mem[id].branch) + k <= MaxOps

-----------------------------------------------------------------------------
(***************************************************************************)
(* Book.save.  The Put may fail: its error is assigned to a variable that  *)
(* shadows the one returned, so the caller goes on as if it had worked,    *)
(* and Book.fsLocation is overwritten with what Put returned, usually "".  *)
(***************************************************************************)
FsPut == \/ /\ located
            /\ disk' = mem
            /\ UNCHANGED located
         \/ /\ located
            /\ FsFaults
            /\ located' \in BOOLEAN
            /\ UNCHANGED disk
         \/ /\ ~located
            /\ UNCHANGED <<disk, located>>

Resume(r) == IF r.then = "idle" THEN Idle
             ELSE [r EXCEPT !.pc = r.then, !.then = "idle", !.evt = NoEvent]

Save(c) ==
  /\ At(c, "save")
  /\ FsPut
  /\ bus' = req[c].evt
  /\ req' = [req EXCEPT ![c] = Resume(req[c])]
  /\ UNCHANGED <<mem, used, paths, runs>>

-----------------------------------------------------------------------------
\* WriteDatasetInit, when the name belongs to a log that never got a version:
\* Book.RemoveLog is called with the name (and saves) before the new log is
\* made.
RemoveStray(c, n) ==
  /\ At(c, "idle")
  /\ \E id \in HeadRef(mem, n) : Blank(mem, id)
  /\ used < MaxDatasets
  /\ Write(c, RemoveLog(mem, n), "init", 0, n, NoEvent)
  /\ bus' = NoEvent
  /\ UNCHANGED <<used, paths, runs>>

\* WriteDatasetInit, when the name is free: the event goes out before the
\* save.  The caller is lib's Save, which now has a first version to write,
\* or fsi's InitDataset, which is done.
WriteDatasetInit(c, n) ==
  /\ \/ At(c, "idle") /\ HeadRef(mem, n) = {}
     \/ At(c, "init") /\ req[c].name = n
  /\ used < MaxDatasets
  /\ used' = used + 1
  /\ \E then \in {"new", "idle"} :
        Write(c, NewDataset(mem, used + 1, n), then, used + 1, n, NoEvent)
  /\ bus' = NameInit(used + 1, n)
  /\ UNCHANGED <<paths, runs>>

\* lib's Save gives up on a new dataset: Book.RemoveLog with its name.
CleanupNew(c) ==
  /\ At(c, "new") \/ At(c, "failed")
  /\ Write(c, RemoveLog(mem, req[c].name), "idle", 0, NoName, NoEvent)
  /\ bus' = NoEvent
  /\ UNCHANGED <<used, paths, runs>>

\* base.RenameDatasetRef and WriteDatasetRename: the new name must not
\* resolve; the event goes out before the save.
WriteDatasetRename(c, n, m) ==
  /\ At(c, "idle")
  /\ n # m
  /\ HeadRef(mem, m) = {}
  /\ \E id \in HeadRef(mem, n) :
        /\ Len(mem[id].ops) <= MaxRenames
        /\ Write(c, AppendDataset(mem, id, [type |-> "amend", name |-> m]),
                 "idle", 0, NoName, NoEvent)
        /\ bus' = Rename(id, m)
  /\ UNCHANGED <<used, paths, runs>>

\* WriteDatasetDelete, by base.RemoveEntireDataset: once the versions are
\* marked deleted, or at once, for a dataset without history and for one whose
\* versions the store cannot delete: that error is reported, and passed over.
WriteDatasetDelete(c, n) ==
  /\ \/ At(c, "drop") /\ req[c].name = n
     \/ At(c, "idle") /\ \E id \in HeadRef(mem, n) : ItemsDefined(mem[id].branch)
  /\ \E id \in HeadRef(mem, n) :
        /\ Write(c, AppendDataset(mem, id, [type |-> "remove", name |-> NoName]),
                 "idle", 0, NoName, NoEvent)
        /\ bus' = DeleteAll(id)
  /\ UNCHANGED <<used, paths, runs>>

\* ... and when the name no longer resolves: the error is only logged.
DropNothing(c) ==
  /\ At(c, "drop")
  /\ HeadRef(mem, req[c].name) = {}
  /\ req' = [req EXCEPT ![c] = Idle]
  /\ bus' = NoEvent
  /\ UNCHANGED <<mem, disk, located, used, paths, runs>>

-----------------------------------------------------------------------------
\* WriteVersionSave: a commit, after the run that produced it if there was
\* one.  The event goes out after the save, with the index of the commit.
VersionSave(c, id, withRun) ==
  LET run == IF withRun THEN runs + 1 ELSE 0
      ran == IF withRun THEN AppendBranch(mem, id, Run(run)) ELSE mem
      j   == AppendBranch(ran, id, Commit(paths + 1, run))
  IN  /\ Room(id, 2)
      /\ paths < MaxVersions
      /\ withRun => runs < MaxRuns
      /\ paths' = paths + 1
      /\ runs' = IF withRun THEN run ELSE runs
      /\ Write(c, j, "idle", id, NoName,
               Change(id, Len(j[id].branch) - 1, paths + 1))
      /\ bus' = NoEvent
      /\ UNCHANGED used

WriteVersionSave(c, n) ==
  \E withRun \in BOOLEAN :
     \/ At(c, "idle") /\ \E id \in HeadRef(mem, n) : VersionSave(c, id, withRun)
     \/ /\ At(c, "new")
        /\ req[c].name = n
        /\ Present(mem, req[c].id)
        /\ VersionSave(c, req[c].id, withRun)

\* WriteTransformRun: a run that failed or changed nothing.  For a new
\* dataset lib's Save then fails, and cleans up.
TransformRun(c, id, then) ==
  /\ Room(id, 1)
  /\ runs < MaxRuns
  /\ runs' = runs + 1
  /\ Write(c, AppendBranch(mem, id, Run(runs + 1)), then, id, req[c].name, NoEvent)
  /\ bus' = NoEvent
  /\ UNCHANGED <<used, paths>>

WriteTransformRun(c, n) ==
  \/ At(c, "idle") /\ \E id \in HeadRef(mem, n) : TransformRun(c, id, "idle")
  \/ /\ At(c, "new")
     /\ req[c].name = n
     /\ Present(mem, req[c].id)
     /\ TransformRun(c, req[c].id, "failed")

\* WriteVersionDelete: the event carries the last of the remaining items,
\* which are ordered newest first, and their number; none left, no event.
VersionDelete(c, id, n, k, then) ==
  LET j    == AppendBranch(mem, id, Delete(k))
      left == VersionInfos(j[id].branch, FALSE)
  IN  /\ Room(id, 1)
      /\ Write(c, j, then, id, n, NoEvent)
      /\ \/ left = <<>> /\ bus' = NoEvent
         \/ \E top \in 1 .. MaxOps, head \in 0 .. MaxVersions :
               /\ top = Len(left)
               /\ head = Last(left).path
               /\ bus' = Change(id, top, head)
      /\ UNCHANGED <<used, paths, runs>>

\* lib's Remove reads the history (it panics where Items does), and removes
\* k versions of it, or all of them with the dataset when k reaches its end.
WriteVersionDelete(c, n) ==
  /\ At(c, "idle")
  /\ \E id \in HeadRef(mem, n) :
        /\ ItemsDefined(mem[id].branch)
        /\ \/ \E k \in 1 .. MaxOps : /\ k < Len(Items(mem[id].branch))
                                     /\ VersionDelete(c, id, n, k, "idle")
           \/ /\ Items(mem[id].branch) # <<>>
              /\ VersionDelete(c, id, n, -1, "drop")

-----------------------------------------------------------------------------
\* A slip to compare with: a push is not recorded twice in a row.
WriteRemotePushOnce(c, n) ==
  /\ At(c, "idle")
  /\ \E id \in HeadRef(mem, n) :
        LET once == Last(mem[id].branch) = Push(1) IN
        /\ Room(id, 1)
        /\ Write(c, IF once THEN mem ELSE AppendBranch(mem, id, Push(1)),
                 "put", id, NoName, NoEvent)
  /\ bus' = NoEvent
  /\ UNCHANGED <<used, paths, runs>>

\* WriteRemotePush, by logsync's Push.Do: the push is in the log the remote
\* is sent.
WriteRemotePush(c, n) ==
  /\ At(c, "idle")
  /\ \E id \in HeadRef(mem, n) :
        /\ Room(id, 1)
        /\ Write(c, AppendBranch(mem, id, Push(1)), "put", id, NoName, NoEvent)
  /\ bus' = NoEvent
  /\ UNCHANGED <<used, paths, runs>>

\* remote.put returned without error.
PushAccepted(c) ==
  /\ At(c, "put")
  /\ req' = [req EXCEPT ![c] = Idle]
  /\ bus' = NoEvent
  /\ UNCHANGED <<mem, disk, located, used, paths, runs>>

\* A slip to compare with: the rollback takes two operations off.
DropTwo(j, id) == [j EXCEPT ![id].branch = Upto(@, Len(@) - 2)]

\* remote.put failed: the rollback takes the LAST operation off the branch
\* log and saves; a log that is no longer there is left alone.
DropLast(j, id) == [j EXCEPT ![id].branch = Upto(@, Len(@) - 1)]

\* A slip to compare with: the rollback is not saved.
PushRefusedUnsaved(c) ==
  /\ At(c, "put")
  /\ req' = [req EXCEPT ![c] = Idle]
  /\ mem' = IF Present(mem, req[c].id) THEN DropLast(mem, req[c].id) ELSE mem
  /\ bus' = NoEvent
  /\ UNCHANGED <<disk, located, used, paths, runs>>

PushRefused(c) ==
  /\ At(c, "put")
  /\ \/ /\ Present(mem, req[c].id)
        /\ Write(c, DropLast(mem, req[c].id), "idle", 0, NoName, NoEvent)
     \/ /\ ~Present(mem, req[c].id)
        /\ req' = [req EXCEPT ![c] = Idle]
        /\ UNCHANGED book
  /\ bus' = NoEvent
  /\ UNCHANGED <<used, paths, runs>>

\* WriteRemoteDelete, by logsync's DoRemove once the remote has dropped its
\* log: every item is marked unpublished.
WriteRemoteDelete(c, n) ==
  /\ At(c, "idle")
  /\ \E id \in HeadRef(mem, n) :
        /\ Room(id, 1)
        /\ ItemsDefined(mem[id].branch)
        /\ \E k \in 0 .. MaxOps :
              /\ k = Len(Items(mem[id].branch))
              /\ Write(c, AppendBranch(mem, id, Unpush(k)), "idle", 0, NoName, NoEvent)
  /\ bus' = NoEvent
  /\ UNCHANGED <<used, paths, runs>>

-----------------------------------------------------------------------------
\* The process ends at any point; NewJournal loads the file on the next start.
Restart ==
  /\ mem' = disk
  /\ located' = TRUE
  /\ req' = [c \in Clients |-> Idle]
  /\ bus' = NoEvent
  /\ UNCHANGED <<disk, used, paths, runs>>

NameStep(c, n) ==
  \/ RemoveStray(c, n)
  \/ WriteDatasetInit(c, n)
  \/ WriteDatasetDelete(c, n)
  \/ WriteVersionSave(c, n)
  \/ WriteTransformRun(c, n)
  \/ WriteVersionDelete(c, n)
  \/ WriteRemotePush(c, n)
  \/ WriteRemoteDelete(c, n)
  \/ \E m \in Names : WriteDatasetRename(c, n, m)

ClientStep(c) ==
  \/ Save(c)
  \/ CleanupNew(c)
  \/ DropNothing(c)
  \/ PushAccepted(c)
  \/ PushRefused(c)
  \/ \E n \in Names : NameStep(c, n)

Next == Restart \/ \E c \in Clients : ClientStep(c)

Spec == Init /\ [][Next]_vars

-----------------------------------------------------------------------------
\* The types of the state: journals of logs of operations, requests, events.
TypeOK ==
  /\ mem \in Journal
  /\ disk \in Journal
  /\ located \in BOOLEAN
  /\ used \in Nat
  /\ paths \in Nat
  /\ runs \in Nat
  /\ req \in [Clients -> Req]
  /\ bus \in Event

\* Once no request stands between its change of the journal and its return
\* from Book.save, the file holds exactly what memory holds: whatever a caller
\* was told is done survives a restart.
QuiescentDurable == (\A c \in Clients : ~At(c, "save")) => disk = mem

\* The pushes of a dataset whose rollback may still come.
InFlight(id) ==
  {c \in Clients : /\ req[c].id = id
                   /\ At(c, "put") \/ (At(c, "save") /\ req[c].then = "put")}

\* Every log in the journal begins with the operation that initialised it.
Rooted(j) ==
  \A id \in Ids : Present(j, id) =>
     j[id].branch # <<>> /\ j[id].branch[1] = BranchInit

\* However many pushes are under way and in whatever order they fail, the
\* rollbacks, which each take the last operation off, never reach the
\* operation that initialised the branch: a log keeps its identity.
InitKept ==
  \A id \in Ids : Present(mem, id) =>
     /\ Len(mem[id].branch) >= 1 + Cardinality(InFlight(id))
     /\ mem[id].branch[1] = BranchInit

\* Reading the log back: where branchToVersionInfos stays within its slices,
\* and every run led to a commit, it lists, newest first, exactly the versions
\* that were saved and not deleted, and addReferencedPaths, which folds the
\* same log in its own way, keeps exactly those in use.
ReadersAgree ==
  \A id \in Ids :
     LET b == mem[id].branch IN
     ItemsDefined(b) /\ ~BareRun(b) =>
        /\ [i \in DOMAIN Items(b) |-> Items(b)[i].path] = Reverse(Versions(b))
        /\ addReferencedPaths(b) = [paths |-> Versions(b), ok |-> TRUE]

\* The stack of versions each log stands for, its deletes and its removal.
Stacks(j) ==
  [id \in Ids |->
     [live    |-> Versions(j[id].branch),
      deletes |-> Cardinality({i \in DOMAIN j[id].branch :
                                 IsCommit(j[id].branch[i], "remove")}),
      removed |-> Removed(j, id)]]

\* The logs that go by the same name as another one, while neither is removed.
Shared(j) ==
  {id \in Ids : \E n \in Names, k \in Ids \ {id} :
                   /\ Live(j, id) /\ Named(j, id, n)
                   /\ Live(j, k) /\ Named(j, k, n)}

\* Versions are lost to recorded deletes only, or with the log of a dataset
\* that was removed or shares its name: pushes, their rollbacks, runs, renames
\* and restarts never add, lose or reorder one.
Abstract == INSTANCE VersionStack
              WITH Datasets <- Ids, Paths <- 1 .. MaxVersions,
                   stacks <- Stacks(mem), stable <- Stacks(disk),
                   shared <- Shared(mem)
ImplementsVersionStack == Abstract!Spec

\* A commit that is in the file, so that its caller may have been told of it,
\* is not taken out of the log again while the log is there.
CommitsKept ==
  \A id \in Ids : Present(mem, id) =>
     \A i \in DOMAIN disk[id].branch :
        IsCommit(disk[id].branch[i], "init") =>
           /\ i \in DOMAIN mem[id].branch
           /\ mem[id].branch[i] = disk[id].branch[i]

=============================================================================
