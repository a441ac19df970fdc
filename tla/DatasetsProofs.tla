--------------------------- MODULE DatasetsProofs ---------------------------
(***************************************************************************)
(* Proofs about the methods that change a repository's own datasets, for   *)
(* any names, directories, versions and logs.                              *)
(***************************************************************************)
EXTENDS Datasets, FiniteSetTheorems, NaturalsInduction, TLAPS

-----------------------------------------------------------------------------
(* What the stores hold, as far as undoing an init depends on it. *)

\* The fields of a request and of a directory.
Fields == {"op", "pc", "name", "next", "dir", "n", "left", "new", "keep", "force", "id", "path", "at", "fsi",
           "held", "fresh", "why", "before"}
DirFields == {"exists", "link", "files"}

\* A refstore: a name without a reference is NoRef and nothing else.
Refs(r) == /\ r = [x \in Names |-> r[x]]
           /\ \A x \in Names : r[x] = NoRef \/ r[x].stored

\* The directories: one that is not there has no more than a link and files.
Folders(ds) == /\ ds = [d \in Dirs |-> ds[d]]
               /\ \A d \in Dirs : ds[d] = [f \in DirFields |-> ds[d][f]] /\ ds[d].exists \in BOOLEAN

\* A request, and what it has read of the refstore: as long as it is the only
\* one, that is what is there.
Local(c) == /\ DOMAIN me = Clients /\ DOMAIN me[c] = Fields
            /\ Refs(me[c].held) /\ (me[c].fresh => me[c].held = refs)

World(c) == Refs(refs) /\ Folders(dirs) /\ Local(c)

\* A refstore with one reference put or deleted is a refstore.
LEMMA RefsPut ==
  ASSUME NEW r, Refs(r), NEW x, NEW q, q = NoRef \/ q.stored
  PROVE  Refs([r EXCEPT ![x] = q])
BY DEF Refs

\* A reference that is put is there.
LEMMA Stored == ASSUME NEW p, NEW d PROVE Ref(p, d).stored
BY DEF Ref

\* Directories after a field of one of them, or one of them, was set.
LEMMA FoldersSet ==
  ASSUME NEW ds, Folders(ds), NEW d, NEW v
  PROVE  /\ Folders([ds EXCEPT ![d].exists = TRUE])
         /\ Folders([ds EXCEPT ![d].link = v])
         /\ Folders([ds EXCEPT ![d].files = v])
         /\ Folders([ds EXCEPT ![d] = NoDirectory])
<1>1. Folders([ds EXCEPT ![d].exists = TRUE])
  BY DEF Folders, DirFields
<1>2. Folders([ds EXCEPT ![d].link = v])
  BY DEF Folders, DirFields
<1>3. Folders([ds EXCEPT ![d].files = v])
  BY DEF Folders, DirFields
<1>4. Folders([ds EXCEPT ![d] = NoDirectory])
  BY DEF Folders, DirFields, NoDirectory
<1> QED BY <1>1, <1>2, <1>3, <1>4

\* A client without a request.
LEMMA IdleLocal ==
  Refs(Idle.held) /\ DOMAIN Idle = Fields /\ Idle.fresh = FALSE /\ Idle.pc = "idle"
BY DEF Idle, Fields, Refs

\* What InitDataset did to a directory that was not there is undone by deleting it.
LEMMA Undone ==
  ASSUME NEW ds, Folders(ds), NEW d \in Dirs, ~ds[d].exists, ds[d].link = NoName, ds[d].files = NoFiles,
         NEW es, es = [e \in Dirs |-> es[e]], es[d] = NoDirectory, \A e \in Dirs : e # d => es[e] = ds[e]
  PROVE  es = ds
<1>1. ds[d] = NoDirectory
  BY DEF Folders, DirFields, NoDirectory
<1> QED BY <1>1 DEF Folders

\* A link file that was written and deleted leaves the directory as it was.
LEMMA Relinked ==
  ASSUME NEW ds, Folders(ds), NEW d \in Dirs, ds[d].link = NoName, NEW x
  PROVE  [[ds EXCEPT ![d].link = x] EXCEPT ![d].link = NoName] = ds
BY DEF Folders, DirFields

\* Making a directory that is there changes nothing.
LEMMA Same ==
  ASSUME NEW ds, Folders(ds), NEW d \in Dirs, ds[d].exists
  PROVE  [ds EXCEPT ![d].exists = TRUE] = ds
BY DEF Folders, DirFields
\* Where an init is under way.
InitPcs == {"iniCheck", "iniLog", "iniPut", "iniLink", "iniFiles", "rollback", "rolled"}

\* A request that returns, and one that goes on.
LEMMA LocalReturn ==
  ASSUME NEW c, Clients = {c}, DOMAIN me = Clients, Return(c)
  PROVE  Local(c)' /\ me'[c].pc = "idle"
<1>1. me'[c] = Idle /\ DOMAIN me' = Clients
  BY DEF Return
<1> QED BY <1>1, IdleLocal DEF Local, Refs

\* A request that only goes on keeps what it has read.
LEMMA LocalGo ==
  ASSUME NEW c, Clients = {c}, Local(c), NEW p, Go(c, p), refs' = refs
  PROVE  /\ Local(c)' /\ me'[c].pc = p
         /\ me'[c].name = me[c].name /\ me'[c].dir = me[c].dir /\ me'[c].why = me[c].why
         /\ me'[c].before = me[c].before /\ me'[c].fresh = me[c].fresh
BY DEF Local, Go, Fields, Refs

\* Every step that is no step of an init leaves the stores as they should be and
\* is not in an init afterwards.
LEMMA OtherSteps ==
  ASSUME NEW c, Clients = {c}, World(c),
         \/ ReadRefs(c) /\ me[c].pc \notin InitPcs
         \/ Crash(c) \/ SaveStep(c) \/ RenameStep(c) \/ RemoveStep(c) \/ LinkStep(c)
         \/ (Request(c) /\ ~InitDataset(c)) \/ ByHand
  PROVE  World(c)' /\ me'[c].pc \notin InitPcs
<1>0. /\ Refs(refs) /\ Folders(dirs) /\ Local(c) /\ Refs(me[c].held)
      /\ DOMAIN me = Clients /\ DOMAIN me[c] = Fields /\ (me[c].fresh => me[c].held = refs)
  BY DEF World, Local
<1>r. Return(c) => Local(c)' /\ me'[c].pc = "idle"
  BY <1>0, LocalReturn
<1>g. ASSUME NEW p, Go(c, p), refs' = refs PROVE Local(c)' /\ me'[c].pc = p
  BY <1>0, <1>g, LocalGo
<1>1. CASE Save(c)
  <2>1. Refs(refs')
    BY <1>0, <1>1, Stored DEF Save, Begin, NoFault
  <2>2. Folders(dirs')
    BY <1>0, <1>1 DEF Save, Begin, NoFault
  <2>3. Local(c)' /\ me'[c].pc \notin InitPcs
    BY <1>0, <1>1, <1>r, <1>g DEF Local, InitPcs, Fields, Save, Begin, NoFault, Idle, Refs
  <2> QED BY <2>1, <2>2, <2>3 DEF World
<1>2. CASE Rename(c)
  <2>1. Refs(refs')
    BY <1>0, <1>2, Stored DEF Rename, Begin, NoFault
  <2>2. Folders(dirs')
    BY <1>0, <1>2 DEF Rename, Begin, NoFault
  <2>3. Local(c)' /\ me'[c].pc \notin InitPcs
    BY <1>0, <1>2, <1>r, <1>g DEF Local, InitPcs, Fields, Rename, Begin, NoFault, Idle, Refs
  <2> QED BY <2>1, <2>2, <2>3 DEF World
<1>3. CASE Remove(c)
  <2>1. Refs(refs')
    BY <1>0, <1>3, Stored DEF Remove, Begin, NoFault
  <2>2. Folders(dirs')
    BY <1>0, <1>3 DEF Remove, Begin, NoFault
  <2>3. Local(c)' /\ me'[c].pc \notin InitPcs
    BY <1>0, <1>3, <1>r, <1>g DEF Local, InitPcs, Fields, Remove, Begin, NoFault, Idle, Refs
  <2> QED BY <2>1, <2>2, <2>3 DEF World
<1>4. CASE Checkout(c)
  <2>1. Refs(refs')
    BY <1>0, <1>4, Stored DEF Checkout, Begin, NoFault
  <2>2. Folders(dirs')
    BY <1>0, <1>4 DEF Checkout, Begin, NoFault
  <2>3. Local(c)' /\ me'[c].pc \notin InitPcs
    BY <1>0, <1>4, <1>r, <1>g DEF Local, InitPcs, Fields, Checkout, Begin, NoFault, Idle, Refs
  <2> QED BY <2>1, <2>2, <2>3 DEF World
<1>5. CASE Unlink(c)
  <2>1. Refs(refs')
    BY <1>0, <1>5, Stored DEF Unlink, Begin, NoFault
  <2>2. Folders(dirs')
    BY <1>0, <1>5 DEF Unlink, Begin, NoFault
  <2>3. Local(c)' /\ me'[c].pc \notin InitPcs
    BY <1>0, <1>5, <1>r, <1>g DEF Local, InitPcs, Fields, Unlink, Begin, NoFault, Idle, Refs
  <2> QED BY <2>1, <2>2, <2>3 DEF World
<1>6. CASE EnsureRef(c)
  <2>1. Refs(refs')
    BY <1>0, <1>6, Stored DEF EnsureRef, Begin, NoFault
  <2>2. Folders(dirs')
    BY <1>0, <1>6 DEF EnsureRef, Begin, NoFault
  <2>3. Local(c)' /\ me'[c].pc \notin InitPcs
    BY <1>0, <1>6, <1>r, <1>g DEF Local, InitPcs, Fields, EnsureRef, Begin, NoFault, Idle, Refs
  <2> QED BY <2>1, <2>2, <2>3 DEF World
<1>7. CASE ReadRefs(c) /\ me[c].pc \notin InitPcs
  <2>1. Refs(refs')
    BY <1>0, <1>7, Stored DEF ReadRefs, NoFault, Nothing
  <2>2. Folders(dirs')
    BY <1>0, <1>7 DEF ReadRefs, NoFault, Nothing
  <2>3. Local(c)' /\ me'[c].pc \notin InitPcs
    BY <1>0, <1>7, <1>r, <1>g DEF Local, InitPcs, Fields, ReadRefs, NoFault, Nothing
  <2> QED BY <2>1, <2>2, <2>3 DEF World
<1>8. CASE Crash(c)
  <2>1. Refs(refs')
    BY <1>0, <1>8, Stored DEF Crash, Nothing
  <2>2. Folders(dirs')
    BY <1>0, <1>8 DEF Crash, Nothing
  <2>3. Local(c)' /\ me'[c].pc \notin InitPcs
    BY <1>0, <1>8, <1>r, <1>g DEF Local, InitPcs, Fields, Crash, Nothing
  <2> QED BY <2>1, <2>2, <2>3 DEF World
<1>9. CASE PrepareSaveRef(c)
  <2>1. Refs(refs')
    BY <1>0, <1>9, Stored DEF PrepareSaveRef, At, BookOnly, Nothing
  <2>2. Folders(dirs')
    BY <1>0, <1>9 DEF PrepareSaveRef, At, BookOnly, Nothing
  <2>3. Local(c)' /\ me'[c].pc \notin InitPcs
    BY <1>0, <1>9, <1>r, <1>g DEF Local, InitPcs, Fields, PrepareSaveRef, At, BookOnly, Nothing
  <2> QED BY <2>1, <2>2, <2>3 DEF World
<1>10. CASE ReadWorkingDir(c)
  <2>1. Refs(refs')
    BY <1>0, <1>10, Stored DEF ReadWorkingDir, At, Nothing
  <2>2. Folders(dirs')
    BY <1>0, <1>10 DEF ReadWorkingDir, At, Nothing
  <2>3. Local(c)' /\ me'[c].pc \notin InitPcs
    BY <1>0, <1>10, <1>r, <1>g DEF Local, InitPcs, Fields, ReadWorkingDir, At, Nothing
  <2> QED BY <2>1, <2>2, <2>3 DEF World
<1>11. CASE SaveRefused(c)
  <2>1. Refs(refs')
    BY <1>0, <1>11, Stored DEF SaveRefused, At, Failed, BookAndRuns
  <2>2. Folders(dirs')
    BY <1>0, <1>11 DEF SaveRefused, At, Failed, BookAndRuns
  <2>3. Local(c)' /\ me'[c].pc \notin InitPcs
    BY <1>0, <1>11, <1>r, <1>g DEF Local, InitPcs, Fields, SaveRefused, At, Failed, BookAndRuns
  <2> QED BY <2>1, <2>2, <2>3 DEF World
<1>12. CASE WriteVersion(c)
  <2>1. Refs(refs')
    BY <1>0, <1>12, Stored DEF WriteVersion, At, Failed, StoreOnly, Nothing
  <2>2. Folders(dirs')
    BY <1>0, <1>12 DEF WriteVersion, At, Failed, StoreOnly, Nothing
  <2>3. Local(c)' /\ me'[c].pc \notin InitPcs
    <3>1. refs' = refs
      BY <1>12 DEF WriteVersion, StoreOnly, Nothing
    <3>2. CASE Failed(c)
      BY <3>1, <3>2, <1>r, <1>g DEF Failed, InitPcs
    <3>3. CASE me' = [me EXCEPT ![c].at = Len(prev) + 1, ![c].pc = IF me[c].path = 0 THEN "putRef" ELSE "dropRef"]
      BY <1>0, <3>1, <3>3 DEF Local, InitPcs, Fields
    <3> QED BY <1>12, <3>2, <3>3 DEF WriteVersion
  <2> QED BY <2>1, <2>2, <2>3 DEF World
<1>13. CASE DropRef(c)
  <2>1. Refs(refs')
    BY <1>0, <1>13, Stored DEF DropRef, At, PutRef, RefsOnly, Nothing, Refs
  <2>2. Folders(dirs')
    BY <1>0, <1>13 DEF DropRef, At, PutRef, RefsOnly, Nothing
  <2>3. Local(c)' /\ me'[c].pc \notin InitPcs
    BY <1>0, <1>13, <1>r, <1>g DEF Local, InitPcs, Fields, DropRef, At, PutRef, RefsOnly, Nothing
  <2> QED BY <2>1, <2>2, <2>3 DEF World
<1>14. CASE CreateDatasetRef(c)
  <2>1. Refs(refs')
    BY <1>0, <1>14, Stored DEF CreateDatasetRef, At, PutRef, Failed, RefsOnly, Nothing, Refs
  <2>2. Folders(dirs')
    BY <1>0, <1>14 DEF CreateDatasetRef, At, PutRef, Failed, RefsOnly, Nothing
  <2>3. Local(c)' /\ me'[c].pc \notin InitPcs
    BY <1>0, <1>14, <1>r, <1>g DEF Local, InitPcs, Fields, CreateDatasetRef, At, PutRef, Failed, RefsOnly, Nothing
  <2> QED BY <2>1, <2>2, <2>3 DEF World
<1>15. CASE WriteVersionSave(c)
  <2>1. Refs(refs')
    BY <1>0, <1>15, Stored DEF WriteVersionSave, At, Failed, BookOnly, Nothing
  <2>2. Folders(dirs')
    BY <1>0, <1>15 DEF WriteVersionSave, At, Failed, BookOnly, Nothing
  <2>3. Local(c)' /\ me'[c].pc \notin InitPcs
    <3>1. refs' = refs /\ (Return(c) \/ Go(c, "putLink") \/ Failed(c))
      BY <1>15 DEF WriteVersionSave, BookOnly, Nothing
    <3> QED BY <3>1, <1>r, <1>g DEF Failed, InitPcs
  <2> QED BY <2>1, <2>2, <2>3 DEF World
<1>16. CASE PutLink(c)
  <2>1. Refs(refs')
    BY <1>0, <1>16, Stored DEF PutLink, At, PutRef, RefsOnly, Nothing, Refs
  <2>2. Folders(dirs')
    BY <1>0, <1>16 DEF PutLink, At, PutRef, RefsOnly, Nothing
  <2>3. Local(c)' /\ me'[c].pc \notin InitPcs
    BY <1>0, <1>16, <1>r, <1>g DEF Local, InitPcs, Fields, PutLink, At, PutRef, RefsOnly, Nothing
  <2> QED BY <2>1, <2>2, <2>3 DEF World
<1>17. CASE WriteComponents(c)
  <2>1. Refs(refs')
    BY <1>0, <1>17, Stored DEF WriteComponents, At, DirsOnly
  <2>2. Folders(dirs')
    BY <1>0, <1>17 DEF WriteComponents, At, DirsOnly, Folders, DirFields, NoDirectory
  <2>3. Local(c)' /\ me'[c].pc \notin InitPcs
    BY <1>0, <1>17, <1>r, <1>g DEF Local, InitPcs, Fields, WriteComponents, At, DirsOnly
  <2> QED BY <2>1, <2>2, <2>3 DEF World
<1>18. CASE Cleanup(c)
  <2>1. Refs(refs')
    BY <1>0, <1>18, Stored DEF Cleanup, At, BookOnly
  <2>2. Folders(dirs')
    BY <1>0, <1>18 DEF Cleanup, At, BookOnly
  <2>3. Local(c)' /\ me'[c].pc \notin InitPcs
    BY <1>0, <1>18, <1>r, <1>g DEF Local, InitPcs, Fields, Cleanup, At, BookOnly
  <2> QED BY <2>1, <2>2, <2>3 DEF World
<1>19. CASE ResolveRename(c)
  <2>1. Refs(refs')
    BY <1>0, <1>19, Stored DEF ResolveRename, At, Nothing
  <2>2. Folders(dirs')
    BY <1>0, <1>19 DEF ResolveRename, At, Nothing
  <2>3. Local(c)' /\ me'[c].pc \notin InitPcs
    BY <1>0, <1>19, <1>r, <1>g DEF Local, InitPcs, Fields, ResolveRename, At, Nothing
  <2> QED BY <2>1, <2>2, <2>3 DEF World
<1>20. CASE WriteDatasetRename(c)
  <2>1. Refs(refs')
    BY <1>0, <1>20, Stored DEF WriteDatasetRename, At, BookOnly, Nothing
  <2>2. Folders(dirs')
    BY <1>0, <1>20 DEF WriteDatasetRename, At, BookOnly, Nothing
  <2>3. Local(c)' /\ me'[c].pc \notin InitPcs
    BY <1>0, <1>20, <1>r, <1>g DEF Local, InitPcs, Fields, WriteDatasetRename, At, BookOnly, Nothing
  <2> QED BY <2>1, <2>2, <2>3 DEF World
<1>21. CASE RenameDelete(c)
  <2>1. Refs(refs')
    BY <1>0, <1>21, Stored DEF RenameDelete, At, RefsOnly, Nothing, Refs
  <2>2. Folders(dirs')
    BY <1>0, <1>21 DEF RenameDelete, At, RefsOnly, Nothing
  <2>3. Local(c)' /\ me'[c].pc \notin InitPcs
    BY <1>0, <1>21, <1>r, <1>g DEF Local, InitPcs, Fields, RenameDelete, At, RefsOnly, Nothing
  <2> QED BY <2>1, <2>2, <2>3 DEF World
<1>22. CASE RenamePut(c)
  <2>1. Refs(refs')
    BY <1>0, <1>22, Stored DEF RenamePut, At, PutRef, RefsOnly, Nothing, Refs
  <2>2. Folders(dirs')
    BY <1>0, <1>22 DEF RenamePut, At, PutRef, RefsOnly, Nothing
  <2>3. Local(c)' /\ me'[c].pc \notin InitPcs
    BY <1>0, <1>22, <1>r, <1>g DEF Local, InitPcs, Fields, RenamePut, At, PutRef, RefsOnly, Nothing
  <2> QED BY <2>1, <2>2, <2>3 DEF World
<1>23. CASE RenameLink(c)
  <2>1. Refs(refs')
    BY <1>0, <1>23, Stored DEF RenameLink, At, DirsOnly, Nothing
  <2>2. Folders(dirs')
    BY <1>0, <1>23 DEF RenameLink, At, DirsOnly, Nothing, Folders, DirFields, NoDirectory
  <2>3. Local(c)' /\ me'[c].pc \notin InitPcs
    BY <1>0, <1>23, <1>r, <1>g DEF Local, InitPcs, Fields, RenameLink, At, DirsOnly, Nothing
  <2> QED BY <2>1, <2>2, <2>3 DEF World
<1>24. CASE ResolveRemove(c)
  <2>1. Refs(refs')
    BY <1>0, <1>24 DEF ResolveRemove
  <2>2. Folders(dirs')
    BY <1>0, <1>24 DEF ResolveRemove
  <2>3. Local(c)' /\ me'[c].pc \notin InitPcs
    <3>1. refs' = refs
      BY <1>24 DEF ResolveRemove
    <3>2. CASE Return(c)
      BY <3>2, <1>r DEF InitPcs
    <3>3. CASE me' = [me EXCEPT ![c].pc = "rmLog", ![c].n = All]
      BY <1>0, <3>1, <3>3 DEF Local, InitPcs, Fields
    <3>4. ASSUME NEW i, NEW r, PlanRemove(c, i, r) PROVE Local(c)' /\ me'[c].pc \notin InitPcs
      <4> DEFINE n == IF me[c].n = All \/ me[c].n >= Items(i) THEN All ELSE me[c].n
                 on == IF n # All THEN "rmVersion"
                       ELSE IF r.fsi # NoDir THEN "unlink"
                       ELSE IF me[c].n # All /\ Items(i) > 0 /\ r.path # 0 THEN "rmVersion" ELSE "rmLog"
      <4>1. on \in {"rmVersion", "unlink", "rmLog"}
        OBVIOUS
      <4>2. me' = [me EXCEPT ![c].id = i, ![c].n = n, ![c].left = n, ![c].fsi = r.fsi,
                             ![c].path = r.path, ![c].at = r.path, ![c].pc = on]
        BY <3>4 DEF PlanRemove
      <4> HIDE DEF n, on
      <4> QED BY <1>0, <3>1, <4>1, <4>2 DEF Local, InitPcs, Fields
    <3> QED BY <1>24, <3>2, <3>3, <3>4 DEF ResolveRemove
  <2> QED BY <2>1, <2>2, <2>3 DEF World
<1>25. CASE UnlinkRemoved(c)
  <2>1. Refs(refs')
    BY <1>0, <1>25, Stored DEF UnlinkRemoved, At, Nothing, Refs
  <2>2. Folders(dirs')
    <3>1. dirs' = dirs \/ dirs' = [dirs EXCEPT ![me[c].fsi].link = NoName]
      BY <1>25 DEF UnlinkRemoved, Nothing
    <3>2. Folders([dirs EXCEPT ![me[c].fsi].link = NoName])
      BY <1>0, FoldersSet
    <3> QED BY <1>0, <3>1, <3>2
  <2>3. Local(c)' /\ me'[c].pc \notin InitPcs
    BY <1>0, <1>25, <1>r, <1>g DEF Local, InitPcs, Fields, UnlinkRemoved, At, Nothing
  <2> QED BY <2>1, <2>2, <2>3 DEF World
<1>26. CASE DeleteVersion(c)
  <2>1. Refs(refs')
    BY <1>0, <1>26, Stored DEF DeleteVersion, At, GoOn, Nothing
  <2>2. Folders(dirs')
    BY <1>0, <1>26 DEF DeleteVersion, At, GoOn, Nothing
  <2>3. Local(c)' /\ me'[c].pc \notin InitPcs
    BY <1>0, <1>26, <1>r, <1>g DEF Local, InitPcs, Fields, DeleteVersion, At, GoOn, Nothing
  <2> QED BY <2>1, <2>2, <2>3 DEF World
<1>27. CASE Rewind(c)
  <2>1. Refs(refs')
    BY <1>0, <1>27, Stored DEF Rewind, At, GoOn, RefsOnly, Nothing, Refs
  <2>2. Folders(dirs')
    BY <1>0, <1>27 DEF Rewind, At, GoOn, RefsOnly, Nothing
  <2>3. Local(c)' /\ me'[c].pc \notin InitPcs
    BY <1>0, <1>27, <1>r, <1>g DEF Local, InitPcs, Fields, Rewind, At, GoOn, RefsOnly, Nothing
  <2> QED BY <2>1, <2>2, <2>3 DEF World
<1>27p. CASE RewindPut(c)
  <2>1. Refs(refs')
    BY <1>0, <1>27p, Stored DEF RewindPut, At, PutRef, GoOn, RefsOnly, Nothing, Refs
  <2>2. Folders(dirs')
    BY <1>0, <1>27p DEF RewindPut, At, PutRef, GoOn, RefsOnly, Nothing
  <2>3. Local(c)' /\ me'[c].pc \notin InitPcs
    BY <1>0, <1>27p, <1>r, <1>g DEF Local, InitPcs, Fields, RewindPut, At, PutRef, GoOn, RefsOnly, Nothing
  <2> QED BY <2>1, <2>2, <2>3 DEF World
<1>28. CASE WriteVersionDelete(c)
  <2>1. Refs(refs')
    BY <1>0, <1>28, Stored DEF WriteVersionDelete, At, GoOn, BookAndRuns, Nothing
  <2>2. Folders(dirs')
    BY <1>0, <1>28 DEF WriteVersionDelete, At, GoOn, BookAndRuns, Nothing
  <2>3. Local(c)' /\ me'[c].pc \notin InitPcs
    <3>1. refs' = refs /\ (Return(c) \/ Go(c, "rmLog") \/ Go(c, "rmFiles"))
      BY <1>28 DEF WriteVersionDelete, GoOn, BookAndRuns, Nothing
    <3> QED BY <3>1, <1>r, <1>g DEF InitPcs
  <2> QED BY <2>1, <2>2, <2>3 DEF World
<1>29. CASE WriteDatasetDelete(c)
  <2>1. Refs(refs')
    BY <1>0, <1>29, Stored DEF WriteDatasetDelete, At, BookOnly, Nothing
  <2>2. Folders(dirs')
    BY <1>0, <1>29 DEF WriteDatasetDelete, At, BookOnly, Nothing
  <2>3. Local(c)' /\ me'[c].pc \notin InitPcs
    BY <1>0, <1>29, <1>r, <1>g DEF Local, InitPcs, Fields, WriteDatasetDelete, At, BookOnly, Nothing
  <2> QED BY <2>1, <2>2, <2>3 DEF World
<1>30. CASE RemoveRef(c)
  <2>1. Refs(refs')
    BY <1>0, <1>30, Stored DEF RemoveRef, At, PutRef, RefsOnly, Nothing, Refs
  <2>2. Folders(dirs')
    BY <1>0, <1>30 DEF RemoveRef, At, PutRef, RefsOnly, Nothing
  <2>3. Local(c)' /\ me'[c].pc \notin InitPcs
    BY <1>0, <1>30, <1>r, <1>g DEF Local, InitPcs, Fields, RemoveRef, At, PutRef, RefsOnly, Nothing
  <2> QED BY <2>1, <2>2, <2>3 DEF World
<1>31. CASE RemoveFiles(c)
  <2>1. Refs(refs')
    BY <1>0, <1>31, Stored DEF RemoveFiles, At, DirsOnly, Nothing
  <2>2. Folders(dirs')
    <3> DEFINE d == IF me[c].n = All THEN me[c].fsi ELSE me[c].dir
               es == [dirs EXCEPT ![d] = IF me[c].n # All THEN [@ EXCEPT !.files = me[c].at]
                                         ELSE IF @.link = NoName THEN NoDirectory
                                         ELSE [@ EXCEPT !.files = NoFiles]]
    <3>1. dirs' = dirs \/ dirs' = es
      BY <1>31 DEF RemoveFiles, DirsOnly, Nothing
    <3>2. Folders(es)
      <4> HIDE DEF d
      <4> QED BY <1>0 DEF Folders, DirFields, NoDirectory
    <3> HIDE DEF es
    <3> QED BY <1>0, <3>1, <3>2
  <2>3. Local(c)' /\ me'[c].pc \notin InitPcs
    BY <1>0, <1>31, <1>r, <1>g DEF Local, InitPcs, Fields, RemoveFiles, At, DirsOnly, Nothing
  <2> QED BY <2>1, <2>2, <2>3 DEF World
<1>32. CASE CheckCheckout(c)
  <2>1. Refs(refs')
    BY <1>0, <1>32, Stored DEF CheckCheckout, At, DirsOnly
  <2>2. Folders(dirs')
    <3>1. dirs' = dirs \/ dirs' = [dirs EXCEPT ![me[c].dir].exists = TRUE]
      BY <1>32 DEF CheckCheckout
    <3>2. Folders([dirs EXCEPT ![me[c].dir].exists = TRUE])
      BY <1>0, FoldersSet
    <3> QED BY <1>0, <3>1, <3>2
  <2>3. Local(c)' /\ me'[c].pc \notin InitPcs
    BY <1>0, <1>32, <1>r, <1>g DEF Local, InitPcs, Fields, CheckCheckout, At, DirsOnly
  <2> QED BY <2>1, <2>2, <2>3 DEF World
<1>33. CASE CheckoutRef(c)
  <2>1. Refs(refs')
    BY <1>0, <1>33, Stored DEF CheckoutRef, At, PutRef, RefsOnly, Nothing, Refs
  <2>2. Folders(dirs')
    BY <1>0, <1>33 DEF CheckoutRef, At, PutRef, RefsOnly, Nothing
  <2>3. Local(c)' /\ me'[c].pc \notin InitPcs
    BY <1>0, <1>33, <1>r, <1>g DEF Local, InitPcs, Fields, CheckoutRef, At, PutRef, RefsOnly, Nothing
  <2> QED BY <2>1, <2>2, <2>3 DEF World
<1>34. CASE CheckoutLink(c)
  <2>1. Refs(refs')
    BY <1>0, <1>34, Stored DEF CheckoutLink, At, DirsOnly
  <2>2. Folders(dirs')
    BY <1>0, <1>34 DEF CheckoutLink, At, DirsOnly, Folders, DirFields, NoDirectory
  <2>3. Local(c)' /\ me'[c].pc \notin InitPcs
    BY <1>0, <1>34, <1>r, <1>g DEF Local, InitPcs, Fields, CheckoutLink, At, DirsOnly
  <2> QED BY <2>1, <2>2, <2>3 DEF World
<1>35. CASE CheckoutFiles(c)
  <2>1. Refs(refs')
    BY <1>0, <1>35, Stored DEF CheckoutFiles, At, DirsOnly
  <2>2. Folders(dirs')
    BY <1>0, <1>35 DEF CheckoutFiles, At, DirsOnly, Folders, DirFields, NoDirectory
  <2>3. Local(c)' /\ me'[c].pc \notin InitPcs
    BY <1>0, <1>35, <1>r, <1>g DEF Local, InitPcs, Fields, CheckoutFiles, At, DirsOnly
  <2> QED BY <2>1, <2>2, <2>3 DEF World
<1>36. CASE UnlinkFile(c)
  <2>1. Refs(refs')
    BY <1>0, <1>36, Stored DEF UnlinkFile, At, DirsOnly
  <2>2. Folders(dirs')
    BY <1>0, <1>36 DEF UnlinkFile, At, DirsOnly, Folders, DirFields, NoDirectory
  <2>3. Local(c)' /\ me'[c].pc \notin InitPcs
    BY <1>0, <1>36, <1>r, <1>g DEF Local, InitPcs, Fields, UnlinkFile, At, DirsOnly
  <2> QED BY <2>1, <2>2, <2>3 DEF World
<1>37. CASE UnlinkRef(c)
  <2>1. Refs(refs')
    BY <1>0, <1>37, Stored DEF UnlinkRef, At, PutRef, RefsOnly, Nothing, Refs
  <2>2. Folders(dirs')
    BY <1>0, <1>37 DEF UnlinkRef, At, PutRef, RefsOnly, Nothing
  <2>3. Local(c)' /\ me'[c].pc \notin InitPcs
    BY <1>0, <1>37, <1>r, <1>g DEF Local, InitPcs, Fields, UnlinkRef, At, PutRef, RefsOnly, Nothing
  <2> QED BY <2>1, <2>2, <2>3 DEF World
<1>38. CASE ModifyLinkDirectory(c)
  <2>1. Refs(refs')
    BY <1>0, <1>38, Stored DEF ModifyLinkDirectory, At, Nothing, Refs
  <2>2. Folders(dirs')
    BY <1>0, <1>38 DEF ModifyLinkDirectory, At, Nothing
  <2>3. Local(c)' /\ me'[c].pc \notin InitPcs
    BY <1>0, <1>38, <1>r, <1>g DEF Local, InitPcs, Fields, ModifyLinkDirectory, At, Nothing
  <2> QED BY <2>1, <2>2, <2>3 DEF World
<1>39. CASE Done(c)
  <2>1. Refs(refs')
    BY <1>0, <1>39, Stored DEF Done, At, Nothing
  <2>2. Folders(dirs')
    BY <1>0, <1>39 DEF Done, At, Nothing
  <2>3. Local(c)' /\ me'[c].pc \notin InitPcs
    BY <1>0, <1>39, <1>r, <1>g DEF Local, InitPcs, Fields, Done, At, Nothing
  <2> QED BY <2>1, <2>2, <2>3 DEF World
<1>40. CASE Write(c) \/ Restore(c)
  <2>1. Refs(refs')
    BY <1>0, <1>40, Stored DEF Write, Restore, SetFiles, At
  <2>2. Folders(dirs')
    <3>1. PICK x \in Names : \/ dirs' = [dirs EXCEPT ![refs[x].fsi].files = Edited]
                            \/ dirs' = [dirs EXCEPT ![refs[x].fsi].files = refs[x].path]
      BY <1>40 DEF Write, Restore, SetFiles
    <3>2. Folders([dirs EXCEPT ![refs[x].fsi].files = Edited])
      BY <1>0, FoldersSet
    <3>3. Folders([dirs EXCEPT ![refs[x].fsi].files = refs[x].path])
      BY <1>0, FoldersSet
    <3> QED BY <3>1, <3>2, <3>3
  <2>3. Local(c)' /\ me'[c].pc \notin InitPcs
    BY <1>0, <1>40, <1>r, <1>g DEF Local, InitPcs, Fields, Write, Restore, SetFiles, At
  <2> QED BY <2>1, <2>2, <2>3 DEF World
<1>41. CASE ByHand
  <2>1. Refs(refs')
    BY <1>0, <1>41, Stored DEF ByHand, At
  <2>2. Folders(dirs')
    <3>1. ASSUME NEW d \in Dirs, NEW e \in Dirs, dirs' = [dirs EXCEPT ![e] = dirs[d], ![d] = NoDirectory]
          PROVE  Folders(dirs')
      BY <1>0, <3>1 DEF Folders, DirFields, NoDirectory
    <3>2. ASSUME NEW d \in Dirs, dirs' = [dirs EXCEPT ![d].link = NoName]
          PROVE  Folders(dirs')
      BY <1>0, <3>2, FoldersSet
    <3> QED BY <1>41, <3>1, <3>2 DEF ByHand
  <2>3. Local(c)' /\ me'[c].pc \notin InitPcs
    BY <1>0, <1>41, <1>r, <1>g DEF Local, InitPcs, Fields, ByHand, At
  <2> QED BY <2>1, <2>2, <2>3 DEF World
<1> QED
  BY <1>1, <1>2, <1>3, <1>4, <1>5, <1>6, <1>7, <1>8, <1>9, <1>10, <1>11, <1>12, <1>13, <1>14, <1>15, <1>16, <1>17, <1>18, <1>19, <1>20, <1>21, <1>22, <1>23, <1>24, <1>25, <1>26, <1>27, <1>27p, <1>28, <1>29, <1>30, <1>31, <1>32, <1>33, <1>34, <1>35, <1>36, <1>37, <1>38, <1>39, <1>40, <1>41
  DEF Request, SaveStep, RenameStep, RemoveStep, LinkStep

-----------------------------------------------------------------------------
(* An init that fails takes back what it did. *)

\* The directories after CheckInit and after CreateLink, and the references after
\* PutRef, from what there was before.
Made(ds, d)      == [ds EXCEPT ![d].exists = TRUE]
Linked1(ds, d, x) == [Made(ds, d) EXCEPT ![d].link = x]
RefMade(r, x, d) == [r EXCEPT ![x] = Ref(0, d)]

\* What an init has done so far, at each of its steps.
Checked(c) ==
  LET m == me[c] IN
  /\ m.before.dirs[m.dir].link = NoName /\ m.before.dirs[m.dir].files = NoFiles
  /\ ~(m.before.refs[m.name].stored /\ m.before.known)
Unreferenced(c) ==
  LET m == me[c] IN
  Checked(c) /\ dirs = Made(m.before.dirs, m.dir) /\ refs = m.before.refs
Referenced(c) ==
  LET m == me[c] IN
  Checked(c) /\ ~m.fresh /\ refs = RefMade(m.before.refs, m.name, m.dir)

Begun(c) ==
  LET m == me[c] IN
  /\ m.dir \in Dirs /\ m.name \in Names /\ Folders(m.before.dirs) /\ Refs(m.before.refs)
  /\ m.pc = "iniCheck" => /\ dirs = m.before.dirs /\ refs = m.before.refs
                          /\ m.before.known = (RefToInitID(m.name) # 0)
  /\ m.pc \in {"iniLog", "iniPut"} => Unreferenced(c)
  /\ m.pc = "iniLink" => Referenced(c) /\ dirs = Made(m.before.dirs, m.dir)
  /\ m.pc = "iniFiles" => Referenced(c) /\ dirs = Linked1(m.before.dirs, m.dir, m.name)
  /\ m.pc = "rollback" /\ m.why \in {"log", "ref"} => Unreferenced(c)
  /\ m.pc = "rollback" /\ m.why = "files" => Referenced(c) /\ dirs = Linked1(m.before.dirs, m.dir, m.name)
  /\ m.pc = "rollback" => m.why \in {"log", "ref", "link", "files"}
  /\ m.pc = "rolled" /\ m.why # "link" =>
       /\ dirs = m.before.dirs
       /\ \/ refs = m.before.refs
          \/ ~m.before.known /\ refs = [m.before.refs EXCEPT ![m.name] = NoRef]

Undoing(c) == World(c) /\ (me[c].pc \in InitPcs => Begun(c))

\* The first step of an init.
LEMMA BeginInit ==
  ASSUME NEW c, Clients = {c}, World(c), InitDataset(c)
  PROVE  Undoing(c)'
<1>0. Refs(refs) /\ Folders(dirs) /\ DOMAIN me = Clients
  BY DEF World, Local
<1>1. PICK x \in Names, d \in Dirs :
        Begin(c, [Idle EXCEPT !.op = "init", !.pc = "iniCheck", !.name = x, !.dir = d,
                    !.before = [refs |-> refs, dirs |-> dirs, known |-> RefToInitID(x) # 0]])
  BY DEF InitDataset
<1> DEFINE was == [refs |-> refs, dirs |-> dirs, known |-> RefToInitID(x) # 0]
<1>2. refs' = refs /\ dirs' = dirs /\ book' = book
  BY <1>1 DEF Begin
<1>3. was.refs = refs /\ was.dirs = dirs /\ was.known = (RefToInitID(x) # 0)
  OBVIOUS
<1> HIDE DEF was
<1>4. /\ DOMAIN me' = Clients /\ DOMAIN me'[c] = Fields /\ me'[c].held = Idle.held /\ me'[c].fresh = FALSE
      /\ me'[c].pc = "iniCheck" /\ me'[c].name = x /\ me'[c].dir = d /\ me'[c].before = was
  <2>1. me' = [me EXCEPT ![c] = [Idle EXCEPT !.op = "init", !.pc = "iniCheck", !.name = x, !.dir = d, !.before = was]]
    BY <1>1 DEF Begin, was
  <2> QED BY <1>0, <2>1 DEF Idle, Fields
<1>5. World(c)'
  BY <1>0, <1>2, <1>4, IdleLocal DEF World, Local, Refs
<1>6. RefToInitID(x)' = RefToInitID(x)
  BY <1>2 DEF RefToInitID
<1>7. Begun(c)'
  BY <1>0, <1>2, <1>3, <1>4, <1>6 DEF Begun
<1> QED BY <1>5, <1>7 DEF Undoing

\* Each later step of an init.
LEMMA InitSteps ==
  ASSUME NEW c, Clients = {c}, Undoing(c), me[c].pc \in InitPcs, InitStep(c) \/ ReadRefs(c)
  PROVE  Undoing(c)'
<1> DEFINE m == me[c]
           d == m.dir
           x == m.name
           was == m.before
<1>0. /\ World(c) /\ Refs(refs) /\ Folders(dirs) /\ Local(c) /\ Refs(m.held)
      /\ DOMAIN me = Clients /\ DOMAIN m = Fields /\ (m.fresh => m.held = refs)
      /\ Begun(c) /\ d \in Dirs /\ x \in Names /\ Folders(was.dirs) /\ Refs(was.refs)
  BY DEF Undoing, World, Local, Begun
<1>g. ASSUME NEW p, Go(c, p), refs' = refs
      PROVE  /\ Local(c)' /\ me'[c].pc = p /\ me'[c].name = x /\ me'[c].dir = d /\ me'[c].why = m.why
             /\ me'[c].before = was /\ me'[c].fresh = m.fresh
  BY <1>0, <1>g, LocalGo
<1>b. ASSUME NEW w, RollBack(c, w), refs' = refs
      PROVE  /\ Local(c)' /\ me'[c].pc = "rollback" /\ me'[c].name = x /\ me'[c].dir = d /\ me'[c].why = w
             /\ me'[c].before = was /\ me'[c].fresh = m.fresh
  BY <1>0, <1>b DEF RollBack, Local, Fields
<1>1. CASE ReadRefs(c)
  <2>1. m.pc = "iniPut" /\ refs' = refs /\ dirs' = dirs
    BY <1>1 DEF ReadRefs, RefWrites, InitPcs, Nothing
  <2>2. /\ Local(c)' /\ me'[c].pc = m.pc /\ me'[c].name = x /\ me'[c].dir = d /\ me'[c].before = was
    BY <1>0, <1>1 DEF ReadRefs, Local, Fields, Nothing
  <2>3. Unreferenced(c)
    BY <1>0, <2>1 DEF Begun
  <2>4. Begun(c)'
    BY <1>0, <2>1, <2>2, <2>3 DEF Begun, Unreferenced, Checked
  <2> QED BY <1>0, <2>1, <2>2, <2>4 DEF Undoing, World
<1>2. CASE CheckInit(c)
  <2>1. m.pc = "iniCheck" /\ refs' = refs
    BY <1>2 DEF CheckInit, At, DirsOnly
  <2>2. dirs = was.dirs /\ refs = was.refs /\ was.known = (RefToInitID(x) # 0)
    BY <1>0, <2>1 DEF Begun
  <2>3. CASE CanInitDatasetWorkDir(d) /\ ~(refs[x].stored /\ RefToInitID(x) # 0)
    <3>1. dirs' = Made(dirs, d) /\ Go(c, "iniLog")
      BY <1>2, <2>3 DEF CheckInit, Made
    <3>2. Folders(dirs')
      BY <1>0, <3>1, FoldersSet DEF Made
    <3>a. was.dirs[d].link = NoName /\ was.dirs[d].files = NoFiles /\ ~(was.refs[x].stored /\ was.known)
      BY <2>2, <2>3 DEF CanInitDatasetWorkDir
    <3>b. me'[c].pc = "iniLog" /\ me'[c].name = x /\ me'[c].dir = d /\ me'[c].before = was
      BY <1>g, <2>1, <3>1
    <3>3. Begun(c)'
      BY <1>0, <2>1, <2>2, <3>1, <3>a, <3>b DEF Begun, Unreferenced, Checked
    <3> QED BY <1>0, <1>g, <2>1, <3>1, <3>2, <3>3 DEF Undoing, World
  <2>4. CASE ~(CanInitDatasetWorkDir(d) /\ ~(refs[x].stored /\ RefToInitID(x) # 0))
    <3>1. dirs' = dirs /\ Go(c, "rolled")
      BY <1>2, <2>4 DEF CheckInit
    <3>2. Begun(c)'
      BY <1>0, <1>g, <2>1, <2>2, <3>1 DEF Begun
    <3> QED BY <1>0, <1>g, <2>1, <3>1, <3>2 DEF Undoing, World
  <2> QED BY <2>3, <2>4
<1>3. CASE InitLog(c)
  <2>1. m.pc = "iniLog" /\ refs' = refs /\ dirs' = dirs /\ (Go(c, "iniPut") \/ RollBack(c, "log"))
    BY <1>3 DEF InitLog, At, BookOnly, Nothing
  <2>2. Unreferenced(c)
    BY <1>0, <2>1 DEF Begun
  <2>3. Begun(c)'
    BY <1>0, <1>g, <1>b, <2>1, <2>2 DEF Begun, Unreferenced, Checked
  <2> QED BY <1>0, <1>g, <1>b, <2>1, <2>3 DEF Undoing, World
<1>4. CASE InitRef(c)
  <2>1. m.pc = "iniPut" /\ dirs' = dirs
    BY <1>4 DEF InitRef, At, PutRef, RefsOnly, Nothing
  <2>2. Unreferenced(c)
    BY <1>0, <2>1 DEF Begun
  <2>3. CASE PutRef(c, x, Ref(0, d), "iniLink")
    <3>1. refs' = RefMade(refs, x, d)
      BY <1>0, <2>3 DEF PutRef, RefMade
    <3>2. /\ DOMAIN me' = Clients /\ DOMAIN me'[c] = Fields /\ me'[c].held = m.held /\ me'[c].fresh = FALSE
          /\ me'[c].pc = "iniLink" /\ me'[c].name = x /\ me'[c].dir = d /\ me'[c].before = was
      BY <1>0, <2>3 DEF PutRef, Fields
    <3>3. Refs(refs')
      BY <1>0, <3>1, RefsPut, Stored DEF RefMade
    <3>4. Begun(c)'
      BY <1>0, <2>1, <2>2, <3>1, <3>2 DEF Begun, Unreferenced, Referenced, Checked
    <3> QED BY <1>0, <2>1, <3>2, <3>3, <3>4 DEF Undoing, World, Local
  <2>4. CASE RollBack(c, "ref") /\ refs' = refs
    <3>1. Begun(c)'
      BY <1>0, <1>b, <2>1, <2>2, <2>4 DEF Begun, Unreferenced, Checked
    <3> QED BY <1>0, <1>b, <2>1, <2>4, <3>1 DEF Undoing, World
  <2> QED BY <1>4, <2>3, <2>4 DEF InitRef, Nothing
<1>5. CASE InitLink(c)
  <2>1. m.pc = "iniLink" /\ refs' = refs
    BY <1>5 DEF InitLink, At, DirsOnly
  <2>2. Referenced(c) /\ dirs = Made(was.dirs, d)
    BY <1>0, <2>1 DEF Begun
  <2>3. Folders([dirs EXCEPT ![d].link = x])
    BY <1>0, FoldersSet
  <2>4. CASE dirs' = [dirs EXCEPT ![d].link = x] /\ Go(c, "iniFiles")
    <3>a. dirs' = Linked1(was.dirs, d, x)
      BY <2>2, <2>4 DEF Linked1
    <3>b. /\ me'[c].pc = "iniFiles" /\ me'[c].name = x /\ me'[c].dir = d /\ me'[c].before = was
          /\ me'[c].fresh = m.fresh
      BY <1>g, <2>1, <2>4
    <3>1. Begun(c)'
      BY <1>0, <2>1, <2>2, <3>a, <3>b DEF Begun, Referenced, Checked
    <3> QED BY <1>0, <1>g, <2>1, <2>3, <2>4, <3>1 DEF Undoing, World
  <2>5. CASE dirs' \in {dirs, [dirs EXCEPT ![d].link = x]} /\ RollBack(c, "link")
    <3>1. Begun(c)'
      BY <1>0, <1>b, <2>1, <2>5 DEF Begun
    <3> QED BY <1>0, <1>b, <2>1, <2>3, <2>5, <3>1 DEF Undoing, World
  <2> QED BY <1>5, <2>4, <2>5 DEF InitLink
<1>6. CASE InitFiles(c)
  <2>1. m.pc = "iniFiles" /\ refs' = refs
    BY <1>6 DEF InitFiles, At, DirsOnly, Nothing
  <2>2. Referenced(c) /\ dirs = Linked1(was.dirs, d, x)
    BY <1>0, <2>1 DEF Begun
  <2>3. CASE dirs' = [dirs EXCEPT ![d].files = Edited] /\ Return(c)
    <3>1. Folders(dirs')
      BY <1>0, <2>3, FoldersSet
    <3>2. Local(c)' /\ me'[c].pc = "idle"
      BY <1>0, <2>3, LocalReturn
    <3> QED BY <1>0, <2>1, <3>1, <3>2 DEF Undoing, World, InitPcs
  <2>4. CASE dirs' = dirs /\ RollBack(c, "files")
    <3>a. /\ me'[c].pc = "rollback" /\ me'[c].why = "files" /\ me'[c].name = x /\ me'[c].dir = d
          /\ me'[c].before = was /\ me'[c].fresh = m.fresh
      BY <1>b, <2>1, <2>4
    <3>b. Referenced(c)' /\ dirs' = Linked1(was.dirs, d, x)
      BY <2>1, <2>2, <2>4, <3>a DEF Referenced, Checked
    <3>1. Begun(c)'
      BY <1>0, <3>a, <3>b DEF Begun
    <3> QED BY <1>0, <1>b, <2>1, <2>4, <3>1 DEF Undoing, World
  <2> QED BY <1>6, <2>3, <2>4 DEF InitFiles, Nothing
<1>7. CASE RollbackInit(c)
  <2>1. m.pc = "rollback" /\ m.why \in {"log", "ref", "link", "files"} /\ Go(c, "rolled")
    BY <1>0, <1>7 DEF RollbackInit, At, Begun
  <2>2. /\ refs' = IF m.why = "files" THEN [refs EXCEPT ![x] = NoRef] ELSE refs
        /\ dirs' = IF ~was.dirs[d].exists THEN [dirs EXCEPT ![d] = NoDirectory]
                   ELSE IF m.why = "files" THEN [dirs EXCEPT ![d].link = NoName] ELSE dirs
    BY <1>7 DEF RollbackInit
  <2>3. Refs(refs') /\ Folders(dirs')
    <3>1. Refs([refs EXCEPT ![x] = NoRef])
      BY <1>0, RefsPut
    <3>2. Folders([dirs EXCEPT ![d] = NoDirectory]) /\ Folders([dirs EXCEPT ![d].link = NoName])
      BY <1>0, FoldersSet
    <3> QED BY <1>0, <2>2, <3>1, <3>2
  <2>4. m.why = "files" => ~m.fresh
    BY <1>0, <2>1 DEF Begun, Referenced
  <2>5. /\ DOMAIN me' = Clients /\ DOMAIN me'[c] = Fields /\ me'[c].held = m.held /\ me'[c].fresh = m.fresh
        /\ me'[c].pc = "rolled" /\ me'[c].name = x /\ me'[c].dir = d /\ me'[c].before = was /\ me'[c].why = m.why
    BY <1>0, <2>1 DEF Go, Fields
  <2>6. World(c)'
    BY <1>0, <2>1, <2>2, <2>3, <2>4, <2>5 DEF World, Local
  <2>7. CASE m.why = "link"
    BY <1>0, <2>5, <2>6, <2>7 DEF Undoing, Begun
  <2>8. CASE m.why \in {"log", "ref"}
    <3>1. Checked(c) /\ dirs = Made(was.dirs, d) /\ refs = was.refs /\ refs' = refs
      BY <1>0, <2>1, <2>2, <2>8 DEF Begun, Unreferenced
    <3>2. dirs' = was.dirs
      <4>1. CASE ~was.dirs[d].exists
        <5>1. dirs' = [dirs EXCEPT ![d] = NoDirectory]
          BY <2>2, <4>1
        <5>2. dirs' = [e \in Dirs |-> dirs'[e]] /\ dirs'[d] = NoDirectory /\ \A e \in Dirs : e # d => dirs'[e] = was.dirs[e]
          BY <1>0, <3>1, <5>1 DEF Made, Folders
        <5> QED BY <1>0, <3>1, <4>1, <5>2, Undone DEF Checked
      <4>2. CASE was.dirs[d].exists
        BY <1>0, <2>2, <2>8, <3>1, <4>2, Same DEF Made
      <4> QED BY <4>1, <4>2
    <3> QED BY <1>0, <2>5, <2>6, <3>1, <3>2 DEF Undoing, Begun
  <2>9. CASE m.why = "files"
    <3>1. Checked(c) /\ dirs = Linked1(was.dirs, d, x) /\ refs = RefMade(was.refs, x, d)
      BY <1>0, <2>1, <2>9 DEF Begun, Referenced
    <3>2. dirs' = was.dirs
      <4>1. CASE ~was.dirs[d].exists
        <5>1. dirs' = [dirs EXCEPT ![d] = NoDirectory]
          BY <2>2, <4>1
        <5>2. dirs' = [e \in Dirs |-> dirs'[e]] /\ dirs'[d] = NoDirectory /\ \A e \in Dirs : e # d => dirs'[e] = was.dirs[e]
          BY <1>0, <3>1, <5>1 DEF Made, Linked1, Folders
        <5> QED BY <1>0, <3>1, <4>1, <5>2, Undone DEF Checked
      <4>2. CASE was.dirs[d].exists
        <5>1. dirs' = [Linked1(was.dirs, d, x) EXCEPT ![d].link = NoName]
          BY <2>2, <2>9, <3>1, <4>2
        <5>2. Made(was.dirs, d) = was.dirs
          BY <1>0, <4>2, Same DEF Made
        <5>3. dirs' = [[was.dirs EXCEPT ![d].link = x] EXCEPT ![d].link = NoName]
          BY <5>1, <5>2 DEF Linked1
        <5>4. was.dirs[d].link = NoName
          BY <3>1 DEF Checked
        <5>5. [[was.dirs EXCEPT ![d].link = x] EXCEPT ![d].link = NoName] = was.dirs
          <6>1. Folders(was.dirs) /\ d \in Dirs
            BY <1>0
          <6> HIDE DEF was, d, x
          <6> QED BY <5>4, <6>1, Relinked
        <5> QED BY <5>3, <5>5
      <4> QED BY <4>1, <4>2
    <3>3. refs' = [was.refs EXCEPT ![x] = NoRef]
      BY <1>0, <2>2, <2>9, <3>1 DEF RefMade, Refs
    <3>4. refs' = was.refs \/ ~was.known
      BY <1>0, <3>1, <3>3 DEF Checked, Refs
    <3> QED BY <1>0, <2>5, <2>6, <3>2, <3>3, <3>4 DEF Undoing, Begun
  <2> QED BY <2>1, <2>7, <2>8, <2>9
<1>8. CASE InitFailed(c)
  <2>1. Local(c)' /\ me'[c].pc = "idle" /\ refs' = refs /\ dirs' = dirs
    BY <1>0, <1>8, LocalReturn DEF InitFailed, Nothing
  <2> QED BY <1>0, <2>1 DEF Undoing, World, InitPcs
<1> QED BY <1>1, <1>2, <1>3, <1>4, <1>5, <1>6, <1>7, <1>8 DEF InitStep

\* The inductive invariant: what an init has done so far is what its rollback takes back.
LEMMA UndoingStep ==
  ASSUME NEW c, Clients = {c}, Undoing(c), [Next]_vars
  PROVE  Undoing(c)'
<1>1. CASE UNCHANGED vars
  BY <1>1 DEF vars, Undoing, World, Local, Begun, Unreferenced, Referenced, Checked, RefToInitID
<1>2. CASE InitDataset(c)
  BY <1>2, BeginInit DEF Undoing
<1>3. CASE (InitStep(c) \/ ReadRefs(c)) /\ me[c].pc \in InitPcs
  BY <1>3, InitSteps
<1>4. CASE \/ ReadRefs(c) /\ me[c].pc \notin InitPcs
           \/ Crash(c) \/ SaveStep(c) \/ RenameStep(c) \/ RemoveStep(c) \/ LinkStep(c)
           \/ (Request(c) /\ ~InitDataset(c)) \/ ByHand
  BY <1>4, OtherSteps DEF Undoing
<1>5. InitStep(c) => me[c].pc \in InitPcs
  BY DEF InitStep, CheckInit, InitLog, InitRef, InitLink, InitFiles, RollbackInit, InitFailed, At, InitPcs
<1> QED BY <1>1, <1>2, <1>3, <1>4, <1>5 DEF Next

\* At first no request is under way.
LEMMA UndoingInit ==
  ASSUME NEW c, Clients = {c}, Init
  PROVE  Undoing(c)
<1>1. me[c] = Idle /\ DOMAIN me = Clients /\ me[c].pc \notin InitPcs
  BY IdleLocal DEF Init, InitPcs
<1>2. Refs(refs)
  BY DEF Init, Refs
<1>3. Folders(dirs)
  BY DEF Init, Folders, DirFields, NoDirectory
<1> QED BY <1>1, <1>2, <1>3, IdleLocal DEF Undoing, World, Local

\* FSI.InitDataset is all or nothing: after any failure but the one of CreateLink,
\* at the first step or later and with crashes before, a process that serves one
\* request at a time has its references and directories back as they were.
THEOREM InitUndone == Spec => []InitAllOrNothing
<1>1. CASE \E c : Clients = {c}
  <2>1. PICK c : Clients = {c}
    BY <1>1
  <2>2. Init => Undoing(c)
    BY <2>1, UndoingInit
  <2>3. Undoing(c) /\ [Next]_vars => Undoing(c)'
    BY <2>1, UndoingStep
  <2>4. Undoing(c) => InitAllOrNothing
    BY <2>1 DEF Undoing, Begun, InitAllOrNothing, At, InitPcs
  <2> QED BY <2>2, <2>3, <2>4, PTL DEF Spec
<1>2. CASE ~\E c : Clients = {c}
  <2>1. InitAllOrNothing
    BY <1>2 DEF InitAllOrNothing
  <2> QED BY <2>1, PTL
<1> QED BY <1>1, <1>2

-----------------------------------------------------------------------------
(* The records a request leaves agree.  The argument is about a process that   *)
(* serves one request at a time and about accesses that do not fail: what a    *)
(* request has changed so far, at each of its steps.                           *)

LogFields == {"state", "name", "vs", "blank", "minus"}
LogOK(r) == /\ DOMAIN r = LogFields /\ r.state \in {"live", "removed", "gone"} /\ r.vs \in Seq(Nat)
            /\ r.name \in Names
Logs(b) == (\E S : b \in Seq(S)) /\ \A i \in DOMAIN b : LogOK(b[i])

\* Where a request has a second name, and a directory.
Renaming == {"renResolve", "renLog", "renDelete", "renPut", "renLink"}
InDir    == {"iniCheck", "iniLog", "iniPut", "iniLink", "iniFiles", "rollback", "rolled",
             "outCheck", "outPut", "outLink", "outFiles", "ensure"}

\* What the stores and a request's local variables hold.
Stores(r, ds, b, p, st) ==
  /\ p \in Seq(Nat) /\ st \subseteq DOMAIN p /\ Logs(b)
  /\ \A x \in Names : r[x].path \in Nat
  /\ \A d \in Dirs : ds[d].link \in Names \union {NoName}
Locals(m, b) ==
  /\ \A x \in Names : m.held[x].path \in Nat
  /\ m.path \in Nat /\ m.at \in Nat /\ m.id \in 0 .. Len(b) /\ m.n \in {-1, 0, 1, 2} /\ m.left \in Int
  /\ m.pc # "idle" => m.name \in Names
  /\ m.pc = "rmResolve" => m.n # 0 /\ m.id = 0
  /\ m.pc \in Renaming => m.next \in Names /\ m.next # m.name
  /\ m.pc \in InDir => m.dir \in Dirs

\* Log i is a live one with the name x, and there is one.
Holds(b, i, x) == i \in DOMAIN b /\ b[i].state = "live" /\ b[i].name = x
HasLog(b, x)   == \E i \in DOMAIN b : Holds(b, i, x)

\* Reference and link files agree about the name x; its link file is in f alone;
\* it has none.  Directories changed by hand are left out.
LinkOK(r, ds, mv, x) == \A d \in Dirs \ mv : (r[x].stored /\ r[x].fsi = d) <=> ds[d].link = x
Ours(ds, mv, x, f)   == \A d \in Dirs \ mv : ds[d].link = x <=> d = f
NoLink(ds, mv, x)    == \A d \in Dirs \ mv : ds[d].link # x

\* The names whose reference and link file may differ while the request m is where it is.
LoosePcs == {"putRef", "log", "putLink", "renPut", "renLink", "rewindPut", "rmLog", "rmRef", "iniLink", "outLink", "unlinkRef"}
Loose(m, x) == (x = m.name /\ m.pc \in LoosePcs) \/ (x = m.next /\ m.pc = "renLink")

AllLinked(r, ds, mv) == \A x \in Names : LinkOK(r, ds, mv, x)
LinkedUp(m, r, ds, mv) == \A x \in Names : ~Loose(m, x) => LinkOK(r, ds, mv, x)

\* A reference has a log, but for the one that is being renamed or removed.
UnloggedPcs == {"renDelete", "rmRef"}
AllLogged(r, b) == \A x \in Names : r[x].stored => HasLog(b, x)
Logged(m, r, b) == \A x \in Names : r[x].stored => HasLog(b, x) \/ (x = m.name /\ m.pc \in UnloggedPcs)

\* A link file is in a directory.
Existing(ds) == \A d \in Dirs : ds[d].link # NoName => ds[d].exists

\* What a request has done to references, directories and logs so far.
LinkPcs(m, r, ds, mv, b) ==
  /\ m.pc \in {"prepare", "working"} => m.fsi = NoDir
  /\ m.pc = "prepare" => ~m.new /\ m.path = 0
  /\ m.pc \in {"working", "write"} => (m.new <=> ~r[m.name].stored)
  /\ m.pc \in {"working", "write", "dropRef", "putRef", "log", "putLink", "renLog"} => Holds(b, m.id, m.name)
  /\ m.pc \in {"write", "dropRef", "putRef", "log", "putLink", "renPut", "renLink"} =>
       Ours(ds, mv, m.name, m.fsi)
  /\ m.pc = "rewindPut" => Ours(ds, mv, m.name, m.dir)
  /\ m.pc \in {"cleanup", "renPut", "renLink", "rewindPut", "iniLog", "iniPut", "rollback"} => ~r[m.name].stored
  /\ m.pc \in {"renDelete", "renPut"} => Holds(b, m.id, m.next)
  /\ m.pc \in {"renLog", "renDelete", "renPut"} => ~r[m.next].stored
  /\ m.pc = "renLink" => r[m.next].stored /\ r[m.next].fsi = m.fsi /\ NoLink(ds, mv, m.next)
  /\ m.pc \in {"renLog", "renDelete", "unlink", "iniLink", "outLink", "unlinkFile"} => r[m.name].stored
  /\ m.pc = "log" => r[m.name].fsi = NoDir
  /\ m.pc = "unlink" => r[m.name].fsi = m.fsi
  /\ \/ m.pc \in {"rmVersion", "rewind", "rewindPut", "rmWrite"} /\ m.n = All
     \/ m.pc \in {"rmLog", "rmRef", "iniLink", "outPut", "outLink", "unlinkRef"}
     => NoLink(ds, mv, m.name)
  /\ m.pc \in {"iniLog", "iniPut", "iniLink", "outPut", "outLink"} => ds[m.dir].exists
  /\ m.pc \in {"iniLog", "iniPut", "iniLink", "rollback", "outPut", "outLink"} => ds[m.dir].link = NoName
  /\ m.pc \in {"rewindPut", "iniPut"} => HasLog(b, m.name)
  /\ m.pc = "rollback" => m.why \in {"log", "ref"}
  /\ m.pc \in {"iniLink", "outLink", "unlinkFile"} => r[m.name].fsi = m.dir
  /\ m.pc = "ensure" => ds[m.dir].link = m.name

LinkInv(m, r, ds, mv, b) ==
  LinkedUp(m, r, ds, mv) /\ Logged(m, r, b) /\ Existing(ds) /\ LinkPcs(m, r, ds, mv, b)

\* The newest version of log i.
Last(b, i) == IF b[i].vs = <<>> THEN 0 ELSE b[i].vs[Len(b[i].vs)]

\* The logs of the book b: one to a name, a blank one has no versions, no version
\* is in two places, and each names the one before it as the previous one.
Single(b) == \A i, k \in DOMAIN b : b[i].state = "live" /\ b[k].state = "live" /\ b[i].name = b[k].name => i = k
Blanks(b) == \A i \in DOMAIN b : b[i].blank => b[i].vs = <<>>
Distinct(b) ==
  \A i, k \in DOMAIN b : b[i].state = "live" /\ b[k].state = "live" =>
    \A j \in DOMAIN b[i].vs, l \in DOMAIN b[k].vs : b[i].vs[j] = b[k].vs[l] => i = k /\ j = l
Chained(b, p) ==
  \A i \in DOMAIN b : b[i].state = "live" =>
    \A j \in DOMAIN b[i].vs : /\ b[i].vs[j] \in DOMAIN p
                              /\ p[b[i].vs[j]] = IF j = 1 THEN 0 ELSE b[i].vs[j - 1]
Sound(b, p) == Single(b) /\ Blanks(b) /\ Distinct(b) /\ Chained(b, p)

\* How many of the newest versions of its log the remove m has deleted, and whether
\* the one at position j may be missing in the store.
Cut(m) == IF m.pc = "rmVersion" THEN m.n - m.left ELSE m.n
CutPcs == {"rmVersion", "rewind", "rewindPut", "rmWrite", "rmLog"}
Missing(m, b, i, j) ==
  /\ i = m.id
  /\ \/ m.pc \in CutPcs /\ m.n = All
     \/ m.pc \in CutPcs \ {"rmLog"} /\ j > Len(b[i].vs) - Cut(m)

AllKept(b, st) ==
  \A i \in DOMAIN b : b[i].state = "live" => \A j \in DOMAIN b[i].vs : b[i].vs[j] \in st
Kept(m, b, st) ==
  \A i \in DOMAIN b : b[i].state = "live" =>
    \A j \in DOMAIN b[i].vs : Missing(m, b, i, j) \/ b[i].vs[j] \in st

\* The reference of a name has the newest version of its log.
GoodRef(r, b, x) == r[x].stored => \A i \in DOMAIN b : Holds(b, i, x) => r[x].path = Last(b, i)
AheadPcs == {"log", "rmWrite", "rmLog", "rmRef"}
AllGood(r, b) == \A x \in Names : GoodRef(r, b, x)
Good(m, r, b) == \A x \in Names : ~(x = m.name /\ m.pc \in AheadPcs) => GoodRef(r, b, x)

Empty(b, x) == \A i \in DOMAIN b : Holds(b, i, x) => b[i].vs = <<>>
Unused(b, v) == \A i \in DOMAIN b : b[i].state = "live" => \A j \in DOMAIN b[i].vs : b[i].vs[j] # v

\* What a request has done to versions so far.
ChainPcs(m, r, b, p, st) ==
  /\ m.pc \in {"working", "write"} => m.path = Last(b, m.id) /\ (m.new => b[m.id].vs = <<>>)
  /\ m.pc \in {"dropRef", "putRef", "log"} =>
       /\ m.at \in DOMAIN p /\ m.at \in st /\ Unused(b, m.at) /\ p[m.at] = Last(b, m.id)
  /\ m.pc = "log" => r[m.name].stored /\ r[m.name].path = m.at
  /\ m.pc = "putLink" => m.at = Last(b, m.id)
  /\ m.pc \in {"cleanup", "iniPut"} \/ (m.pc = "rollback" /\ m.why # "log") => Empty(b, m.name)
  /\ m.pc = "renDelete" => r[m.name].path = Last(b, m.id)
  /\ m.pc = "renPut" => m.path = Last(b, m.id)
  /\ m.pc \in {"rmVersion", "rewind", "rewindPut", "rmWrite", "unlink"} => Holds(b, m.id, m.name)
  /\ m.pc = "rmLog" /\ m.id # 0 => Holds(b, m.id, m.name)
  /\ m.pc \in {"rmVersion", "rewind", "rewindPut", "rmWrite"} /\ m.n # All =>
       m.n \in {1, 2} /\ m.n < Len(b[m.id].vs)
  /\ m.pc \in {"rmVersion", "rewind", "rmWrite"} /\ m.n # All => r[m.name].stored
  /\ m.pc = "rmVersion" => /\ m.left =< m.n /\ (m.n # All => m.left >= 1)
                           /\ Len(b[m.id].vs) - Cut(m) \in DOMAIN b[m.id].vs
                           /\ m.at = b[m.id].vs[Len(b[m.id].vs) - Cut(m)]
  /\ m.pc \in {"rewind", "rewindPut", "rmWrite"} /\ m.n # All => m.at = b[m.id].vs[Len(b[m.id].vs) - m.n]
  /\ m.pc = "rmWrite" /\ m.n # All => r[m.name].path = m.at
  /\ m.pc = "rmRef" => ~HasLog(b, m.name)

ChainInv(m, r, b, p, st) == Sound(b, p) /\ Kept(m, b, st) /\ Good(m, r, b) /\ ChainPcs(m, r, b, p, st)

\* The inductive invariant, of a request m and the stores.
Agree(m, r, ds, mv, b, p, st, tw) ==
  /\ Stores(r, ds, b, p, st) /\ Locals(m, b) /\ LinkInv(m, r, ds, mv, b)
  /\ ~tw => ChainInv(m, r, b, p, st)
Agreed(c) == Agree(me[c], refs, dirs, moved, book, prev, store, muddled)

\* There is a least one in every set of naturals.
LEMMA LeastIn ==
  ASSUME NEW S \in SUBSET Nat, S # {}
  PROVE  \E k \in S : \A y \in S : k =< y
<1>1. IsWellFoundedOn({ss \in Nat \X Nat : ss[1] < ss[2]}, Nat)
  BY NatLessThanWellFounded DEF OpToRel
<1>2. PICK k \in S : \A y \in S : ~(<<y, k>> \in {ss \in Nat \X Nat : ss[1] < ss[2]})
  BY <1>1, WFMin
<1>3. ASSUME NEW y \in S, ~(k =< y) PROVE FALSE
  <2> DEFINE z == <<y, k>>
  <2>1. z \in Nat \X Nat /\ z[1] = y /\ z[2] = k /\ y < k
    BY <1>3
  <2>2. z \in {ss \in Nat \X Nat : ss[1] < ss[2]}
    <3> HIDE DEF z
    <3> QED BY <2>1
  <2> QED BY <1>2, <2>2
<1> QED BY <1>3

\* It is the one Min chooses.
LEMMA LeastOne ==
  ASSUME NEW S \in SUBSET Nat, S # {}
  PROVE  Min(S) \in S
BY LeastIn DEF Min

\* A book is numbered from 1.
LEMMA Domains ==
  ASSUME NEW b, Logs(b)
  PROVE  Len(b) \in Nat /\ DOMAIN b = 1 .. Len(b)
BY DEF Logs

\* The first of some logs is one of them.
LEMMA FirstOne ==
  ASSUME NEW b, Logs(b), NEW S \in SUBSET DOMAIN b
  PROVE  /\ First(S) \in 0 .. Len(b) /\ (S = {} <=> First(S) = 0)
         /\ S # {} => First(S) \in S
<1>1. Len(b) \in Nat /\ DOMAIN b = 1 .. Len(b)
  BY Domains
<1>2. CASE S = {}
  BY <1>1, <1>2 DEF First
<1>3. CASE S # {}
  <2>1. S \in SUBSET Nat
    BY <1>1
  <2>2. Min(S) \in S
    BY <1>3, <2>1, LeastOne
  <2> QED BY <1>1, <1>3, <2>2 DEF First
<1> QED BY <1>2, <1>3

\* The log a name stands for.
LEMMA LogOf ==
  ASSUME Logs(book), NEW x
  PROVE  /\ RefToInitID(x) \in 0 .. Len(book)
         /\ RefToInitID(x) # 0 => /\ RefToInitID(x) \in DOMAIN book
                                  /\ book[RefToInitID(x)].state = "live" /\ book[RefToInitID(x)].name = x
         /\ RefToInitID(x) = 0 => \A i \in DOMAIN book : ~(book[i].state = "live" /\ book[i].name = x)
<1> DEFINE S == {i \in DOMAIN book : book[i].state = "live" /\ book[i].name = x}
<1>1. S \in SUBSET DOMAIN book /\ RefToInitID(x) = First(S)
  BY DEF RefToInitID
<1>2. First(S) \in 0 .. Len(book) /\ (S = {} <=> First(S) = 0) /\ (S # {} => First(S) \in S)
  <2> HIDE DEF S
  <2> QED BY <1>1, FirstOne
<1> QED BY <1>1, <1>2

\* A book with another log in one place.
With(b, i, r) == [b EXCEPT ![i] = r]
\* The book with another log in one place is a book.
LEMMA LogPut ==
  ASSUME NEW b, Logs(b), NEW i \in DOMAIN b, NEW r, LogOK(r)
  PROVE  LET b1 == With(b, i, r) IN
         /\ Logs(b1) /\ Len(b1) = Len(b) /\ DOMAIN b1 = DOMAIN b
         /\ b1[i] = r /\ \A k \in DOMAIN b : k # i => b1[k] = b[k]
<1> DEFINE b1 == With(b, i, r)
<1>1. PICK S : b \in Seq(S)
  BY DEF Logs
<1>2. b1 \in Seq(S \union {r}) /\ DOMAIN b1 = DOMAIN b /\ Len(b1) = Len(b)
  BY <1>1 DEF With
<1>3. b1[i] = r /\ \A k \in DOMAIN b : k # i => b1[k] = b[k]
  BY <1>1 DEF With
<1> HIDE DEF b1
<1>4. /\ Logs(b1) /\ Len(b1) = Len(b) /\ DOMAIN b1 = DOMAIN b
      /\ b1[i] = r /\ \A k \in DOMAIN b : k # i => b1[k] = b[k]
  BY <1>2, <1>3 DEF Logs
<1> QED BY <1>4 DEF b1

\* A log more.
LEMMA LogAppend ==
  ASSUME NEW b, Logs(b), NEW r, LogOK(r)
  PROVE  LET b1 == Append(b, r) IN
         /\ Logs(b1) /\ Len(b1) = Len(b) + 1 /\ DOMAIN b1 = 1 .. Len(b) + 1
         /\ b1[Len(b) + 1] = r /\ \A k \in DOMAIN b : b1[k] = b[k]
<1> DEFINE b1 == Append(b, r)
<1>1. PICK S : b \in Seq(S)
  BY DEF Logs
<1>2. b1 \in Seq(S \union {r}) /\ Len(b1) = Len(b) + 1
  BY <1>1
<1>3. DOMAIN b1 = 1 .. Len(b) + 1 /\ b1[Len(b) + 1] = r /\ \A k \in DOMAIN b : b1[k] = b[k]
  BY <1>1
<1>4. DOMAIN b = 1 .. Len(b) /\ Len(b) \in Nat
  BY Domains
<1> HIDE DEF b1
<1>5. /\ Logs(b1) /\ Len(b1) = Len(b) + 1 /\ DOMAIN b1 = 1 .. Len(b) + 1
      /\ b1[Len(b) + 1] = r /\ \A k \in DOMAIN b : b1[k] = b[k]
  BY <1>2, <1>3, <1>4 DEF Logs
<1> QED BY <1>5 DEF b1

\* Log i is now in state st, with the name nm and the versions vs; bl says whether it is blank.
Updated(b, b1, i, st, nm, vs, bl) ==
  /\ Logs(b1) /\ Len(b1) = Len(b) /\ DOMAIN b1 = DOMAIN b
  /\ b1[i].state = st /\ b1[i].name = nm /\ b1[i].vs = vs /\ b1[i].blank = bl
  /\ \A k \in DOMAIN b : k # i => b1[k] = b[k]

\* Its first operation after the one that began it.
LEMMA LogMarked ==
  ASSUME NEW b, Logs(b), NEW i \in DOMAIN b, NEW b1,
         b1 = [b EXCEPT ![i].blank = FALSE]
  PROVE  Updated(b, b1, i, b[i].state, b[i].name, b[i].vs, FALSE)
<1> DEFINE r == [b[i] EXCEPT !.blank = FALSE]
<1>1. LogOK(b[i])
  BY DEF Logs
<1>3. LogOK(r) /\ r.state = b[i].state /\ r.name = b[i].name /\ r.vs = b[i].vs /\ r.blank = FALSE
  BY <1>1 DEF LogOK, LogFields
<1>4. b1 = With(b, i, r)
  BY DEF With
<1> HIDE DEF r
<1>5. LET b2 == With(b, i, r) IN
      /\ Logs(b2) /\ Len(b2) = Len(b) /\ DOMAIN b2 = DOMAIN b
      /\ b2[i] = r /\ \A k \in DOMAIN b : k # i => b2[k] = b[k]
  BY <1>3, LogPut
<1> QED BY <1>3, <1>4, <1>5 DEF Updated

\* A version more.
LEMMA LogSaved ==
  ASSUME NEW b, Logs(b), NEW i \in DOMAIN b, NEW v \in Nat, NEW b1,
         b1 = [b EXCEPT ![i].vs = Append(@, v), ![i].blank = FALSE]
  PROVE  Updated(b, b1, i, b[i].state, b[i].name, Append(b[i].vs, v), FALSE)
<1> DEFINE r == [b[i] EXCEPT !.vs = Append(@, v), !.blank = FALSE]
<1>1. LogOK(b[i])
  BY DEF Logs
<1>3. LogOK(r) /\ r.state = b[i].state /\ r.name = b[i].name /\ r.vs = Append(b[i].vs, v) /\ r.blank = FALSE
  BY <1>1 DEF LogOK, LogFields
<1>4. b1 = With(b, i, r)
  BY DEF With
<1> HIDE DEF r
<1>5. LET b2 == With(b, i, r) IN
      /\ Logs(b2) /\ Len(b2) = Len(b) /\ DOMAIN b2 = DOMAIN b
      /\ b2[i] = r /\ \A k \in DOMAIN b : k # i => b2[k] = b[k]
  BY <1>3, LogPut
<1> QED BY <1>3, <1>4, <1>5 DEF Updated

\* Another name.
LEMMA LogRenamed ==
  ASSUME NEW b, Logs(b), NEW i \in DOMAIN b, NEW y \in Names, NEW b1,
         b1 = [b EXCEPT ![i].name = y, ![i].blank = FALSE]
  PROVE  Updated(b, b1, i, b[i].state, y, b[i].vs, FALSE)
<1> DEFINE r == [b[i] EXCEPT !.name = y, !.blank = FALSE]
<1>1. LogOK(b[i])
  BY DEF Logs
<1>3. LogOK(r) /\ r.state = b[i].state /\ r.name = y /\ r.vs = b[i].vs /\ r.blank = FALSE
  BY <1>1 DEF LogOK, LogFields
<1>4. b1 = With(b, i, r)
  BY DEF With
<1> HIDE DEF r
<1>5. LET b2 == With(b, i, r) IN
      /\ Logs(b2) /\ Len(b2) = Len(b) /\ DOMAIN b2 = DOMAIN b
      /\ b2[i] = r /\ \A k \in DOMAIN b : k # i => b2[k] = b[k]
  BY <1>3, LogPut
<1> QED BY <1>3, <1>4, <1>5 DEF Updated

\* A delete of all versions.
LEMMA LogMinus ==
  ASSUME NEW b, Logs(b), NEW i \in DOMAIN b, NEW b1,
         b1 = [b EXCEPT ![i].minus = TRUE]
  PROVE  Updated(b, b1, i, b[i].state, b[i].name, b[i].vs, b[i].blank)
<1> DEFINE r == [b[i] EXCEPT !.minus = TRUE]
<1>1. LogOK(b[i])
  BY DEF Logs
<1>3. LogOK(r) /\ r.state = b[i].state /\ r.name = b[i].name /\ r.vs = b[i].vs /\ r.blank = b[i].blank
  BY <1>1 DEF LogOK, LogFields
<1>4. b1 = With(b, i, r)
  BY DEF With
<1> HIDE DEF r
<1>5. LET b2 == With(b, i, r) IN
      /\ Logs(b2) /\ Len(b2) = Len(b) /\ DOMAIN b2 = DOMAIN b
      /\ b2[i] = r /\ \A k \in DOMAIN b : k # i => b2[k] = b[k]
  BY <1>3, LogPut
<1> QED BY <1>3, <1>4, <1>5 DEF Updated

\* The newest versions less.
LEMMA LogCut ==
  ASSUME NEW b, Logs(b), NEW i \in DOMAIN b, NEW n \in {0, 1, 2}, NEW b1,
         b1 = [b EXCEPT ![i].vs = SubSeq(@, 1, Len(@) - n)]
  PROVE  Updated(b, b1, i, b[i].state, b[i].name, SubSeq(b[i].vs, 1, Len(b[i].vs) - n), b[i].blank)
<1> DEFINE r == [b[i] EXCEPT !.vs = SubSeq(@, 1, Len(@) - n)]
<1>1. LogOK(b[i])
  BY DEF Logs
<1>2. SubSeq(b[i].vs, 1, Len(b[i].vs) - n) \in Seq(Nat)
  <2>1. b[i].vs \in Seq(Nat)
    BY <1>1 DEF LogOK
  <2> DEFINE s == b[i].vs
             k == Len(s) - n
  <2>2. k \in Int /\ k <= Len(s) /\ Len(s) \in Nat
    BY <2>1
  <2> HIDE DEF s, k
  <2>3. SubSeq(s, 1, k) \in Seq(Nat)
    BY <2>1, <2>2 DEF s
  <2> QED BY <2>3 DEF s, k
<1>3. LogOK(r) /\ r.vs = SubSeq(b[i].vs, 1, Len(b[i].vs) - n) /\ r.state = b[i].state /\ r.name = b[i].name /\ r.blank = b[i].blank
  BY <1>1, <1>2 DEF LogOK, LogFields
<1>4. b1 = With(b, i, r)
  BY DEF With
<1> HIDE DEF r
<1>5. LET b2 == With(b, i, r) IN
      /\ Logs(b2) /\ Len(b2) = Len(b) /\ DOMAIN b2 = DOMAIN b
      /\ b2[i] = r /\ \A k \in DOMAIN b : k # i => b2[k] = b[k]
  BY <1>3, LogPut
<1> QED BY <1>3, <1>4, <1>5 DEF Updated

\* Another state.
LEMMA LogState ==
  ASSUME NEW b, Logs(b), NEW i \in DOMAIN b, NEW st \in {"live", "removed", "gone"}, NEW b1,
         b1 = [b EXCEPT ![i].state = st]
  PROVE  Updated(b, b1, i, st, b[i].name, b[i].vs, b[i].blank)
<1> DEFINE r == [b[i] EXCEPT !.state = st]
<1>1. LogOK(b[i])
  BY DEF Logs
<1>3. LogOK(r) /\ r.state = st /\ r.name = b[i].name /\ r.vs = b[i].vs /\ r.blank = b[i].blank
  BY <1>1 DEF LogOK, LogFields
<1>4. b1 = With(b, i, r)
  BY DEF With
<1> HIDE DEF r
<1>5. LET b2 == With(b, i, r) IN
      /\ Logs(b2) /\ Len(b2) = Len(b) /\ DOMAIN b2 = DOMAIN b
      /\ b2[i] = r /\ \A k \in DOMAIN b : k # i => b2[k] = b[k]
  BY <1>3, LogPut
<1> QED BY <1>3, <1>4, <1>5 DEF Updated

\* Taking out the first log of a name changes no other.
Fewer(b, b1, x) ==
  /\ Logs(b1) /\ Len(b1) = Len(b) /\ DOMAIN b1 = DOMAIN b
  /\ \A k \in DOMAIN b : \/ b1[k] = b[k]
                         \/ /\ b[k].name = x /\ b1[k].state = "gone"
                            /\ b1[k].name = x /\ b1[k].vs = b[k].vs /\ b1[k].blank = b[k].blank

\* RemoveLog takes out one log of the name at most.
LEMMA LogRemoved ==
  ASSUME NEW b, Logs(b), NEW x
  PROVE  Fewer(b, RemoveLog(b, x), x)
<1> DEFINE S == {i \in DOMAIN b : b[i].state # "gone" /\ b[i].name = x}
           gone == First(S)
           b1 == [b EXCEPT ![gone].state = "gone"]
<1>1. S \in SUBSET DOMAIN b
  OBVIOUS
<1>2. (S = {} <=> gone = 0) /\ (S # {} => gone \in S)
  <2> HIDE DEF S
  <2> QED BY <1>1, FirstOne
<1>3. RemoveLog(b, x) = IF gone = 0 THEN b ELSE b1
  BY DEF RemoveLog
<1>4. CASE gone = 0
  BY <1>3, <1>4 DEF Fewer
<1>5. CASE gone # 0
  <2>1. gone \in DOMAIN b /\ b[gone].name = x
    BY <1>2, <1>5
  <2> HIDE DEF gone, S
  <2>2. Updated(b, b1, gone, "gone", b[gone].name, b[gone].vs, b[gone].blank)
    BY <2>1, LogState
  <2> HIDE DEF b1
  <2>3. Fewer(b, b1, x)
    BY <2>1, <2>2 DEF Updated, Fewer
  <2> QED BY <1>3, <1>5, <2>3
<1> QED BY <1>4, <1>5

\* The book with a log begun for the name x.
LogAdded(b, b1, x) ==
  /\ Logs(b1) /\ Len(b1) = Len(b) + 1 /\ DOMAIN b1 = 1 .. Len(b) + 1
  /\ b1[Len(b) + 1].state = "live" /\ b1[Len(b) + 1].name = x /\ b1[Len(b) + 1].vs = <<>>
  /\ \A k \in DOMAIN b : \/ b1[k] = b[k]
                         \/ /\ b[k].name = x /\ b1[k].state = "gone"
                            /\ b1[k].name = x /\ b1[k].vs = b[k].vs /\ b1[k].blank = b[k].blank

\* WriteDatasetInit begins a log, perhaps in the place of a blank one.
LEMMA LogBegun ==
  ASSUME Logs(book), NEW x \in Names
  PROVE  LogAdded(book, WriteDatasetInit(x), x)
<1> DEFINE b == IF RefToInitID(x) = 0 THEN book ELSE RemoveLog(book, x)
           r == [state |-> "live", name |-> x, vs |-> <<>>, blank |-> TRUE, minus |-> FALSE]
           b1 == Append(b, r)
<1>1. Fewer(book, b, x)
  <2>1. Fewer(book, book, x)
    BY DEF Fewer
  <2> QED BY <2>1, LogRemoved
<1>2. LogOK(r) /\ r.state = "live" /\ r.name = x /\ r.vs = <<>>
  BY DEF LogOK, LogFields
<1>3. WriteDatasetInit(x) = b1
  BY DEF WriteDatasetInit
<1> HIDE DEF b, r
<1>4. /\ Logs(b1) /\ Len(b1) = Len(b) + 1 /\ DOMAIN b1 = 1 .. Len(b) + 1
      /\ b1[Len(b) + 1] = r /\ \A k \in DOMAIN b : b1[k] = b[k]
  <2>1. Logs(b)
    BY <1>1 DEF Fewer
  <2> QED BY <1>2, <2>1, LogAppend
<1> HIDE DEF b1
<1>5. LogAdded(book, b1, x)
  BY <1>1, <1>2, <1>4 DEF Fewer, LogAdded
<1> QED BY <1>3, <1>5

-----------------------------------------------------------------------------
(* The parts of the invariant. *)

\* Where a request has nothing half done.
Plain == {"idle", "files", "renResolve", "rmResolve", "rmFiles", "iniCheck", "iniFiles", "rolled",
          "outCheck", "outFiles", "done"}

\* There the invariant says what it says of a client without a request.
LEMMA PlainAgrees ==
  ASSUME NEW m, m.pc \in Plain, NEW r, NEW ds, NEW mv, NEW b, NEW p, NEW st, NEW tw,
         Stores(r, ds, b, p, st), Locals(m, b), AllLinked(r, ds, mv), AllLogged(r, b), Existing(ds),
         ~tw => Sound(b, p) /\ AllKept(b, st) /\ AllGood(r, b)
  PROVE  Agree(m, r, ds, mv, b, p, st, tw)
<1>1. LinkedUp(m, r, ds, mv)
  BY DEF LinkedUp, AllLinked
<1>2. Logged(m, r, b)
  BY DEF Logged, AllLogged
<1>3. LinkPcs(m, r, ds, mv, b)
  BY DEF LinkPcs, Plain
<1>4. AllKept(b, st) => Kept(m, b, st)
  BY DEF Kept, AllKept
<1>5. AllGood(r, b) => Good(m, r, b)
  BY DEF Good, AllGood
<1>6. ChainPcs(m, r, b, p, st)
  BY DEF ChainPcs, Plain
<1> QED BY <1>1, <1>2, <1>3, <1>4, <1>5, <1>6 DEF Agree, LinkInv, ChainInv

\* What holds wherever the request is, and what holds where it has not begun to
\* change one of the stores.
LEMMA Parts ==
  ASSUME NEW m, NEW r, NEW ds, NEW mv, NEW b, NEW p, NEW st, NEW tw, Agree(m, r, ds, mv, b, p, st, tw)
  PROVE  /\ Stores(r, ds, b, p, st) /\ Locals(m, b) /\ Existing(ds) /\ LinkPcs(m, r, ds, mv, b)
         /\ LinkedUp(m, r, ds, mv) /\ Logged(m, r, b)
         /\ m.pc \notin LoosePcs => AllLinked(r, ds, mv)
         /\ m.pc \notin UnloggedPcs => AllLogged(r, b)
         /\ ~tw => Sound(b, p) /\ ChainPcs(m, r, b, p, st) /\ Kept(m, b, st) /\ Good(m, r, b)
         /\ ~tw /\ m.pc \notin CutPcs => AllKept(b, st)
         /\ ~tw /\ m.pc \notin AheadPcs => AllGood(r, b)
<1>1. LinkedUp(m, r, ds, mv) /\ m.pc \notin LoosePcs => AllLinked(r, ds, mv)
  BY DEF LinkedUp, AllLinked, Loose, LoosePcs
<1>2. Logged(m, r, b) /\ m.pc \notin UnloggedPcs => AllLogged(r, b)
  BY DEF Logged, AllLogged
<1>3. Kept(m, b, st) /\ m.pc \notin CutPcs => AllKept(b, st)
  BY DEF Kept, AllKept, Missing
<1>4. Good(m, r, b) /\ m.pc \notin AheadPcs => AllGood(r, b)
  BY DEF Good, AllGood
<1> QED BY <1>1, <1>2, <1>3, <1>4 DEF Agree, LinkInv, ChainInv

\* The other way round.
LEMMA Together ==
  ASSUME NEW m, NEW r, NEW ds, NEW mv, NEW b, NEW p, NEW st, NEW tw,
         Stores(r, ds, b, p, st), Locals(m, b), Existing(ds), LinkPcs(m, r, ds, mv, b),
         AllLinked(r, ds, mv) \/ LinkedUp(m, r, ds, mv),
         AllLogged(r, b) \/ Logged(m, r, b),
         ~tw => /\ Sound(b, p) /\ ChainPcs(m, r, b, p, st)
                /\ AllKept(b, st) \/ Kept(m, b, st)
                /\ AllGood(r, b) \/ Good(m, r, b)
  PROVE  Agree(m, r, ds, mv, b, p, st, tw)
<1>1. AllLinked(r, ds, mv) => LinkedUp(m, r, ds, mv)
  BY DEF LinkedUp, AllLinked
<1>2. AllLogged(r, b) => Logged(m, r, b)
  BY DEF Logged, AllLogged
<1>3. AllKept(b, st) => Kept(m, b, st)
  BY DEF Kept, AllKept
<1>4. AllGood(r, b) => Good(m, r, b)
  BY DEF Good, AllGood
<1> QED BY <1>1, <1>2, <1>3, <1>4 DEF Agree, LinkInv, ChainInv

\* A client without a request.
LEMMA IdleAgrees ==
  ASSUME NEW r, NEW ds, NEW mv, NEW b, NEW p, NEW st, NEW tw,
         Stores(r, ds, b, p, st), AllLinked(r, ds, mv), AllLogged(r, b), Existing(ds),
         ~tw => Sound(b, p) /\ AllKept(b, st) /\ AllGood(r, b)
  PROVE  Agree(Idle, r, ds, mv, b, p, st, tw)
<1>1. Logs(b) /\ Len(b) \in Nat
  BY Domains DEF Stores
<1>2. Locals(Idle, b) /\ Idle.pc \in Plain
  BY <1>1 DEF Locals, Idle, NoRef, Plain, Renaming, InDir
<1> HIDE DEF Idle
<1> QED BY <1>2, PlainAgrees

\* A log more, for a name without a reference.
LEMMA WithAdded ==
  ASSUME NEW b, Logs(b), NEW b1, NEW x, LogAdded(b, b1, x), NEW r, ~r[x].stored, NEW p, NEW st
  PROVE  /\ AllLogged(r, b) => AllLogged(r, b1)
         /\ Sound(b, p) /\ Single(b1) => Sound(b1, p)
         /\ AllKept(b, st) => AllKept(b1, st)
         /\ AllGood(r, b) => AllGood(r, b1)
         /\ Single(b1) => Empty(b1, x)
         /\ Holds(b1, Len(b) + 1, x)
<1>0. DOMAIN b = 1 .. Len(b) /\ Len(b) \in Nat
  BY Domains
<1>1. AllLogged(r, b) => AllLogged(r, b1)
  BY <1>0 DEF AllLogged, HasLog, Holds, LogAdded
<1>2. Blanks(b) => Blanks(b1)
  BY <1>0 DEF Blanks, LogAdded
<1>3. Distinct(b) => Distinct(b1)
  BY <1>0 DEF Distinct, LogAdded
<1>4. Chained(b, p) => Chained(b1, p)
  BY <1>0 DEF Chained, LogAdded
<1>5. AllKept(b, st) => AllKept(b1, st)
  BY <1>0 DEF AllKept, LogAdded
<1>6. AllGood(r, b) => AllGood(r, b1)
  BY <1>0 DEF AllGood, GoodRef, Holds, Last, LogAdded
<1>7. Holds(b1, Len(b) + 1, x)
  BY <1>0 DEF Holds, LogAdded
<1>8. Single(b1) => Empty(b1, x)
  BY <1>7 DEF Single, Empty, Holds, LogAdded
<1> QED BY <1>1, <1>2, <1>3, <1>4, <1>5, <1>6, <1>7, <1>8 DEF Sound

\* A log less, of a name without a reference.
LEMMA WithFewer ==
  ASSUME NEW b, Logs(b), NEW b1, NEW x, Fewer(b, b1, x), NEW r, ~r[x].stored, NEW p, NEW st
  PROVE  /\ AllLogged(r, b) => AllLogged(r, b1)
         /\ Sound(b, p) => Sound(b1, p)
         /\ AllKept(b, st) => AllKept(b1, st)
         /\ AllGood(r, b) => AllGood(r, b1)
<1>1. AllLogged(r, b) => AllLogged(r, b1)
  BY DEF AllLogged, HasLog, Holds, Fewer
<1>2. Blanks(b) => Blanks(b1)
  BY DEF Blanks, Fewer
<1>3. Distinct(b) => Distinct(b1)
  BY DEF Distinct, Fewer
<1>4. Chained(b, p) => Chained(b1, p)
  BY DEF Chained, Fewer
<1>5. AllKept(b, st) => AllKept(b1, st)
  BY DEF AllKept, Fewer
<1>6. AllGood(r, b) => AllGood(r, b1)
  BY DEF AllGood, GoodRef, Holds, Last, Fewer
<1>7. Single(b) => Single(b1)
  BY DEF Single, Fewer
<1> QED BY <1>1, <1>2, <1>3, <1>4, <1>5, <1>6, <1>7 DEF Sound

\* A log that keeps its name, its state and its versions.
LEMMA WithSame ==
  ASSUME NEW b, Logs(b), NEW b1, NEW i \in DOMAIN b, NEW bl, bl \in {FALSE, b[i].blank},
         Updated(b, b1, i, b[i].state, b[i].name, b[i].vs, bl), NEW r, NEW p, NEW st
  PROVE  /\ AllLogged(r, b) => AllLogged(r, b1)
         /\ Sound(b, p) => Sound(b1, p)
         /\ AllKept(b, st) => AllKept(b1, st)
         /\ AllGood(r, b) => AllGood(r, b1)
<1>1. AllLogged(r, b) => AllLogged(r, b1)
  BY DEF AllLogged, HasLog, Holds, Updated
<1>2. Blanks(b) => Blanks(b1)
  BY DEF Blanks, Updated
<1>3. Distinct(b) => Distinct(b1)
  BY DEF Distinct, Updated
<1>4. Chained(b, p) => Chained(b1, p)
  BY DEF Chained, Updated
<1>5. AllKept(b, st) => AllKept(b1, st)
  BY DEF AllKept, Updated
<1>6. AllGood(r, b) => AllGood(r, b1)
  BY DEF AllGood, GoodRef, Holds, Last, Updated
<1>7. Single(b) => Single(b1)
  BY DEF Single, Updated
<1> QED BY <1>1, <1>2, <1>3, <1>4, <1>5, <1>6, <1>7 DEF Sound

\* Another reference for the name x, and what that leaves alone.
Put(r, r1, x, q) == r1[x] = q /\ \A y \in Names : y # x => r1[y] = r[y]
OtherLinks(r, ds, mv, x) == \A y \in Names : y # x => LinkOK(r, ds, mv, y)
OtherLogged(r, b, x)     == \A y \in Names : y # x /\ r[y].stored => HasLog(b, y)
OtherGood(r, b, x)       == \A y \in Names : y # x => GoodRef(r, b, y)

\* PutRef and DeleteRef change the reference of one name, if what they read is still there.
LEMMA Written ==
  ASSUME NEW r, Refs(r), NEW x \in Names, NEW q, NEW r1, r1 = [r EXCEPT ![x] = q]
  PROVE  Put(r, r1, x, q)
BY DEF Refs, Put

\* What holds of the other names is left alone.
LEMMA PutLeaves ==
  ASSUME NEW r, NEW r1, NEW x, NEW q, Put(r, r1, x, q), NEW ds, NEW mv, NEW b
  PROVE  /\ OtherLinks(r, ds, mv, x) => OtherLinks(r1, ds, mv, x)
         /\ OtherLogged(r, b, x) => OtherLogged(r1, b, x)
         /\ OtherGood(r, b, x) => OtherGood(r1, b, x)
<1>1. OtherLinks(r, ds, mv, x) => OtherLinks(r1, ds, mv, x)
  BY DEF Put, OtherLinks, LinkOK
<1>2. OtherLogged(r, b, x) => OtherLogged(r1, b, x)
  BY DEF Put, OtherLogged
<1>3. OtherGood(r, b, x) => OtherGood(r1, b, x)
  BY DEF Put, OtherGood, GoodRef
<1> QED BY <1>1, <1>2, <1>3

\* What the invariant says of the other names.
LEMMA Others ==
  ASSUME NEW m, NEW r, NEW ds, NEW mv, NEW b, NEW p, NEW st, NEW tw, Agree(m, r, ds, mv, b, p, st, tw),
         NEW x, (x = m.name /\ m.pc # "renLink") \/ (m.pc \notin LoosePcs /\ m.pc \notin UnloggedPcs /\ m.pc \notin AheadPcs)
  PROVE  /\ OtherLinks(r, ds, mv, x) /\ OtherLogged(r, b, x)
         /\ ~tw => OtherGood(r, b, x)
<1>1. LinkedUp(m, r, ds, mv) /\ Logged(m, r, b) /\ (~tw => Good(m, r, b))
  BY DEF Agree, LinkInv, ChainInv
<1>2. OtherLinks(r, ds, mv, x)
  BY <1>1 DEF LinkedUp, OtherLinks, Loose, LoosePcs
<1>3. OtherLogged(r, b, x)
  BY <1>1 DEF Logged, OtherLogged
<1>4. ~tw => OtherGood(r, b, x)
  BY <1>1 DEF Good, OtherGood
<1> QED BY <1>2, <1>3, <1>4

\* The invariant, from what holds of the other names and of the one that was changed.
LEMMA Rejoined ==
  ASSUME NEW m, NEW r, NEW ds, NEW mv, NEW b, NEW p, NEW st, NEW tw, NEW x,
         Stores(r, ds, b, p, st), Locals(m, b), Existing(ds), LinkPcs(m, r, ds, mv, b),
         OtherLinks(r, ds, mv, x), LinkOK(r, ds, mv, x) \/ (x = m.name /\ m.pc \in LoosePcs),
         OtherLogged(r, b, x), r[x].stored => HasLog(b, x) \/ (x = m.name /\ m.pc \in UnloggedPcs),
         ~tw => /\ Sound(b, p) /\ ChainPcs(m, r, b, p, st)
                /\ AllKept(b, st) \/ Kept(m, b, st)
                /\ OtherGood(r, b, x) /\ (GoodRef(r, b, x) \/ (x = m.name /\ m.pc \in AheadPcs))
  PROVE  Agree(m, r, ds, mv, b, p, st, tw)
<1>1. LinkedUp(m, r, ds, mv)
  BY DEF LinkedUp, OtherLinks, Loose
<1>2. Logged(m, r, b)
  BY DEF Logged, OtherLogged
<1>3. ~tw => Good(m, r, b)
  BY DEF Good, OtherGood
<1> QED BY <1>1, <1>2, <1>3, Together

\* Files change, links do not.
SameLinks(ds, ds1) ==
  \A d \in Dirs : ds1[d].link = ds[d].link /\ (ds[d].exists /\ ds[d].link # NoName => ds1[d].exists)

\* Then references and link files agree as before.
LEMMA LinksSame ==
  ASSUME NEW ds, NEW ds1, SameLinks(ds, ds1), NEW r, NEW mv, NEW b, NEW p, NEW st
  PROVE  /\ Stores(r, ds, b, p, st) => Stores(r, ds1, b, p, st)
         /\ AllLinked(r, ds, mv) => AllLinked(r, ds1, mv)
         /\ Existing(ds) => Existing(ds1)
BY DEF SameLinks, Stores, AllLinked, LinkOK, Existing

\* The sequence t is s and v.
Longer(s, t, v) ==
  /\ Len(s) \in Nat /\ Len(t) = Len(s) + 1 /\ DOMAIN s = 1 .. Len(s) /\ DOMAIN t = 1 .. Len(s) + 1
  /\ t[Len(s) + 1] = v /\ (\A j \in DOMAIN s : t[j] = s[j]) /\ t # <<>>
  /\ s # <<>> => Len(s) \in DOMAIN s

\* Append makes a sequence longer.
LEMMA Appended ==
  ASSUME NEW s \in Seq(Nat), NEW v \in Nat
  PROVE  Longer(s, Append(s, v), v)
BY DEF Longer

\* A version more in log i.
LEMMA WithSaved ==
  ASSUME NEW b, Logs(b), NEW i \in DOMAIN b, b[i].state = "live", NEW v, NEW b1, NEW x,
         NEW t, Longer(b[i].vs, t, v), NEW bl, ~bl, Updated(b, b1, i, "live", x, t, bl),
         NEW p, NEW st, Sound(b, p), Single(b1), Unused(b, v), v \in DOMAIN p, v \in st, p[v] = Last(b, i),
         AllKept(b, st)
  PROVE  Sound(b1, p) /\ AllKept(b1, st) /\ Last(b1, i) = v
<1> DEFINE s == b[i].vs
<1>2. /\ Len(s) \in Nat /\ Len(t) = Len(s) + 1 /\ DOMAIN s = 1 .. Len(s) /\ DOMAIN t = 1 .. Len(s) + 1
      /\ t[Len(s) + 1] = v /\ (\A j \in DOMAIN s : t[j] = s[j]) /\ t # <<>> /\ (s # <<>> => Len(s) \in DOMAIN s)
  BY DEF Longer
<1>3. /\ DOMAIN b1 = DOMAIN b /\ b1[i].state = "live" /\ b1[i].vs = t /\ ~b1[i].blank
      /\ \A k \in DOMAIN b : k # i => b1[k] = b[k]
  BY DEF Updated
<1>4. /\ \A j \in DOMAIN t : t[j] = v \/ (j \in DOMAIN s /\ t[j] = s[j])
      /\ \A j \in DOMAIN s : s[j] # v
      /\ \A j \in DOMAIN t : t[j] = v => j = Len(s) + 1
  <2>1. \A j \in DOMAIN s : s[j] # v
    BY DEF Unused
  <2> HIDE DEF s
  <2> QED BY <1>2, <2>1
<1>5. Distinct(b1)
  <2> SUFFICES ASSUME NEW k \in DOMAIN b1, NEW n \in DOMAIN b1, b1[k].state = "live", b1[n].state = "live",
                      NEW j \in DOMAIN b1[k].vs, NEW l \in DOMAIN b1[n].vs, b1[k].vs[j] = b1[n].vs[l]
               PROVE  k = n /\ j = l
    BY DEF Distinct
  <2>1. Distinct(b)
    BY DEF Sound
  <2>2. CASE k = i /\ n = i
    <3>1. t[j] = t[l] /\ j \in DOMAIN t /\ l \in DOMAIN t
      BY <1>3, <2>2
    <3>2. CASE t[j] = v
      BY <1>4, <2>2, <3>1, <3>2
    <3>3. CASE t[j] # v
      <4>1. j \in DOMAIN s /\ l \in DOMAIN s /\ s[j] = s[l]
        BY <1>4, <3>1, <3>3
      <4> QED BY <2>1, <2>2, <4>1 DEF Distinct
    <3> QED BY <3>2, <3>3
  <2>3. CASE k = i /\ n # i
    BY <1>3, <1>4, <2>1, <2>3 DEF Distinct, Unused
  <2>4. CASE k # i /\ n = i
    BY <1>3, <1>4, <2>1, <2>4 DEF Distinct, Unused
  <2>5. CASE k # i /\ n # i
    BY <1>3, <2>1, <2>5 DEF Distinct
  <2> QED BY <2>2, <2>3, <2>4, <2>5
<1>6. Chained(b1, p)
  <2> SUFFICES ASSUME NEW k \in DOMAIN b1, b1[k].state = "live", NEW j \in DOMAIN b1[k].vs
               PROVE  b1[k].vs[j] \in DOMAIN p /\ p[b1[k].vs[j]] = IF j = 1 THEN 0 ELSE b1[k].vs[j - 1]
    BY DEF Chained
  <2>1. Chained(b, p)
    BY DEF Sound
  <2>2. CASE k # i
    BY <1>3, <2>1, <2>2 DEF Chained
  <2>3. CASE k = i /\ j \in DOMAIN s
    <3>1. s[j] \in DOMAIN p /\ p[s[j]] = IF j = 1 THEN 0 ELSE s[j - 1]
      BY <2>1, <2>3 DEF Chained
    <3>2. j # 1 => j - 1 \in DOMAIN s
      BY <1>2, <2>3
    <3> QED BY <1>2, <1>3, <2>3, <3>1, <3>2
  <2>4. CASE k = i /\ j \notin DOMAIN s
    <3>1. j = Len(s) + 1 /\ b1[k].vs[j] = v
      BY <1>2, <1>3, <1>4, <2>4
    <3>2. CASE s = <<>>
      BY <1>2, <3>1, <3>2 DEF Last
    <3>3. CASE s # <<>>
      <4>1. Len(s) # 0 /\ Len(s) \in DOMAIN s
        BY <1>2, <3>3
      <4>2. p[v] = s[Len(s)]
        BY <3>3 DEF Last
      <4> QED BY <1>2, <1>3, <2>4, <3>1, <4>1, <4>2
    <3> QED BY <3>2, <3>3
  <2> QED BY <2>2, <2>3, <2>4
<1>7. Blanks(b1)
  BY <1>3 DEF Sound, Blanks
<1>8. AllKept(b1, st)
  BY <1>3, <1>4 DEF AllKept
<1>9. Last(b1, i) = v
  BY <1>2, <1>3 DEF Last
<1> QED BY <1>5, <1>6, <1>7, <1>8, <1>9 DEF Sound

\* The sequence t is s without its last n elements.
Shorter(s, t, n) ==
  /\ Len(s) \in Nat /\ n \in {1, 2} /\ Len(t) = Len(s) - n /\ DOMAIN t = 1 .. Len(s) - n
  /\ (\A j \in DOMAIN t : j \in DOMAIN s /\ t[j] = s[j]) /\ t # <<>> /\ s # <<>>
  /\ Len(s) - n \in DOMAIN t

\* SubSeq makes it shorter.
LEMMA Shortened ==
  ASSUME NEW s \in Seq(Nat), NEW n \in {1, 2}, n < Len(s)
  PROVE  Shorter(s, SubSeq(s, 1, Len(s) - n), n)
<1> DEFINE k == Len(s) - n
<1>1. k \in Nat /\ k # 0 /\ k =< Len(s) /\ Len(s) \in Nat
  OBVIOUS
<1> HIDE DEF k
<1>2. /\ Len(SubSeq(s, 1, k)) = k /\ DOMAIN SubSeq(s, 1, k) = 1 .. k
      /\ \A j \in 1 .. k : j \in DOMAIN s /\ SubSeq(s, 1, k)[j] = s[j]
  BY <1>1
<1>3. SubSeq(s, 1, k) # <<>> /\ s # <<>> /\ k \in 1 .. k
  BY <1>1, <1>2
<1> QED BY <1>1, <1>2, <1>3 DEF Shorter, k

\* The newest n versions of log i less.
LEMMA WithCut ==
  ASSUME NEW b, Logs(b), NEW i \in DOMAIN b, b[i].state = "live", NEW n, NEW b1, NEW x,
         NEW t, Shorter(b[i].vs, t, n), NEW bl, bl \in {FALSE, b[i].blank}, Updated(b, b1, i, "live", x, t, bl),
         NEW p, NEW st, Sound(b, p), Single(b1),
         \A k \in DOMAIN b : b[k].state = "live" => \A j \in DOMAIN b[k].vs :
           (k = i /\ j > Len(b[i].vs) - n) \/ b[k].vs[j] \in st
  PROVE  Sound(b1, p) /\ AllKept(b1, st)
<1> DEFINE s == b[i].vs
<1>2. /\ Len(s) \in Nat /\ n \in {1, 2} /\ DOMAIN t = 1 .. Len(s) - n
      /\ (\A j \in DOMAIN t : j \in DOMAIN s /\ t[j] = s[j]) /\ s # <<>>
  BY DEF Shorter
<1>3. /\ DOMAIN b1 = DOMAIN b /\ b1[i].state = "live" /\ b1[i].vs = t /\ b1[i].blank = bl
      /\ \A k \in DOMAIN b : k # i => b1[k] = b[k]
  BY DEF Updated
<1>4. \A k \in DOMAIN b : b1[k].state = b[k].state /\ \A j \in DOMAIN b1[k].vs : j \in DOMAIN b[k].vs /\ b1[k].vs[j] = b[k].vs[j]
  BY <1>2, <1>3
<1>5. Distinct(b1)
  BY <1>3, <1>4 DEF Sound, Distinct
<1>6. Chained(b1, p)
  <2> SUFFICES ASSUME NEW k \in DOMAIN b, b[k].state = "live", NEW j \in DOMAIN b1[k].vs
               PROVE  b1[k].vs[j] \in DOMAIN p /\ p[b1[k].vs[j]] = IF j = 1 THEN 0 ELSE b1[k].vs[j - 1]
    BY <1>3, <1>4 DEF Chained
  <2>1. b[k].vs[j] \in DOMAIN p /\ p[b[k].vs[j]] = IF j = 1 THEN 0 ELSE b[k].vs[j - 1]
    BY <1>4 DEF Sound, Chained
  <2>2. CASE k # i
    BY <1>3, <2>1, <2>2
  <2>3. CASE k = i
    <3>1. j # 1 => j - 1 \in DOMAIN t
      BY <1>2, <1>3, <2>3
    <3> QED BY <1>2, <1>3, <2>1, <2>3, <3>1
  <2> QED BY <2>2, <2>3
<1>7. Blanks(b1)
  BY <1>2, <1>3 DEF Sound, Blanks
<1>8. AllKept(b1, st)
  <2> SUFFICES ASSUME NEW k \in DOMAIN b, b[k].state = "live", NEW j \in DOMAIN b1[k].vs
               PROVE  b1[k].vs[j] \in st
    BY <1>3, <1>4 DEF AllKept
  <2>1. k = i => ~(j > Len(s) - n)
    BY <1>2, <1>3
  <2> QED BY <1>4, <2>1
<1> QED BY <1>5, <1>6, <1>7, <1>8 DEF Sound
-----------------------------------------------------------------------------
(* Save keeps the invariant. *)

\* A save takes the log and the newest version of a name, or begins an empty log.
LEMMA PrepareSaveRefAgrees ==
  ASSUME NEW c, Clients = {c}, World(c), faults \in Nat, faults' = 0, Agreed(c), PrepareSaveRef(c)
  PROVE  Agreed(c)'
<1> DEFINE m == me[c]
           m1 == me'[c]
<1>0. DOMAIN me = Clients /\ DOMAIN m = Fields /\ (m.fresh => m.held = refs) /\ Refs(refs) /\ Folders(dirs)
  BY DEF World, Local
<1>1. m.pc = "prepare" /\ ~Fault(c)
  <2>1. At(c, "prepare")
    BY DEF PrepareSaveRef
  <2> QED BY <2>1 DEF At, Fault
<1>2. /\ Stores(refs, dirs, book, prev, store) /\ Locals(m, book) /\ Existing(dirs)
      /\ LinkPcs(m, refs, dirs, moved, book)
      /\ AllLinked(refs, dirs, moved) /\ AllLogged(refs, book)
      /\ ~muddled => /\ Sound(book, prev) /\ ChainPcs(m, refs, book, prev, store)
                     /\ AllKept(book, store) /\ AllGood(refs, book)
  BY <1>1, Parts DEF Agreed, LoosePcs, UnloggedPcs, CutPcs, AheadPcs
<1> DEFINE x == m.name
           i == RefToInitID(x)
<1>3. i # 0 => Holds(book, i, x)
  BY <1>2, LogOf DEF Stores, Holds
<1>4. x \in Names /\ i \in 0 .. Len(book) /\ Len(book) \in Nat
  BY <1>1, <1>2, LogOf, Domains DEF Stores, Locals
<1>5. CASE Return(c) /\ refs' = refs /\ dirs' = dirs /\ book' = book /\ moved' = moved /\ prev' = prev /\ store' = store /\ muddled' = muddled
  <2>1. m1 = Idle
    BY <1>0, <1>5 DEF Return
  <2> QED BY <1>2, <1>5, <2>1, IdleAgrees DEF Agreed
<1>6. CASE /\ refs[x].stored /\ i # 0
           /\ me' = [me EXCEPT ![c].pc = "working", ![c].id = i, ![c].path = refs[x].path]
           /\ refs' = refs /\ dirs' = dirs /\ book' = book /\ moved' = moved /\ prev' = prev /\ store' = store /\ muddled' = muddled
  <2>1. /\ m1.pc = "working" /\ m1.name = m.name /\ m1.next = m.next /\ m1.dir = m.dir /\ m1.n = m.n
        /\ m1.left = m.left /\ m1.new = m.new /\ m1.id = i /\ m1.path = refs[x].path /\ m1.at = m.at
        /\ m1.fsi = m.fsi /\ m1.held = m.held /\ m1.fresh = m.fresh /\ m1.why = m.why
    BY <1>0, <1>6 DEF Fields
  <2> HIDE DEF m, m1, i
  <2>2. Locals(m1, book)
    BY <1>1, <1>2, <1>4, <2>1 DEF Locals, Stores, Renaming, InDir
  <2>3. LinkPcs(m1, refs, dirs, moved, book)
    BY <1>1, <1>2, <1>3, <1>6, <2>1 DEF LinkPcs
  <2>4. ~muddled => ChainPcs(m1, refs, book, prev, store)
    BY <1>1, <1>2, <1>3, <1>4, <1>6, <2>1 DEF ChainPcs, LinkPcs, AllGood, GoodRef, Holds
  <2>5. Agree(m1, refs, dirs, moved, book, prev, store, muddled)
    BY <1>2, <2>2, <2>3, <2>4, Together
  <2> QED BY <1>6, <2>5 DEF Agreed, m1
<1>7. CASE /\ ~refs[x].stored /\ book' = WriteDatasetInit(x)
           /\ me' = [me EXCEPT ![c].pc = "working", ![c].id = Len(book) + 1, ![c].new = TRUE]
           /\ refs' = refs /\ dirs' = dirs /\ moved' = moved /\ prev' = prev /\ store' = store
           /\ muddled' = (muddled \/ Twins(book'))
  <2>1. /\ m1.pc = "working" /\ m1.name = m.name /\ m1.next = m.next /\ m1.dir = m.dir /\ m1.n = m.n
        /\ m1.left = m.left /\ m1.new = TRUE /\ m1.id = Len(book) + 1 /\ m1.path = m.path /\ m1.at = m.at
        /\ m1.fsi = m.fsi /\ m1.held = m.held /\ m1.fresh = m.fresh /\ m1.why = m.why
    BY <1>0, <1>7 DEF Fields
  <2>2. LogAdded(book, book', x)
    BY <1>2, <1>4, <1>7, LogBegun DEF Stores
  <2>3. ~muddled' => ~muddled /\ Single(book')
    BY <1>7 DEF Twins, Single
  <2> HIDE DEF m, m1, x
  <2>4. /\ AllLogged(refs, book') /\ Holds(book', Len(book) + 1, x)
        /\ ~muddled' => Sound(book', prev) /\ AllKept(book', store) /\ AllGood(refs, book') /\ Empty(book', x)
    BY <1>2, <1>7, <2>2, <2>3, WithAdded DEF Stores
  <2>5. Stores(refs, dirs, book', prev, store) /\ Locals(m1, book')
    BY <1>1, <1>2, <1>4, <2>1, <2>2 DEF Stores, Locals, LogAdded, Renaming, InDir
  <2>6. LinkPcs(m1, refs, dirs, moved, book')
    BY <1>1, <1>2, <1>7, <2>1, <2>4 DEF LinkPcs, x
  <2>7. ~muddled' => ChainPcs(m1, refs, book', prev, store)
    BY <1>1, <1>2, <1>7, <2>1, <2>4 DEF ChainPcs, LinkPcs, Last, Empty, Holds
  <2>8. Agree(m1, refs, dirs, moved, book', prev, store, muddled')
    BY <1>2, <2>3, <2>4, <2>5, <2>6, <2>7, Together
  <2> QED BY <1>7, <2>8 DEF Agreed, m1
<1> QED BY <1>1, <1>5, <1>6, <1>7 DEF PrepareSaveRef, Nothing, BookOnly

\* The directory a save remembers is the one whose link file names the dataset.
LEMMA ReadWorkingDirAgrees ==
  ASSUME NEW c, Clients = {c}, World(c), faults \in Nat, faults' = 0, Agreed(c), ReadWorkingDir(c)
  PROVE  Agreed(c)'
<1> DEFINE m == me[c]
           m1 == me'[c]
<1>0. DOMAIN me = Clients /\ DOMAIN m = Fields /\ (m.fresh => m.held = refs) /\ Refs(refs) /\ Folders(dirs)
  BY DEF World, Local
<1>1. m.pc = "working" /\ ~Fault(c)
  <2>1. At(c, "working")
    BY DEF ReadWorkingDir
  <2> QED BY <2>1 DEF At, Fault
<1>2. /\ Stores(refs, dirs, book, prev, store) /\ Locals(m, book) /\ Existing(dirs)
      /\ LinkPcs(m, refs, dirs, moved, book)
      /\ AllLinked(refs, dirs, moved) /\ AllLogged(refs, book)
      /\ ~muddled => /\ Sound(book, prev) /\ ChainPcs(m, refs, book, prev, store)
                     /\ AllKept(book, store) /\ AllGood(refs, book)
  BY <1>1, Parts DEF Agreed, LoosePcs, UnloggedPcs, CutPcs, AheadPcs
<1>3. CASE Return(c) /\ refs' = refs /\ dirs' = dirs /\ book' = book /\ moved' = moved /\ prev' = prev /\ store' = store /\ muddled' = muddled
  <2>1. m1 = Idle
    BY <1>0, <1>3 DEF Return
  <2> QED BY <1>2, <1>3, <2>1, IdleAgrees DEF Agreed
<1>4. CASE /\ m.new \/ refs[m.name].fsi = NoDir
           /\ Go(c, "write")
           /\ refs' = refs /\ dirs' = dirs /\ book' = book /\ moved' = moved /\ prev' = prev /\ store' = store /\ muddled' = muddled
  <2>1. /\ m1.pc = "write" /\ m1.name = m.name /\ m1.next = m.next /\ m1.dir = m.dir /\ m1.n = m.n
        /\ m1.left = m.left /\ m1.new = m.new /\ m1.id = m.id /\ m1.path = m.path /\ m1.at = m.at
        /\ m1.fsi = m.fsi /\ m1.held = m.held /\ m1.fresh = m.fresh /\ m1.why = m.why
    BY <1>0, <1>4 DEF Fields, Go
  <2> HIDE DEF m, m1
  <2>a. Ours(dirs, moved, m.name, m.fsi)
    BY <1>1, <1>2, <1>4, NoneAssumption DEF AllLinked, LinkOK, Ours, LinkPcs, Locals
  <2>2. Locals(m1, book)
    BY <1>1, <1>2, <2>1 DEF Locals, Stores, Renaming, InDir
  <2>3. LinkPcs(m1, refs, dirs, moved, book)
    BY <1>1, <1>2, <1>4, <2>1, <2>a DEF LinkPcs
  <2>4. ~muddled => ChainPcs(m1, refs, book, prev, store)
    BY <1>1, <1>2, <1>4, <2>1 DEF ChainPcs
  <2>5. Agree(m1, refs, dirs, moved, book, prev, store, muddled)
    BY <1>2, <2>2, <2>3, <2>4, Together
  <2> QED BY <1>4, <2>5 DEF Agreed, m1
<1>5. CASE /\ ~m.new /\ refs[m.name].fsi # NoDir
           /\ me' = [me EXCEPT ![c].pc = "write", ![c].fsi = refs[m.name].fsi]
           /\ refs' = refs /\ dirs' = dirs /\ book' = book /\ moved' = moved /\ prev' = prev /\ store' = store /\ muddled' = muddled
  <2>1. /\ m1.pc = "write" /\ m1.name = m.name /\ m1.next = m.next /\ m1.dir = m.dir /\ m1.n = m.n
        /\ m1.left = m.left /\ m1.new = m.new /\ m1.id = m.id /\ m1.path = m.path /\ m1.at = m.at
        /\ m1.fsi = refs[m.name].fsi /\ m1.held = m.held /\ m1.fresh = m.fresh /\ m1.why = m.why
    BY <1>0, <1>5 DEF Fields, Go
  <2> HIDE DEF m, m1
  <2>a. Ours(dirs, moved, m.name, refs[m.name].fsi)
    BY <1>1, <1>2, <1>5 DEF AllLinked, LinkOK, Ours, LinkPcs, Locals
  <2>2. Locals(m1, book)
    BY <1>1, <1>2, <2>1 DEF Locals, Stores, Renaming, InDir
  <2>3. LinkPcs(m1, refs, dirs, moved, book)
    BY <1>1, <1>2, <1>5, <2>1, <2>a DEF LinkPcs
  <2>4. ~muddled => ChainPcs(m1, refs, book, prev, store)
    BY <1>1, <1>2, <1>5, <2>1 DEF ChainPcs
  <2>5. Agree(m1, refs, dirs, moved, book, prev, store, muddled)
    BY <1>2, <2>2, <2>3, <2>4, Together
  <2> QED BY <1>5, <2>5 DEF Agreed, m1
<1> QED BY <1>3, <1>4, <1>5 DEF ReadWorkingDir, Nothing

\* A save that is refused leaves the log it began without versions.
LEMMA SaveRefusedAgrees ==
  ASSUME NEW c, Clients = {c}, World(c), faults \in Nat, faults' = 0, Agreed(c), SaveRefused(c)
  PROVE  Agreed(c)'
<1> DEFINE m == me[c]
           m1 == me'[c]
<1>0. DOMAIN me = Clients /\ DOMAIN m = Fields /\ (m.fresh => m.held = refs) /\ Refs(refs) /\ Folders(dirs)
  BY DEF World, Local
<1>1. m.pc = "write" /\ ~Fault(c)
  <2>1. At(c, "write")
    BY DEF SaveRefused
  <2> QED BY <2>1 DEF At, Fault
<1>2. /\ Stores(refs, dirs, book, prev, store) /\ Locals(m, book) /\ Existing(dirs)
      /\ LinkPcs(m, refs, dirs, moved, book)
      /\ AllLinked(refs, dirs, moved) /\ AllLogged(refs, book)
      /\ ~muddled => /\ Sound(book, prev) /\ ChainPcs(m, refs, book, prev, store)
                     /\ AllKept(book, store) /\ AllGood(refs, book)
  BY <1>1, Parts DEF Agreed, LoosePcs, UnloggedPcs, CutPcs, AheadPcs
<1>3. ~muddled' => ~muddled /\ Single(book')
  BY DEF SaveRefused, Twins, Single
<1>4. refs' = refs /\ dirs' = dirs /\ moved' = moved /\ prev' = prev /\ store' = store
  BY DEF SaveRefused, BookAndRuns
<1>5. Holds(book, m.id, m.name) /\ m.name \in Names /\ m.id \in DOMAIN book /\ Logs(book)
  BY <1>1, <1>2 DEF LinkPcs, Locals, Holds, Stores
<1>6. \/ book' = book
      \/ Updated(book, book', m.id, book[m.id].state, book[m.id].name, book[m.id].vs, FALSE)
  <2>1. CASE book' = [book EXCEPT ![m.id].blank = FALSE]
    <3> HIDE DEF m
    <3> QED BY <1>5, <2>1, LogMarked
  <2> QED BY <2>1 DEF SaveRefused
<1>7. /\ Stores(refs, dirs, book', prev, store) /\ AllLogged(refs, book') /\ Len(book') = Len(book)
      /\ ~muddled' => /\ Sound(book', prev) /\ AllKept(book', store) /\ AllGood(refs, book')
                      /\ m.new => Empty(book', m.name)
  <2> HIDE DEF m
  <2>1. m.new /\ ~muddled => Empty(book, m.name)
    BY <1>1, <1>2, <1>5 DEF ChainPcs, Empty, Holds, Sound, Single
  <2>2. CASE book' = book
    BY <1>2, <1>3, <2>1, <2>2
  <2>3. CASE Updated(book, book', m.id, book[m.id].state, book[m.id].name, book[m.id].vs, FALSE)
    <3>1. AllLogged(refs, book')
      BY <1>2, <1>5, <2>3, WithSame
    <3>2. ~muddled' => Sound(book', prev) /\ AllKept(book', store) /\ AllGood(refs, book')
      BY <1>2, <1>3, <1>5, <2>3, WithSame
    <3>3. ~muddled' /\ m.new => Empty(book', m.name)
      BY <1>3, <1>5, <2>1, <2>3 DEF Updated, Empty, Holds
    <3> QED BY <1>2, <2>3, <3>1, <3>2, <3>3 DEF Stores, Updated
  <2> QED BY <1>6, <2>2, <2>3
<1>8. CASE Return(c)
  <2>1. m1 = Idle
    BY <1>0, <1>8 DEF Return
  <2> QED BY <1>2, <1>4, <1>7, <2>1, IdleAgrees DEF Agreed
<1>9. CASE m.new /\ Go(c, "cleanup")
  <2>1. /\ m1.pc = "cleanup" /\ m1.name = m.name /\ m1.next = m.next /\ m1.dir = m.dir /\ m1.n = m.n
        /\ m1.left = m.left /\ m1.new = m.new /\ m1.id = m.id /\ m1.path = m.path /\ m1.at = m.at
        /\ m1.fsi = m.fsi /\ m1.held = m.held /\ m1.fresh = m.fresh /\ m1.why = m.why
    BY <1>0, <1>9 DEF Fields, Go
  <2> HIDE DEF m, m1
  <2>2. Locals(m1, book')
    BY <1>1, <1>2, <1>7, <2>1 DEF Locals, Stores, Renaming, InDir
  <2>3. LinkPcs(m1, refs, dirs, moved, book')
    BY <1>1, <1>2, <1>9, <2>1 DEF LinkPcs
  <2>4. ~muddled' => ChainPcs(m1, refs, book', prev, store)
    BY <1>1, <1>7, <1>9, <2>1 DEF ChainPcs
  <2>5. Agree(m1, refs, dirs, moved, book', prev, store, muddled')
    BY <1>2, <1>7, <2>2, <2>3, <2>4, Together
  <2> QED BY <1>4, <2>5 DEF Agreed, m1
<1> QED BY <1>8, <1>9 DEF SaveRefused, Failed

\* The log that is taken away is empty and has no reference.
LEMMA CleanupAgrees ==
  ASSUME NEW c, Clients = {c}, World(c), faults \in Nat, faults' = 0, Agreed(c), Cleanup(c)
  PROVE  Agreed(c)'
<1> DEFINE m == me[c]
           m1 == me'[c]
<1>0. DOMAIN me = Clients /\ DOMAIN m = Fields /\ (m.fresh => m.held = refs) /\ Refs(refs) /\ Folders(dirs)
  BY DEF World, Local
<1>1. m.pc = "cleanup" /\ ~Fault(c)
  <2>1. At(c, "cleanup")
    BY DEF Cleanup
  <2> QED BY <2>1 DEF At, Fault
<1>2. /\ Stores(refs, dirs, book, prev, store) /\ Locals(m, book) /\ Existing(dirs)
      /\ LinkPcs(m, refs, dirs, moved, book)
      /\ AllLinked(refs, dirs, moved) /\ AllLogged(refs, book)
      /\ ~muddled => /\ Sound(book, prev) /\ ChainPcs(m, refs, book, prev, store)
                     /\ AllKept(book, store) /\ AllGood(refs, book)
  BY <1>1, Parts DEF Agreed, LoosePcs, UnloggedPcs, CutPcs, AheadPcs
<1>3. refs' = refs /\ dirs' = dirs /\ moved' = moved /\ prev' = prev /\ store' = store
  BY DEF Cleanup, BookOnly
<1>4. (~muddled' => ~muddled) /\ Fewer(book, book', m.name) /\ ~refs[m.name].stored /\ m1 = Idle
  BY <1>0, <1>1, <1>2, LogRemoved DEF Cleanup, BookOnly, Return, Stores, LinkPcs
<1> HIDE DEF m, m1
<1>5. /\ AllLogged(refs, book')
      /\ ~muddled' => Sound(book', prev) /\ AllKept(book', store) /\ AllGood(refs, book')
  BY <1>2, <1>4, WithFewer DEF Stores
<1>6. Stores(refs, dirs, book', prev, store)
  BY <1>2, <1>4 DEF Stores, Fewer
<1>7. Agree(m1, refs, dirs, moved, book', prev, store, muddled')
  BY <1>2, <1>4, <1>5, <1>6, IdleAgrees
<1> QED BY <1>3, <1>7 DEF Agreed, m1

\* The new version is in no log yet, and its previous one is the log's newest.
LEMMA WriteVersionAgrees ==
  ASSUME NEW c, Clients = {c}, World(c), faults \in Nat, faults' = 0, Agreed(c), WriteVersion(c)
  PROVE  Agreed(c)'
<1> DEFINE m == me[c]
           m1 == me'[c]
<1>0. DOMAIN me = Clients /\ DOMAIN m = Fields /\ (m.fresh => m.held = refs) /\ Refs(refs) /\ Folders(dirs)
  BY DEF World, Local
<1>1. m.pc = "write" /\ ~Fault(c)
  <2>1. At(c, "write")
    BY DEF WriteVersion
  <2> QED BY <2>1 DEF At, Fault
<1>2. /\ Stores(refs, dirs, book, prev, store) /\ Locals(m, book) /\ Existing(dirs)
      /\ LinkPcs(m, refs, dirs, moved, book)
      /\ AllLinked(refs, dirs, moved) /\ AllLogged(refs, book)
      /\ ~muddled => /\ Sound(book, prev) /\ ChainPcs(m, refs, book, prev, store)
                     /\ AllKept(book, store) /\ AllGood(refs, book)
  BY <1>1, Parts DEF Agreed, LoosePcs, UnloggedPcs, CutPcs, AheadPcs
<1>3. /\ Holds(book, m.id, m.name) /\ m.name \in Names
  BY <1>1, <1>2 DEF LinkPcs, Locals
<1>4. CASE Return(c) /\ refs' = refs /\ dirs' = dirs /\ book' = book /\ moved' = moved /\ prev' = prev /\ store' = store /\ muddled' = muddled
  <2>1. m1 = Idle
    BY <1>0, <1>4 DEF Return
  <2> QED BY <1>2, <1>4, <2>1, IdleAgrees DEF Agreed
<1>5. CASE /\ m.new
           /\ Go(c, "cleanup")
           /\ refs' = refs /\ dirs' = dirs /\ book' = book /\ moved' = moved /\ prev' = prev /\ store' = store /\ muddled' = muddled
  <2>1. /\ m1.pc = "cleanup" /\ m1.name = m.name /\ m1.next = m.next /\ m1.dir = m.dir /\ m1.n = m.n
        /\ m1.left = m.left /\ m1.new = m.new /\ m1.id = m.id /\ m1.path = m.path /\ m1.at = m.at
        /\ m1.fsi = m.fsi /\ m1.held = m.held /\ m1.fresh = m.fresh /\ m1.why = m.why
    BY <1>0, <1>5 DEF Fields, Go
  <2> HIDE DEF m, m1
  <2>a. ~muddled => Empty(book, m.name)
    BY <1>1, <1>2, <1>3, <1>5 DEF ChainPcs, Empty, Holds, Sound, Single
  <2>2. Locals(m1, book)
    BY <1>1, <1>2, <2>1 DEF Locals, Stores, Renaming, InDir
  <2>3. LinkPcs(m1, refs, dirs, moved, book)
    BY <1>1, <1>2, <1>5, <2>1 DEF LinkPcs
  <2>4. ~muddled => ChainPcs(m1, refs, book, prev, store)
    BY <1>1, <1>2, <1>5, <2>1, <2>a DEF ChainPcs
  <2>5. Agree(m1, refs, dirs, moved, book, prev, store, muddled)
    BY <1>2, <2>2, <2>3, <2>4, Together
  <2> QED BY <1>5, <2>5 DEF Agreed, m1
<1>6. CASE /\ prev' = Append(prev, m.path) /\ store' = store \union {Len(prev) + 1}
           /\ me' = [me EXCEPT ![c].at = Len(prev) + 1, ![c].pc = IF m.path = 0 THEN "putRef" ELSE "dropRef"]
           /\ refs' = refs /\ dirs' = dirs /\ book' = book /\ moved' = moved /\ muddled' = muddled
  <2> DEFINE on == IF m.path = 0 THEN "putRef" ELSE "dropRef"
  <2>1. /\ m1.pc = on /\ m1.name = m.name /\ m1.next = m.next /\ m1.dir = m.dir /\ m1.n = m.n
        /\ m1.left = m.left /\ m1.new = m.new /\ m1.id = m.id /\ m1.path = m.path /\ m1.at = Len(prev) + 1
        /\ m1.fsi = m.fsi /\ m1.held = m.held /\ m1.fresh = m.fresh /\ m1.why = m.why
    BY <1>0, <1>6 DEF Fields
  <2>2. on \in {"putRef", "dropRef"}
    OBVIOUS
  <2>3. prev \in Seq(Nat) /\ m.path \in Nat /\ store \subseteq DOMAIN prev
    BY <1>2 DEF Stores, Locals
  <2> HIDE DEF m, m1, on
  <2>4. /\ prev' \in Seq(Nat) /\ DOMAIN prev' = DOMAIN prev \union {Len(prev) + 1} /\ Len(prev) + 1 \notin DOMAIN prev
        /\ prev'[Len(prev) + 1] = m.path /\ Len(prev) + 1 \in Nat
        /\ \A v \in DOMAIN prev : prev'[v] = prev[v]
    BY <1>6, <2>3
  <2>5. Stores(refs, dirs, book, prev', store')
    BY <1>2, <1>6, <2>3, <2>4 DEF Stores
  <2>6. Locals(m1, book)
    BY <1>1, <1>2, <2>1, <2>2, <2>4 DEF Locals, Renaming, InDir
  <2>7. LinkPcs(m1, refs, dirs, moved, book)
    BY <1>1, <1>2, <2>1, <2>2 DEF LinkPcs
  <2>8. ASSUME ~muddled
        PROVE  Sound(book, prev') /\ AllKept(book, store') /\ Unused(book, Len(prev) + 1)
    <3>1. Chained(book, prev') /\ Unused(book, Len(prev) + 1)
      BY <1>2, <2>4, <2>8 DEF Sound, Chained, Unused
    <3>2. AllKept(book, store')
      BY <1>2, <1>6, <2>8 DEF AllKept
    <3> QED BY <1>2, <2>8, <3>1, <3>2 DEF Sound
  <2>9. ~muddled => ChainPcs(m1, refs, book, prev', store')
    BY <1>1, <1>2, <1>6, <2>1, <2>2, <2>4, <2>8 DEF ChainPcs
  <2>10. Agree(m1, refs, dirs, moved, book, prev', store', muddled)
    BY <1>2, <2>5, <2>6, <2>7, <2>8, <2>9, Together
  <2> QED BY <1>6, <2>10 DEF Agreed, m1
<1> QED BY <1>1, <1>4, <1>5, <1>6 DEF WriteVersion, Failed, Nothing, StoreOnly

\* Without a reference the link file is loose; the request knows the directory.
LEMMA DropRefAgrees ==
  ASSUME NEW c, Clients = {c}, World(c), faults \in Nat, faults' = 0, Agreed(c), DropRef(c)
  PROVE  Agreed(c)'
<1> DEFINE m == me[c]
           m1 == me'[c]
<1>0. DOMAIN me = Clients /\ DOMAIN m = Fields /\ (m.fresh => m.held = refs) /\ Refs(refs) /\ Folders(dirs)
  BY DEF World, Local
<1>1. m.pc = "dropRef" /\ ~Fault(c)
  <2>1. At(c, "dropRef")
    BY DEF DropRef
  <2> QED BY <2>1 DEF At, Fault
<1>2. /\ Stores(refs, dirs, book, prev, store) /\ Locals(m, book) /\ Existing(dirs)
      /\ LinkPcs(m, refs, dirs, moved, book)
      /\ AllLinked(refs, dirs, moved) /\ AllLogged(refs, book)
      /\ ~muddled => /\ Sound(book, prev) /\ ChainPcs(m, refs, book, prev, store)
                     /\ AllKept(book, store) /\ AllGood(refs, book)
  BY <1>1, Parts DEF Agreed, LoosePcs, UnloggedPcs, CutPcs, AheadPcs
<1>3. CASE /\ m.fresh /\ refs' = [m.held EXCEPT ![m.name] = NoRef]
           /\ me' = [me EXCEPT ![c].pc = "putRef", ![c].fresh = FALSE]
           /\ dirs' = dirs /\ book' = book /\ moved' = moved /\ prev' = prev /\ store' = store /\ muddled' = muddled
  <2>1. /\ m1.pc = "putRef" /\ m1.name = m.name /\ m1.next = m.next /\ m1.dir = m.dir /\ m1.n = m.n
        /\ m1.left = m.left /\ m1.new = m.new /\ m1.id = m.id /\ m1.path = m.path /\ m1.at = m.at
        /\ m1.fsi = m.fsi /\ m1.held = m.held /\ m1.fresh = FALSE /\ m1.why = m.why
    BY <1>0, <1>3 DEF Fields
  <2>2. m.held = refs /\ m.name \in Names
    BY <1>0, <1>1, <1>2, <1>3 DEF Locals, Renaming
  <2>3. Put(refs, refs', m.name, NoRef)
    <3> HIDE DEF m
    <3> QED BY <1>0, <1>3, <2>2, Written
  <2>4. /\ OtherLinks(refs, dirs, moved, m.name) /\ OtherLogged(refs, book, m.name)
        /\ ~muddled => OtherGood(refs, book, m.name)
    BY <1>1, Others DEF Agreed, LoosePcs, UnloggedPcs, AheadPcs
  <2> HIDE DEF m, m1
  <2>5. /\ OtherLinks(refs', dirs, moved, m.name) /\ OtherLogged(refs', book, m.name)
        /\ ~muddled => OtherGood(refs', book, m.name)
    BY <2>3, <2>4, PutLeaves
  <2>6. Stores(refs', dirs, book, prev, store) /\ Locals(m1, book)
    BY <1>1, <1>2, <1>3, <2>1, <2>2, <2>3 DEF Stores, Locals, Put, Ref, NoRef, Renaming, InDir
  <2>7. LinkPcs(m1, refs', dirs, moved, book)
    BY <1>1, <1>2, <1>3, <2>1, <2>2, <2>3 DEF LinkPcs, Put, Ref, NoRef
  <2>8. ~muddled => ChainPcs(m1, refs', book, prev, store)
    BY <1>1, <1>2, <1>3, <2>1, <2>2, <2>3 DEF ChainPcs, Put, Ref, NoRef
  <2>9. m1.pc \in LoosePcs
    BY <2>1 DEF LoosePcs
  <2>10. refs'[m.name].stored => HasLog(book, m.name)
    BY <1>1, <1>2, <1>3, <2>1, <2>2, <2>3 DEF LinkPcs, HasLog, Holds, Put, Ref, NoRef, AllLogged, UnloggedPcs
  <2>11. ~muddled => GoodRef(refs', book, m.name)
    BY <1>1, <1>2, <1>3, <2>2, <2>3 DEF GoodRef, Put, Ref, NoRef
  <2>12. Agree(m1, refs', dirs, moved, book, prev, store, muddled)
    BY <1>2, <2>1, <2>5, <2>6, <2>7, <2>8, <2>9, <2>10, <2>11, Rejoined
  <2> QED BY <1>3, <2>12 DEF Agreed, m1
<1>4. CASE /\ me' = [me EXCEPT ![c].pc = "putRef", ![c].fresh = FALSE]
           /\ refs' = refs /\ dirs' = dirs /\ book' = book /\ moved' = moved /\ prev' = prev /\ store' = store /\ muddled' = muddled
  <2>1. /\ m1.pc = "putRef" /\ m1.name = m.name /\ m1.next = m.next /\ m1.dir = m.dir /\ m1.n = m.n
        /\ m1.left = m.left /\ m1.new = m.new /\ m1.id = m.id /\ m1.path = m.path /\ m1.at = m.at
        /\ m1.fsi = m.fsi /\ m1.held = m.held /\ m1.fresh = FALSE /\ m1.why = m.why
    BY <1>0, <1>4 DEF Fields, Go
  <2> HIDE DEF m, m1
  <2>2. Locals(m1, book)
    BY <1>1, <1>2, <2>1 DEF Locals, Stores, Renaming, InDir
  <2>3. LinkPcs(m1, refs, dirs, moved, book)
    BY <1>1, <1>2, <1>4, <2>1 DEF LinkPcs
  <2>4. ~muddled => ChainPcs(m1, refs, book, prev, store)
    BY <1>1, <1>2, <1>4, <2>1 DEF ChainPcs
  <2>5. Agree(m1, refs, dirs, moved, book, prev, store, muddled)
    BY <1>2, <2>2, <2>3, <2>4, Together
  <2> QED BY <1>4, <2>5 DEF Agreed, m1
<1> QED BY <1>1, <1>3, <1>4 DEF DropRef, PutRef, RefsOnly, Nothing

\* The reference is now a version ahead of the log, and has no directory.
LEMMA CreateDatasetRefAgrees ==
  ASSUME NEW c, Clients = {c}, World(c), faults \in Nat, faults' = 0, Agreed(c), CreateDatasetRef(c)
  PROVE  Agreed(c)'
<1> DEFINE m == me[c]
           m1 == me'[c]
<1>0. DOMAIN me = Clients /\ DOMAIN m = Fields /\ (m.fresh => m.held = refs) /\ Refs(refs) /\ Folders(dirs)
  BY DEF World, Local
<1>1. m.pc = "putRef" /\ ~Fault(c)
  <2>1. At(c, "putRef")
    BY DEF CreateDatasetRef
  <2> QED BY <2>1 DEF At, Fault
<1>2. /\ Stores(refs, dirs, book, prev, store) /\ Locals(m, book) /\ Existing(dirs)
      /\ LinkPcs(m, refs, dirs, moved, book)
      /\ LinkedUp(m, refs, dirs, moved) /\ AllLogged(refs, book)
      /\ ~muddled => /\ Sound(book, prev) /\ ChainPcs(m, refs, book, prev, store)
                     /\ AllKept(book, store) /\ AllGood(refs, book)
  BY <1>1, Parts DEF Agreed, LoosePcs, UnloggedPcs, CutPcs, AheadPcs
<1>3. CASE /\ m.fresh /\ refs' = [m.held EXCEPT ![m.name] = Ref(m.at, NoDir)]
           /\ me' = [me EXCEPT ![c].pc = "log", ![c].fresh = FALSE]
           /\ dirs' = dirs /\ book' = book /\ moved' = moved /\ prev' = prev /\ store' = store /\ muddled' = muddled
  <2>1. /\ m1.pc = "log" /\ m1.name = m.name /\ m1.next = m.next /\ m1.dir = m.dir /\ m1.n = m.n
        /\ m1.left = m.left /\ m1.new = m.new /\ m1.id = m.id /\ m1.path = m.path /\ m1.at = m.at
        /\ m1.fsi = m.fsi /\ m1.held = m.held /\ m1.fresh = FALSE /\ m1.why = m.why
    BY <1>0, <1>3 DEF Fields
  <2>2. m.held = refs /\ m.name \in Names
    BY <1>0, <1>1, <1>2, <1>3 DEF Locals, Renaming
  <2>3. Put(refs, refs', m.name, Ref(m.at, NoDir))
    <3> HIDE DEF m
    <3> QED BY <1>0, <1>3, <2>2, Written
  <2>4. /\ OtherLinks(refs, dirs, moved, m.name) /\ OtherLogged(refs, book, m.name)
        /\ ~muddled => OtherGood(refs, book, m.name)
    BY <1>1, Others DEF Agreed, LoosePcs, UnloggedPcs, AheadPcs
  <2> HIDE DEF m, m1
  <2>5. /\ OtherLinks(refs', dirs, moved, m.name) /\ OtherLogged(refs', book, m.name)
        /\ ~muddled => OtherGood(refs', book, m.name)
    BY <2>3, <2>4, PutLeaves
  <2>6. Stores(refs', dirs, book, prev, store) /\ Locals(m1, book)
    BY <1>1, <1>2, <1>3, <2>1, <2>2, <2>3 DEF Stores, Locals, Put, Ref, NoRef, Renaming, InDir
  <2>7. LinkPcs(m1, refs', dirs, moved, book)
    BY <1>1, <1>2, <1>3, <2>1, <2>2, <2>3 DEF LinkPcs, Put, Ref, NoRef
  <2>8. ~muddled => ChainPcs(m1, refs', book, prev, store)
    BY <1>1, <1>2, <1>3, <2>1, <2>2, <2>3 DEF ChainPcs, Put, Ref, NoRef
  <2>9. m1.pc \in LoosePcs
    BY <2>1 DEF LoosePcs
  <2>10. refs'[m.name].stored => HasLog(book, m.name)
    BY <1>1, <1>2, <1>3, <2>1, <2>2, <2>3 DEF LinkPcs, HasLog, Holds, Put, Ref, NoRef, AllLogged, UnloggedPcs
  <2>11. m1.pc \in AheadPcs
    BY <2>1 DEF AheadPcs
  <2>12. Agree(m1, refs', dirs, moved, book, prev, store, muddled)
    BY <1>2, <2>1, <2>5, <2>6, <2>7, <2>8, <2>9, <2>10, <2>11, Rejoined
  <2> QED BY <1>3, <2>12 DEF Agreed, m1
<1> QED BY <1>1, <1>3 DEF CreateDatasetRef, PutRef, RefsOnly

\* The reference gets the directory back whose link file names it.
LEMMA PutLinkAgrees ==
  ASSUME NEW c, Clients = {c}, World(c), faults \in Nat, faults' = 0, Agreed(c), PutLink(c)
  PROVE  Agreed(c)'
<1> DEFINE m == me[c]
           m1 == me'[c]
<1>0. DOMAIN me = Clients /\ DOMAIN m = Fields /\ (m.fresh => m.held = refs) /\ Refs(refs) /\ Folders(dirs)
  BY DEF World, Local
<1>1. m.pc = "putLink" /\ ~Fault(c)
  <2>1. At(c, "putLink")
    BY DEF PutLink
  <2> QED BY <2>1 DEF At, Fault
<1>2. /\ Stores(refs, dirs, book, prev, store) /\ Locals(m, book) /\ Existing(dirs)
      /\ LinkPcs(m, refs, dirs, moved, book)
      /\ LinkedUp(m, refs, dirs, moved) /\ AllLogged(refs, book)
      /\ ~muddled => /\ Sound(book, prev) /\ ChainPcs(m, refs, book, prev, store)
                     /\ AllKept(book, store) /\ AllGood(refs, book)
  BY <1>1, Parts DEF Agreed, LoosePcs, UnloggedPcs, CutPcs, AheadPcs
<1>3. CASE /\ m.fresh /\ refs' = [m.held EXCEPT ![m.name] = Ref(m.at, m.fsi)]
           /\ me' = [me EXCEPT ![c].pc = "files", ![c].fresh = FALSE]
           /\ dirs' = dirs /\ book' = book /\ moved' = moved /\ prev' = prev /\ store' = store /\ muddled' = muddled
  <2>1. /\ m1.pc = "files" /\ m1.name = m.name /\ m1.next = m.next /\ m1.dir = m.dir /\ m1.n = m.n
        /\ m1.left = m.left /\ m1.new = m.new /\ m1.id = m.id /\ m1.path = m.path /\ m1.at = m.at
        /\ m1.fsi = m.fsi /\ m1.held = m.held /\ m1.fresh = FALSE /\ m1.why = m.why
    BY <1>0, <1>3 DEF Fields
  <2>2. m.held = refs /\ m.name \in Names
    BY <1>0, <1>1, <1>2, <1>3 DEF Locals, Renaming
  <2>3. Put(refs, refs', m.name, Ref(m.at, m.fsi))
    <3> HIDE DEF m
    <3> QED BY <1>0, <1>3, <2>2, Written
  <2>4. /\ OtherLinks(refs, dirs, moved, m.name) /\ OtherLogged(refs, book, m.name)
        /\ ~muddled => OtherGood(refs, book, m.name)
    BY <1>1, Others DEF Agreed, LoosePcs, UnloggedPcs, AheadPcs
  <2> HIDE DEF m, m1
  <2>5. /\ OtherLinks(refs', dirs, moved, m.name) /\ OtherLogged(refs', book, m.name)
        /\ ~muddled => OtherGood(refs', book, m.name)
    BY <2>3, <2>4, PutLeaves
  <2>6. Stores(refs', dirs, book, prev, store) /\ Locals(m1, book)
    BY <1>1, <1>2, <1>3, <2>1, <2>2, <2>3 DEF Stores, Locals, Put, Ref, NoRef, Renaming, InDir
  <2>7. LinkPcs(m1, refs', dirs, moved, book)
    BY <1>1, <1>2, <1>3, <2>1, <2>2, <2>3 DEF LinkPcs, Put, Ref, NoRef
  <2>8. ~muddled => ChainPcs(m1, refs', book, prev, store)
    BY <1>1, <1>2, <1>3, <2>1, <2>2, <2>3 DEF ChainPcs, Put, Ref, NoRef
  <2>9. LinkOK(refs', dirs, moved, m.name)
    BY <1>1, <1>2, <1>3, <2>2, <2>3, NoneAssumption DEF LinkOK, Put, Ref, NoRef, LinkPcs, Ours, NoLink
  <2>10. refs'[m.name].stored => HasLog(book, m.name)
    BY <1>1, <1>2, <1>3, <2>1, <2>2, <2>3 DEF LinkPcs, HasLog, Holds, Put, Ref, NoRef, AllLogged, UnloggedPcs
  <2>11. ~muddled => GoodRef(refs', book, m.name)
    BY <1>1, <1>2, <1>3, <2>2, <2>3 DEF GoodRef, Put, Ref, NoRef, Sound, Single, Holds, LinkPcs, ChainPcs
  <2>12. Agree(m1, refs', dirs, moved, book, prev, store, muddled)
    BY <1>2, <2>1, <2>5, <2>6, <2>7, <2>8, <2>9, <2>10, <2>11, Rejoined
  <2> QED BY <1>3, <2>12 DEF Agreed, m1
<1> QED BY <1>1, <1>3 DEF PutLink, PutRef, RefsOnly

\* The log catches up with the reference.
LEMMA WriteVersionSaveAgrees ==
  ASSUME NEW c, Clients = {c}, World(c), faults \in Nat, faults' = 0, Agreed(c), WriteVersionSave(c)
  PROVE  Agreed(c)'
<1> DEFINE m == me[c]
           m1 == me'[c]
<1>0. DOMAIN me = Clients /\ DOMAIN m = Fields /\ (m.fresh => m.held = refs) /\ Refs(refs) /\ Folders(dirs)
  BY DEF World, Local
<1>1. m.pc = "log" /\ ~Fault(c)
  <2>1. At(c, "log")
    BY DEF WriteVersionSave
  <2> QED BY <2>1 DEF At, Fault
<1>2. /\ Stores(refs, dirs, book, prev, store) /\ Locals(m, book) /\ Existing(dirs)
      /\ LinkPcs(m, refs, dirs, moved, book)
      /\ LinkedUp(m, refs, dirs, moved) /\ AllLogged(refs, book)
      /\ ~muddled => /\ Sound(book, prev) /\ ChainPcs(m, refs, book, prev, store)
                     /\ AllKept(book, store) /\ Good(m, refs, book)
  BY <1>1, Parts DEF Agreed, LoosePcs, UnloggedPcs, CutPcs, AheadPcs
<1> DEFINE b1 == [book EXCEPT ![m.id].vs = Append(@, m.at), ![m.id].blank = FALSE]
<1>3. /\ m.id \in DOMAIN book /\ book[m.id].state = "live" /\ book[m.id].name = m.name /\ Writable(m.id)
      /\ Logs(book) /\ m.at \in Nat /\ m.name \in Names
  <2>1. Len(book) \in Nat /\ DOMAIN book = 1 .. Len(book)
    BY <1>2, Domains DEF Stores
  <2> QED BY <1>1, <1>2, <2>1 DEF LinkPcs, Holds, Writable, Stores, Locals
<1>4. /\ book' = b1 /\ refs' = refs /\ dirs' = dirs /\ moved' = moved /\ prev' = prev /\ store' = store
      /\ muddled' = (muddled \/ Twins(book'))
      /\ IF m.fsi = NoDir THEN Return(c) ELSE Go(c, "putLink")
  BY <1>1, <1>3 DEF WriteVersionSave, BookOnly
<1> HIDE DEF b1
<1>t. ~muddled' => ~muddled /\ Single(book')
  BY <1>4 DEF Twins, Single
<1>5. Updated(book, book', m.id, book[m.id].state, book[m.id].name, Append(book[m.id].vs, m.at), FALSE)
  <2> HIDE DEF m
  <2> QED BY <1>3, <1>4, LogSaved DEF b1
<1>7. Updated(book, book', m.id, "live", m.name, Append(book[m.id].vs, m.at), FALSE)
  BY <1>3, <1>5
<1> HIDE DEF m, m1
<1>8. Stores(refs, dirs, book', prev, store) /\ Len(book') = Len(book) /\ Holds(book', m.id, m.name)
  BY <1>2, <1>3, <1>7 DEF Stores, Updated, Holds
<1>9. AllLogged(refs, book')
  BY <1>2, <1>3, <1>7 DEF AllLogged, HasLog, Holds, Updated
<1>10. ASSUME ~muddled'
       PROVE  Sound(book', prev) /\ AllKept(book', store) /\ AllGood(refs, book') /\ Last(book', m.id) = m.at
  <2>1. /\ Sound(book, prev) /\ Unused(book, m.at) /\ m.at \in DOMAIN prev /\ m.at \in store
        /\ prev[m.at] = Last(book, m.id) /\ AllKept(book, store) /\ Good(m, refs, book)
        /\ refs[m.name].stored /\ refs[m.name].path = m.at /\ Single(book')
    BY <1>1, <1>2, <1>t, <1>10 DEF ChainPcs
  <2>6. Sound(book', prev) /\ AllKept(book', store) /\ Last(book', m.id) = m.at
    <3> DEFINE t == Append(book[m.id].vs, m.at)
    <3>1. /\ Logs(book) /\ m.id \in DOMAIN book /\ book[m.id].state = "live" /\ m.at \in Nat
          /\ Updated(book, book', m.id, "live", m.name, t, FALSE)
          /\ Sound(book, prev) /\ Single(book') /\ Unused(book, m.at) /\ m.at \in DOMAIN prev /\ m.at \in store
          /\ prev[m.at] = Last(book, m.id) /\ AllKept(book, store)
      BY <1>3, <1>7, <2>1
    <3>2. Longer(book[m.id].vs, t, m.at)
      BY <1>3, Appended DEF Logs, LogOK
    <3> HIDE DEF t
    <3>3. Sound(book', prev) /\ AllKept(book', store)
      BY <3>1, <3>2, WithSaved
    <3>4. Last(book', m.id) = m.at
      BY <3>1, <3>2 DEF Last, Updated, Longer
    <3> QED BY <3>3, <3>4
  <2>7. ASSUME NEW y \in Names PROVE GoodRef(refs, book', y)
    <3>1. CASE y = m.name
      BY <1>8, <2>1, <2>6, <3>1 DEF GoodRef, Single, Holds
    <3>2. CASE y # m.name
      BY <1>3, <1>7, <2>1, <3>2 DEF Good, GoodRef, Holds, Last, Updated
    <3> QED BY <3>1, <3>2
  <2> QED BY <2>6, <2>7 DEF AllGood
<1>11. CASE m.fsi = NoDir
  <2>1. m1 = Idle
    BY <1>0, <1>4, <1>11 DEF Return, m1
  <2>2. AllLinked(refs, dirs, moved)
    <3>1. LinkOK(refs, dirs, moved, m.name)
      <4>1. refs[m.name].fsi = NoDir /\ Ours(dirs, moved, m.name, NoDir)
        BY <1>1, <1>2, <1>11 DEF LinkPcs
      <4> QED BY <4>1, NoneAssumption DEF Ours, LinkOK
    <3> QED BY <1>1, <1>2, <3>1 DEF LinkedUp, AllLinked, Loose
  <2>3. Agree(m1, refs, dirs, moved, book', prev, store, muddled')
    BY <1>2, <1>8, <1>9, <1>10, <2>1, <2>2, IdleAgrees
  <2> QED BY <1>4, <2>3 DEF Agreed, m1
<1>12. CASE m.fsi # NoDir
  <2>1. /\ m1.pc = "putLink" /\ m1.name = m.name /\ m1.next = m.next /\ m1.dir = m.dir /\ m1.n = m.n
        /\ m1.left = m.left /\ m1.new = m.new /\ m1.id = m.id /\ m1.path = m.path /\ m1.at = m.at
        /\ m1.fsi = m.fsi /\ m1.held = m.held /\ m1.fresh = m.fresh /\ m1.why = m.why
    BY <1>0, <1>4, <1>12 DEF Fields, Go, m, m1
  <2>2. Locals(m1, book')
    BY <1>1, <1>2, <1>8, <2>1 DEF Locals, Renaming, InDir
  <2>3. LinkPcs(m1, refs, dirs, moved, book')
    BY <1>1, <1>2, <1>8, <2>1 DEF LinkPcs
  <2>4. ~muddled' => ChainPcs(m1, refs, book', prev, store)
    BY <1>10, <2>1 DEF ChainPcs
  <2>5. LinkedUp(m1, refs, dirs, moved)
    BY <1>1, <1>2, <2>1 DEF LinkedUp, Loose, LoosePcs
  <2>6. Agree(m1, refs, dirs, moved, book', prev, store, muddled')
    BY <1>2, <1>8, <1>9, <1>10, <2>2, <2>3, <2>4, <2>5, Together
  <2> QED BY <1>4, <2>6 DEF Agreed, m1
<1> QED BY <1>11, <1>12

\* Writing the component files changes no link.
LEMMA WriteComponentsAgrees ==
  ASSUME NEW c, Clients = {c}, World(c), faults \in Nat, faults' = 0, Agreed(c), WriteComponents(c)
  PROVE  Agreed(c)'
<1> DEFINE m == me[c]
           m1 == me'[c]
<1>0. DOMAIN me = Clients /\ DOMAIN m = Fields /\ (m.fresh => m.held = refs) /\ Refs(refs) /\ Folders(dirs)
  BY DEF World, Local
<1>1. m.pc = "files" /\ ~Fault(c)
  <2>1. At(c, "files")
    BY DEF WriteComponents
  <2> QED BY <2>1 DEF At, Fault
<1>2. /\ Stores(refs, dirs, book, prev, store) /\ Locals(m, book) /\ Existing(dirs)
      /\ LinkPcs(m, refs, dirs, moved, book)
      /\ AllLinked(refs, dirs, moved) /\ AllLogged(refs, book)
      /\ ~muddled => /\ Sound(book, prev) /\ ChainPcs(m, refs, book, prev, store)
                     /\ AllKept(book, store) /\ AllGood(refs, book)
  BY <1>1, Parts DEF Agreed, LoosePcs, UnloggedPcs, CutPcs, AheadPcs
<1>3. /\ m1 = Idle /\ refs' = refs /\ book' = book /\ moved' = moved /\ prev' = prev /\ store' = store /\ muddled' = muddled
      /\ dirs' = [dirs EXCEPT ![m.fsi].files = IF dirs[m.fsi].exists THEN m.at ELSE @]
  BY <1>0 DEF WriteComponents, DirsOnly, Return
<1>4. SameLinks(dirs, dirs')
  BY <1>0, <1>3 DEF SameLinks, Folders, DirFields
<1> HIDE DEF m, m1
<1>5. Stores(refs, dirs', book, prev, store) /\ AllLinked(refs, dirs', moved) /\ Existing(dirs')
  BY <1>2, <1>4, LinksSame
<1>6. Agree(m1, refs, dirs', moved, book, prev, store, muddled)
  BY <1>2, <1>3, <1>5, IdleAgrees
<1> QED BY <1>3, <1>6 DEF Agreed, m1
-----------------------------------------------------------------------------
(* Rename keeps the invariant. *)

\* A rename knows the log of the name; the new name has no reference.
LEMMA ResolveRenameAgrees ==
  ASSUME NEW c, Clients = {c}, World(c), faults \in Nat, faults' = 0, Agreed(c), ResolveRename(c)
  PROVE  Agreed(c)'
<1> DEFINE m == me[c]
           m1 == me'[c]
<1>0. DOMAIN me = Clients /\ DOMAIN m = Fields /\ (m.fresh => m.held = refs) /\ Refs(refs) /\ Folders(dirs)
  BY DEF World, Local
<1>1. m.pc = "renResolve" /\ ~Fault(c)
  <2>1. At(c, "renResolve")
    BY DEF ResolveRename
  <2> QED BY <2>1 DEF At, Fault
<1>2. /\ Stores(refs, dirs, book, prev, store) /\ Locals(m, book) /\ Existing(dirs)
      /\ LinkPcs(m, refs, dirs, moved, book)
      /\ AllLinked(refs, dirs, moved) /\ AllLogged(refs, book)
      /\ ~muddled => /\ Sound(book, prev) /\ ChainPcs(m, refs, book, prev, store)
                     /\ AllKept(book, store) /\ AllGood(refs, book)
  BY <1>1, Parts DEF Agreed, LoosePcs, UnloggedPcs, CutPcs, AheadPcs
<1> DEFINE x == m.name
           i == RefToInitID(x)
<1>3. i # 0 => Holds(book, i, x)
  BY <1>2, LogOf DEF Stores, Holds
<1>4. x \in Names /\ i \in 0 .. Len(book) /\ Len(book) \in Nat
  BY <1>1, <1>2, LogOf, Domains DEF Stores, Locals
<1>5. CASE Return(c) /\ refs' = refs /\ dirs' = dirs /\ book' = book /\ moved' = moved /\ prev' = prev /\ store' = store /\ muddled' = muddled
  <2>1. m1 = Idle
    BY <1>0, <1>5 DEF Return
  <2> QED BY <1>2, <1>5, <2>1, IdleAgrees DEF Agreed
<1>6. CASE /\ refs[x].stored /\ i # 0 /\ ~refs[m.next].stored
           /\ me' = [me EXCEPT ![c].pc = "renLog", ![c].id = i]
           /\ refs' = refs /\ dirs' = dirs /\ book' = book /\ moved' = moved /\ prev' = prev /\ store' = store /\ muddled' = muddled
  <2>1. /\ m1.pc = "renLog" /\ m1.name = m.name /\ m1.next = m.next /\ m1.dir = m.dir /\ m1.n = m.n
        /\ m1.left = m.left /\ m1.new = m.new /\ m1.id = i /\ m1.path = m.path /\ m1.at = m.at
        /\ m1.fsi = m.fsi /\ m1.held = m.held /\ m1.fresh = m.fresh /\ m1.why = m.why
    BY <1>0, <1>6 DEF Fields, Go
  <2> HIDE DEF m, m1, i
  <2>2. Locals(m1, book)
    BY <1>1, <1>2, <2>1, <1>4 DEF Locals, Stores, Renaming, InDir
  <2>3. LinkPcs(m1, refs, dirs, moved, book)
    BY <1>1, <1>2, <1>6, <2>1, <1>3 DEF LinkPcs
  <2>4. ~muddled => ChainPcs(m1, refs, book, prev, store)
    BY <1>1, <1>2, <1>6, <2>1 DEF ChainPcs
  <2>5. Agree(m1, refs, dirs, moved, book, prev, store, muddled)
    BY <1>2, <2>2, <2>3, <2>4, Together
  <2> QED BY <1>6, <2>5 DEF Agreed, m1
<1> QED BY <1>5, <1>6 DEF ResolveRename, Nothing

\* Until the reference follows, it is the only one without a log of its name.
LEMMA WriteDatasetRenameAgrees ==
  ASSUME NEW c, Clients = {c}, World(c), faults \in Nat, faults' = 0, Agreed(c), WriteDatasetRename(c)
  PROVE  Agreed(c)'
<1> DEFINE m == me[c]
           m1 == me'[c]
<1>0. DOMAIN me = Clients /\ DOMAIN m = Fields /\ (m.fresh => m.held = refs) /\ Refs(refs) /\ Folders(dirs)
  BY DEF World, Local
<1>1. m.pc = "renLog" /\ ~Fault(c)
  <2>1. At(c, "renLog")
    BY DEF WriteDatasetRename
  <2> QED BY <2>1 DEF At, Fault
<1>2. /\ Stores(refs, dirs, book, prev, store) /\ Locals(m, book) /\ Existing(dirs)
      /\ LinkPcs(m, refs, dirs, moved, book)
      /\ AllLinked(refs, dirs, moved) /\ AllLogged(refs, book)
      /\ ~muddled => /\ Sound(book, prev) /\ ChainPcs(m, refs, book, prev, store)
                     /\ AllKept(book, store) /\ AllGood(refs, book)
  BY <1>1, Parts DEF Agreed, LoosePcs, UnloggedPcs, CutPcs, AheadPcs
<1> DEFINE b1 == [book EXCEPT ![m.id].name = m.next, ![m.id].blank = FALSE]
<1>3. /\ m.id \in DOMAIN book /\ book[m.id].state = "live" /\ book[m.id].name = m.name /\ Writable(m.id)
      /\ Logs(book) /\ m.name \in Names /\ m.next \in Names /\ m.next # m.name
      /\ refs[m.name].stored /\ ~refs[m.next].stored
  <2>1. Len(book) \in Nat /\ DOMAIN book = 1 .. Len(book)
    BY <1>2, Domains DEF Stores
  <2> QED BY <1>1, <1>2, <2>1 DEF LinkPcs, Holds, Writable, Stores, Locals, Renaming
<1>4. /\ book' = b1 /\ refs' = refs /\ dirs' = dirs /\ moved' = moved /\ prev' = prev /\ store' = store
      /\ muddled' = (muddled \/ Twins(book'))
      /\ Go(c, "renDelete")
  BY <1>1, <1>3 DEF WriteDatasetRename, BookOnly
<1> HIDE DEF b1
<1>5. ~muddled' => ~muddled /\ Single(book')
  BY <1>4 DEF Twins, Single
<1>6. Updated(book, book', m.id, book[m.id].state, m.next, book[m.id].vs, FALSE)
  <2> HIDE DEF m
  <2> QED BY <1>3, <1>4, LogRenamed DEF b1
<1>7. /\ m1.pc = "renDelete" /\ m1.name = m.name /\ m1.next = m.next /\ m1.dir = m.dir /\ m1.n = m.n
        /\ m1.left = m.left /\ m1.new = m.new /\ m1.id = m.id /\ m1.path = m.path /\ m1.at = m.at
        /\ m1.fsi = m.fsi /\ m1.held = m.held /\ m1.fresh = m.fresh /\ m1.why = m.why
  BY <1>0, <1>4 DEF Fields, Go
<1> HIDE DEF m, m1
<1>8. /\ Stores(refs, dirs, book', prev, store) /\ Locals(m1, book') /\ Holds(book', m.id, m.next)
  BY <1>1, <1>2, <1>3, <1>6, <1>7 DEF Stores, Locals, Updated, Holds, Renaming, InDir
<1>9. Logged(m1, refs, book')
  BY <1>2, <1>3, <1>6, <1>7 DEF Logged, AllLogged, HasLog, Holds, Updated, UnloggedPcs
<1>10. LinkPcs(m1, refs, dirs, moved, book')
  BY <1>1, <1>2, <1>7, <1>8 DEF LinkPcs
<1>11. ASSUME ~muddled'
       PROVE  Sound(book', prev) /\ AllKept(book', store) /\ AllGood(refs, book')
              /\ ChainPcs(m1, refs, book', prev, store)
  <2>1. Sound(book, prev) /\ AllKept(book, store) /\ AllGood(refs, book) /\ Single(book')
    BY <1>2, <1>5, <1>11
  <2>2. Blanks(book')
    BY <1>6, <2>1 DEF Sound, Blanks, Updated
  <2>3. Distinct(book')
    BY <1>3, <1>6, <2>1 DEF Sound, Distinct, Updated
  <2>4. Chained(book', prev)
    BY <1>3, <1>6, <2>1 DEF Sound, Chained, Updated
  <2>5. AllKept(book', store)
    BY <1>3, <1>6, <2>1 DEF AllKept, Updated
  <2>6. refs[m.name].path = Last(book, m.id)
    BY <1>3, <2>1 DEF AllGood, GoodRef, Holds
  <2>7. Last(book', m.id) = Last(book, m.id)
    BY <1>6 DEF Last, Updated
  <2>8. ASSUME NEW y \in Names PROVE GoodRef(refs, book', y)
    <3>1. GoodRef(refs, book, y)
      BY <2>1 DEF AllGood
    <3>2. CASE y = m.next
      BY <1>3, <3>2 DEF GoodRef
    <3>3. CASE y # m.next
      BY <1>3, <1>6, <3>1, <3>3 DEF GoodRef, Holds, Last, Updated
    <3> QED BY <3>2, <3>3
  <2>9. ChainPcs(m1, refs, book', prev, store)
    BY <1>7, <2>6, <2>7 DEF ChainPcs
  <2> QED BY <2>1, <2>2, <2>3, <2>4, <2>5, <2>8, <2>9 DEF Sound, AllGood
<1>12. Agree(m1, refs, dirs, moved, book', prev, store, muddled')
  BY <1>2, <1>8, <1>9, <1>10, <1>11, Together
<1> QED BY <1>4, <1>12 DEF Agreed, m1

\* What is deleted is remembered, path and directory.
LEMMA RenameDeleteAgrees ==
  ASSUME NEW c, Clients = {c}, World(c), faults \in Nat, faults' = 0, Agreed(c), RenameDelete(c)
  PROVE  Agreed(c)'
<1> DEFINE m == me[c]
           m1 == me'[c]
<1>0. DOMAIN me = Clients /\ DOMAIN m = Fields /\ (m.fresh => m.held = refs) /\ Refs(refs) /\ Folders(dirs)
  BY DEF World, Local
<1>1. m.pc = "renDelete" /\ ~Fault(c)
  <2>1. At(c, "renDelete")
    BY DEF RenameDelete
  <2> QED BY <2>1 DEF At, Fault
<1>2. /\ Stores(refs, dirs, book, prev, store) /\ Locals(m, book) /\ Existing(dirs)
      /\ LinkPcs(m, refs, dirs, moved, book)
      /\ AllLinked(refs, dirs, moved) /\ Logged(m, refs, book)
      /\ ~muddled => /\ Sound(book, prev) /\ ChainPcs(m, refs, book, prev, store)
                     /\ AllKept(book, store) /\ AllGood(refs, book)
  BY <1>1, Parts DEF Agreed, LoosePcs, UnloggedPcs, CutPcs, AheadPcs
<1>3. m.name \in Names /\ refs[m.name].stored
  BY <1>1, <1>2 DEF LinkPcs, Locals
<1>4. CASE /\ m.fresh /\ refs' = [m.held EXCEPT ![m.name] = NoRef]
           /\ me' = [me EXCEPT ![c].pc = "renPut", ![c].fresh = FALSE, ![c].path = m.held[m.name].path, ![c].fsi = m.held[m.name].fsi]
           /\ dirs' = dirs /\ book' = book /\ moved' = moved /\ prev' = prev /\ store' = store /\ muddled' = muddled
  <2>1. /\ m1.pc = "renPut" /\ m1.name = m.name /\ m1.next = m.next /\ m1.dir = m.dir /\ m1.n = m.n
        /\ m1.left = m.left /\ m1.new = m.new /\ m1.id = m.id /\ m1.path = m.held[m.name].path /\ m1.at = m.at
        /\ m1.fsi = m.held[m.name].fsi /\ m1.held = m.held /\ m1.fresh = FALSE /\ m1.why = m.why
    BY <1>0, <1>4 DEF Fields
  <2>2. m.held = refs /\ m.name \in Names
    BY <1>0, <1>1, <1>2, <1>4 DEF Locals, Renaming
  <2>3. Put(refs, refs', m.name, NoRef)
    <3> HIDE DEF m
    <3> QED BY <1>0, <1>4, <2>2, Written
  <2>4. /\ OtherLinks(refs, dirs, moved, m.name) /\ OtherLogged(refs, book, m.name)
        /\ ~muddled => OtherGood(refs, book, m.name)
    BY <1>1, Others DEF Agreed, LoosePcs, UnloggedPcs, AheadPcs
  <2> HIDE DEF m, m1
  <2>5. /\ OtherLinks(refs', dirs, moved, m.name) /\ OtherLogged(refs', book, m.name)
        /\ ~muddled => OtherGood(refs', book, m.name)
    BY <2>3, <2>4, PutLeaves
  <2>a. Ours(dirs, moved, m.name, refs[m.name].fsi)
    BY <1>2, <1>3 DEF AllLinked, LinkOK, Ours
  <2>6. Stores(refs', dirs, book, prev, store) /\ Locals(m1, book)
    BY <1>1, <1>2, <1>4, <2>1, <2>2, <2>3 DEF Stores, Locals, Put, Ref, NoRef, Renaming, InDir
  <2>7. LinkPcs(m1, refs', dirs, moved, book)
    BY <1>1, <1>2, <1>4, <2>1, <2>2, <2>3, <2>a, <1>3 DEF LinkPcs, Put, Ref, NoRef
  <2>8. ~muddled => ChainPcs(m1, refs', book, prev, store)
    BY <1>1, <1>2, <1>4, <2>1, <2>2, <2>3 DEF ChainPcs, Put, Ref, NoRef
  <2>9. m1.pc \in LoosePcs
    BY <2>1 DEF LoosePcs
  <2>10. refs'[m.name].stored => HasLog(book, m.name)
    BY <1>1, <1>2, <1>4, <2>1, <2>2, <2>3 DEF LinkPcs, HasLog, Holds, Put, Ref, NoRef, AllLogged, UnloggedPcs
  <2>11. ~muddled => GoodRef(refs', book, m.name)
    BY <1>1, <1>2, <1>4, <2>2, <2>3 DEF GoodRef, Put, Ref, NoRef
  <2>12. Agree(m1, refs', dirs, moved, book, prev, store, muddled)
    BY <1>2, <2>1, <2>5, <2>6, <2>7, <2>8, <2>9, <2>10, <2>11, Rejoined
  <2> QED BY <1>4, <2>12 DEF Agreed, m1
<1> QED BY <1>0, <1>1, <1>3, <1>4 DEF RenameDelete, RefsOnly

\* It is put under the new name, which has a log now and no link file.
LEMMA RenamePutAgrees ==
  ASSUME NEW c, Clients = {c}, World(c), faults \in Nat, faults' = 0, Agreed(c), RenamePut(c)
  PROVE  Agreed(c)'
<1> DEFINE m == me[c]
           m1 == me'[c]
<1>0. DOMAIN me = Clients /\ DOMAIN m = Fields /\ (m.fresh => m.held = refs) /\ Refs(refs) /\ Folders(dirs)
  BY DEF World, Local
<1>1. m.pc = "renPut" /\ ~Fault(c)
  <2>1. At(c, "renPut")
    BY DEF RenamePut
  <2> QED BY <2>1 DEF At, Fault
<1>2. /\ Stores(refs, dirs, book, prev, store) /\ Locals(m, book) /\ Existing(dirs)
      /\ LinkPcs(m, refs, dirs, moved, book)
      /\ LinkedUp(m, refs, dirs, moved) /\ AllLogged(refs, book)
      /\ ~muddled => /\ Sound(book, prev) /\ ChainPcs(m, refs, book, prev, store)
                     /\ AllKept(book, store) /\ AllGood(refs, book)
  BY <1>1, Parts DEF Agreed, LoosePcs, UnloggedPcs, CutPcs, AheadPcs
<1>3. /\ m.fresh /\ refs' = [m.held EXCEPT ![m.next] = Ref(m.path, m.fsi)]
      /\ me' = [me EXCEPT ![c].pc = "renLink", ![c].fresh = FALSE]
      /\ dirs' = dirs /\ book' = book /\ moved' = moved /\ prev' = prev /\ store' = store /\ muddled' = muddled
  BY <1>1 DEF RenamePut, PutRef, RefsOnly
<1>4. /\ m1.pc = "renLink" /\ m1.name = m.name /\ m1.next = m.next /\ m1.dir = m.dir /\ m1.n = m.n
        /\ m1.left = m.left /\ m1.new = m.new /\ m1.id = m.id /\ m1.path = m.path /\ m1.at = m.at
        /\ m1.fsi = m.fsi /\ m1.held = m.held /\ m1.fresh = FALSE /\ m1.why = m.why
  BY <1>0, <1>3 DEF Fields
<1>5. m.held = refs /\ m.name \in Names /\ m.next \in Names /\ m.next # m.name /\ m.path \in Nat
  BY <1>0, <1>1, <1>2, <1>3 DEF Locals, Renaming
<1>6. Put(refs, refs', m.next, Ref(m.path, m.fsi))
  <2> HIDE DEF m
  <2> QED BY <1>0, <1>3, <1>5, Written
<1> HIDE DEF m, m1
<1>7. refs'[m.next].stored /\ refs'[m.next].fsi = m.fsi /\ refs'[m.next].path = m.path
  BY <1>6 DEF Put, Ref
<1>8. Stores(refs', dirs, book, prev, store) /\ Locals(m1, book)
  BY <1>1, <1>2, <1>4, <1>5, <1>6, <1>7 DEF Stores, Locals, Put, Renaming, InDir
<1>9. NoLink(dirs, moved, m.next)
  <2>1. LinkOK(refs, dirs, moved, m.next) /\ ~refs[m.next].stored
    BY <1>1, <1>2, <1>5 DEF LinkedUp, Loose, LinkPcs
  <2> QED BY <2>1 DEF LinkOK, NoLink
<1>10. LinkPcs(m1, refs', dirs, moved, book)
  BY <1>1, <1>2, <1>4, <1>5, <1>6, <1>7, <1>9 DEF LinkPcs, Put
<1>11. LinkedUp(m1, refs', dirs, moved)
  BY <1>1, <1>2, <1>4, <1>6 DEF LinkedUp, Loose, LoosePcs, LinkOK, Put
<1>12. AllLogged(refs', book)
  <2>1. HasLog(book, m.next)
    BY <1>1, <1>2 DEF LinkPcs, HasLog, Holds
  <2> QED BY <1>2, <1>6, <2>1 DEF AllLogged, Put
<1>13. ASSUME ~muddled
       PROVE  AllGood(refs', book) /\ ChainPcs(m1, refs', book, prev, store)
  <2>1. m.path = Last(book, m.id) /\ Holds(book, m.id, m.next) /\ Single(book) /\ AllGood(refs, book)
    BY <1>1, <1>2, <1>13 DEF ChainPcs, LinkPcs, Sound
  <2>2. GoodRef(refs', book, m.next)
    BY <1>7, <2>1 DEF GoodRef, Holds, Single
  <2>3. AllGood(refs', book)
    BY <1>6, <2>1, <2>2 DEF AllGood, GoodRef, Put
  <2> QED BY <1>4, <2>3 DEF ChainPcs
<1>14. Agree(m1, refs', dirs, moved, book, prev, store, muddled)
  BY <1>2, <1>8, <1>10, <1>11, <1>12, <1>13, Together
<1> QED BY <1>3, <1>14 DEF Agreed, m1

\* The link file follows the reference, where there is a directory.
LEMMA RenameLinkAgrees ==
  ASSUME NEW c, Clients = {c}, World(c), faults \in Nat, faults' = 0, Agreed(c), RenameLink(c)
  PROVE  Agreed(c)'
<1> DEFINE m == me[c]
           m1 == me'[c]
<1>0. DOMAIN me = Clients /\ DOMAIN m = Fields /\ (m.fresh => m.held = refs) /\ Refs(refs) /\ Folders(dirs)
  BY DEF World, Local
<1>1. m.pc = "renLink" /\ ~Fault(c)
  <2>1. At(c, "renLink")
    BY DEF RenameLink
  <2> QED BY <2>1 DEF At, Fault
<1>2. /\ Stores(refs, dirs, book, prev, store) /\ Locals(m, book) /\ Existing(dirs)
      /\ LinkPcs(m, refs, dirs, moved, book)
      /\ LinkedUp(m, refs, dirs, moved) /\ AllLogged(refs, book)
      /\ ~muddled => /\ Sound(book, prev) /\ ChainPcs(m, refs, book, prev, store)
                     /\ AllKept(book, store) /\ AllGood(refs, book)
  BY <1>1, Parts DEF Agreed, LoosePcs, UnloggedPcs, CutPcs, AheadPcs
<1>3. /\ Ours(dirs, moved, m.name, m.fsi) /\ ~refs[m.name].stored /\ refs[m.next].stored
      /\ refs[m.next].fsi = m.fsi /\ NoLink(dirs, moved, m.next)
      /\ m.name \in Names /\ m.next \in Names /\ m.next # m.name
  BY <1>1, <1>2 DEF LinkPcs, Locals, Renaming
<1>4. m1 = Idle /\ refs' = refs /\ book' = book /\ moved' = moved /\ prev' = prev /\ store' = store /\ muddled' = muddled
  BY <1>0, <1>1 DEF RenameLink, Return, DirsOnly, Nothing
<1>5. /\ DOMAIN dirs' = Dirs
      /\ \A d \in Dirs : /\ dirs'[d].exists = dirs[d].exists
                         /\ dirs'[d].link = IF d = m.fsi /\ dirs[d].exists THEN m.next ELSE dirs[d].link
  <2>1. CASE m.fsi = NoDir
    BY <1>0, <1>1, <2>1, NoneAssumption DEF RenameLink, Nothing, Folders
  <2>2. CASE m.fsi # NoDir
    <3>1. dirs' = [dirs EXCEPT ![m.fsi].link = IF dirs[m.fsi].exists THEN m.next ELSE @]
      BY <1>1, <2>2 DEF RenameLink
    <3> HIDE DEF m
    <3> QED BY <1>0, <3>1 DEF Folders, DirFields
  <2> QED BY <2>1, <2>2
<1> HIDE DEF m, m1
<1>6. Stores(refs, dirs', book, prev, store) /\ Existing(dirs')
  BY <1>2, <1>3, <1>5 DEF Stores, Existing
<1>7. ASSUME NEW y \in Names PROVE LinkOK(refs, dirs', moved, y)
  <2>1. ASSUME NEW d \in Dirs \ moved PROVE (refs[y].stored /\ refs[y].fsi = d) <=> dirs'[d].link = y
    <3>1. dirs[d].link = m.name => dirs[d].exists
      BY <1>2, <1>3, NoneAssumption DEF Existing
    <3>2. (dirs[d].link = m.name <=> d = m.fsi) /\ dirs[d].link # m.next
      BY <1>3 DEF Ours, NoLink
    <3>3. CASE y = m.next
      BY <1>3, <1>5, <3>1, <3>2, <3>3
    <3>4. CASE y = m.name
      BY <1>3, <1>5, <3>1, <3>2, <3>4
    <3>5. CASE y # m.name /\ y # m.next
      <4>1. (refs[y].stored /\ refs[y].fsi = d) <=> dirs[d].link = y
        BY <1>2, <3>5 DEF LinkedUp, Loose, LinkOK
      <4> QED BY <1>5, <3>1, <3>2, <3>5, <4>1
    <3> QED BY <3>3, <3>4, <3>5
  <2> QED BY <2>1 DEF LinkOK
<1>8. AllLinked(refs, dirs', moved)
  BY <1>7 DEF AllLinked
<1>9. Agree(m1, refs, dirs', moved, book, prev, store, muddled)
  BY <1>2, <1>4, <1>6, <1>8, IdleAgrees
<1> QED BY <1>4, <1>9 DEF Agreed, m1
-----------------------------------------------------------------------------
(* Remove keeps the invariant. *)

\* The first version to delete is the log's newest; one for at least as many versions as there are is one for all.
LEMMA ResolveRemoveAgrees ==
  ASSUME NEW c, Clients = {c}, World(c), faults \in Nat, faults' = 0, Agreed(c), ResolveRemove(c)
  PROVE  Agreed(c)'
<1> DEFINE m == me[c]
           m1 == me'[c]
<1>0. DOMAIN me = Clients /\ DOMAIN m = Fields /\ (m.fresh => m.held = refs) /\ Refs(refs) /\ Folders(dirs)
  BY DEF World, Local
<1>1. m.pc = "rmResolve" /\ ~Fault(c)
  <2>1. At(c, "rmResolve")
    BY DEF ResolveRemove
  <2> QED BY <2>1 DEF At, Fault
<1>2. /\ Stores(refs, dirs, book, prev, store) /\ Locals(m, book) /\ Existing(dirs)
      /\ LinkPcs(m, refs, dirs, moved, book)
      /\ AllLinked(refs, dirs, moved) /\ AllLogged(refs, book)
      /\ ~muddled => /\ Sound(book, prev) /\ ChainPcs(m, refs, book, prev, store)
                     /\ AllKept(book, store) /\ AllGood(refs, book)
  BY <1>1, Parts DEF Agreed, LoosePcs, UnloggedPcs, CutPcs, AheadPcs
<1> DEFINE x == m.name
           i == RefToInitID(x)
           d == refs[x].fsi
           k == Len(book[i].vs)
           n == IF m.n = All \/ m.n >= Items(i) THEN All ELSE m.n
           on == IF n # All THEN "rmVersion"
                 ELSE IF d # NoDir THEN "unlink"
                 ELSE IF m.n # All /\ Items(i) > 0 /\ refs[x].path # 0 THEN "rmVersion" ELSE "rmLog"
<1>3. i # 0 => Holds(book, i, x)
  BY <1>2, LogOf DEF Stores, Holds
<1>4. /\ x \in Names /\ i \in 0 .. Len(book) /\ Len(book) \in Nat /\ m.n \in {-1, 1, 2}
      /\ refs[x].path \in Nat
  BY <1>1, <1>2, LogOf, Domains DEF Stores, Locals
<1>5. refs[x].stored => i # 0
  BY <1>2, <1>4, LogOf DEF AllLogged, HasLog, Holds, Stores
<1>6. CASE Return(c) /\ refs' = refs /\ dirs' = dirs /\ book' = book /\ moved' = moved /\ prev' = prev /\ store' = store /\ muddled' = muddled
  <2>1. m1 = Idle
    BY <1>0, <1>6 DEF Return
  <2> QED BY <1>2, <1>6, <2>1, IdleAgrees DEF Agreed
<1>7. CASE /\ refs[x].stored /\ i # 0
           /\ me' = [me EXCEPT ![c].id = i, ![c].n = n, ![c].left = n, ![c].fsi = d,
                            ![c].path = refs[x].path, ![c].at = refs[x].path, ![c].pc = on]
           /\ refs' = refs /\ dirs' = dirs /\ book' = book /\ moved' = moved /\ prev' = prev /\ store' = store
           /\ muddled' = (muddled \/ (n # All /\ ~Clear(i, n)))
  <2>1. on \in {"rmVersion", "unlink", "rmLog"} /\ (on = "rmLog" => n = All /\ d = NoDir) /\ (on = "unlink" => n = All)
        /\ (on = "rmVersion" /\ n = All => d = NoDir /\ refs[x].path # 0)
    BY DEF All
  <2>2. k \in Nat /\ book[i].vs \in Seq(Nat) /\ i \in DOMAIN book
    <3>1. i \in DOMAIN book /\ LogOK(book[i])
      BY <1>2, <1>3, <1>7 DEF Stores, Logs, Holds
    <3> HIDE DEF i
    <3> QED BY <3>1 DEF LogOK
  <2>3. n \in {-1, 1, 2} /\ (n # All => n = m.n) /\ (~muddled' => ~muddled /\ (n # All => n < k))
    <3>1. n = All \/ n = m.n
      OBVIOUS
    <3> HIDE DEF n, i
    <3> QED BY <1>4, <1>7, <3>1 DEF All, Clear
  <2> HIDE DEF i, n, d, on
  <2>4. /\ m1.pc = on /\ m1.name = m.name /\ m1.next = m.next /\ m1.dir = m.dir /\ m1.n = n
        /\ m1.left = n /\ m1.new = m.new /\ m1.id = i /\ m1.path = refs[x].path /\ m1.at = refs[x].path
        /\ m1.fsi = d /\ m1.held = m.held /\ m1.fresh = m.fresh /\ m1.why = m.why
    BY <1>0, <1>7 DEF Fields
  <2> HIDE DEF m, m1, x, k
  <2>5. Locals(m1, book)
    BY <1>1, <1>2, <1>4, <2>1, <2>3, <2>4 DEF Locals, Renaming, InDir
  <2>6. d = NoDir => NoLink(dirs, moved, x)
    BY <1>2, <1>4, NoneAssumption DEF AllLinked, LinkOK, NoLink, d
  <2>7. LinkPcs(m1, refs, dirs, moved, book)
    BY <1>7, <2>1, <2>4, <2>6 DEF LinkPcs, d, x
  <2>8. ASSUME ~muddled' PROVE ChainPcs(m1, refs, book, prev, store)
    <3>1. refs[x].path = Last(book, i) /\ Single(book) /\ Holds(book, i, x)
      BY <1>2, <1>3, <1>4, <1>7, <2>2, <2>3, <2>8 DEF AllGood, GoodRef, Sound
    <3>2. k > 0 => k \in DOMAIN book[i].vs /\ Last(book, i) = book[i].vs[k]
      BY <2>2 DEF Last, k
    <3>3. k = 0 => Last(book, i) = 0
      BY <2>2 DEF Last, k
    <3>4. on = "rmVersion" => k > 0 /\ (n # All => n \in {1, 2} /\ n < k)
      BY <1>4, <2>1, <2>2, <2>3, <2>8, <3>1, <3>3 DEF All
    <3>5. n - n = 0 /\ k - 0 = k
      BY <2>2, <2>3
    <3> QED BY <1>7, <2>1, <2>3, <2>4, <3>1, <3>2, <3>4, <3>5 DEF ChainPcs, Cut, All, k, x
  <2>9. LinkedUp(m1, refs, dirs, moved)
    BY <1>2 DEF LinkedUp, AllLinked
  <2>10. Agree(m1, refs, dirs, moved, book, prev, store, muddled')
    BY <1>2, <2>3, <2>5, <2>7, <2>8, <2>9, Together
  <2> QED BY <1>7, <2>10 DEF Agreed, m1
<1>8. CASE /\ ~refs[x].stored /\ me' = [me EXCEPT ![c].pc = "rmLog", ![c].n = All]
           /\ refs' = refs /\ dirs' = dirs /\ book' = book /\ moved' = moved /\ prev' = prev /\ store' = store /\ muddled' = muddled
  <2>1. /\ m1.pc = "rmLog" /\ m1.name = m.name /\ m1.next = m.next /\ m1.dir = m.dir /\ m1.n = All
        /\ m1.left = m.left /\ m1.new = m.new /\ m1.id = m.id /\ m1.path = m.path /\ m1.at = m.at
        /\ m1.fsi = m.fsi /\ m1.held = m.held /\ m1.fresh = m.fresh /\ m1.why = m.why
    BY <1>0, <1>8 DEF Fields
  <2>2. m.id = 0
    BY <1>1, <1>2 DEF Locals
  <2> HIDE DEF m, m1, x, i
  <2>3. Locals(m1, book)
    BY <1>1, <1>2, <2>1 DEF Locals, Renaming, InDir, All
  <2>4. NoLink(dirs, moved, x)
    BY <1>2, <1>4, <1>8 DEF AllLinked, LinkOK, NoLink
  <2>5. LinkPcs(m1, refs, dirs, moved, book)
    BY <2>1, <2>4 DEF LinkPcs, x
  <2>6. ChainPcs(m1, refs, book, prev, store)
    BY <2>1, <2>2 DEF ChainPcs
  <2>7. Agree(m1, refs, dirs, moved, book, prev, store, muddled)
    BY <1>2, <2>3, <2>5, <2>6, Together
  <2> QED BY <1>8, <2>7 DEF Agreed, m1
<1>9. PlanRemove(c, i, refs[x]) =>
        /\ me' = [me EXCEPT ![c].id = i, ![c].n = n, ![c].left = n, ![c].fsi = d,
                            ![c].path = refs[x].path, ![c].at = refs[x].path, ![c].pc = on]
        /\ muddled' = (muddled \/ (n # All /\ ~Clear(i, n)))
  BY DEF PlanRemove
<1>10. /\ refs' = refs /\ dirs' = dirs /\ book' = book /\ moved' = moved /\ prev' = prev /\ store' = store
       /\ \/ refs[x].stored /\ i # 0 /\ PlanRemove(c, i, refs[x])
          \/ Return(c) /\ muddled' = muddled
          \/ /\ ~(refs[x].stored /\ i # 0)
             /\ me' = [me EXCEPT ![c].pc = "rmLog", ![c].n = All] /\ muddled' = muddled
  BY DEF ResolveRemove
<1> HIDE DEF i, n, d, on, x, m
<1> QED BY <1>5, <1>6, <1>7, <1>8, <1>9, <1>10

\* Link file and directory of the reference go together.
LEMMA UnlinkRemovedAgrees ==
  ASSUME NEW c, Clients = {c}, World(c), faults \in Nat, faults' = 0, Agreed(c), UnlinkRemoved(c)
  PROVE  Agreed(c)'
<1> DEFINE m == me[c]
           m1 == me'[c]
<1>0. DOMAIN me = Clients /\ DOMAIN m = Fields /\ (m.fresh => m.held = refs) /\ Refs(refs) /\ Folders(dirs)
  BY DEF World, Local
<1>1. m.pc = "unlink" /\ ~Fault(c)
  <2>1. At(c, "unlink")
    BY DEF UnlinkRemoved
  <2> QED BY <2>1 DEF At, Fault
<1>2. /\ Stores(refs, dirs, book, prev, store) /\ Locals(m, book) /\ Existing(dirs)
      /\ LinkPcs(m, refs, dirs, moved, book)
      /\ AllLinked(refs, dirs, moved) /\ AllLogged(refs, book)
      /\ ~muddled => /\ Sound(book, prev) /\ ChainPcs(m, refs, book, prev, store)
                     /\ AllKept(book, store) /\ AllGood(refs, book)
  BY <1>1, Parts DEF Agreed, LoosePcs, UnloggedPcs, CutPcs, AheadPcs
<1> DEFINE x == m.name
<1>3. /\ x \in Names /\ refs[x].stored /\ refs[x].fsi = m.fsi /\ LinkOK(refs, dirs, moved, x)
      /\ NoName \notin Names
  BY <1>1, <1>2, NoneAssumption DEF LinkPcs, Locals, AllLinked
<1>4. /\ m.fresh /\ dirs' = [dirs EXCEPT ![m.fsi].link = NoName]
      /\ refs' = IF m.held[x].stored /\ m.held[x].path # 0
                   THEN [m.held EXCEPT ![x] = Ref(m.held[x].path, NoDir)] ELSE refs
      /\ me' = [me EXCEPT ![c].pc = "rmLog", ![c].fresh = FALSE]
      /\ book' = book /\ moved' = moved /\ prev' = prev /\ store' = store /\ muddled' = muddled
  BY <1>1 DEF UnlinkRemoved
<1>5. /\ m1.pc = "rmLog" /\ m1.name = m.name /\ m1.next = m.next /\ m1.dir = m.dir /\ m1.n = m.n
        /\ m1.left = m.left /\ m1.new = m.new /\ m1.id = m.id /\ m1.path = m.path /\ m1.at = m.at
        /\ m1.fsi = m.fsi /\ m1.held = m.held /\ m1.fresh = FALSE /\ m1.why = m.why
  BY <1>0, <1>4 DEF Fields
<1>6. \E q : Put(refs, refs', x, q) /\ q.stored /\ q.path = refs[x].path
  <2>1. m.held = refs
    BY <1>0, <1>4
  <2>2. CASE refs' = refs
    BY <1>3, <2>2 DEF Put
  <2>3. CASE refs' = [refs EXCEPT ![x] = Ref(refs[x].path, NoDir)]
    <3>1. Put(refs, refs', x, Ref(refs[x].path, NoDir))
      <4> HIDE DEF x
      <4> QED BY <1>0, <1>3, <2>3, Written
    <3> QED BY <3>1 DEF Ref
  <2> QED BY <1>4, <2>1, <2>2, <2>3
<1>7. PICK q : Put(refs, refs', x, q) /\ q.stored /\ q.path = refs[x].path
  BY <1>6
<1>8. \A d \in Dirs : /\ dirs'[d].exists = dirs[d].exists
                      /\ dirs'[d].link = IF d = m.fsi THEN NoName ELSE dirs[d].link
  <2> HIDE DEF m
  <2> QED BY <1>0, <1>4 DEF Folders, DirFields
<1> HIDE DEF m, m1, x
<1>9. Stores(refs', dirs', book, prev, store) /\ Locals(m1, book) /\ Existing(dirs')
  BY <1>1, <1>2, <1>3, <1>5, <1>7, <1>8 DEF Stores, Locals, Put, Existing, Renaming, InDir
<1>10. NoLink(dirs', moved, x)
  BY <1>3, <1>8 DEF LinkOK, NoLink
<1>11. OtherLinks(refs', dirs', moved, x)
  <2> SUFFICES ASSUME NEW y \in Names, y # x, NEW d \in Dirs \ moved
               PROVE  (refs'[y].stored /\ refs'[y].fsi = d) <=> dirs'[d].link = y
    BY DEF OtherLinks, LinkOK
  <2>1. (refs[y].stored /\ refs[y].fsi = d) <=> dirs[d].link = y
    BY <1>2 DEF AllLinked, LinkOK
  <2>2. d = m.fsi => dirs[d].link = x
    BY <1>3 DEF LinkOK
  <2> QED BY <1>3, <1>7, <1>8, <2>1, <2>2 DEF Put
<1>12. OtherLogged(refs', book, x) /\ HasLog(book, x)
  BY <1>2, <1>3, <1>7 DEF OtherLogged, AllLogged, Put
<1>13. LinkPcs(m1, refs', dirs', moved, book)
  BY <1>5, <1>10 DEF LinkPcs, x
<1>14. ~muddled => ChainPcs(m1, refs', book, prev, store) /\ OtherGood(refs', book, x)
  <2>1. ~muddled => ChainPcs(m1, refs', book, prev, store)
    BY <1>1, <1>2, <1>5 DEF ChainPcs, CutPcs
  <2>2. ~muddled => OtherGood(refs', book, x)
    BY <1>2, <1>7 DEF OtherGood, AllGood, GoodRef, Put
  <2> QED BY <2>1, <2>2
<1>15. x = m1.name /\ m1.pc \in LoosePcs /\ m1.pc \in AheadPcs
  BY <1>5 DEF x, LoosePcs, AheadPcs
<1>16. Agree(m1, refs', dirs', moved, book, prev, store, muddled)
  BY <1>2, <1>9, <1>11, <1>12, <1>13, <1>14, <1>15, Rejoined
<1> QED BY <1>4, <1>16 DEF Agreed, m1

\* The versions deleted so far are the newest of the log, and the next is the one before them.
LEMMA DeleteVersionAgrees ==
  ASSUME NEW c, Clients = {c}, World(c), faults \in Nat, faults' = 0, Agreed(c), DeleteVersion(c)
  PROVE  Agreed(c)'
<1> DEFINE m == me[c]
           m1 == me'[c]
<1>0. DOMAIN me = Clients /\ DOMAIN m = Fields /\ (m.fresh => m.held = refs) /\ Refs(refs) /\ Folders(dirs)
  BY DEF World, Local
<1>1. m.pc = "rmVersion" /\ ~Fault(c)
  <2>1. At(c, "rmVersion")
    BY DEF DeleteVersion
  <2> QED BY <2>1 DEF At, Fault
<1>2. /\ Stores(refs, dirs, book, prev, store) /\ Locals(m, book) /\ Existing(dirs)
      /\ LinkPcs(m, refs, dirs, moved, book)
      /\ AllLinked(refs, dirs, moved) /\ AllLogged(refs, book)
      /\ ~muddled => /\ Sound(book, prev) /\ ChainPcs(m, refs, book, prev, store)
                     /\ Kept(m, book, store) /\ AllGood(refs, book)
  BY <1>1, Parts DEF Agreed, LoosePcs, UnloggedPcs, CutPcs, AheadPcs
<1> DEFINE v   == m.at
           i   == m.id
           n   == m.n
           vs  == book[i].vs
           pos == Len(vs) - (n - m.left)
<1>3. /\ prev \in Seq(Nat) /\ store \subseteq DOMAIN prev /\ n \in {-1, 0, 1, 2} /\ m.left \in Int
      /\ v \in Nat /\ Len(book) \in Nat /\ i \in 0 .. Len(book) /\ m.name \in Names
  BY <1>1, <1>2, Domains DEF Stores, Locals
<1>4. ASSUME ~muddled
      PROVE  /\ i \in DOMAIN book /\ book[i].state = "live" /\ Len(vs) \in Nat /\ DOMAIN vs = 1 .. Len(vs)
             /\ pos \in DOMAIN vs /\ v = vs[pos] /\ Cut(m) = n - m.left /\ m.left =< n
             /\ n # All => n \in {1, 2} /\ n < Len(vs) /\ m.left >= 1
             /\ refs[m.name].stored \/ n = All
  <2>1. ChainPcs(m, refs, book, prev, store)
    BY <1>2, <1>4
  <2>2. Holds(book, i, m.name) /\ Cut(m) = n - m.left
    BY <1>1, <2>1 DEF ChainPcs, Cut
  <2>3. LogOK(book[i])
    BY <1>2, <2>2 DEF Stores, Logs, Holds
  <2>4. Len(vs) \in Nat /\ DOMAIN vs = 1 .. Len(vs)
    <3> HIDE DEF i
    <3> QED BY <2>3 DEF LogOK
  <2> HIDE DEF m
  <2> QED BY <1>1, <2>1, <2>2, <2>4 DEF ChainPcs, Holds
<1>5. ASSUME ~muddled
      PROVE  /\ v \in DOMAIN prev /\ prev[v] = IF pos = 1 THEN 0 ELSE vs[pos - 1]
             /\ pos # 1 => pos - 1 \in DOMAIN vs
             /\ n # All => v \in store /\ prev[v] # 0 /\ prev[v] \in store
  <2> HIDE DEF m, i, n, pos, vs, v
  <2>1. v \in DOMAIN prev /\ prev[v] = IF pos = 1 THEN 0 ELSE vs[pos - 1]
    BY <1>2, <1>4, <1>5 DEF Sound, Chained, vs
  <2>2. pos \in Int /\ (pos # 1 => pos - 1 \in DOMAIN vs)
    BY <1>4, <1>5
  <2>3. ASSUME n # All
        PROVE  pos # 1 /\ ~(pos > Len(vs) - Cut(m)) /\ ~(pos - 1 > Len(vs) - Cut(m))
    BY <1>3, <1>4, <1>5, <2>3 DEF pos
  <2>4. ASSUME NEW j \in DOMAIN vs, n # All, ~(j > Len(vs) - Cut(m))
        PROVE  vs[j] \in store /\ vs[j] # 0
    <3>1. ~Missing(m, book, i, j)
      BY <2>4 DEF Missing, n, vs, i
    <3>2. vs[j] \in store
      BY <1>2, <1>4, <1>5, <2>4, <3>1 DEF Kept, vs
    <3> QED BY <1>3, <3>2
  <2> QED BY <1>4, <1>5, <2>1, <2>2, <2>3, <2>4
<1>6. CASE v \notin store /\ GoOn(c) /\ refs' = refs /\ dirs' = dirs /\ book' = book /\ moved' = moved /\ prev' = prev /\ store' = store /\ muddled' = muddled
  <2>1. CASE n = All
    <3>1. /\ m1.pc = "rmLog" /\ m1.name = m.name /\ m1.next = m.next /\ m1.dir = m.dir /\ m1.n = m.n
        /\ m1.left = m.left /\ m1.new = m.new /\ m1.id = m.id /\ m1.path = m.path /\ m1.at = m.at
        /\ m1.fsi = m.fsi /\ m1.held = m.held /\ m1.fresh = m.fresh /\ m1.why = m.why
      BY <1>0, <1>6, <2>1 DEF Fields, Go, GoOn
    <3> HIDE DEF m, m1
    <3>2. Locals(m1, book)
      BY <1>1, <1>2, <3>1 DEF Locals, Renaming, InDir
    <3>3. LinkPcs(m1, refs, dirs, moved, book)
      BY <1>1, <1>2, <2>1, <3>1 DEF LinkPcs, n
    <3>4. ~muddled => ChainPcs(m1, refs, book, prev, store) /\ Kept(m1, book, store)
      BY <1>1, <1>2, <2>1, <3>1 DEF ChainPcs, Kept, Missing, CutPcs, n
    <3>5. Agree(m1, refs, dirs, moved, book, prev, store, muddled)
      BY <1>2, <3>2, <3>3, <3>4, Together
    <3> QED BY <1>6, <3>5 DEF Agreed, m1
  <2>2. CASE n # All
    <3>1. m1 = Idle /\ muddled
      BY <1>0, <1>5, <1>6, <2>2 DEF Return, GoOn
    <3> QED BY <1>2, <1>6, <3>1, IdleAgrees DEF Agreed
  <2> QED BY <2>1, <2>2
<1>7. ASSUME v \in store, store' = store \ {v}, refs' = refs /\ dirs' = dirs /\ book' = book /\ moved' = moved /\ prev' = prev /\ muddled' = muddled,
             ~muddled => ChainPcs(m1, refs, book, prev, store'),
             m1.id = i, m1.n = n, m1.pc \in {"rmVersion", "rewind"},
             ~muddled /\ n # All => Cut(m1) \in Int /\ Cut(m1) >= Cut(m) + 1,
             Locals(m1, book), LinkPcs(m1, refs, dirs, moved, book)
      PROVE  Agreed(c)'
  <2> HIDE DEF m, m1, i, n, pos, vs, v
  <2>1. Stores(refs, dirs, book, prev, store')
    BY <1>2, <1>7 DEF Stores
  <2>2. ASSUME ~muddled PROVE Kept(m1, book, store')
    <3> SUFFICES ASSUME NEW k \in DOMAIN book, book[k].state = "live", NEW j \in DOMAIN book[k].vs,
                        book[k].vs[j] \notin store'
                 PROVE  Missing(m1, book, k, j)
      BY DEF Kept
    <3>1. CASE n = All /\ k = i
      BY <1>7, <3>1 DEF Missing, CutPcs
    <3>2. CASE book[k].vs[j] = v
      <4>1. k = i /\ j = pos
        BY <1>2, <1>4, <2>2, <3>2 DEF Sound, Distinct, vs
      <4>2. CASE n # All
        <5>1. j > Len(vs) - Cut(m1)
          <6>1. /\ Len(vs) \in Nat /\ Cut(m) \in Int /\ Cut(m1) \in Int /\ Cut(m1) >= Cut(m) + 1
            BY <1>3, <1>4, <1>7, <2>2, <4>2
          <6>2. j = Len(vs) - Cut(m)
            BY <1>4, <2>2, <4>1 DEF pos
          <6> QED BY <6>1, <6>2
        <5> QED BY <1>7, <4>1, <5>1 DEF Missing, CutPcs, vs
      <4> QED BY <3>1, <4>1, <4>2
    <3>3. CASE book[k].vs[j] # v
      <4>1. Missing(m, book, k, j)
        BY <1>2, <1>7, <2>2, <3>3 DEF Kept
      <4>2. k = i /\ (n # All => j > Len(vs) - Cut(m))
        BY <4>1 DEF Missing, i, n, vs
      <4>3. CASE n # All
        <5>1. j \in Nat
          BY <1>4, <2>2, <4>2 DEF vs
        <5>2. j > Len(vs) - Cut(m1)
          <6>1. /\ Len(vs) \in Nat /\ Cut(m) \in Int /\ Cut(m1) \in Int /\ Cut(m1) >= Cut(m) + 1
                /\ j > Len(vs) - Cut(m)
            BY <1>3, <1>4, <1>7, <2>2, <4>2, <4>3
          <6> QED BY <5>1, <6>1
        <5> QED BY <1>7, <4>2, <5>2 DEF Missing, CutPcs, vs
      <4> QED BY <3>1, <4>2, <4>3
    <3> QED BY <3>2, <3>3
  <2>3. Agree(m1, refs, dirs, moved, book, prev, store', muddled)
    BY <1>2, <1>7, <2>1, <2>2, Together
  <2> QED BY <1>7, <2>3 DEF Agreed, m1
<1>8. CASE /\ v \in store /\ store' = store \ {v} /\ (prev[v] = 0 \/ prev[v] \notin store)
           /\ Go(c, "rewind")
           /\ refs' = refs /\ dirs' = dirs /\ book' = book /\ moved' = moved /\ prev' = prev /\ muddled' = muddled
  <2>1. /\ m1.pc = "rewind" /\ m1.name = m.name /\ m1.next = m.next /\ m1.dir = m.dir /\ m1.n = m.n
        /\ m1.left = m.left /\ m1.new = m.new /\ m1.id = m.id /\ m1.path = m.path /\ m1.at = m.at
        /\ m1.fsi = m.fsi /\ m1.held = m.held /\ m1.fresh = m.fresh /\ m1.why = m.why
    BY <1>0, <1>8 DEF Fields, Go
  <2>2. muddled \/ n = All
    BY <1>5, <1>8
  <2>3. i = m.id /\ n = m.n
    OBVIOUS
  <2> HIDE DEF m, m1, i, n
  <2>4. Locals(m1, book)
    BY <1>1, <1>2, <2>1 DEF Locals, Renaming, InDir
  <2>5. LinkPcs(m1, refs, dirs, moved, book)
    BY <1>1, <1>2, <2>1 DEF LinkPcs
  <2>6. ~muddled => ChainPcs(m1, refs, book, prev, store')
    BY <1>1, <1>2, <2>1, <2>2, <2>3 DEF ChainPcs
  <2> QED BY <1>7, <1>8, <2>1, <2>2, <2>3, <2>4, <2>5, <2>6
<1>9. CASE /\ v \in store /\ store' = store \ {v} /\ ~(prev[v] = 0 \/ prev[v] \notin store)
           /\ me' = [me EXCEPT ![c].at = prev[v], ![c].left = @ - 1,
                               ![c].pc = IF m.left = 1 THEN "rewind" ELSE @]
           /\ refs' = refs /\ dirs' = dirs /\ book' = book /\ moved' = moved /\ prev' = prev /\ muddled' = muddled
  <2> DEFINE on == IF m.left = 1 THEN "rewind" ELSE "rmVersion"
  <2>1. /\ m1.pc = on /\ m1.name = m.name /\ m1.next = m.next /\ m1.dir = m.dir /\ m1.n = m.n
        /\ m1.left = m.left - 1 /\ m1.new = m.new /\ m1.id = m.id /\ m1.path = m.path /\ m1.at = prev[v]
        /\ m1.fsi = m.fsi /\ m1.held = m.held /\ m1.fresh = m.fresh /\ m1.why = m.why
    BY <1>0, <1>1, <1>9 DEF Fields
  <2>2. i = m.id /\ n = m.n /\ on \in {"rewind", "rmVersion"} /\ (on = "rewind" => m.left = 1)
        /\ (on = "rmVersion" => m.left # 1) /\ prev[v] \in Nat
    BY <1>3, <1>9
  <2>3. ASSUME ~muddled PROVE prev[v] = vs[pos - 1] /\ pos - 1 \in DOMAIN vs
    BY <1>5, <1>9, <2>3
  <2>e. vs = book[m.id].vs
    OBVIOUS
  <2> HIDE DEF m, m1, i, n, vs, pos, on
  <2>4. Locals(m1, book)
    BY <1>1, <1>2, <1>3, <2>1, <2>2 DEF Locals, Renaming, InDir
  <2>5. LinkPcs(m1, refs, dirs, moved, book)
    BY <1>1, <1>2, <2>1, <2>2 DEF LinkPcs
  <2>6. ASSUME ~muddled
        PROVE  /\ n # All => Cut(m1) \in Int /\ Cut(m1) = Cut(m) + 1
               /\ on = "rmVersion" => Len(vs) - Cut(m1) = pos - 1 /\ (n # All => m1.left >= 1)
               /\ on = "rewind" /\ n # All => Len(vs) - n = pos - 1
               /\ m1.left =< n
    <3>1. Cut(m1) = IF on = "rmVersion" THEN n - (m.left - 1) ELSE n
      BY <2>1, <2>2 DEF Cut
    <3>2. n \in Int /\ m.left \in Int /\ Len(vs) \in Int /\ Cut(m) = n - m.left /\ m.left =< n
          /\ (n # All => m.left >= 1) /\ pos = Len(vs) - (n - m.left) /\ m1.left = m.left - 1
      BY <1>3, <1>4, <2>1, <2>6 DEF pos
    <3>3. CASE on = "rmVersion"
      <4>1. Cut(m1) = n - (m.left - 1) /\ m.left # 1 /\ on # "rewind"
        BY <2>2, <3>1, <3>3
      <4> QED BY <3>2, <4>1
    <3>4. CASE on = "rewind"
      <4>1. Cut(m1) = n /\ m.left = 1 /\ on # "rmVersion"
        BY <2>2, <3>1, <3>4
      <4> QED BY <3>2, <4>1
    <3> QED BY <2>2, <3>3, <3>4
  <2>7. ASSUME ~muddled PROVE ChainPcs(m1, refs, book, prev, store')
    <3>1. CASE on = "rmVersion"
      BY <1>1, <1>2, <1>4, <2>1, <2>2, <2>e, <2>3, <2>6, <2>7, <3>1 DEF ChainPcs
    <3>2. CASE on = "rewind"
      BY <1>1, <1>2, <1>4, <2>1, <2>2, <2>e, <2>3, <2>6, <2>7, <3>2 DEF ChainPcs
    <3> QED BY <2>2, <3>1, <3>2
  <2>8. ~muddled /\ n # All => Cut(m1) \in Int /\ Cut(m1) >= Cut(m) + 1
    BY <1>3, <1>4, <2>6
  <2> QED BY <1>7, <1>9, <2>1, <2>2, <2>4, <2>5, <2>7, <2>8
<1>10. \/ v \notin store /\ GoOn(c) /\ refs' = refs /\ dirs' = dirs /\ book' = book /\ moved' = moved /\ prev' = prev /\ store' = store /\ muddled' = muddled
       \/ /\ v \in store /\ store' = store \ {v} /\ refs' = refs /\ dirs' = dirs /\ book' = book /\ moved' = moved /\ prev' = prev /\ muddled' = muddled
          /\ IF prev[v] = 0 \/ prev[v] \notin store THEN Go(c, "rewind")
             ELSE me' = [me EXCEPT ![c].at = prev[v], ![c].left = @ - 1,
                                   ![c].pc = IF m.left = 1 THEN "rewind" ELSE @]
  BY <1>1 DEF DeleteVersion, Nothing
<1> QED BY <1>6, <1>8, <1>9, <1>10

\* The reference goes back to the version that is the newest of those left.
LEMMA RewindAgrees ==
  ASSUME NEW c, Clients = {c}, World(c), faults \in Nat, faults' = 0, Agreed(c), Rewind(c)
  PROVE  Agreed(c)'
<1> DEFINE m == me[c]
           m1 == me'[c]
<1>0. DOMAIN me = Clients /\ DOMAIN m = Fields /\ (m.fresh => m.held = refs) /\ Refs(refs) /\ Folders(dirs)
  BY DEF World, Local
<1>1. m.pc = "rewind" /\ ~Fault(c)
  <2>1. At(c, "rewind")
    BY DEF Rewind
  <2> QED BY <2>1 DEF At, Fault
<1>2. /\ Stores(refs, dirs, book, prev, store) /\ Locals(m, book) /\ Existing(dirs)
      /\ LinkPcs(m, refs, dirs, moved, book)
      /\ AllLinked(refs, dirs, moved) /\ AllLogged(refs, book)
      /\ ~muddled => /\ Sound(book, prev) /\ ChainPcs(m, refs, book, prev, store)
                     /\ Kept(m, book, store) /\ AllGood(refs, book)
  BY <1>1, Parts DEF Agreed, LoosePcs, UnloggedPcs, CutPcs, AheadPcs
<1>3. m.name \in Names
  BY <1>1, <1>2 DEF Locals
<1>4. CASE /\ m.held[m.name].stored
           /\ m.fresh /\ refs' = [m.held EXCEPT ![m.name] = NoRef]
           /\ me' = [me EXCEPT ![c].pc = "rewindPut", ![c].fresh = FALSE, ![c].dir = m.held[m.name].fsi]
           /\ dirs' = dirs /\ book' = book /\ moved' = moved /\ prev' = prev /\ store' = store /\ muddled' = muddled
  <2>1. /\ m1.pc = "rewindPut" /\ m1.name = m.name /\ m1.next = m.next /\ m1.dir = m.held[m.name].fsi /\ m1.n = m.n
        /\ m1.left = m.left /\ m1.new = m.new /\ m1.id = m.id /\ m1.path = m.path /\ m1.at = m.at
        /\ m1.fsi = m.fsi /\ m1.held = m.held /\ m1.fresh = FALSE /\ m1.why = m.why
    BY <1>0, <1>4 DEF Fields
  <2>2. m.held = refs /\ m.name \in Names
    BY <1>0, <1>1, <1>2, <1>4 DEF Locals, Renaming
  <2>3. Put(refs, refs', m.name, NoRef)
    <3> HIDE DEF m
    <3> QED BY <1>0, <1>4, <2>2, Written
  <2>4. /\ OtherLinks(refs, dirs, moved, m.name) /\ OtherLogged(refs, book, m.name)
        /\ ~muddled => OtherGood(refs, book, m.name)
    BY <1>1, Others DEF Agreed, LoosePcs, UnloggedPcs, AheadPcs
  <2> HIDE DEF m, m1
  <2>5. /\ OtherLinks(refs', dirs, moved, m.name) /\ OtherLogged(refs', book, m.name)
        /\ ~muddled => OtherGood(refs', book, m.name)
    BY <2>3, <2>4, PutLeaves
  <2>k. ~muddled => Kept(m1, book, store)
    BY <1>1, <1>2, <2>1 DEF Kept, Missing, Cut, CutPcs
  <2>l. Ours(dirs, moved, m.name, m1.dir)
    <3>1. LinkOK(refs, dirs, moved, m.name)
      BY <1>2, <1>3 DEF AllLinked
    <3> QED BY <1>4, <2>1, <2>2, <3>1 DEF LinkOK, Ours
  <2>h. HasLog(book, m.name)
    BY <1>2, <1>4, <2>2 DEF AllLogged
  <2>6. Stores(refs', dirs, book, prev, store) /\ Locals(m1, book)
    BY <1>1, <1>2, <1>4, <2>1, <2>2, <2>3 DEF Stores, Locals, Put, Ref, NoRef, Renaming, InDir
  <2>7. LinkPcs(m1, refs', dirs, moved, book)
    BY <1>1, <1>2, <1>4, <2>1, <2>2, <2>3, <2>h, <2>l DEF LinkPcs, Put, Ref, NoRef
  <2>8. ~muddled => ChainPcs(m1, refs', book, prev, store)
    BY <1>1, <1>2, <1>4, <2>1, <2>2, <2>3 DEF ChainPcs, Put, Ref, NoRef
  <2>9. m1.pc \in LoosePcs
    BY <2>1 DEF LoosePcs
  <2>10. ~refs'[m.name].stored
    BY <2>3 DEF Put, NoRef
  <2>11. ~muddled => GoodRef(refs', book, m.name)
    BY <2>10 DEF GoodRef
  <2>12. Agree(m1, refs', dirs, moved, book, prev, store, muddled)
    BY <1>2, <2>1, <2>5, <2>6, <2>7, <2>8, <2>9, <2>10, <2>11, <2>k, Rejoined
  <2> QED BY <1>4, <2>12 DEF Agreed, m1
<1>5. CASE ~m.held[m.name].stored /\ m.fresh /\ GoOn(c) /\ refs' = refs /\ dirs' = dirs /\ book' = book /\ moved' = moved /\ prev' = prev /\ store' = store /\ muddled' = muddled
  <2>0. GoOn(c)
    BY <1>5
  <2>1. CASE m.n = All
    <3>0. Go(c, "rmLog")
      BY <2>0, <2>1 DEF GoOn
    <3>1. /\ m1.pc = "rmLog" /\ m1.name = m.name /\ m1.next = m.next /\ m1.dir = m.dir /\ m1.n = m.n
        /\ m1.left = m.left /\ m1.new = m.new /\ m1.id = m.id /\ m1.path = m.path /\ m1.at = m.at
        /\ m1.fsi = m.fsi /\ m1.held = m.held /\ m1.fresh = m.fresh /\ m1.why = m.why
      BY <1>0, <3>0 DEF Fields, Go
    <3> HIDE DEF m, m1
    <3>2. Locals(m1, book)
      BY <1>1, <1>2, <3>1 DEF Locals, Renaming, InDir
    <3>3. LinkPcs(m1, refs, dirs, moved, book)
      BY <1>1, <1>2, <2>1, <3>1 DEF LinkPcs
    <3>4. ~muddled => ChainPcs(m1, refs, book, prev, store) /\ Kept(m1, book, store)
      BY <1>1, <1>2, <2>1, <3>1 DEF ChainPcs, Kept, Missing, CutPcs
    <3>5. Agree(m1, refs, dirs, moved, book, prev, store, muddled)
      BY <1>2, <3>2, <3>3, <3>4, Together
    <3> QED BY <1>5, <3>5 DEF Agreed, m1
  <2>2. CASE m.n # All
    <3>1. m1 = Idle /\ m.held = refs
      BY <1>0, <1>5, <2>2 DEF Return, GoOn
    <3>2. muddled
      BY <1>1, <1>2, <1>5, <2>2, <3>1 DEF ChainPcs
    <3> QED BY <1>2, <1>5, <3>1, <3>2, IdleAgrees DEF Agreed
  <2> QED BY <2>1, <2>2
<1> QED BY <1>1, <1>4, <1>5 DEF Rewind, RefsOnly, Nothing


\* It is put back with the path of the version that is now the newest one.
LEMMA RewindPutAgrees ==
  ASSUME NEW c, Clients = {c}, World(c), faults \in Nat, faults' = 0, Agreed(c), RewindPut(c)
  PROVE  Agreed(c)'
<1> DEFINE m == me[c]
           m1 == me'[c]
<1>0. DOMAIN me = Clients /\ DOMAIN m = Fields /\ (m.fresh => m.held = refs) /\ Refs(refs) /\ Folders(dirs)
  BY DEF World, Local
<1>1. m.pc = "rewindPut" /\ ~Fault(c)
  <2>1. At(c, "rewindPut")
    BY DEF RewindPut
  <2> QED BY <2>1 DEF At, Fault
<1>2. /\ Stores(refs, dirs, book, prev, store) /\ Locals(m, book) /\ Existing(dirs)
      /\ LinkPcs(m, refs, dirs, moved, book)
      /\ LinkedUp(m, refs, dirs, moved) /\ AllLogged(refs, book)
      /\ ~muddled => /\ Sound(book, prev) /\ ChainPcs(m, refs, book, prev, store)
                     /\ Kept(m, book, store) /\ AllGood(refs, book)
  BY <1>1, Parts DEF Agreed, LoosePcs, UnloggedPcs, CutPcs, AheadPcs
<1>3. m.name \in Names
  BY <1>1, <1>2 DEF Locals
<1>4. /\ m.fresh /\ refs' = [m.held EXCEPT ![m.name] = Ref(m.at, m.dir)]
      /\ me' = [me EXCEPT ![c].pc = "rmWrite", ![c].fresh = FALSE]
      /\ dirs' = dirs /\ book' = book /\ moved' = moved /\ prev' = prev /\ store' = store /\ muddled' = muddled
  BY <1>1 DEF RewindPut, PutRef, RefsOnly
<1>5. /\ m1.pc = "rmWrite" /\ m1.name = m.name /\ m1.next = m.next /\ m1.dir = m.dir /\ m1.n = m.n
      /\ m1.left = m.left /\ m1.new = m.new /\ m1.id = m.id /\ m1.path = m.path /\ m1.at = m.at
      /\ m1.fsi = m.fsi /\ m1.held = m.held /\ m1.fresh = FALSE /\ m1.why = m.why
  BY <1>0, <1>4 DEF Fields
<1>6. m.held = refs /\ m.name \in Names
  BY <1>0, <1>1, <1>2, <1>4 DEF Locals, Renaming
<1>7. Put(refs, refs', m.name, Ref(m.at, m.dir))
  <2> HIDE DEF m
  <2> QED BY <1>0, <1>4, <1>6, Written
<1>8. /\ OtherLinks(refs, dirs, moved, m.name) /\ OtherLogged(refs, book, m.name)
      /\ ~muddled => OtherGood(refs, book, m.name)
  BY <1>1, Others DEF Agreed, LoosePcs, UnloggedPcs, AheadPcs
<1> HIDE DEF m, m1
<1>9. /\ OtherLinks(refs', dirs, moved, m.name) /\ OtherLogged(refs', book, m.name)
      /\ ~muddled => OtherGood(refs', book, m.name)
  BY <1>7, <1>8, PutLeaves
<1>k. ~muddled => Kept(m1, book, store)
  BY <1>1, <1>2, <1>5 DEF Kept, Missing, Cut, CutPcs
<1>l. Ours(dirs, moved, m.name, m.dir)
  BY <1>1, <1>2 DEF LinkPcs
<1>10. Stores(refs', dirs, book, prev, store) /\ Locals(m1, book)
  BY <1>1, <1>2, <1>4, <1>5, <1>6, <1>7 DEF Stores, Locals, Put, Ref, NoRef, Renaming, InDir
<1>11. LinkPcs(m1, refs', dirs, moved, book)
  BY <1>1, <1>2, <1>4, <1>5, <1>6, <1>7 DEF LinkPcs, Put, Ref, NoRef
<1>12. ~muddled => ChainPcs(m1, refs', book, prev, store)
  BY <1>1, <1>2, <1>4, <1>5, <1>6, <1>7 DEF ChainPcs, Put, Ref, NoRef
<1>13. LinkOK(refs', dirs, moved, m.name)
  BY <1>1, <1>2, <1>4, <1>6, <1>7, NoneAssumption, <1>l DEF LinkOK, Put, Ref, NoRef, LinkPcs, Ours, NoLink
<1>14. refs'[m.name].stored => HasLog(book, m.name)
  BY <1>1, <1>2, <1>3, <1>4, <1>5, <1>6, <1>7 DEF LinkPcs, HasLog, Holds, Put, Ref, NoRef, AllLogged, UnloggedPcs
<1>15. m1.pc \in AheadPcs
  BY <1>5 DEF AheadPcs
<1>16. Agree(m1, refs', dirs, moved, book, prev, store, muddled)
  BY <1>2, <1>5, <1>9, <1>10, <1>11, <1>12, <1>13, <1>14, <1>15, <1>k, Rejoined
<1> QED BY <1>4, <1>16 DEF Agreed, m1

\* The log forgets the versions that were deleted, and ends with the one the reference has.
LEMMA WriteVersionDeleteAgrees ==
  ASSUME NEW c, Clients = {c}, World(c), faults \in Nat, faults' = 0, Agreed(c), WriteVersionDelete(c)
  PROVE  Agreed(c)'
<1> DEFINE m == me[c]
           m1 == me'[c]
<1>0. DOMAIN me = Clients /\ DOMAIN m = Fields /\ (m.fresh => m.held = refs) /\ Refs(refs) /\ Folders(dirs)
  BY DEF World, Local
<1>1. m.pc = "rmWrite" /\ ~Fault(c)
  <2>1. At(c, "rmWrite")
    BY DEF WriteVersionDelete
  <2> QED BY <2>1 DEF At, Fault
<1>2. /\ Stores(refs, dirs, book, prev, store) /\ Locals(m, book) /\ Existing(dirs)
      /\ LinkPcs(m, refs, dirs, moved, book)
      /\ AllLinked(refs, dirs, moved) /\ AllLogged(refs, book)
      /\ ~muddled => /\ Sound(book, prev) /\ ChainPcs(m, refs, book, prev, store)
                     /\ Kept(m, book, store) /\ Good(m, refs, book)
  BY <1>1, Parts DEF Agreed, LoosePcs, UnloggedPcs, CutPcs, AheadPcs
<1> DEFINE x  == m.name
           i  == RefToInitID(x)
           s  == book[i].vs
           ba == [book EXCEPT ![i].minus = TRUE]
           bn(h) == [book EXCEPT ![i].vs = SubSeq(@, 1, Len(@) - h)]
           on == IF m.n = All THEN "rmLog" ELSE "rmFiles"
<1>3. /\ x \in Names /\ m.n \in {-1, 0, 1, 2} /\ Logs(book) /\ i \in 0 .. Len(book) /\ Len(book) \in Nat
      /\ i # 0 => i \in DOMAIN book /\ book[i].state = "live" /\ book[i].name = x
      /\ i = 0 => ~Holds(book, m.id, x)
  BY <1>1, <1>2, LogOf, Domains DEF Stores, Locals, Holds
<1>4. ~muddled => Holds(book, m.id, x) /\ i = m.id
  BY <1>1, <1>2, <1>3 DEF ChainPcs, Sound, Single, Holds
<1>5. ASSUME i = 0, Go(c, on), refs' = refs /\ dirs' = dirs /\ book' = book /\ moved' = moved /\ prev' = prev /\ store' = store /\ muddled' = muddled
      PROVE  Agreed(c)'
  <2>1. muddled
    BY <1>3, <1>4, <1>5
  <2>2. /\ m1.pc = on /\ m1.name = m.name /\ m1.next = m.next /\ m1.dir = m.dir /\ m1.n = m.n
        /\ m1.left = m.left /\ m1.new = m.new /\ m1.id = m.id /\ m1.path = m.path /\ m1.at = m.at
        /\ m1.fsi = m.fsi /\ m1.held = m.held /\ m1.fresh = m.fresh /\ m1.why = m.why
    BY <1>0, <1>5 DEF Fields, Go
  <2>3. on \in {"rmLog", "rmFiles"} /\ (on = "rmLog" => m.n = All)
    OBVIOUS
  <2> HIDE DEF m, m1, on
  <2>4. Locals(m1, book)
    BY <1>1, <1>2, <2>2, <2>3 DEF Locals, Renaming, InDir
  <2>5. LinkPcs(m1, refs, dirs, moved, book)
    BY <1>1, <1>2, <2>2, <2>3 DEF LinkPcs
  <2>6. Agree(m1, refs, dirs, moved, book, prev, store, muddled)
    BY <1>2, <2>1, <2>4, <2>5, Together
  <2> QED BY <1>5, <2>6 DEF Agreed, m1
<1>6. ASSUME m.n = All, i # 0, book' = ba, Go(c, "rmLog"), muddled' = (muddled \/ Twins(book')),
             refs' = refs /\ dirs' = dirs /\ moved' = moved /\ prev' = prev /\ store' = store
      PROVE  Agreed(c)'
  <2>1. Updated(book, book', i, book[i].state, book[i].name, book[i].vs, book[i].blank)
    <3> HIDE DEF i
    <3> QED BY <1>3, <1>6, LogMinus
  <2>2. /\ m1.pc = "rmLog" /\ m1.name = m.name /\ m1.next = m.next /\ m1.dir = m.dir /\ m1.n = m.n
        /\ m1.left = m.left /\ m1.new = m.new /\ m1.id = m.id /\ m1.path = m.path /\ m1.at = m.at
        /\ m1.fsi = m.fsi /\ m1.held = m.held /\ m1.fresh = m.fresh /\ m1.why = m.why
    BY <1>0, <1>6 DEF Fields, Go
  <2>3. ~muddled' => ~muddled
    BY <1>6
  <2> HIDE DEF m, m1, i, ba, x
  <2>4. Stores(refs, dirs, book', prev, store) /\ Locals(m1, book')
    BY <1>1, <1>2, <2>1, <2>2 DEF Stores, Locals, Updated, Renaming, InDir
  <2>5. LinkPcs(m1, refs, dirs, moved, book')
    BY <1>1, <1>2, <1>6, <2>2 DEF LinkPcs
  <2>6. /\ AllLogged(refs, book')
        /\ Sound(book, prev) => Sound(book', prev)
    BY <1>2, <1>3, <1>6, <2>1, WithSame
  <2>7. ASSUME ~muddled' PROVE ChainPcs(m1, refs, book', prev, store)
    <3>1. Holds(book', m.id, m.name)
      BY <1>4, <2>1, <2>3, <2>7 DEF Holds, Updated, x
    <3> QED BY <2>2, <3>1 DEF ChainPcs
  <2>8. ASSUME ~muddled' PROVE Kept(m1, book', store)
    BY <1>1, <1>2, <1>6, <2>1, <2>2, <2>3, <2>8 DEF Kept, Missing, CutPcs, Updated
  <2>9. ASSUME ~muddled' PROVE Good(m1, refs, book')
    BY <1>1, <1>2, <2>1, <2>2, <2>3, <2>9 DEF Good, GoodRef, AheadPcs, Updated, Holds, Last
  <2>10. Agree(m1, refs, dirs, moved, book', prev, store, muddled')
    BY <1>2, <2>3, <2>4, <2>5, <2>6, <2>7, <2>8, <2>9, Together
  <2> QED BY <1>6, <2>10 DEF Agreed, m1
<1>7. ASSUME m.n # All, i # 0, NEW h \in 0 .. m.n, book' = bn(h), Cardinality(Popped(i, m.n)) = m.n - h, Go(c, "rmFiles"),
             muddled' = (muddled \/ Twins(book') \/ Popped(i, m.n) # {}),
             refs' = refs /\ dirs' = dirs /\ moved' = moved /\ prev' = prev /\ store' = store
      PROVE  Agreed(c)'
  <2> DEFINE t == SubSeq(s, 1, Len(s) - h)
  <2>0. m.n \in {0, 1, 2} /\ h \in {0, 1, 2}
    <3>1. m.n \in {0, 1, 2}
      BY <1>3, <1>7 DEF All
    <3> HIDE DEF m
    <3> QED BY <1>7, <3>1
  <2>h. ~muddled' => h = m.n
    <3>1. ~muddled' => Cardinality(Popped(i, m.n)) = 0
      BY <1>7, FS_EmptySet
    <3> HIDE DEF m, i
    <3> QED BY <1>7, <2>0, <3>1
  <2>1. Updated(book, book', i, book[i].state, book[i].name, t, book[i].blank)
    <3> HIDE DEF i, m
    <3> QED BY <1>3, <1>7, <2>0, LogCut
  <2>2. /\ m1.pc = "rmFiles" /\ m1.name = m.name /\ m1.next = m.next /\ m1.dir = m.dir /\ m1.n = m.n
        /\ m1.left = m.left /\ m1.new = m.new /\ m1.id = m.id /\ m1.path = m.path /\ m1.at = m.at
        /\ m1.fsi = m.fsi /\ m1.held = m.held /\ m1.fresh = m.fresh /\ m1.why = m.why
    BY <1>0, <1>7 DEF Fields, Go
  <2>3. ~muddled' => ~muddled /\ Single(book')
    BY <1>7 DEF Twins, Single
  <2>4. LogOK(book[i])
    BY <1>3, <1>7 DEF Logs
  <2>5. s \in Seq(Nat)
    <3> HIDE DEF i
    <3> QED BY <2>4 DEF LogOK
  <2>6. ASSUME ~muddled'
        PROVE  Shorter(s, t, m.n)
    <3>1. m.n \in {1, 2} /\ m.n < Len(s)
      BY <1>1, <1>2, <1>4, <1>7, <2>3, <2>6 DEF ChainPcs
    <3> HIDE DEF s, m
    <3> QED BY <2>5, <2>6, <2>h, <3>1, Shortened
  <2> HIDE DEF m, m1, i, bn, t, s, x
  <2>7. Stores(refs, dirs, book', prev, store) /\ Locals(m1, book') /\ m1.pc \in Plain
    BY <1>1, <1>2, <2>1, <2>2 DEF Stores, Locals, Updated, Renaming, InDir, Plain
  <2>8. AllLogged(refs, book')
    BY <1>2, <2>1 DEF AllLogged, HasLog, Holds, Updated
  <2>9. ASSUME ~muddled' PROVE Sound(book', prev) /\ AllKept(book', store)
    <3>1. \A k \in DOMAIN book : book[k].state = "live" => \A j \in DOMAIN book[k].vs :
            (k = i /\ j > Len(book[i].vs) - m.n) \/ book[k].vs[j] \in store
      BY <1>1, <1>2, <1>4, <1>7, <2>3, <2>9 DEF Kept, Missing, Cut
    <3>2. /\ Shorter(book[i].vs, t, m.n) /\ Updated(book, book', i, "live", x, t, book[i].blank)
          /\ i \in DOMAIN book /\ book[i].state = "live" /\ Sound(book, prev) /\ Single(book')
      BY <1>2, <1>3, <1>7, <2>1, <2>3, <2>6, <2>9 DEF s
    <3> QED BY <1>3, <3>1, <3>2, WithCut
  <2>10. ASSUME ~muddled' PROVE AllGood(refs, book')
    <3> SUFFICES ASSUME NEW y \in Names PROVE GoodRef(refs, book', y)
      BY DEF AllGood
    <3>1. CASE y = x
      <4>1. refs[x].path = s[Len(s) - m.n]
        BY <1>1, <1>2, <1>4, <1>7, <2>3, <2>10 DEF ChainPcs, s, x
      <4>2. Last(book', i) = s[Len(s) - m.n]
        BY <2>1, <2>6, <2>10 DEF Last, Updated, Shorter
      <4>3. \A k \in DOMAIN book' : Holds(book', k, x) => k = i
        BY <1>3, <1>7, <2>1, <2>3, <2>10 DEF Single, Holds, Updated
      <4> QED BY <3>1, <4>1, <4>2, <4>3 DEF GoodRef
    <3>2. CASE y # x
      BY <1>1, <1>2, <1>3, <1>7, <2>1, <2>3, <2>10, <3>2 DEF Good, GoodRef, Updated, Holds, Last, x
    <3> QED BY <3>1, <3>2
  <2>11. Agree(m1, refs, dirs, moved, book', prev, store, muddled')
    BY <1>2, <2>3, <2>7, <2>8, <2>9, <2>10, PlainAgrees
  <2> QED BY <1>7, <2>11 DEF Agreed, m1
<1>8. /\ refs' = refs /\ dirs' = dirs /\ moved' = moved /\ prev' = prev /\ store' = store /\ Go(c, on)
      /\ \/ i = 0 /\ book' = book /\ muddled' = muddled
         \/ i # 0 /\ DeleteItems(i, m.n)
  BY <1>1 DEF WriteVersionDelete, Nothing, BookAndRuns
<1>9. /\ m.n = All /\ DeleteItems(i, m.n) => book' = ba /\ muddled' = (muddled \/ Twins(book'))
      /\ m.n # All /\ DeleteItems(i, m.n) =>
           /\ \E h \in 0 .. m.n : Cardinality(Popped(i, m.n)) = m.n - h /\ book' = bn(h)
           /\ muddled' = (muddled \/ Twins(book') \/ Popped(i, m.n) # {})
  BY DEF DeleteItems
<1>10. (m.n = All => on = "rmLog") /\ (m.n # All => on = "rmFiles")
  OBVIOUS
<1> HIDE DEF m, i, on, ba, bn
<1> QED BY <1>5, <1>6, <1>7, <1>8, <1>9, <1>10

\* The log is no longer a live one: only the reference of the name is left.
LEMMA WriteDatasetDeleteAgrees ==
  ASSUME NEW c, Clients = {c}, World(c), faults \in Nat, faults' = 0, Agreed(c), WriteDatasetDelete(c)
  PROVE  Agreed(c)'
<1> DEFINE m == me[c]
           m1 == me'[c]
<1>0. DOMAIN me = Clients /\ DOMAIN m = Fields /\ (m.fresh => m.held = refs) /\ Refs(refs) /\ Folders(dirs)
  BY DEF World, Local
<1>1. m.pc = "rmLog" /\ ~Fault(c)
  <2>1. At(c, "rmLog")
    BY DEF WriteDatasetDelete
  <2> QED BY <2>1 DEF At, Fault
<1>2. /\ Stores(refs, dirs, book, prev, store) /\ Locals(m, book) /\ Existing(dirs)
      /\ LinkPcs(m, refs, dirs, moved, book)
      /\ LinkedUp(m, refs, dirs, moved) /\ AllLogged(refs, book)
      /\ ~muddled => /\ Sound(book, prev) /\ ChainPcs(m, refs, book, prev, store)
                     /\ Kept(m, book, store) /\ Good(m, refs, book)
  BY <1>1, Parts DEF Agreed, LoosePcs, UnloggedPcs, CutPcs, AheadPcs
<1> DEFINE x  == m.name
           i  == RefToInitID(x)
           b1 == [book EXCEPT ![i].state = "removed"]
<1>3. /\ x \in Names /\ Logs(book) /\ i \in 0 .. Len(book) /\ Len(book) \in Nat
      /\ i # 0 => i \in DOMAIN book /\ book[i].state = "live" /\ book[i].name = x
      /\ i = 0 => ~HasLog(book, x)
  BY <1>1, <1>2, LogOf, Domains DEF Stores, Locals, Holds, HasLog
<1>4. ~muddled /\ m.id # 0 => i = m.id
  BY <1>1, <1>2, <1>3 DEF ChainPcs, Sound, Single, Holds, HasLog
<1>5. /\ Go(c, "rmRef") /\ refs' = refs /\ dirs' = dirs /\ moved' = moved /\ prev' = prev /\ store' = store
      /\ \/ i = 0 /\ book' = book /\ muddled' = muddled
         \/ i # 0 /\ book' = b1 /\ muddled' = (muddled \/ Twins(book'))
  BY <1>1 DEF WriteDatasetDelete, Nothing, BookOnly
<1>6. /\ m1.pc = "rmRef" /\ m1.name = m.name /\ m1.next = m.next /\ m1.dir = m.dir /\ m1.n = m.n
        /\ m1.left = m.left /\ m1.new = m.new /\ m1.id = m.id /\ m1.path = m.path /\ m1.at = m.at
        /\ m1.fsi = m.fsi /\ m1.held = m.held /\ m1.fresh = m.fresh /\ m1.why = m.why
  BY <1>0, <1>5 DEF Fields, Go
<1>7. i # 0 => Updated(book, book', i, "removed", book[i].name, book[i].vs, book[i].blank)
  <2> HIDE DEF i
  <2> QED BY <1>3, <1>5, LogState
<1>8. ~muddled' => ~muddled
  BY <1>5
<1> HIDE DEF m, m1, i, b1, x
<1>9. Stores(refs, dirs, book', prev, store) /\ Locals(m1, book')
  BY <1>1, <1>2, <1>5, <1>6, <1>7 DEF Stores, Locals, Updated, Renaming, InDir
<1>10. LinkPcs(m1, refs, dirs, moved, book')
  BY <1>1, <1>2, <1>6 DEF LinkPcs
<1>11. LinkedUp(m1, refs, dirs, moved)
  BY <1>1, <1>2, <1>6 DEF LinkedUp, Loose, LoosePcs
<1>12. Logged(m1, refs, book')
  <2>1. CASE i = 0
    BY <1>2, <1>5, <2>1 DEF Logged, AllLogged
  <2>2. CASE i # 0
    BY <1>2, <1>3, <1>6, <1>7, <2>2 DEF Logged, AllLogged, HasLog, Holds, Updated, UnloggedPcs, x
  <2> QED BY <2>1, <2>2
<1>13. ASSUME ~muddled'
       PROVE  /\ Sound(book', prev) /\ AllKept(book', store) /\ Good(m1, refs, book')
              /\ ChainPcs(m1, refs, book', prev, store)
  <2>a. Sound(book, prev) /\ Kept(m, book, store) /\ Good(m, refs, book) /\ (m.id # 0 => i = m.id)
    BY <1>1, <1>2, <1>4, <1>8, <1>13 DEF ChainPcs
  <2>b. CASE i = 0
    <3>1. book' = book /\ m.id = 0 /\ ~HasLog(book, x)
      BY <1>3, <1>5, <2>a, <2>b
    <3>2. AllKept(book', store)
      BY <1>3, <2>a, <3>1, Domains DEF AllKept, Kept, Missing
    <3>3. Good(m1, refs, book')
      BY <1>1, <1>6, <2>a, <3>1 DEF Good, AheadPcs
    <3>4. ChainPcs(m1, refs, book', prev, store)
      BY <1>6, <3>1 DEF ChainPcs, x
    <3> QED BY <2>a, <3>1, <3>2, <3>3, <3>4
  <2>c. CASE i # 0
    <3>0. /\ Updated(book, book', i, "removed", book[i].name, book[i].vs, book[i].blank)
          /\ Sound(book, prev) /\ Kept(m, book, store) /\ Good(m, refs, book) /\ i \in DOMAIN book
          /\ book[i].state = "live" /\ book[i].name = x /\ m.id \in {0, i} /\ 0 \notin DOMAIN book
      BY <1>3, <1>7, <2>a, <2>c, Domains
    <3>1. Single(book') /\ Blanks(book')
      BY <3>0 DEF Sound, Single, Blanks, Updated
    <3>2. Distinct(book')
      BY <3>0 DEF Sound, Distinct, Updated
    <3>3. Chained(book', prev)
      BY <3>0 DEF Sound, Chained, Updated
    <3>4. AllKept(book', store)
      BY <3>0 DEF AllKept, Kept, Missing, Updated
    <3>5. Good(m1, refs, book')
      BY <1>1, <1>6, <3>0 DEF Good, GoodRef, AheadPcs, Updated, Holds, Last
    <3>6. ~HasLog(book', x)
      BY <3>0 DEF HasLog, Holds, Updated, Sound, Single
    <3>7. ChainPcs(m1, refs, book', prev, store)
      BY <1>6, <3>6 DEF ChainPcs, x
    <3> QED BY <3>1, <3>2, <3>3, <3>4, <3>5, <3>7 DEF Sound
  <2> QED BY <2>b, <2>c
<1>14. Agree(m1, refs, dirs, moved, book', prev, store, muddled')
  BY <1>2, <1>9, <1>10, <1>11, <1>12, <1>13, Together
<1> QED BY <1>5, <1>14 DEF Agreed, m1

\* It goes too.
LEMMA RemoveRefAgrees ==
  ASSUME NEW c, Clients = {c}, World(c), faults \in Nat, faults' = 0, Agreed(c), RemoveRef(c)
  PROVE  Agreed(c)'
<1> DEFINE m == me[c]
           m1 == me'[c]
<1>0. DOMAIN me = Clients /\ DOMAIN m = Fields /\ (m.fresh => m.held = refs) /\ Refs(refs) /\ Folders(dirs)
  BY DEF World, Local
<1>1. m.pc = "rmRef" /\ ~Fault(c)
  <2>1. At(c, "rmRef")
    BY DEF RemoveRef
  <2> QED BY <2>1 DEF At, Fault
<1>2. /\ Stores(refs, dirs, book, prev, store) /\ Locals(m, book) /\ Existing(dirs)
      /\ LinkPcs(m, refs, dirs, moved, book)
      /\ LinkedUp(m, refs, dirs, moved) /\ Logged(m, refs, book)
      /\ ~muddled => /\ Sound(book, prev) /\ ChainPcs(m, refs, book, prev, store)
                     /\ AllKept(book, store) /\ Good(m, refs, book)
  BY <1>1, Parts DEF Agreed, LoosePcs, UnloggedPcs, CutPcs, AheadPcs
<1>3. CASE /\ m.fresh /\ refs' = [m.held EXCEPT ![m.name] = NoRef]
           /\ me' = [me EXCEPT ![c].pc = "rmFiles", ![c].fresh = FALSE]
           /\ dirs' = dirs /\ book' = book /\ moved' = moved /\ prev' = prev /\ store' = store /\ muddled' = muddled
  <2>1. /\ m1.pc = "rmFiles" /\ m1.name = m.name /\ m1.next = m.next /\ m1.dir = m.dir /\ m1.n = m.n
        /\ m1.left = m.left /\ m1.new = m.new /\ m1.id = m.id /\ m1.path = m.path /\ m1.at = m.at
        /\ m1.fsi = m.fsi /\ m1.held = m.held /\ m1.fresh = FALSE /\ m1.why = m.why
    BY <1>0, <1>3 DEF Fields
  <2>2. m.held = refs /\ m.name \in Names
    BY <1>0, <1>1, <1>2, <1>3 DEF Locals, Renaming
  <2>3. Put(refs, refs', m.name, NoRef)
    <3> HIDE DEF m
    <3> QED BY <1>0, <1>3, <2>2, Written
  <2>4. /\ OtherLinks(refs, dirs, moved, m.name) /\ OtherLogged(refs, book, m.name)
        /\ ~muddled => OtherGood(refs, book, m.name)
    BY <1>1, Others DEF Agreed, LoosePcs, UnloggedPcs, AheadPcs
  <2> HIDE DEF m, m1
  <2>5. /\ OtherLinks(refs', dirs, moved, m.name) /\ OtherLogged(refs', book, m.name)
        /\ ~muddled => OtherGood(refs', book, m.name)
    BY <2>3, <2>4, PutLeaves
  <2>6. Stores(refs', dirs, book, prev, store) /\ Locals(m1, book)
    BY <1>1, <1>2, <1>3, <2>1, <2>2, <2>3 DEF Stores, Locals, Put, Ref, NoRef, Renaming, InDir
  <2>7. LinkPcs(m1, refs', dirs, moved, book)
    BY <1>1, <1>2, <1>3, <2>1, <2>2, <2>3 DEF LinkPcs, Put, Ref, NoRef
  <2>8. ~muddled => ChainPcs(m1, refs', book, prev, store)
    BY <1>1, <1>2, <1>3, <2>1, <2>2, <2>3 DEF ChainPcs, Put, Ref, NoRef
  <2>9. LinkOK(refs', dirs, moved, m.name)
    BY <1>1, <1>2, <1>3, <2>2, <2>3, NoneAssumption DEF LinkOK, Put, Ref, NoRef, LinkPcs, Ours, NoLink
  <2>10. refs'[m.name].stored => HasLog(book, m.name)
    BY <1>1, <1>2, <1>3, <2>1, <2>2, <2>3 DEF LinkPcs, HasLog, Holds, Put, Ref, NoRef, AllLogged, UnloggedPcs
  <2>11. ~muddled => GoodRef(refs', book, m.name)
    BY <1>1, <1>2, <1>3, <2>2, <2>3 DEF GoodRef, Put, Ref, NoRef
  <2>12. Agree(m1, refs', dirs, moved, book, prev, store, muddled)
    BY <1>2, <2>1, <2>5, <2>6, <2>7, <2>8, <2>9, <2>10, <2>11, Rejoined
  <2> QED BY <1>3, <2>12 DEF Agreed, m1
<1> QED BY <1>1, <1>3 DEF RemoveRef, PutRef, RefsOnly

\* A directory without a link file, or the files in it, may go.
LEMMA RemoveFilesAgrees ==
  ASSUME NEW c, Clients = {c}, World(c), faults \in Nat, faults' = 0, Agreed(c), RemoveFiles(c)
  PROVE  Agreed(c)'
<1> DEFINE m == me[c]
           m1 == me'[c]
<1>0. DOMAIN me = Clients /\ DOMAIN m = Fields /\ (m.fresh => m.held = refs) /\ Refs(refs) /\ Folders(dirs)
  BY DEF World, Local
<1>1. m.pc = "rmFiles" /\ ~Fault(c)
  <2>1. At(c, "rmFiles")
    BY DEF RemoveFiles
  <2> QED BY <2>1 DEF At, Fault
<1>2. /\ Stores(refs, dirs, book, prev, store) /\ Locals(m, book) /\ Existing(dirs)
      /\ LinkPcs(m, refs, dirs, moved, book)
      /\ AllLinked(refs, dirs, moved) /\ AllLogged(refs, book)
      /\ ~muddled => /\ Sound(book, prev) /\ ChainPcs(m, refs, book, prev, store)
                     /\ AllKept(book, store) /\ AllGood(refs, book)
  BY <1>1, Parts DEF Agreed, LoosePcs, UnloggedPcs, CutPcs, AheadPcs
<1> DEFINE d == IF m.n = All THEN m.fsi ELSE m.dir
<1>3. m1 = Idle /\ refs' = refs /\ book' = book /\ moved' = moved /\ prev' = prev /\ store' = store /\ muddled' = muddled
  BY <1>0 DEF RemoveFiles, DirsOnly, Nothing, Return
<1>4. SameLinks(dirs, dirs')
  <2>1. CASE dirs' = dirs
    BY <2>1 DEF SameLinks
  <2>2. CASE dirs' = [dirs EXCEPT ![d] = IF m.n # All THEN [@ EXCEPT !.files = m.at]
                                         ELSE IF @.link = NoName THEN NoDirectory
                                         ELSE [@ EXCEPT !.files = NoFiles]]
    <3> DEFINE q == IF m.n # All THEN [dirs[d] EXCEPT !.files = m.at]
                    ELSE IF dirs[d].link = NoName THEN NoDirectory
                    ELSE [dirs[d] EXCEPT !.files = NoFiles]
    <3>1. dirs' = [dirs EXCEPT ![d] = q]
      BY <2>2
    <3>2. d \in Dirs => q.link = dirs[d].link /\ (dirs[d].exists /\ dirs[d].link # NoName => q.exists)
      <4> HIDE DEF d
      <4> QED BY <1>0 DEF Folders, DirFields, NoDirectory
    <3> HIDE DEF d, q
    <3> QED BY <1>0, <3>1, <3>2 DEF SameLinks, Folders
  <2> QED BY <2>1, <2>2 DEF RemoveFiles, Nothing
<1> HIDE DEF m, m1
<1>5. Stores(refs, dirs', book, prev, store) /\ AllLinked(refs, dirs', moved) /\ Existing(dirs')
  BY <1>2, <1>4, LinksSame
<1>6. Agree(m1, refs, dirs', moved, book, prev, store, muddled)
  BY <1>2, <1>3, <1>5, IdleAgrees
<1> QED BY <1>3, <1>6 DEF Agreed, m1
-----------------------------------------------------------------------------
(* InitDataset keeps the invariant. *)

\* The name has no reference, the directory no link file.
LEMMA CheckInitAgrees ==
  ASSUME NEW c, Clients = {c}, World(c), faults \in Nat, faults' = 0, Agreed(c), CheckInit(c)
  PROVE  Agreed(c)'
<1> DEFINE m == me[c]
           m1 == me'[c]
<1>0. DOMAIN me = Clients /\ DOMAIN m = Fields /\ (m.fresh => m.held = refs) /\ Refs(refs) /\ Folders(dirs)
  BY DEF World, Local
<1>1. m.pc = "iniCheck" /\ ~Fault(c)
  <2>1. At(c, "iniCheck")
    BY DEF CheckInit
  <2> QED BY <2>1 DEF At, Fault
<1>2. /\ Stores(refs, dirs, book, prev, store) /\ Locals(m, book) /\ Existing(dirs)
      /\ LinkPcs(m, refs, dirs, moved, book)
      /\ AllLinked(refs, dirs, moved) /\ AllLogged(refs, book)
      /\ ~muddled => /\ Sound(book, prev) /\ ChainPcs(m, refs, book, prev, store)
                     /\ AllKept(book, store) /\ AllGood(refs, book)
  BY <1>1, Parts DEF Agreed, LoosePcs, UnloggedPcs, CutPcs, AheadPcs
<1> DEFINE x == m.name
           d == m.dir
<1>3. x \in Names /\ d \in Dirs /\ (refs[x].stored => RefToInitID(x) # 0)
  BY <1>1, <1>2, LogOf DEF Locals, InDir, Stores, AllLogged, HasLog, Holds
<1>4. CASE /\ CanInitDatasetWorkDir(d) /\ ~(refs[x].stored /\ RefToInitID(x) # 0)
           /\ dirs' = [dirs EXCEPT ![d].exists = TRUE] /\ Go(c, "iniLog")
           /\ refs' = refs /\ book' = book /\ moved' = moved /\ prev' = prev /\ store' = store /\ muddled' = muddled
  <2>1. /\ m1.pc = "iniLog" /\ m1.name = m.name /\ m1.next = m.next /\ m1.dir = m.dir /\ m1.n = m.n
        /\ m1.left = m.left /\ m1.new = m.new /\ m1.id = m.id /\ m1.path = m.path /\ m1.at = m.at
        /\ m1.fsi = m.fsi /\ m1.held = m.held /\ m1.fresh = m.fresh /\ m1.why = m.why
    BY <1>0, <1>4 DEF Fields, Go
  <2>2. dirs[d].link = NoName /\ ~refs[x].stored
    BY <1>3, <1>4 DEF CanInitDatasetWorkDir
  <2> HIDE DEF d
  <2>3. SameLinks(dirs, dirs') /\ dirs'[d].exists /\ dirs'[d].link = NoName
    BY <1>0, <1>3, <1>4, <2>2 DEF SameLinks, Folders, DirFields
  <2> HIDE DEF m, m1, x
  <2>4. Stores(refs, dirs', book, prev, store) /\ AllLinked(refs, dirs', moved) /\ Existing(dirs')
    BY <1>2, <2>3, LinksSame
  <2>5. Locals(m1, book)
    BY <1>1, <1>2, <2>1 DEF Locals, Renaming, InDir
  <2>6. LinkPcs(m1, refs, dirs', moved, book)
    BY <2>1, <2>2, <2>3 DEF LinkPcs, x, d
  <2>7. ~muddled => ChainPcs(m1, refs, book, prev, store)
    BY <2>1 DEF ChainPcs
  <2>8. Agree(m1, refs, dirs', moved, book, prev, store, muddled)
    BY <1>2, <2>4, <2>5, <2>6, <2>7, Together
  <2> QED BY <1>4, <2>8 DEF Agreed, m1
<1>5. CASE /\ Go(c, "rolled")
           /\ refs' = refs /\ dirs' = dirs /\ book' = book /\ moved' = moved /\ prev' = prev /\ store' = store /\ muddled' = muddled
  <2>1. /\ m1.pc = "rolled" /\ m1.name = m.name /\ m1.next = m.next /\ m1.dir = m.dir /\ m1.n = m.n
        /\ m1.left = m.left /\ m1.new = m.new /\ m1.id = m.id /\ m1.path = m.path /\ m1.at = m.at
        /\ m1.fsi = m.fsi /\ m1.held = m.held /\ m1.fresh = m.fresh /\ m1.why = m.why
    BY <1>0, <1>5 DEF Fields, Go
  <2> HIDE DEF m, m1
  <2>2. Locals(m1, book)
    BY <1>1, <1>2, <2>1 DEF Locals, Stores, Renaming, InDir
  <2>3. m1.pc \in Plain
    BY <2>1 DEF Plain
  <2>4. Agree(m1, refs, dirs, moved, book, prev, store, muddled)
    BY <1>2, <2>2, <2>3, PlainAgrees
  <2> QED BY <1>5, <2>4 DEF Agreed, m1
<1> QED BY <1>4, <1>5 DEF CheckInit, DirsOnly

\* The log that is begun is empty.
LEMMA InitLogAgrees ==
  ASSUME NEW c, Clients = {c}, World(c), faults \in Nat, faults' = 0, Agreed(c), InitLog(c)
  PROVE  Agreed(c)'
<1> DEFINE m == me[c]
           m1 == me'[c]
<1>0. DOMAIN me = Clients /\ DOMAIN m = Fields /\ (m.fresh => m.held = refs) /\ Refs(refs) /\ Folders(dirs)
  BY DEF World, Local
<1>1. m.pc = "iniLog" /\ ~Fault(c)
  <2>1. At(c, "iniLog")
    BY DEF InitLog
  <2> QED BY <2>1 DEF At, Fault
<1>2. /\ Stores(refs, dirs, book, prev, store) /\ Locals(m, book) /\ Existing(dirs)
      /\ LinkPcs(m, refs, dirs, moved, book)
      /\ AllLinked(refs, dirs, moved) /\ AllLogged(refs, book)
      /\ ~muddled => /\ Sound(book, prev) /\ ChainPcs(m, refs, book, prev, store)
                     /\ AllKept(book, store) /\ AllGood(refs, book)
  BY <1>1, Parts DEF Agreed, LoosePcs, UnloggedPcs, CutPcs, AheadPcs
<1> DEFINE x == m.name
<1>3. x \in Names /\ ~refs[x].stored /\ Len(book) \in Nat
  BY <1>1, <1>2, Domains DEF Locals, LinkPcs, Stores
<1>4. CASE /\ book' = WriteDatasetInit(x) /\ Go(c, "iniPut")
           /\ muddled' = (muddled \/ Twins(book')) /\ refs' = refs /\ dirs' = dirs /\ moved' = moved /\ prev' = prev /\ store' = store
  <2>1. /\ m1.pc = "iniPut" /\ m1.name = m.name /\ m1.next = m.next /\ m1.dir = m.dir /\ m1.n = m.n
        /\ m1.left = m.left /\ m1.new = m.new /\ m1.id = m.id /\ m1.path = m.path /\ m1.at = m.at
        /\ m1.fsi = m.fsi /\ m1.held = m.held /\ m1.fresh = m.fresh /\ m1.why = m.why
    BY <1>0, <1>4 DEF Fields, Go
  <2>2. LogAdded(book, book', x)
    BY <1>2, <1>3, <1>4, LogBegun DEF Stores
  <2>3. ~muddled' => ~muddled /\ Single(book')
    BY <1>4 DEF Twins, Single
  <2> HIDE DEF m, m1, x
  <2>4. /\ AllLogged(refs, book') /\ Holds(book', Len(book) + 1, x)
        /\ ~muddled' => Sound(book', prev) /\ AllKept(book', store) /\ AllGood(refs, book') /\ Empty(book', x)
    BY <1>2, <1>3, <2>2, <2>3, WithAdded DEF Stores
  <2>5. Stores(refs, dirs, book', prev, store) /\ Locals(m1, book')
    BY <1>1, <1>2, <1>3, <2>1, <2>2 DEF Stores, Locals, LogAdded, Renaming, InDir
  <2>h. HasLog(book', x)
    BY <2>4 DEF HasLog, Holds
  <2>6. LinkPcs(m1, refs, dirs, moved, book')
    BY <1>1, <1>2, <2>1, <2>h DEF LinkPcs, x
  <2>7. ~muddled' => ChainPcs(m1, refs, book', prev, store)
    BY <2>1, <2>4 DEF ChainPcs, x
  <2>8. Agree(m1, refs, dirs, moved, book', prev, store, muddled')
    BY <1>2, <2>3, <2>4, <2>5, <2>6, <2>7, Together
  <2> QED BY <1>4, <2>8 DEF Agreed, m1
<1>5. CASE /\ me' = [me EXCEPT ![c].pc = "rollback", ![c].why = "log"]
           /\ refs' = refs /\ dirs' = dirs /\ book' = book /\ moved' = moved /\ prev' = prev /\ store' = store /\ muddled' = muddled
  <2>1. /\ m1.pc = "rollback" /\ m1.name = m.name /\ m1.next = m.next /\ m1.dir = m.dir /\ m1.n = m.n
        /\ m1.left = m.left /\ m1.new = m.new /\ m1.id = m.id /\ m1.path = m.path /\ m1.at = m.at
        /\ m1.fsi = m.fsi /\ m1.held = m.held /\ m1.fresh = m.fresh /\ m1.why = "log"
    BY <1>0, <1>5 DEF Fields, Go
  <2> HIDE DEF m, m1
  <2>2. Locals(m1, book)
    BY <1>1, <1>2, <2>1 DEF Locals, Stores, Renaming, InDir
  <2>3. LinkPcs(m1, refs, dirs, moved, book)
    BY <1>1, <1>2, <1>5, <2>1 DEF LinkPcs
  <2>4. ~muddled => ChainPcs(m1, refs, book, prev, store)
    BY <1>1, <1>2, <1>5, <2>1 DEF ChainPcs
  <2>5. Agree(m1, refs, dirs, moved, book, prev, store, muddled)
    BY <1>2, <2>2, <2>3, <2>4, Together
  <2> QED BY <1>5, <2>5 DEF Agreed, m1
<1> QED BY <1>1, <1>4, <1>5 DEF InitLog, RollBack, BookOnly, Nothing

\* The reference has no version, like the log.
LEMMA InitRefAgrees ==
  ASSUME NEW c, Clients = {c}, World(c), faults \in Nat, faults' = 0, Agreed(c), InitRef(c)
  PROVE  Agreed(c)'
<1> DEFINE m == me[c]
           m1 == me'[c]
<1>0. DOMAIN me = Clients /\ DOMAIN m = Fields /\ (m.fresh => m.held = refs) /\ Refs(refs) /\ Folders(dirs)
  BY DEF World, Local
<1>1. m.pc = "iniPut" /\ ~Fault(c)
  <2>1. At(c, "iniPut")
    BY DEF InitRef
  <2> QED BY <2>1 DEF At, Fault
<1>2. /\ Stores(refs, dirs, book, prev, store) /\ Locals(m, book) /\ Existing(dirs)
      /\ LinkPcs(m, refs, dirs, moved, book)
      /\ AllLinked(refs, dirs, moved) /\ AllLogged(refs, book)
      /\ ~muddled => /\ Sound(book, prev) /\ ChainPcs(m, refs, book, prev, store)
                     /\ AllKept(book, store) /\ AllGood(refs, book)
  BY <1>1, Parts DEF Agreed, LoosePcs, UnloggedPcs, CutPcs, AheadPcs
<1>3. CASE /\ m.fresh /\ refs' = [m.held EXCEPT ![m.name] = Ref(0, m.dir)]
           /\ me' = [me EXCEPT ![c].pc = "iniLink", ![c].fresh = FALSE]
           /\ dirs' = dirs /\ book' = book /\ moved' = moved /\ prev' = prev /\ store' = store /\ muddled' = muddled
  <2>1. /\ m1.pc = "iniLink" /\ m1.name = m.name /\ m1.next = m.next /\ m1.dir = m.dir /\ m1.n = m.n
        /\ m1.left = m.left /\ m1.new = m.new /\ m1.id = m.id /\ m1.path = m.path /\ m1.at = m.at
        /\ m1.fsi = m.fsi /\ m1.held = m.held /\ m1.fresh = FALSE /\ m1.why = m.why
    BY <1>0, <1>3 DEF Fields
  <2>2. m.held = refs /\ m.name \in Names
    BY <1>0, <1>1, <1>2, <1>3 DEF Locals, Renaming
  <2>3. Put(refs, refs', m.name, Ref(0, m.dir))
    <3> HIDE DEF m
    <3> QED BY <1>0, <1>3, <2>2, Written
  <2>4. /\ OtherLinks(refs, dirs, moved, m.name) /\ OtherLogged(refs, book, m.name)
        /\ ~muddled => OtherGood(refs, book, m.name)
    BY <1>1, Others DEF Agreed, LoosePcs, UnloggedPcs, AheadPcs
  <2> HIDE DEF m, m1
  <2>5. /\ OtherLinks(refs', dirs, moved, m.name) /\ OtherLogged(refs', book, m.name)
        /\ ~muddled => OtherGood(refs', book, m.name)
    BY <2>3, <2>4, PutLeaves
  <2>a. NoLink(dirs, moved, m.name)
    BY <1>1, <1>2, <2>2 DEF AllLinked, LinkOK, NoLink, LinkPcs
  <2>6. Stores(refs', dirs, book, prev, store) /\ Locals(m1, book)
    BY <1>1, <1>2, <1>3, <2>1, <2>2, <2>3 DEF Stores, Locals, Put, Ref, NoRef, Renaming, InDir
  <2>7. LinkPcs(m1, refs', dirs, moved, book)
    BY <1>1, <1>2, <1>3, <2>1, <2>2, <2>3, <2>a DEF LinkPcs, Put, Ref, NoRef
  <2>8. ~muddled => ChainPcs(m1, refs', book, prev, store)
    BY <1>1, <1>2, <1>3, <2>1, <2>2, <2>3 DEF ChainPcs, Put, Ref, NoRef
  <2>9. m1.pc \in LoosePcs
    BY <2>1 DEF LoosePcs
  <2>10. refs'[m.name].stored => HasLog(book, m.name)
    BY <1>1, <1>2, <1>3, <2>1, <2>2, <2>3 DEF LinkPcs, HasLog, Holds, Put, Ref, NoRef, AllLogged, UnloggedPcs
  <2>11. ~muddled => GoodRef(refs', book, m.name)
    BY <1>1, <1>2, <1>3, <2>2, <2>3 DEF GoodRef, Put, Ref, NoRef, ChainPcs, Empty, Last, Holds
  <2>12. Agree(m1, refs', dirs, moved, book, prev, store, muddled)
    BY <1>2, <2>1, <2>5, <2>6, <2>7, <2>8, <2>9, <2>10, <2>11, Rejoined
  <2> QED BY <1>3, <2>12 DEF Agreed, m1
<1>4. CASE /\ me' = [me EXCEPT ![c].pc = "rollback", ![c].why = "ref"]
           /\ refs' = refs /\ dirs' = dirs /\ book' = book /\ moved' = moved /\ prev' = prev /\ store' = store /\ muddled' = muddled
  <2>1. /\ m1.pc = "rollback" /\ m1.name = m.name /\ m1.next = m.next /\ m1.dir = m.dir /\ m1.n = m.n
        /\ m1.left = m.left /\ m1.new = m.new /\ m1.id = m.id /\ m1.path = m.path /\ m1.at = m.at
        /\ m1.fsi = m.fsi /\ m1.held = m.held /\ m1.fresh = m.fresh /\ m1.why = "ref"
    BY <1>0, <1>4 DEF Fields, Go
  <2> HIDE DEF m, m1
  <2>2. Locals(m1, book)
    BY <1>1, <1>2, <2>1 DEF Locals, Stores, Renaming, InDir
  <2>3. LinkPcs(m1, refs, dirs, moved, book)
    BY <1>1, <1>2, <1>4, <2>1 DEF LinkPcs
  <2>4. ~muddled => ChainPcs(m1, refs, book, prev, store)
    BY <1>1, <1>2, <1>4, <2>1 DEF ChainPcs
  <2>5. Agree(m1, refs, dirs, moved, book, prev, store, muddled)
    BY <1>2, <2>2, <2>3, <2>4, Together
  <2> QED BY <1>4, <2>5 DEF Agreed, m1
<1> QED BY <1>1, <1>3, <1>4 DEF InitRef, PutRef, RollBack, RefsOnly, Nothing

\* The link file names the dataset whose reference has the directory.
LEMMA InitLinkAgrees ==
  ASSUME NEW c, Clients = {c}, World(c), faults \in Nat, faults' = 0, Agreed(c), InitLink(c)
  PROVE  Agreed(c)'
<1> DEFINE m == me[c]
           m1 == me'[c]
<1>0. DOMAIN me = Clients /\ DOMAIN m = Fields /\ (m.fresh => m.held = refs) /\ Refs(refs) /\ Folders(dirs)
  BY DEF World, Local
<1>1. m.pc = "iniLink" /\ ~Fault(c)
  <2>1. At(c, "iniLink")
    BY DEF InitLink
  <2> QED BY <2>1 DEF At, Fault
<1>2. /\ Stores(refs, dirs, book, prev, store) /\ Locals(m, book) /\ Existing(dirs)
      /\ LinkPcs(m, refs, dirs, moved, book)
      /\ LinkedUp(m, refs, dirs, moved) /\ AllLogged(refs, book)
      /\ ~muddled => /\ Sound(book, prev) /\ ChainPcs(m, refs, book, prev, store)
                     /\ AllKept(book, store) /\ AllGood(refs, book)
  BY <1>1, Parts DEF Agreed, LoosePcs, UnloggedPcs, CutPcs, AheadPcs
<1> DEFINE x == m.name
           d == m.dir
<1>3. /\ x \in Names /\ d \in Dirs /\ refs[x].stored /\ refs[x].fsi = d /\ NoLink(dirs, moved, x)
      /\ dirs[d].exists /\ dirs[d].link = NoName /\ NoName \notin Names
  BY <1>1, <1>2, NoneAssumption DEF Locals, InDir, LinkPcs
<1>4. /\ dirs' = [dirs EXCEPT ![d].link = x] /\ Go(c, "iniFiles")
      /\ refs' = refs /\ book' = book /\ moved' = moved /\ prev' = prev /\ store' = store /\ muddled' = muddled
  BY <1>1 DEF InitLink, DirsOnly
<1>5. /\ m1.pc = "iniFiles" /\ m1.name = m.name /\ m1.next = m.next /\ m1.dir = m.dir /\ m1.n = m.n
        /\ m1.left = m.left /\ m1.new = m.new /\ m1.id = m.id /\ m1.path = m.path /\ m1.at = m.at
        /\ m1.fsi = m.fsi /\ m1.held = m.held /\ m1.fresh = m.fresh /\ m1.why = m.why
  BY <1>0, <1>4 DEF Fields, Go
<1> HIDE DEF m, m1, x, d
<1>6. \A e \in Dirs : /\ dirs'[e].exists = dirs[e].exists
                      /\ dirs'[e].link = IF e = d THEN x ELSE dirs[e].link
  BY <1>0, <1>4 DEF Folders, DirFields
<1>7. Stores(refs, dirs', book, prev, store) /\ Existing(dirs') /\ Locals(m1, book) /\ m1.pc \in Plain
  BY <1>1, <1>2, <1>3, <1>5, <1>6 DEF Stores, Existing, Locals, Renaming, InDir, Plain
<1>8. AllLinked(refs, dirs', moved)
  <2> SUFFICES ASSUME NEW y \in Names, NEW e \in Dirs \ moved
               PROVE  (refs[y].stored /\ refs[y].fsi = e) <=> dirs'[e].link = y
    BY DEF AllLinked, LinkOK
  <2>1. CASE y = x
    BY <1>3, <1>6, <2>1 DEF NoLink
  <2>2. CASE y # x
    <3>1. (refs[y].stored /\ refs[y].fsi = e) <=> dirs[e].link = y
      BY <1>1, <1>2, <2>2 DEF LinkedUp, Loose, LinkOK, x
    <3> QED BY <1>3, <1>6, <2>2, <3>1
  <2> QED BY <2>1, <2>2
<1>9. Agree(m1, refs, dirs', moved, book, prev, store, muddled)
  BY <1>2, <1>7, <1>8, PlainAgrees
<1> QED BY <1>4, <1>9 DEF Agreed, m1

\* Writing the first component files changes no link.
LEMMA InitFilesAgrees ==
  ASSUME NEW c, Clients = {c}, World(c), faults \in Nat, faults' = 0, Agreed(c), InitFiles(c)
  PROVE  Agreed(c)'
<1> DEFINE m == me[c]
           m1 == me'[c]
<1>0. DOMAIN me = Clients /\ DOMAIN m = Fields /\ (m.fresh => m.held = refs) /\ Refs(refs) /\ Folders(dirs)
  BY DEF World, Local
<1>1. m.pc = "iniFiles" /\ ~Fault(c)
  <2>1. At(c, "iniFiles")
    BY DEF InitFiles
  <2> QED BY <2>1 DEF At, Fault
<1>2. /\ Stores(refs, dirs, book, prev, store) /\ Locals(m, book) /\ Existing(dirs)
      /\ LinkPcs(m, refs, dirs, moved, book)
      /\ AllLinked(refs, dirs, moved) /\ AllLogged(refs, book)
      /\ ~muddled => /\ Sound(book, prev) /\ ChainPcs(m, refs, book, prev, store)
                     /\ AllKept(book, store) /\ AllGood(refs, book)
  BY <1>1, Parts DEF Agreed, LoosePcs, UnloggedPcs, CutPcs, AheadPcs
<1>3. m1 = Idle /\ refs' = refs /\ book' = book /\ moved' = moved /\ prev' = prev /\ store' = store /\ muddled' = muddled /\ dirs' = [dirs EXCEPT ![m.dir].files = Edited]
  BY <1>0, <1>1 DEF InitFiles, DirsOnly, Return
<1>4. SameLinks(dirs, dirs')
  BY <1>0, <1>3 DEF SameLinks, Folders, DirFields
<1> HIDE DEF m, m1
<1>5. Stores(refs, dirs', book, prev, store) /\ AllLinked(refs, dirs', moved) /\ Existing(dirs')
  BY <1>2, <1>4, LinksSame
<1>6. Agree(m1, refs, dirs', moved, book, prev, store, muddled)
  BY <1>2, <1>3, <1>5, IdleAgrees
<1> QED BY <1>3, <1>6 DEF Agreed, m1

\* What is taken back is an empty log without a reference, and a directory without a link.
LEMMA RollbackInitAgrees ==
  ASSUME NEW c, Clients = {c}, World(c), faults \in Nat, faults' = 0, Agreed(c), RollbackInit(c)
  PROVE  Agreed(c)'
<1> DEFINE m == me[c]
           m1 == me'[c]
<1>0. DOMAIN me = Clients /\ DOMAIN m = Fields /\ (m.fresh => m.held = refs) /\ Refs(refs) /\ Folders(dirs)
  BY DEF World, Local
<1>1. m.pc = "rollback" /\ ~Fault(c)
  <2>1. At(c, "rollback")
    BY DEF RollbackInit
  <2> QED BY <2>1 DEF At, Fault
<1>2. /\ Stores(refs, dirs, book, prev, store) /\ Locals(m, book) /\ Existing(dirs)
      /\ LinkPcs(m, refs, dirs, moved, book)
      /\ AllLinked(refs, dirs, moved) /\ AllLogged(refs, book)
      /\ ~muddled => /\ Sound(book, prev) /\ ChainPcs(m, refs, book, prev, store)
                     /\ AllKept(book, store) /\ AllGood(refs, book)
  BY <1>1, Parts DEF Agreed, LoosePcs, UnloggedPcs, CutPcs, AheadPcs
<1> DEFINE x == m.name
           d == m.dir
<1>3. x \in Names /\ d \in Dirs /\ ~refs[x].stored /\ dirs[d].link = NoName /\ m.why \in {"log", "ref"}
  BY <1>1, <1>2 DEF Locals, InDir, LinkPcs
<1>4. /\ refs' = refs /\ moved' = moved /\ prev' = prev /\ store' = store /\ muddled' = muddled /\ Go(c, "rolled")
      /\ book' = book \/ book' = RemoveLog(book, x)
      /\ dirs' = dirs \/ dirs' = [dirs EXCEPT ![d] = NoDirectory]
  BY <1>3 DEF RollbackInit
<1>5. /\ m1.pc = "rolled" /\ m1.name = m.name /\ m1.next = m.next /\ m1.dir = m.dir /\ m1.n = m.n
        /\ m1.left = m.left /\ m1.new = m.new /\ m1.id = m.id /\ m1.path = m.path /\ m1.at = m.at
        /\ m1.fsi = m.fsi /\ m1.held = m.held /\ m1.fresh = m.fresh /\ m1.why = m.why
  BY <1>0, <1>4 DEF Fields, Go
<1>6. Fewer(book, book', x)
  <2>1. Logs(book) /\ Fewer(book, book, x)
    BY <1>2 DEF Fewer, Stores
  <2> QED BY <1>4, <2>1, LogRemoved
<1> HIDE DEF m, m1, x, d
<1>7. SameLinks(dirs, dirs')
  BY <1>0, <1>3, <1>4 DEF SameLinks, Folders, NoDirectory
<1>8. Stores(refs, dirs', book, prev, store) /\ AllLinked(refs, dirs', moved) /\ Existing(dirs')
  BY <1>2, <1>7, LinksSame
<1>9. /\ AllLogged(refs, book')
      /\ ~muddled => Sound(book', prev) /\ AllKept(book', store) /\ AllGood(refs, book')
  BY <1>2, <1>3, <1>6, WithFewer DEF Stores
<1>10. Stores(refs, dirs', book', prev, store) /\ Locals(m1, book') /\ m1.pc \in Plain
  BY <1>1, <1>2, <1>5, <1>6, <1>8 DEF Stores, Fewer, Locals, Renaming, InDir, Plain
<1>11. Agree(m1, refs, dirs', moved, book', prev, store, muddled)
  BY <1>8, <1>9, <1>10, PlainAgrees
<1> QED BY <1>4, <1>11 DEF Agreed, m1

\* Nothing is left to undo.
LEMMA InitFailedAgrees ==
  ASSUME NEW c, Clients = {c}, World(c), faults \in Nat, faults' = 0, Agreed(c), InitFailed(c)
  PROVE  Agreed(c)'
<1> DEFINE m == me[c]
           m1 == me'[c]
<1>0. DOMAIN me = Clients /\ DOMAIN m = Fields /\ (m.fresh => m.held = refs) /\ Refs(refs) /\ Folders(dirs)
  BY DEF World, Local
<1>1. m.pc = "rolled" /\ ~Fault(c)
  <2>1. At(c, "rolled")
    BY DEF InitFailed
  <2> QED BY <2>1 DEF At, Fault
<1>2. /\ Stores(refs, dirs, book, prev, store) /\ Locals(m, book) /\ Existing(dirs)
      /\ LinkPcs(m, refs, dirs, moved, book)
      /\ AllLinked(refs, dirs, moved) /\ AllLogged(refs, book)
      /\ ~muddled => /\ Sound(book, prev) /\ ChainPcs(m, refs, book, prev, store)
                     /\ AllKept(book, store) /\ AllGood(refs, book)
  BY <1>1, Parts DEF Agreed, LoosePcs, UnloggedPcs, CutPcs, AheadPcs
<1>3. CASE Return(c) /\ refs' = refs /\ dirs' = dirs /\ book' = book /\ moved' = moved /\ prev' = prev /\ store' = store /\ muddled' = muddled
  <2>1. m1 = Idle
    BY <1>0, <1>3 DEF Return
  <2> QED BY <1>2, <1>3, <2>1, IdleAgrees DEF Agreed
<1> QED BY <1>3 DEF InitFailed, Nothing
-----------------------------------------------------------------------------
(* Checkout, Unlink and EnsureRef keep the invariant. *)

\* The directory is a new one, and no other has a link file with the name.
LEMMA CheckCheckoutAgrees ==
  ASSUME NEW c, Clients = {c}, World(c), faults \in Nat, faults' = 0, Agreed(c), CheckCheckout(c)
  PROVE  Agreed(c)'
<1> DEFINE m == me[c]
           m1 == me'[c]
<1>0. DOMAIN me = Clients /\ DOMAIN m = Fields /\ (m.fresh => m.held = refs) /\ Refs(refs) /\ Folders(dirs)
  BY DEF World, Local
<1>1. m.pc = "outCheck" /\ ~Fault(c)
  <2>1. At(c, "outCheck")
    BY DEF CheckCheckout
  <2> QED BY <2>1 DEF At, Fault
<1>2. /\ Stores(refs, dirs, book, prev, store) /\ Locals(m, book) /\ Existing(dirs)
      /\ LinkPcs(m, refs, dirs, moved, book)
      /\ AllLinked(refs, dirs, moved) /\ AllLogged(refs, book)
      /\ ~muddled => /\ Sound(book, prev) /\ ChainPcs(m, refs, book, prev, store)
                     /\ AllKept(book, store) /\ AllGood(refs, book)
  BY <1>1, Parts DEF Agreed, LoosePcs, UnloggedPcs, CutPcs, AheadPcs
<1> DEFINE x == m.name
           d == m.dir
<1>3. x \in Names /\ d \in Dirs /\ NoName \notin Names /\ NoDir \notin Dirs
  BY <1>1, <1>2, NoneAssumption DEF Locals, InDir
<1>4. CASE /\ ~dirs[d].exists /\ EnsureRefNotLinked(x)
           /\ dirs' = [dirs EXCEPT ![d].exists = TRUE]
           /\ me' = [me EXCEPT ![c].pc = "outPut", ![c].at = refs[x].path]
           /\ refs' = refs /\ book' = book /\ moved' = moved /\ prev' = prev /\ store' = store /\ muddled' = muddled
  <2>1. /\ m1.pc = "outPut" /\ m1.name = m.name /\ m1.next = m.next /\ m1.dir = m.dir /\ m1.n = m.n
        /\ m1.left = m.left /\ m1.new = m.new /\ m1.id = m.id /\ m1.path = m.path /\ m1.at = refs[x].path
        /\ m1.fsi = m.fsi /\ m1.held = m.held /\ m1.fresh = m.fresh /\ m1.why = m.why
    BY <1>0, <1>4 DEF Fields
  <2>2. dirs[d].link = NoName
    BY <1>2, <1>3, <1>4 DEF Existing
  <2> HIDE DEF d, x
  <2>3. SameLinks(dirs, dirs') /\ dirs'[d].exists /\ dirs'[d].link = NoName
    BY <1>0, <1>3, <1>4, <2>2 DEF SameLinks, Folders, DirFields
  <2>n. NoLink(dirs, moved, x)
    BY <1>2, <1>3, <1>4 DEF AllLinked, LinkOK, NoLink, EnsureRefNotLinked
  <2> HIDE DEF m, m1
  <2>4. Stores(refs, dirs', book, prev, store) /\ AllLinked(refs, dirs', moved) /\ Existing(dirs')
    BY <1>2, <2>3, LinksSame
  <2>5. Locals(m1, book)
    BY <1>1, <1>2, <1>3, <2>1 DEF Locals, Stores, Renaming, InDir
  <2>o. NoLink(dirs', moved, x)
    BY <2>3, <2>n DEF NoLink, SameLinks
  <2>6. LinkPcs(m1, refs, dirs', moved, book)
    BY <2>1, <2>o, <2>3 DEF LinkPcs, x, d
  <2>7. ~muddled => ChainPcs(m1, refs, book, prev, store)
    BY <2>1 DEF ChainPcs
  <2>8. Agree(m1, refs, dirs', moved, book, prev, store, muddled)
    BY <1>2, <2>4, <2>5, <2>6, <2>7, Together
  <2> QED BY <1>4, <2>8 DEF Agreed, m1
<1>5. CASE Return(c) /\ refs' = refs /\ dirs' = dirs /\ book' = book /\ moved' = moved /\ prev' = prev /\ store' = store /\ muddled' = muddled
  <2>1. m1 = Idle
    BY <1>0, <1>5 DEF Return
  <2> QED BY <1>2, <1>5, <2>1, IdleAgrees DEF Agreed
<1> QED BY <1>4, <1>5 DEF CheckCheckout, DirsOnly

\* The reference gets the directory before the link file is there.
LEMMA CheckoutRefAgrees ==
  ASSUME NEW c, Clients = {c}, World(c), faults \in Nat, faults' = 0, Agreed(c), CheckoutRef(c)
  PROVE  Agreed(c)'
<1> DEFINE m == me[c]
           m1 == me'[c]
<1>0. DOMAIN me = Clients /\ DOMAIN m = Fields /\ (m.fresh => m.held = refs) /\ Refs(refs) /\ Folders(dirs)
  BY DEF World, Local
<1>1. m.pc = "outPut" /\ ~Fault(c)
  <2>1. At(c, "outPut")
    BY DEF CheckoutRef
  <2> QED BY <2>1 DEF At, Fault
<1>2. /\ Stores(refs, dirs, book, prev, store) /\ Locals(m, book) /\ Existing(dirs)
      /\ LinkPcs(m, refs, dirs, moved, book)
      /\ AllLinked(refs, dirs, moved) /\ AllLogged(refs, book)
      /\ ~muddled => /\ Sound(book, prev) /\ ChainPcs(m, refs, book, prev, store)
                     /\ AllKept(book, store) /\ AllGood(refs, book)
  BY <1>1, Parts DEF Agreed, LoosePcs, UnloggedPcs, CutPcs, AheadPcs
<1>3. CASE Return(c) /\ refs' = refs /\ dirs' = dirs /\ book' = book /\ moved' = moved /\ prev' = prev /\ store' = store /\ muddled' = muddled
  <2>1. m1 = Idle
    BY <1>0, <1>3 DEF Return
  <2> QED BY <1>2, <1>3, <2>1, IdleAgrees DEF Agreed
<1>4. CASE /\ m.held[m.name].stored
           /\ m.fresh /\ refs' = [m.held EXCEPT ![m.name] = Ref(m.held[m.name].path, m.dir)]
           /\ me' = [me EXCEPT ![c].pc = "outLink", ![c].fresh = FALSE]
           /\ dirs' = dirs /\ book' = book /\ moved' = moved /\ prev' = prev /\ store' = store /\ muddled' = muddled
  <2>1. /\ m1.pc = "outLink" /\ m1.name = m.name /\ m1.next = m.next /\ m1.dir = m.dir /\ m1.n = m.n
        /\ m1.left = m.left /\ m1.new = m.new /\ m1.id = m.id /\ m1.path = m.path /\ m1.at = m.at
        /\ m1.fsi = m.fsi /\ m1.held = m.held /\ m1.fresh = FALSE /\ m1.why = m.why
    BY <1>0, <1>4 DEF Fields
  <2>2. m.held = refs /\ m.name \in Names
    BY <1>0, <1>1, <1>2, <1>4 DEF Locals, Renaming
  <2>3. Put(refs, refs', m.name, Ref(m.held[m.name].path, m.dir))
    <3> HIDE DEF m
    <3> QED BY <1>0, <1>4, <2>2, Written
  <2>4. /\ OtherLinks(refs, dirs, moved, m.name) /\ OtherLogged(refs, book, m.name)
        /\ ~muddled => OtherGood(refs, book, m.name)
    BY <1>1, Others DEF Agreed, LoosePcs, UnloggedPcs, AheadPcs
  <2> HIDE DEF m, m1
  <2>5. /\ OtherLinks(refs', dirs, moved, m.name) /\ OtherLogged(refs', book, m.name)
        /\ ~muddled => OtherGood(refs', book, m.name)
    BY <2>3, <2>4, PutLeaves
  <2>6. Stores(refs', dirs, book, prev, store) /\ Locals(m1, book)
    BY <1>1, <1>2, <1>4, <2>1, <2>2, <2>3 DEF Stores, Locals, Put, Ref, NoRef, Renaming, InDir
  <2>7. LinkPcs(m1, refs', dirs, moved, book)
    BY <1>1, <1>2, <1>4, <2>1, <2>2, <2>3 DEF LinkPcs, Put, Ref, NoRef
  <2>8. ~muddled => ChainPcs(m1, refs', book, prev, store)
    BY <1>1, <1>2, <1>4, <2>1, <2>2, <2>3 DEF ChainPcs, Put, Ref, NoRef
  <2>9. m1.pc \in LoosePcs
    BY <2>1 DEF LoosePcs
  <2>10. refs'[m.name].stored => HasLog(book, m.name)
    BY <1>1, <1>2, <1>4, <2>1, <2>2, <2>3 DEF LinkPcs, HasLog, Holds, Put, Ref, NoRef, AllLogged, UnloggedPcs
  <2>11. ~muddled => GoodRef(refs', book, m.name)
    BY <1>1, <1>2, <1>4, <2>2, <2>3 DEF GoodRef, Put, Ref, NoRef, AllGood
  <2>12. Agree(m1, refs', dirs, moved, book, prev, store, muddled)
    BY <1>2, <2>1, <2>5, <2>6, <2>7, <2>8, <2>9, <2>10, <2>11, Rejoined
  <2> QED BY <1>4, <2>12 DEF Agreed, m1
<1> QED BY <1>1, <1>3, <1>4 DEF CheckoutRef, PutRef, RefsOnly, Nothing

\* Now it is.
LEMMA CheckoutLinkAgrees ==
  ASSUME NEW c, Clients = {c}, World(c), faults \in Nat, faults' = 0, Agreed(c), CheckoutLink(c)
  PROVE  Agreed(c)'
<1> DEFINE m == me[c]
           m1 == me'[c]
<1>0. DOMAIN me = Clients /\ DOMAIN m = Fields /\ (m.fresh => m.held = refs) /\ Refs(refs) /\ Folders(dirs)
  BY DEF World, Local
<1>1. m.pc = "outLink" /\ ~Fault(c)
  <2>1. At(c, "outLink")
    BY DEF CheckoutLink
  <2> QED BY <2>1 DEF At, Fault
<1>2. /\ Stores(refs, dirs, book, prev, store) /\ Locals(m, book) /\ Existing(dirs)
      /\ LinkPcs(m, refs, dirs, moved, book)
      /\ LinkedUp(m, refs, dirs, moved) /\ AllLogged(refs, book)
      /\ ~muddled => /\ Sound(book, prev) /\ ChainPcs(m, refs, book, prev, store)
                     /\ AllKept(book, store) /\ AllGood(refs, book)
  BY <1>1, Parts DEF Agreed, LoosePcs, UnloggedPcs, CutPcs, AheadPcs
<1> DEFINE x == m.name
           d == m.dir
<1>3. /\ x \in Names /\ d \in Dirs /\ refs[x].stored /\ refs[x].fsi = d /\ NoLink(dirs, moved, x)
      /\ dirs[d].exists /\ dirs[d].link = NoName /\ NoName \notin Names
  BY <1>1, <1>2, NoneAssumption DEF Locals, InDir, LinkPcs
<1>4. /\ dirs' = [dirs EXCEPT ![d].link = x] /\ Go(c, "outFiles")
      /\ refs' = refs /\ book' = book /\ moved' = moved /\ prev' = prev /\ store' = store /\ muddled' = muddled
  BY <1>1 DEF CheckoutLink, DirsOnly
<1>5. /\ m1.pc = "outFiles" /\ m1.name = m.name /\ m1.next = m.next /\ m1.dir = m.dir /\ m1.n = m.n
        /\ m1.left = m.left /\ m1.new = m.new /\ m1.id = m.id /\ m1.path = m.path /\ m1.at = m.at
        /\ m1.fsi = m.fsi /\ m1.held = m.held /\ m1.fresh = m.fresh /\ m1.why = m.why
  BY <1>0, <1>4 DEF Fields, Go
<1> HIDE DEF m, m1, x, d
<1>6. \A e \in Dirs : /\ dirs'[e].exists = dirs[e].exists
                      /\ dirs'[e].link = IF e = d THEN x ELSE dirs[e].link
  BY <1>0, <1>4 DEF Folders, DirFields
<1>7. Stores(refs, dirs', book, prev, store) /\ Existing(dirs') /\ Locals(m1, book) /\ m1.pc \in Plain
  BY <1>1, <1>2, <1>3, <1>5, <1>6 DEF Stores, Existing, Locals, Renaming, InDir, Plain
<1>8. AllLinked(refs, dirs', moved)
  <2> SUFFICES ASSUME NEW y \in Names, NEW e \in Dirs \ moved
               PROVE  (refs[y].stored /\ refs[y].fsi = e) <=> dirs'[e].link = y
    BY DEF AllLinked, LinkOK
  <2>1. CASE y = x
    BY <1>3, <1>6, <2>1 DEF NoLink
  <2>2. CASE y # x
    <3>1. (refs[y].stored /\ refs[y].fsi = e) <=> dirs[e].link = y
      BY <1>1, <1>2, <2>2 DEF LinkedUp, Loose, LinkOK, x
    <3> QED BY <1>3, <1>6, <2>2, <3>1
  <2> QED BY <2>1, <2>2
<1>9. Agree(m1, refs, dirs', moved, book, prev, store, muddled)
  BY <1>2, <1>7, <1>8, PlainAgrees
<1> QED BY <1>4, <1>9 DEF Agreed, m1

\* Writing the files of the version changes no link.
LEMMA CheckoutFilesAgrees ==
  ASSUME NEW c, Clients = {c}, World(c), faults \in Nat, faults' = 0, Agreed(c), CheckoutFiles(c)
  PROVE  Agreed(c)'
<1> DEFINE m == me[c]
           m1 == me'[c]
<1>0. DOMAIN me = Clients /\ DOMAIN m = Fields /\ (m.fresh => m.held = refs) /\ Refs(refs) /\ Folders(dirs)
  BY DEF World, Local
<1>1. m.pc = "outFiles" /\ ~Fault(c)
  <2>1. At(c, "outFiles")
    BY DEF CheckoutFiles
  <2> QED BY <2>1 DEF At, Fault
<1>2. /\ Stores(refs, dirs, book, prev, store) /\ Locals(m, book) /\ Existing(dirs)
      /\ LinkPcs(m, refs, dirs, moved, book)
      /\ AllLinked(refs, dirs, moved) /\ AllLogged(refs, book)
      /\ ~muddled => /\ Sound(book, prev) /\ ChainPcs(m, refs, book, prev, store)
                     /\ AllKept(book, store) /\ AllGood(refs, book)
  BY <1>1, Parts DEF Agreed, LoosePcs, UnloggedPcs, CutPcs, AheadPcs
<1>3. m1 = Idle /\ refs' = refs /\ book' = book /\ moved' = moved /\ prev' = prev /\ store' = store /\ muddled' = muddled /\ dirs' = [dirs EXCEPT ![m.dir].files = m.at]
  BY <1>0, <1>1 DEF CheckoutFiles, DirsOnly, Return
<1>4. SameLinks(dirs, dirs')
  BY <1>0, <1>3 DEF SameLinks, Folders, DirFields
<1> HIDE DEF m, m1
<1>5. Stores(refs, dirs', book, prev, store) /\ AllLinked(refs, dirs', moved) /\ Existing(dirs')
  BY <1>2, <1>4, LinksSame
<1>6. Agree(m1, refs, dirs', moved, book, prev, store, muddled)
  BY <1>2, <1>3, <1>5, IdleAgrees
<1> QED BY <1>3, <1>6 DEF Agreed, m1

\* The link file that goes is the one that names the dataset.
LEMMA UnlinkFileAgrees ==
  ASSUME NEW c, Clients = {c}, World(c), faults \in Nat, faults' = 0, Agreed(c), UnlinkFile(c)
  PROVE  Agreed(c)'
<1> DEFINE m == me[c]
           m1 == me'[c]
<1>0. DOMAIN me = Clients /\ DOMAIN m = Fields /\ (m.fresh => m.held = refs) /\ Refs(refs) /\ Folders(dirs)
  BY DEF World, Local
<1>1. m.pc = "unlinkFile" /\ ~Fault(c)
  <2>1. At(c, "unlinkFile")
    BY DEF UnlinkFile
  <2> QED BY <2>1 DEF At, Fault
<1>2. /\ Stores(refs, dirs, book, prev, store) /\ Locals(m, book) /\ Existing(dirs)
      /\ LinkPcs(m, refs, dirs, moved, book)
      /\ AllLinked(refs, dirs, moved) /\ AllLogged(refs, book)
      /\ ~muddled => /\ Sound(book, prev) /\ ChainPcs(m, refs, book, prev, store)
                     /\ AllKept(book, store) /\ AllGood(refs, book)
  BY <1>1, Parts DEF Agreed, LoosePcs, UnloggedPcs, CutPcs, AheadPcs
<1> DEFINE x == m.name
           d == m.dir
<1>3. x \in Names /\ refs[x].stored /\ refs[x].fsi = d /\ LinkOK(refs, dirs, moved, x) /\ NoName \notin Names
  BY <1>1, <1>2, NoneAssumption DEF Locals, LinkPcs, AllLinked
<1>4. /\ dirs' = [dirs EXCEPT ![d].link = NoName] /\ Go(c, "unlinkRef")
      /\ refs' = refs /\ book' = book /\ moved' = moved /\ prev' = prev /\ store' = store /\ muddled' = muddled
  BY <1>1 DEF UnlinkFile, DirsOnly
<1>5. /\ m1.pc = "unlinkRef" /\ m1.name = m.name /\ m1.next = m.next /\ m1.dir = m.dir /\ m1.n = m.n
        /\ m1.left = m.left /\ m1.new = m.new /\ m1.id = m.id /\ m1.path = m.path /\ m1.at = m.at
        /\ m1.fsi = m.fsi /\ m1.held = m.held /\ m1.fresh = m.fresh /\ m1.why = m.why
  BY <1>0, <1>4 DEF Fields, Go
<1> HIDE DEF m, m1, x, d
<1>6. \A e \in Dirs : /\ dirs'[e].exists = dirs[e].exists
                      /\ dirs'[e].link = IF e = d THEN NoName ELSE dirs[e].link
  BY <1>0, <1>4 DEF Folders, DirFields
<1>7. Stores(refs, dirs', book, prev, store) /\ Existing(dirs') /\ Locals(m1, book)
  BY <1>1, <1>2, <1>5, <1>6 DEF Stores, Existing, Locals, Renaming, InDir
<1>8. NoLink(dirs', moved, x)
  BY <1>3, <1>6 DEF LinkOK, NoLink
<1>9. LinkedUp(m1, refs, dirs', moved)
  <2> SUFFICES ASSUME NEW y \in Names, y # x, NEW e \in Dirs \ moved
               PROVE  (refs[y].stored /\ refs[y].fsi = e) <=> dirs'[e].link = y
    BY <1>5 DEF LinkedUp, Loose, LoosePcs, LinkOK, x
  <2>1. (refs[y].stored /\ refs[y].fsi = e) <=> dirs[e].link = y
    BY <1>2 DEF AllLinked, LinkOK
  <2>2. e = d => dirs[e].link = x
    BY <1>3 DEF LinkOK
  <2> QED BY <1>3, <1>6, <2>1, <2>2
<1>10. LinkPcs(m1, refs, dirs', moved, book)
  BY <1>5, <1>8 DEF LinkPcs, x
<1>11. ~muddled => ChainPcs(m1, refs, book, prev, store)
  BY <1>5 DEF ChainPcs
<1>12. Agree(m1, refs, dirs', moved, book, prev, store, muddled)
  BY <1>2, <1>7, <1>9, <1>10, <1>11, Together
<1> QED BY <1>4, <1>12 DEF Agreed, m1

\* The reference loses its directory, or goes when there is no version.
LEMMA UnlinkRefAgrees ==
  ASSUME NEW c, Clients = {c}, World(c), faults \in Nat, faults' = 0, Agreed(c), UnlinkRef(c)
  PROVE  Agreed(c)'
<1> DEFINE m == me[c]
           m1 == me'[c]
<1>0. DOMAIN me = Clients /\ DOMAIN m = Fields /\ (m.fresh => m.held = refs) /\ Refs(refs) /\ Folders(dirs)
  BY DEF World, Local
<1>1. m.pc = "unlinkRef" /\ ~Fault(c)
  <2>1. At(c, "unlinkRef")
    BY DEF UnlinkRef
  <2> QED BY <2>1 DEF At, Fault
<1>2. /\ Stores(refs, dirs, book, prev, store) /\ Locals(m, book) /\ Existing(dirs)
      /\ LinkPcs(m, refs, dirs, moved, book)
      /\ LinkedUp(m, refs, dirs, moved) /\ AllLogged(refs, book)
      /\ ~muddled => /\ Sound(book, prev) /\ ChainPcs(m, refs, book, prev, store)
                     /\ AllKept(book, store) /\ AllGood(refs, book)
  BY <1>1, Parts DEF Agreed, LoosePcs, UnloggedPcs, CutPcs, AheadPcs
<1>2a. ~m.held[m.name].stored /\ m.fresh => AllLinked(refs, dirs, moved)
  <2>1. ASSUME ~m.held[m.name].stored, m.fresh PROVE AllLinked(refs, dirs, moved)
    <3>1. ~refs[m.name].stored
      BY <1>0, <2>1
    <3>2. LinkOK(refs, dirs, moved, m.name)
      BY <1>1, <1>2, <3>1 DEF LinkPcs, NoLink, LinkOK
    <3> QED BY <1>1, <1>2, <3>2 DEF LinkedUp, Loose, AllLinked
  <2> QED BY <2>1
<1>3. CASE ~m.held[m.name].stored /\ m.fresh /\ Return(c) /\ refs' = refs /\ dirs' = dirs /\ book' = book /\ moved' = moved /\ prev' = prev /\ store' = store /\ muddled' = muddled
  <2>1. m1 = Idle
    BY <1>0, <1>3 DEF Return
  <2> QED BY <1>2, <1>2a, <1>3, <2>1, IdleAgrees DEF Agreed
<1>4. CASE /\ m.held[m.name].stored /\ m.path = 0
           /\ m.fresh /\ refs' = [m.held EXCEPT ![m.name] = NoRef]
           /\ me' = [me EXCEPT ![c].pc = "done", ![c].fresh = FALSE]
           /\ dirs' = dirs /\ book' = book /\ moved' = moved /\ prev' = prev /\ store' = store /\ muddled' = muddled
  <2>1. /\ m1.pc = "done" /\ m1.name = m.name /\ m1.next = m.next /\ m1.dir = m.dir /\ m1.n = m.n
        /\ m1.left = m.left /\ m1.new = m.new /\ m1.id = m.id /\ m1.path = m.path /\ m1.at = m.at
        /\ m1.fsi = m.fsi /\ m1.held = m.held /\ m1.fresh = FALSE /\ m1.why = m.why
    BY <1>0, <1>4 DEF Fields
  <2>2. m.held = refs /\ m.name \in Names
    BY <1>0, <1>1, <1>2, <1>4 DEF Locals, Renaming
  <2>3. Put(refs, refs', m.name, NoRef)
    <3> HIDE DEF m
    <3> QED BY <1>0, <1>4, <2>2, Written
  <2>4. /\ OtherLinks(refs, dirs, moved, m.name) /\ OtherLogged(refs, book, m.name)
        /\ ~muddled => OtherGood(refs, book, m.name)
    BY <1>1, Others DEF Agreed, LoosePcs, UnloggedPcs, AheadPcs
  <2> HIDE DEF m, m1
  <2>5. /\ OtherLinks(refs', dirs, moved, m.name) /\ OtherLogged(refs', book, m.name)
        /\ ~muddled => OtherGood(refs', book, m.name)
    BY <2>3, <2>4, PutLeaves
  <2>6. Stores(refs', dirs, book, prev, store) /\ Locals(m1, book)
    BY <1>1, <1>2, <1>4, <2>1, <2>2, <2>3 DEF Stores, Locals, Put, Ref, NoRef, Renaming, InDir
  <2>7. LinkPcs(m1, refs', dirs, moved, book)
    BY <1>1, <1>2, <1>4, <2>1, <2>2, <2>3 DEF LinkPcs, Put, Ref, NoRef
  <2>8. ~muddled => ChainPcs(m1, refs', book, prev, store)
    BY <1>1, <1>2, <1>4, <2>1, <2>2, <2>3 DEF ChainPcs, Put, Ref, NoRef
  <2>9. LinkOK(refs', dirs, moved, m.name)
    BY <1>1, <1>2, <1>4, <2>2, <2>3, NoneAssumption DEF LinkOK, Put, Ref, NoRef, LinkPcs, Ours, NoLink
  <2>10. refs'[m.name].stored => HasLog(book, m.name)
    BY <1>1, <1>2, <1>4, <2>1, <2>2, <2>3 DEF LinkPcs, HasLog, Holds, Put, Ref, NoRef, AllLogged, UnloggedPcs
  <2>11. ~muddled => GoodRef(refs', book, m.name)
    BY <1>1, <1>2, <1>4, <2>2, <2>3 DEF GoodRef, Put, Ref, NoRef, AllGood
  <2>12. Agree(m1, refs', dirs, moved, book, prev, store, muddled)
    BY <1>2, <2>1, <2>5, <2>6, <2>7, <2>8, <2>9, <2>10, <2>11, Rejoined
  <2> QED BY <1>4, <2>12 DEF Agreed, m1
<1>5. CASE /\ m.held[m.name].stored /\ m.path # 0
           /\ m.fresh /\ refs' = [m.held EXCEPT ![m.name] = Ref(m.held[m.name].path, NoDir)]
           /\ me' = [me EXCEPT ![c].pc = "done", ![c].fresh = FALSE]
           /\ dirs' = dirs /\ book' = book /\ moved' = moved /\ prev' = prev /\ store' = store /\ muddled' = muddled
  <2>1. /\ m1.pc = "done" /\ m1.name = m.name /\ m1.next = m.next /\ m1.dir = m.dir /\ m1.n = m.n
        /\ m1.left = m.left /\ m1.new = m.new /\ m1.id = m.id /\ m1.path = m.path /\ m1.at = m.at
        /\ m1.fsi = m.fsi /\ m1.held = m.held /\ m1.fresh = FALSE /\ m1.why = m.why
    BY <1>0, <1>5 DEF Fields
  <2>2. m.held = refs /\ m.name \in Names
    BY <1>0, <1>1, <1>2, <1>5 DEF Locals, Renaming
  <2>3. Put(refs, refs', m.name, Ref(m.held[m.name].path, NoDir))
    <3> HIDE DEF m
    <3> QED BY <1>0, <1>5, <2>2, Written
  <2>4. /\ OtherLinks(refs, dirs, moved, m.name) /\ OtherLogged(refs, book, m.name)
        /\ ~muddled => OtherGood(refs, book, m.name)
    BY <1>1, Others DEF Agreed, LoosePcs, UnloggedPcs, AheadPcs
  <2> HIDE DEF m, m1
  <2>5. /\ OtherLinks(refs', dirs, moved, m.name) /\ OtherLogged(refs', book, m.name)
        /\ ~muddled => OtherGood(refs', book, m.name)
    BY <2>3, <2>4, PutLeaves
  <2>6. Stores(refs', dirs, book, prev, store) /\ Locals(m1, book)
    BY <1>1, <1>2, <1>5, <2>1, <2>2, <2>3 DEF Stores, Locals, Put, Ref, NoRef, Renaming, InDir
  <2>7. LinkPcs(m1, refs', dirs, moved, book)
    BY <1>1, <1>2, <1>5, <2>1, <2>2, <2>3 DEF LinkPcs, Put, Ref, NoRef
  <2>8. ~muddled => ChainPcs(m1, refs', book, prev, store)
    BY <1>1, <1>2, <1>5, <2>1, <2>2, <2>3 DEF ChainPcs, Put, Ref, NoRef
  <2>9. LinkOK(refs', dirs, moved, m.name)
    BY <1>1, <1>2, <1>5, <2>2, <2>3, NoneAssumption DEF LinkOK, Put, Ref, NoRef, LinkPcs, Ours, NoLink
  <2>10. refs'[m.name].stored => HasLog(book, m.name)
    BY <1>1, <1>2, <1>5, <2>1, <2>2, <2>3 DEF LinkPcs, HasLog, Holds, Put, Ref, NoRef, AllLogged, UnloggedPcs
  <2>11. ~muddled => GoodRef(refs', book, m.name)
    BY <1>1, <1>2, <1>5, <2>2, <2>3 DEF GoodRef, Put, Ref, NoRef, AllGood
  <2>12. Agree(m1, refs', dirs, moved, book, prev, store, muddled)
    BY <1>2, <2>1, <2>5, <2>6, <2>7, <2>8, <2>9, <2>10, <2>11, Rejoined
  <2> QED BY <1>5, <2>12 DEF Agreed, m1
<1> QED BY <1>1, <1>3, <1>4, <1>5 DEF UnlinkRef, PutRef, RefsOnly, Nothing

\* The request returns.
LEMMA DoneAgrees ==
  ASSUME NEW c, Clients = {c}, World(c), faults \in Nat, faults' = 0, Agreed(c), Done(c)
  PROVE  Agreed(c)'
<1> DEFINE m == me[c]
           m1 == me'[c]
<1>0. DOMAIN me = Clients /\ DOMAIN m = Fields /\ (m.fresh => m.held = refs) /\ Refs(refs) /\ Folders(dirs)
  BY DEF World, Local
<1>1. m.pc = "done" /\ ~Fault(c)
  <2>1. At(c, "done")
    BY DEF Done
  <2> QED BY <2>1 DEF At, Fault
<1>2. /\ Stores(refs, dirs, book, prev, store) /\ Locals(m, book) /\ Existing(dirs)
      /\ LinkPcs(m, refs, dirs, moved, book)
      /\ AllLinked(refs, dirs, moved) /\ AllLogged(refs, book)
      /\ ~muddled => /\ Sound(book, prev) /\ ChainPcs(m, refs, book, prev, store)
                     /\ AllKept(book, store) /\ AllGood(refs, book)
  BY <1>1, Parts DEF Agreed, LoosePcs, UnloggedPcs, CutPcs, AheadPcs
<1>3. CASE Return(c) /\ refs' = refs /\ dirs' = dirs /\ book' = book /\ moved' = moved /\ prev' = prev /\ store' = store /\ muddled' = muddled
  <2>1. m1 = Idle
    BY <1>0, <1>3 DEF Return
  <2> QED BY <1>2, <1>3, <2>1, IdleAgrees DEF Agreed
<1> QED BY <1>3 DEF Done, Nothing

\* The directory the reference had before counts as changed by hand from now on.
LEMMA ModifyLinkDirectoryAgrees ==
  ASSUME NEW c, Clients = {c}, World(c), faults \in Nat, faults' = 0, Agreed(c), ModifyLinkDirectory(c)
  PROVE  Agreed(c)'
<1> DEFINE m == me[c]
           m1 == me'[c]
<1>0. DOMAIN me = Clients /\ DOMAIN m = Fields /\ (m.fresh => m.held = refs) /\ Refs(refs) /\ Folders(dirs)
  BY DEF World, Local
<1>1. m.pc = "ensure" /\ ~Fault(c)
  <2>1. At(c, "ensure")
    BY DEF ModifyLinkDirectory
  <2> QED BY <2>1 DEF At, Fault
<1>2. /\ Stores(refs, dirs, book, prev, store) /\ Locals(m, book) /\ Existing(dirs)
      /\ LinkPcs(m, refs, dirs, moved, book)
      /\ AllLinked(refs, dirs, moved) /\ AllLogged(refs, book)
      /\ ~muddled => /\ Sound(book, prev) /\ ChainPcs(m, refs, book, prev, store)
                     /\ AllKept(book, store) /\ AllGood(refs, book)
  BY <1>1, Parts DEF Agreed, LoosePcs, UnloggedPcs, CutPcs, AheadPcs
<1> DEFINE x == m.name
           d == m.dir
           q == Ref(m.held[x].path, d)
<1>3. x \in Names /\ d \in Dirs /\ dirs[d].link = x /\ NoDir \notin Dirs
  BY <1>1, <1>2, NoneAssumption DEF Locals, InDir, LinkPcs
<1>4. CASE Return(c) /\ refs' = refs /\ dirs' = dirs /\ book' = book /\ moved' = moved /\ prev' = prev /\ store' = store /\ muddled' = muddled
  <2>1. m1 = Idle
    BY <1>0, <1>4 DEF Return
  <2> QED BY <1>2, <1>4, <2>1, IdleAgrees DEF Agreed
<1>5. CASE /\ m.fresh /\ m.held[x].stored /\ refs' = [m.held EXCEPT ![x] = q]
           /\ me' = [me EXCEPT ![c].pc = "done", ![c].fresh = FALSE]
           /\ moved' = moved \union ({m.held[x].fsi} \ {d, NoDir})
           /\ dirs' = dirs /\ book' = book /\ prev' = prev /\ store' = store /\ muddled' = muddled
  <2>1. /\ m1.pc = "done" /\ m1.name = m.name /\ m1.next = m.next /\ m1.dir = m.dir /\ m1.n = m.n
        /\ m1.left = m.left /\ m1.new = m.new /\ m1.id = m.id /\ m1.path = m.path /\ m1.at = m.at
        /\ m1.fsi = m.fsi /\ m1.held = m.held /\ m1.fresh = FALSE /\ m1.why = m.why
    BY <1>0, <1>5 DEF Fields
  <2>2. m.held = refs
    BY <1>0, <1>5
  <2>3. Put(refs, refs', x, q)
    <3> HIDE DEF x, q
    <3> QED BY <1>0, <1>3, <1>5, <2>2, Written
  <2>4. q.stored /\ q.path = refs[x].path /\ q.fsi = d /\ refs[x].stored
        /\ moved' = moved \union ({refs[x].fsi} \ {d, NoDir})
    BY <1>5, <2>2 DEF Ref
  <2> HIDE DEF m, m1, x, d, q
  <2>5. Stores(refs', dirs, book, prev, store) /\ Locals(m1, book) /\ m1.pc \in Plain
    BY <1>1, <1>2, <1>3, <2>1, <2>3, <2>4 DEF Stores, Locals, Put, Renaming, InDir, Plain
  <2>6. AllLinked(refs', dirs, moved')
    <3> SUFFICES ASSUME NEW y \in Names, NEW e \in Dirs \ moved'
                 PROVE  (refs'[y].stored /\ refs'[y].fsi = e) <=> dirs[e].link = y
      BY DEF AllLinked, LinkOK
    <3>1. e \in Dirs \ moved /\ (e = refs[x].fsi => e = d)
      BY <1>3, <2>4
    <3>2. (refs[y].stored /\ refs[y].fsi = e) <=> dirs[e].link = y
      BY <1>2, <3>1 DEF AllLinked, LinkOK
    <3>3. CASE y = x
      BY <1>3, <2>3, <2>4, <3>1, <3>2, <3>3 DEF Put
    <3>4. CASE y # x
      BY <2>3, <3>2, <3>4 DEF Put
    <3> QED BY <3>3, <3>4
  <2>7. AllLogged(refs', book)
    BY <1>2, <2>3, <2>4 DEF AllLogged, Put
  <2>8. ~muddled => AllGood(refs', book)
    BY <1>2, <2>3, <2>4 DEF AllGood, GoodRef, Put
  <2>9. Agree(m1, refs', dirs, moved', book, prev, store, muddled)
    BY <1>2, <2>5, <2>6, <2>7, <2>8, PlainAgrees
  <2> QED BY <1>5, <2>9 DEF Agreed, m1
<1> QED BY <1>1, <1>4, <1>5 DEF ModifyLinkDirectory, Nothing
-----------------------------------------------------------------------------
(* The requests, what happens between them, and the reading of the refstore. *)

\* A request begins with nothing done.
LEMMA RequestAgrees ==
  ASSUME NEW c, Clients = {c}, World(c), faults \in Nat, faults' = 0, Agreed(c), Request(c)
  PROVE  Agreed(c)'
<1> DEFINE m == me[c]
           m1 == me'[c]
<1>0. DOMAIN me = Clients /\ DOMAIN m = Fields /\ Refs(refs) /\ Folders(dirs)
  BY DEF World, Local
<1>1. m.pc = "idle"
  <2>1. At(c, "idle")
    BY DEF Request, Save, Rename, Remove, InitDataset, Checkout, Unlink, EnsureRef, Write, Restore, SetFiles, Begin
  <2> QED BY <2>1 DEF At
<1>2. /\ Stores(refs, dirs, book, prev, store) /\ Locals(m, book) /\ Existing(dirs)
      /\ AllLinked(refs, dirs, moved) /\ AllLogged(refs, book)
      /\ ~muddled => Sound(book, prev) /\ AllKept(book, store) /\ AllGood(refs, book)
  BY <1>1, Parts DEF Agreed, LoosePcs, UnloggedPcs, CutPcs, AheadPcs
<1>3. Logs(book) /\ Len(book) \in Nat
  BY <1>2, Domains DEF Stores
<1>4. ASSUME NEW q, Begin(c, q), Locals(q, book), LinkPcs(q, refs, dirs, moved, book),
             ChainPcs(q, refs, book, prev, store)
      PROVE  Agreed(c)'
  <2>1. m1 = q
    BY <1>0, <1>4 DEF Begin
  <2>2. refs' = refs /\ dirs' = dirs /\ book' = book /\ moved' = moved /\ prev' = prev /\ store' = store /\ muddled' = muddled
    BY <1>4 DEF Begin
  <2>3. Agree(q, refs, dirs, moved, book, prev, store, muddled)
    BY <1>2, <1>4, Together
  <2> QED BY <2>1, <2>2, <2>3 DEF Agreed
<1>5. CASE Save(c)
  <2>1. PICK x \in Names : Begin(c, [Idle EXCEPT !.op = "save", !.pc = "prepare", !.name = x])
    BY <1>5 DEF Save
  <2> DEFINE q == [Idle EXCEPT !.op = "save", !.pc = "prepare", !.name = x]
  <2>2. /\ q.pc = "prepare" /\ q.name = x /\ q.fsi = NoDir /\ ~q.new /\ q.path = 0 /\ q.at = 0 /\ q.id = 0
        /\ q.n = 0 /\ q.left = 0 /\ \A y \in Names : q.held[y].path = 0
    BY DEF Idle, NoRef
  <2>3. Begin(c, q)
    BY <2>1
  <2> HIDE DEF q
  <2>4. Locals(q, book)
    BY <1>3, <2>2 DEF Locals, Renaming, InDir
  <2>5. LinkPcs(q, refs, dirs, moved, book) /\ ChainPcs(q, refs, book, prev, store)
    BY <2>2 DEF LinkPcs, ChainPcs
  <2> QED BY <1>4, <2>3, <2>4, <2>5
<1>6. CASE Rename(c)
  <2>1. PICK x \in Names, y \in Names : x # y /\ Begin(c, [Idle EXCEPT !.op = "rename", !.pc = "renResolve", !.name = x, !.next = y])
    BY <1>6 DEF Rename
  <2> DEFINE q == [Idle EXCEPT !.op = "rename", !.pc = "renResolve", !.name = x, !.next = y]
  <2>2. /\ q.pc = "renResolve" /\ q.name = x /\ q.next = y /\ q.path = 0 /\ q.at = 0 /\ q.id = 0
        /\ q.n = 0 /\ q.left = 0 /\ \A z \in Names : q.held[z].path = 0
    BY DEF Idle, NoRef
  <2>3. Begin(c, q)
    BY <2>1
  <2> HIDE DEF q
  <2>4. Locals(q, book)
    BY <1>3, <2>1, <2>2 DEF Locals, Renaming, InDir
  <2>5. LinkPcs(q, refs, dirs, moved, book) /\ ChainPcs(q, refs, book, prev, store)
    BY <2>2 DEF LinkPcs, ChainPcs
  <2> QED BY <1>4, <2>3, <2>4, <2>5
<1>7. CASE Remove(c)
  <2>1. PICK x \in Names, n \in {All, 1, 2}, keep \in BOOLEAN, force \in BOOLEAN :
          Begin(c, [Idle EXCEPT !.op = "remove", !.pc = "rmResolve", !.name = x, !.n = n, !.keep = keep,
                                !.force = force])
    BY <1>7 DEF Remove
  <2> DEFINE q == [Idle EXCEPT !.op = "remove", !.pc = "rmResolve", !.name = x, !.n = n, !.keep = keep,
                               !.force = force]
  <2>2. /\ q.pc = "rmResolve" /\ q.name = x /\ q.path = 0 /\ q.at = 0 /\ q.id = 0
        /\ q.n = n /\ q.left = 0 /\ \A z \in Names : q.held[z].path = 0
    BY DEF Idle, NoRef
  <2>3. Begin(c, q)
    BY <2>1
  <2> HIDE DEF q
  <2>4. Locals(q, book)
    BY <1>3, <2>2 DEF Locals, Renaming, InDir, All
  <2>5. LinkPcs(q, refs, dirs, moved, book) /\ ChainPcs(q, refs, book, prev, store)
    BY <2>2 DEF LinkPcs, ChainPcs
  <2> QED BY <1>4, <2>3, <2>4, <2>5
<1>8. CASE InitDataset(c)
  <2> DEFINE q(x, d) == [Idle EXCEPT !.op = "init", !.pc = "iniCheck", !.name = x, !.dir = d,
                          !.before = [refs |-> refs, dirs |-> dirs, known |-> RefToInitID(x) # 0]]
  <2>1. PICK x \in Names, d \in Dirs : Begin(c, q(x, d))
    BY <1>8 DEF InitDataset
  <2> DEFINE q1 == q(x, d)
  <2>2. /\ q1.pc = "iniCheck" /\ q1.name = x /\ q1.dir = d /\ q1.path = 0 /\ q1.at = 0 /\ q1.id = 0
        /\ q1.n = 0 /\ q1.left = 0 /\ \A z \in Names : q1.held[z].path = 0
    BY DEF Idle, NoRef
  <2>3. Begin(c, q1)
    BY <2>1
  <2> HIDE DEF q1
  <2>4. Locals(q1, book)
    BY <1>3, <2>2 DEF Locals, Renaming, InDir
  <2>5. LinkPcs(q1, refs, dirs, moved, book) /\ ChainPcs(q1, refs, book, prev, store)
    BY <2>2 DEF LinkPcs, ChainPcs
  <2> QED BY <1>4, <2>3, <2>4, <2>5
<1>9. CASE Checkout(c)
  <2>1. PICK x \in Names, d \in Dirs : Begin(c, [Idle EXCEPT !.op = "checkout", !.pc = "outCheck", !.name = x, !.dir = d])
    BY <1>9 DEF Checkout
  <2> DEFINE q == [Idle EXCEPT !.op = "checkout", !.pc = "outCheck", !.name = x, !.dir = d]
  <2>2. /\ q.pc = "outCheck" /\ q.name = x /\ q.dir = d /\ q.path = 0 /\ q.at = 0 /\ q.id = 0
        /\ q.n = 0 /\ q.left = 0 /\ \A z \in Names : q.held[z].path = 0
    BY DEF Idle, NoRef
  <2>3. Begin(c, q)
    BY <2>1
  <2> HIDE DEF q
  <2>4. Locals(q, book)
    BY <1>3, <2>2 DEF Locals, Renaming, InDir
  <2>5. LinkPcs(q, refs, dirs, moved, book) /\ ChainPcs(q, refs, book, prev, store)
    BY <2>2 DEF LinkPcs, ChainPcs
  <2> QED BY <1>4, <2>3, <2>4, <2>5
<1>10. CASE Unlink(c)
  <2> DEFINE q(x) == [Idle EXCEPT !.op = "unlink", !.pc = "unlinkFile", !.name = x, !.path = refs[x].path,
                                  !.dir = refs[x].fsi]
  <2>1. PICK x \in Names : refs[x].stored /\ Begin(c, q(x))
    BY <1>10 DEF Unlink
  <2> DEFINE q1 == q(x)
  <2>2. /\ q1.pc = "unlinkFile" /\ q1.name = x /\ q1.dir = refs[x].fsi /\ q1.path = refs[x].path /\ q1.at = 0
        /\ q1.id = 0 /\ q1.n = 0 /\ q1.left = 0 /\ \A z \in Names : q1.held[z].path = 0
    BY DEF Idle, NoRef
  <2>3. Begin(c, q1)
    BY <2>1
  <2> HIDE DEF q1
  <2>4. Locals(q1, book)
    BY <1>2, <1>3, <2>2 DEF Locals, Stores, Renaming, InDir
  <2>5. LinkPcs(q1, refs, dirs, moved, book) /\ ChainPcs(q1, refs, book, prev, store)
    BY <2>1, <2>2 DEF LinkPcs, ChainPcs
  <2> QED BY <1>4, <2>3, <2>4, <2>5
<1>11. CASE EnsureRef(c)
  <2> DEFINE q(d) == [Idle EXCEPT !.op = "ensure", !.pc = "ensure", !.name = dirs[d].link, !.dir = d]
  <2>1. PICK d \in Dirs : dirs[d].link # NoName /\ Begin(c, q(d))
    BY <1>11 DEF EnsureRef
  <2> DEFINE q1 == q(d)
  <2>2. /\ q1.pc = "ensure" /\ q1.name = dirs[d].link /\ q1.dir = d /\ q1.path = 0 /\ q1.at = 0
        /\ q1.id = 0 /\ q1.n = 0 /\ q1.left = 0 /\ \A z \in Names : q1.held[z].path = 0
    BY DEF Idle, NoRef
  <2>3. Begin(c, q1)
    BY <2>1
  <2> HIDE DEF q1
  <2>4. Locals(q1, book)
    BY <1>2, <1>3, <2>1, <2>2 DEF Locals, Stores, Renaming, InDir
  <2>5. LinkPcs(q1, refs, dirs, moved, book) /\ ChainPcs(q1, refs, book, prev, store)
    BY <2>1, <2>2 DEF LinkPcs, ChainPcs
  <2> QED BY <1>4, <2>3, <2>4, <2>5
<1>12. CASE Write(c) \/ Restore(c)
  <2>1. PICK x \in Names : \E f : SetFiles(c, x, f)
    BY <1>12 DEF Write, Restore
  <2>f. PICK f : SetFiles(c, x, f)
    BY <2>1
  <2>2. dirs' = [dirs EXCEPT ![refs[x].fsi].files = f] /\ m1 = m /\ refs' = refs /\ book' = book /\ moved' = moved /\ prev' = prev /\ store' = store /\ muddled' = muddled
    BY <2>f DEF SetFiles
  <2>3. SameLinks(dirs, dirs')
    BY <1>0, <2>2 DEF SameLinks, Folders, DirFields
  <2> HIDE DEF m, m1
  <2>4. Stores(refs, dirs', book, prev, store) /\ AllLinked(refs, dirs', moved) /\ Existing(dirs')
    BY <1>2, <2>3, LinksSame
  <2>5. m.pc \in Plain
    BY <1>1 DEF Plain
  <2>6. Agree(m1, refs, dirs', moved, book, prev, store, muddled)
    BY <1>2, <2>2, <2>4, <2>5, PlainAgrees
  <2> QED BY <2>2, <2>6 DEF Agreed, m1
<1> QED BY <1>5, <1>6, <1>7, <1>8, <1>9, <1>10, <1>11, <1>12 DEF Request

\* The refstore is read and nothing else happens.
LEMMA ReadRefsAgrees ==
  ASSUME NEW c, Clients = {c}, World(c), Agreed(c), ReadRefs(c)
  PROVE  Agreed(c)'
<1> DEFINE m == me[c]
           m1 == me'[c]
<1>0. DOMAIN me = Clients /\ DOMAIN m = Fields
  BY DEF World, Local
<1>1. me' = [me EXCEPT ![c].held = refs, ![c].fresh = TRUE]
  BY DEF ReadRefs
<1>2. refs' = refs /\ dirs' = dirs /\ book' = book /\ moved' = moved /\ prev' = prev /\ store' = store /\ muddled' = muddled
  BY DEF ReadRefs, Nothing
<1>3. /\ m1.pc = m.pc /\ m1.name = m.name /\ m1.next = m.next /\ m1.dir = m.dir /\ m1.n = m.n
        /\ m1.left = m.left /\ m1.new = m.new /\ m1.id = m.id /\ m1.path = m.path /\ m1.at = m.at
        /\ m1.fsi = m.fsi /\ m1.held = refs /\ m1.fresh = TRUE /\ m1.why = m.why
  BY <1>0, <1>1 DEF Fields
<1>4. Agree(m, refs, dirs, moved, book, prev, store, muddled)
  BY DEF Agreed
<1> HIDE DEF m, m1
<1>5. Stores(refs, dirs, book, prev, store) /\ Locals(m1, book)
  BY <1>3, <1>4 DEF Agree, Locals, Stores
<1>6. LinkedUp(m1, refs, dirs, moved) /\ Logged(m1, refs, book) /\ Existing(dirs)
  BY <1>3, <1>4 DEF Agree, LinkInv, LinkedUp, Loose, Logged
<1>7. LinkPcs(m1, refs, dirs, moved, book)
  <2>1. LinkPcs(m, refs, dirs, moved, book)
    BY <1>4 DEF Agree, LinkInv
  <2> QED BY <1>3, <2>1 DEF LinkPcs
<1>8. ASSUME ~muddled
      PROVE  /\ Sound(book, prev) /\ Kept(m1, book, store) /\ Good(m1, refs, book)
             /\ ChainPcs(m1, refs, book, prev, store)
  <2>1. Sound(book, prev) /\ Kept(m, book, store) /\ Good(m, refs, book) /\ ChainPcs(m, refs, book, prev, store)
    BY <1>4, <1>8 DEF Agree, ChainInv
  <2>2. Cut(m1) = Cut(m)
    BY <1>3 DEF Cut
  <2>3. Kept(m1, book, store) /\ Good(m1, refs, book)
    BY <1>3, <2>1, <2>2 DEF Kept, Missing, Good
  <2>4. ChainPcs(m1, refs, book, prev, store)
    BY <1>3, <2>1, <2>2 DEF ChainPcs
  <2> QED BY <2>1, <2>3, <2>4
<1>9. Agree(m1, refs, dirs, moved, book, prev, store, muddled)
  BY <1>5, <1>6, <1>7, <1>8, Together
<1> QED BY <1>2, <1>9 DEF Agreed, m1

\* A directory changed by hand is left out from now on.
LEMMA ByHandAgrees ==
  ASSUME NEW c, Clients = {c}, World(c), Agreed(c), ByHand
  PROVE  Agreed(c)'
<1> DEFINE m == me[c]
           m1 == me'[c]
<1>0. Folders(dirs)
  BY DEF World
<1>1. m.pc = "idle" /\ m1 = m
  BY DEF ByHand, At
<1>2. refs' = refs /\ book' = book /\ prev' = prev /\ store' = store /\ muddled' = muddled
  BY DEF ByHand
<1>3. /\ Stores(refs, dirs, book, prev, store) /\ Locals(m, book) /\ Existing(dirs)
      /\ AllLinked(refs, dirs, moved) /\ AllLogged(refs, book)
      /\ ~muddled => Sound(book, prev) /\ AllKept(book, store) /\ AllGood(refs, book)
  BY <1>1, Parts DEF Agreed, LoosePcs, UnloggedPcs, CutPcs, AheadPcs
<1> DEFINE G == /\ moved \subseteq moved' /\ \A d \in Dirs \ moved' : dirs'[d].link = dirs[d].link
                /\ \A d \in Dirs : dirs'[d].link \in Names \union {NoName} /\ (dirs'[d].link # NoName => dirs'[d].exists)
<1>4. G
  <2>0. \A d \in Dirs : dirs[d].link \in Names \union {NoName} /\ (dirs[d].link # NoName => dirs[d].exists)
    BY <1>3 DEF Stores, Existing
  <2>1. ASSUME NEW d \in Dirs, NEW e \in Dirs, dirs[d].exists, ~dirs[e].exists,
               dirs' = [dirs EXCEPT ![e] = dirs[d], ![d] = NoDirectory], moved' = moved \union {d, e}
        PROVE  G
    <3>1. \A f \in Dirs : dirs'[f] = IF f = d THEN NoDirectory ELSE IF f = e THEN dirs[d] ELSE dirs[f]
      BY <1>0, <2>1 DEF Folders
    <3>2. NoDirectory.link = NoName
      BY DEF NoDirectory
    <3>3. moved \subseteq moved' /\ \A f \in Dirs \ moved' : dirs'[f].link = dirs[f].link
      BY <2>1, <3>1
    <3>4. ASSUME NEW f \in Dirs
          PROVE  dirs'[f].link \in Names \union {NoName} /\ (dirs'[f].link # NoName => dirs'[f].exists)
      <4>1. CASE f = d
        BY <3>1, <3>2, <4>1
      <4>2. CASE f # d /\ f = e
        BY <2>0, <2>1, <3>1, <4>2
      <4>3. CASE f # d /\ f # e
        BY <2>0, <3>1, <4>3
      <4> QED BY <4>1, <4>2, <4>3
    <3> QED BY <3>3, <3>4
  <2>2. ASSUME NEW d \in Dirs, dirs' = [dirs EXCEPT ![d].link = NoName], moved' = moved \union {d}
        PROVE  G
    <3>1. \A f \in Dirs : /\ dirs'[f].link = IF f = d THEN NoName ELSE dirs[f].link
                          /\ dirs'[f].exists = dirs[f].exists
      BY <1>0, <2>2 DEF Folders, DirFields
    <3> QED BY <2>0, <2>2, <3>1
  <2> HIDE DEF G
  <2> QED BY <2>1, <2>2 DEF ByHand
<1> HIDE DEF m, m1
<1>5. Stores(refs, dirs', book, prev, store) /\ Existing(dirs') /\ AllLinked(refs, dirs', moved')
  BY <1>3, <1>4 DEF Stores, Existing, AllLinked, LinkOK
<1>6. m.pc \in Plain
  BY <1>1 DEF Plain
<1>7. Agree(m1, refs, dirs', moved', book, prev, store, muddled)
  BY <1>1, <1>3, <1>5, <1>6, PlainAgrees
<1> QED BY <1>2, <1>7 DEF Agreed, m1
-----------------------------------------------------------------------------
(* Every step keeps the invariant while no access has failed. *)

\* At first there is nothing.
LEMMA AgreedInit ==
  ASSUME NEW c, Clients = {c}, Init
  PROVE  Agreed(c)
<1>1. /\ me[c] = Idle /\ prev = <<>> /\ store = {} /\ book = <<>> /\ moved = {}
      /\ \A x \in Names : refs[x] = NoRef
      /\ \A d \in Dirs : dirs[d] = NoDirectory
  BY DEF Init
<1>2. Stores(refs, dirs, book, prev, store)
  BY <1>1 DEF Stores, Logs, NoRef, NoDirectory
<1>3. AllLinked(refs, dirs, moved) /\ AllLogged(refs, book) /\ Existing(dirs)
  BY <1>1, NoneAssumption DEF AllLinked, LinkOK, AllLogged, Existing, NoRef, NoDirectory
<1>4. Sound(book, prev) /\ AllKept(book, store) /\ AllGood(refs, book)
  BY <1>1 DEF Sound, Single, Blanks, Distinct, Chained, AllKept, AllGood, GoodRef, NoRef
<1> QED BY <1>1, <1>2, <1>3, <1>4, IdleAgrees DEF Agreed

\* The count of failures only grows.
LEMMA FaultsGrow ==
  ASSUME faults \in Nat, [Next]_vars
  PROVE  faults' \in Nat /\ (faults' = 0 => faults = 0 /\ faults' = faults)
<1>1. ASSUME NEW c \in Clients, Request(c) \/ ReadRefs(c) \/ Crash(c)
      PROVE  faults' = faults \/ faults' = faults + 1
  <2>1. ASSUME NEW q, Begin(c, q) PROVE faults' = faults
    BY <2>1 DEF Begin, NoFault
  <2>2. CASE Save(c) \/ Rename(c) \/ Remove(c)
    BY <2>1, <2>2 DEF Save, Rename, Remove
  <2>3. CASE InitDataset(c) \/ Checkout(c)
    BY <2>1, <2>3 DEF InitDataset, Checkout
  <2>4. CASE Unlink(c) \/ EnsureRef(c)
    BY <2>1, <2>4 DEF Unlink, EnsureRef
  <2>5. CASE Write(c) \/ Restore(c)
    BY <2>5 DEF Write, Restore, SetFiles, NoFault
  <2>6. CASE ReadRefs(c) \/ Crash(c)
    BY <2>6 DEF ReadRefs, Crash, Fault, NoFault
  <2> QED BY <1>1, <2>2, <2>3, <2>4, <2>5, <2>6 DEF Request
<1>2. ASSUME NEW c \in Clients, SaveStep(c)
      PROVE  faults' = faults \/ faults' = faults + 1
  BY <1>2 DEF SaveStep, PrepareSaveRef, ReadWorkingDir, SaveRefused, WriteVersion, DropRef, CreateDatasetRef,
              WriteVersionSave, PutLink, WriteComponents, Cleanup, PutRef, NoFault, Fault
<1>3. ASSUME NEW c \in Clients, RenameStep(c)
      PROVE  faults' = faults \/ faults' = faults + 1
  BY <1>3 DEF RenameStep, ResolveRename, WriteDatasetRename, RenameDelete, RenamePut, RenameLink, PutRef,
              NoFault, Fault
<1>4. ASSUME NEW c \in Clients, RemoveStep(c)
      PROVE  faults' = faults \/ faults' = faults + 1
  BY <1>4 DEF RemoveStep, ResolveRemove, UnlinkRemoved, DeleteVersion, Rewind, RewindPut, WriteVersionDelete,
              WriteDatasetDelete, RemoveRef, RemoveFiles, PutRef, NoFault, Fault
<1>5. ASSUME NEW c \in Clients, InitStep(c)
      PROVE  faults' = faults \/ faults' = faults + 1
  BY <1>5 DEF InitStep, CheckInit, InitLog, InitRef, InitLink, InitFiles, RollbackInit, InitFailed, PutRef,
              NoFault, Fault
<1>6. ASSUME NEW c \in Clients, LinkStep(c)
      PROVE  faults' = faults \/ faults' = faults + 1
  BY <1>6 DEF LinkStep, CheckCheckout, CheckoutRef, CheckoutLink, CheckoutFiles, UnlinkFile, UnlinkRef,
              ModifyLinkDirectory, Done, PutRef, NoFault, Fault
<1>7. faults' = faults \/ faults' = faults + 1
  BY <1>1, <1>2, <1>3, <1>4, <1>5, <1>6 DEF Next, ByHand, NoFault, vars
<1> QED BY <1>7

\* As long as no access fails, every step keeps the invariant.
LEMMA AgreedStep ==
  ASSUME NEW c, Clients = {c}, World(c), faults \in Nat, faults' = 0, Agreed(c), [Next]_vars
  PROVE  Agreed(c)'
<1>1. CASE UNCHANGED vars
  BY <1>1 DEF vars, Agreed
<1>2. CASE ByHand
  BY <1>2, ByHandAgrees
<1>3. CASE Request(c)
  BY <1>3, RequestAgrees
<1>4. CASE ReadRefs(c)
  BY <1>4, ReadRefsAgrees
<1>5. CASE Crash(c)
  BY <1>5 DEF Crash, Fault
<1>6. CASE SaveStep(c)
  BY <1>6, PrepareSaveRefAgrees, ReadWorkingDirAgrees, SaveRefusedAgrees, WriteVersionAgrees, DropRefAgrees, CreateDatasetRefAgrees, WriteVersionSaveAgrees, PutLinkAgrees, WriteComponentsAgrees, CleanupAgrees
     DEF SaveStep
<1>7. CASE RenameStep(c)
  BY <1>7, ResolveRenameAgrees, WriteDatasetRenameAgrees, RenameDeleteAgrees, RenamePutAgrees, RenameLinkAgrees
     DEF RenameStep
<1>8. CASE RemoveStep(c)
  BY <1>8, ResolveRemoveAgrees, UnlinkRemovedAgrees, DeleteVersionAgrees, RewindAgrees, RewindPutAgrees, WriteVersionDeleteAgrees, WriteDatasetDeleteAgrees, RemoveRefAgrees, RemoveFilesAgrees
     DEF RemoveStep
<1>9. CASE InitStep(c)
  BY <1>9, CheckInitAgrees, InitLogAgrees, InitRefAgrees, InitLinkAgrees, InitFilesAgrees, RollbackInitAgrees, InitFailedAgrees
     DEF InitStep
<1>10. CASE LinkStep(c)
  BY <1>10, CheckCheckoutAgrees, CheckoutRefAgrees, CheckoutLinkAgrees, CheckoutFilesAgrees, UnlinkFileAgrees, UnlinkRefAgrees, ModifyLinkDirectoryAgrees, DoneAgrees
     DEF LinkStep
<1> QED BY <1>1, <1>2, <1>3, <1>4, <1>5, <1>6, <1>7, <1>8, <1>9, <1>10 DEF Next

-----------------------------------------------------------------------------
(* What follows from it. *)

\* The inductive invariant: what InitDataset will undo, and the agreement of the
\* records as long as no access has failed.
Inv(c) == Undoing(c) /\ faults \in Nat /\ (faults = 0 => Agreed(c))

\* It holds at first.
LEMMA InvInit ==
  ASSUME NEW c, Clients = {c}, Init
  PROVE  Inv(c)
<1>1. Undoing(c) /\ Agreed(c)
  BY UndoingInit, AgreedInit
<1>2. faults \in Nat
  BY DEF Init
<1> QED BY <1>1, <1>2 DEF Inv

\* Every step keeps it, those that fail included.
LEMMA InvStep ==
  ASSUME NEW c, Clients = {c}, Inv(c), [Next]_vars
  PROVE  Inv(c)'
<1>1. Undoing(c)' /\ World(c)
  BY UndoingStep DEF Undoing, Inv
<1>2. faults' \in Nat /\ (faults' = 0 => faults = 0)
  BY FaultsGrow DEF Inv
<1>3. faults' = 0 => Agreed(c)'
  BY <1>1, <1>2, AgreedStep DEF Inv
<1> QED BY <1>1, <1>2, <1>3 DEF Inv

\* A process that serves one request at a time.
OneClient == \E c : Clients = {c}

\* Between requests the invariant says that the records agree.
LEMMA AgreedMeans ==
  ASSUME NEW c, Clients = {c}, faults = 0 => Agreed(c)
  PROVE  RecordsAgree
<1>1. ASSUME Quiet, faults = 0
      PROVE  /\ Stores(refs, dirs, book, prev, store) /\ AllLinked(refs, dirs, moved) /\ AllLogged(refs, book)
             /\ ~muddled => Sound(book, prev) /\ AllKept(book, store) /\ AllGood(refs, book)
  <2>1. me[c].pc = "idle"
    BY <1>1 DEF Quiet, At
  <2> QED BY <1>1, <2>1, Parts DEF Agreed, LoosePcs, UnloggedPcs, CutPcs, AheadPcs
<1>2. LinksAgree
  BY <1>1 DEF LinksAgree, AllLinked, LinkOK
<1>3. ASSUME Quiet, faults = 0, ~muddled, NEW x \in Names, refs[x].stored
      PROVE  /\ RefToInitID(x) # 0 /\ refs[x].path = Newest(RefToInitID(x))
             /\ refs[x].path # 0 => refs[x].path \in store
  <2> DEFINE i == RefToInitID(x)
  <2>1. i # 0 /\ Holds(book, i, x)
    BY <1>1, <1>3, LogOf DEF AllLogged, HasLog, Holds, Stores
  <2> HIDE DEF i
  <2>2. refs[x].path = Last(book, i)
    BY <1>1, <1>3, <2>1 DEF AllGood, GoodRef, Holds
  <2>3. Last(book, i) = Newest(i)
    BY DEF Last, Newest
  <2>4. LogOK(book[i])
    BY <1>1, <1>3, <2>1 DEF Stores, Logs, Holds
  <2>5. book[i].vs # <<>> => Len(book[i].vs) \in DOMAIN book[i].vs
    BY <2>4 DEF LogOK
  <2>6. Last(book, i) # 0 => Last(book, i) \in store
    BY <1>1, <1>3, <2>1, <2>5 DEF AllKept, Last, Holds
  <2> QED BY <2>1, <2>2, <2>3, <2>6 DEF i
<1>4. RefsAgree
  BY <1>3 DEF RefsAgree
<1> QED BY <1>2, <1>4 DEF RecordsAgree

\* One request at a time and no access that fails: once a request has returned,
\* refstore, logbook, store and link files agree (RecordsAgree), whichever requests
\* came before it and in which order.
THEOREM RecordsDoAgree == OneClient => (Spec => []RecordsAgree)
<1> SUFFICES ASSUME OneClient PROVE Spec => []RecordsAgree
  OBVIOUS
<1>1. PICK c : Clients = {c}
  BY DEF OneClient
<1>2. Init => Inv(c)
  BY <1>1, InvInit
<1>3. Inv(c) /\ [Next]_vars => Inv(c)'
  BY <1>1, InvStep
<1>4. Inv(c) => RecordsAgree
  BY <1>1, AgreedMeans DEF Inv
<1> QED BY <1>2, <1>3, <1>4, PTL DEF Spec
\* No log with versions is taken out.
Spared(b, b1) == \A i \in DOMAIN b : b[i].state = "live" /\ b[i].vs # <<>> => b1[i].state # "gone"

\* Marking a log, cutting it or removing it does not take it out of the book.
LEMMA SparedSame ==
  ASSUME NEW b, Logs(b), NEW b1, NEW i, NEW u,
         \/ b1 = b
         \/ b1 = [b EXCEPT ![i].blank = u]
         \/ b1 = [b EXCEPT ![i].minus = u]
         \/ b1 = [b EXCEPT ![i].vs = u]
         \/ b1 = [b EXCEPT ![i].state = "removed"]
  PROVE  Spared(b, b1)
<1> SUFFICES ASSUME NEW k \in DOMAIN b, b[k].state = "live" PROVE b1[k].state # "gone"
  BY DEF Spared
<1>1. DOMAIN b[k] = LogFields
  BY DEF Logs, LogOK
<1>2. CASE k # i
  BY <1>2
<1>3. CASE k = i
  BY <1>1, <1>3 DEF LogFields
<1> QED BY <1>2, <1>3

\* A log that a new one takes the place of is blank, and a blank one has no versions.
LEMMA SparedAdded ==
  ASSUME Logs(book), NEW x \in Names, NameFree(x), Single(book), Blanks(book)
  PROVE  Spared(book, WriteDatasetInit(x))
<1> DEFINE j == RefToInitID(x)
           b1 == WriteDatasetInit(x)
<1>1. LogAdded(book, b1, x)
  BY LogBegun
<1>2. ASSUME NEW i \in DOMAIN book, book[i].state = "live", book[i].name = x PROVE book[i].vs = <<>>
  <2>1. j # 0 /\ j \in DOMAIN book /\ book[j].state = "live" /\ book[j].name = x
    BY <1>2, LogOf
  <2>2. book[j].blank
    BY <2>1 DEF NameFree
  <2> HIDE DEF j
  <2> QED BY <1>2, <2>1, <2>2 DEF Single, Blanks
<1> HIDE DEF b1
<1>3. Spared(book, b1)
  BY <1>1, <1>2 DEF LogAdded, Spared
<1> QED BY <1>3 DEF b1

\* Nor does the log taken out have versions.
LEMMA SparedFewer ==
  ASSUME NEW b, NEW b1, NEW x, Fewer(b, b1, x), Empty(b, x)
  PROVE  Spared(b, b1)
BY DEF Fewer, Empty, Holds, Spared

\* One request at a time, no access that fails, no name with two logs: a step takes
\* no log out that has versions.
LEMMA StepSpares ==
  ASSUME NEW c, Clients = {c}, World(c), faults \in Nat, faults' = 0, Agreed(c), ~muddled, [Next]_vars
  PROVE  Spared(book, book')
<1> DEFINE m == me[c]
<1>0. /\ Logs(book) /\ Single(book) /\ Blanks(book) /\ Locals(m, book)
      /\ LinkPcs(m, refs, dirs, moved, book) /\ ChainPcs(m, refs, book, prev, store)
  BY Parts DEF Agreed, Stores, Sound
<1>1. ~Fault(c) /\ ~Crash(c)
  BY DEF Fault, Crash
<1>2. CASE book' = book
  BY <1>0, <1>2, SparedSame
<1>3. CASE PrepareSaveRef(c)
  <2>1. m.name \in Names
    <3>1. m.pc = "prepare"
      BY <1>3 DEF PrepareSaveRef, At
    <3> QED BY <1>0, <3>1 DEF Locals
  <2>2. book' = book \/ (NameFree(m.name) /\ book' = WriteDatasetInit(m.name))
    BY <1>1, <1>3 DEF PrepareSaveRef, Nothing
  <2> QED BY <1>0, <1>2, <2>1, <2>2, SparedAdded
<1>4. CASE InitLog(c)
  <2>1. m.name \in Names
    <3>1. m.pc = "iniLog"
      BY <1>4 DEF InitLog, At
    <3> QED BY <1>0, <3>1 DEF Locals
  <2>2. book' = book \/ (NameFree(m.name) /\ book' = WriteDatasetInit(m.name))
    BY <1>1, <1>4 DEF InitLog, Nothing
  <2> QED BY <1>0, <1>2, <2>1, <2>2, SparedAdded
<1>5. CASE Cleanup(c)
  <2>1. m.pc = "cleanup" /\ book' = RemoveLog(book, m.name)
    BY <1>5 DEF Cleanup, At
  <2>2. Empty(book, m.name)
    BY <1>0, <2>1 DEF ChainPcs
  <2>3. Fewer(book, book', m.name)
    BY <1>0, <2>1, LogRemoved
  <2> QED BY <2>2, <2>3, SparedFewer
<1>6. CASE RollbackInit(c)
  <2>1. m.pc = "rollback" /\ book' = IF m.why = "log" THEN book ELSE RemoveLog(book, m.name)
    BY <1>6 DEF RollbackInit, At
  <2>2. CASE m.why # "log"
    <3>1. Empty(book, m.name)
      BY <1>0, <2>1, <2>2 DEF ChainPcs
    <3>2. Fewer(book, book', m.name)
      BY <1>0, <2>1, <2>2, LogRemoved
    <3> QED BY <3>1, <3>2, SparedFewer
  <2> QED BY <1>2, <2>1, <2>2
<1>7. CASE SaveRefused(c)
  <2>1. book' = book \/ book' = [book EXCEPT ![m.id].blank = FALSE]
    BY <1>7 DEF SaveRefused
  <2> HIDE DEF m
  <2> QED BY <1>0, <2>1, SparedSame
<1>8. CASE WriteVersionSave(c)
  <2> DEFINE b1 == [book EXCEPT ![m.id].vs = Append(@, m.at), ![m.id].blank = FALSE]
  <2>1. book' = book \/ book' = b1
    BY <1>1, <1>8 DEF WriteVersionSave, Nothing
  <2>2. Spared(book, b1)
    <3> SUFFICES ASSUME NEW k \in DOMAIN book, book[k].state = "live" PROVE b1[k].state # "gone"
      BY DEF Spared
    <3>1. DOMAIN book[k] = LogFields
      BY <1>0 DEF Logs, LogOK
    <3> HIDE DEF m
    <3>2. CASE k # m.id
      BY <3>2
    <3>3. CASE k = m.id
      BY <3>1, <3>3 DEF LogFields
    <3> QED BY <3>2, <3>3
  <2> HIDE DEF b1
  <2> QED BY <1>2, <2>1, <2>2
<1>9. CASE WriteDatasetRename(c)
  <2> DEFINE b1 == [book EXCEPT ![m.id].name = m.next, ![m.id].blank = FALSE]
  <2>1. book' = book \/ book' = b1
    BY <1>1, <1>9 DEF WriteDatasetRename, Nothing
  <2>2. Spared(book, b1)
    <3> SUFFICES ASSUME NEW k \in DOMAIN book, book[k].state = "live" PROVE b1[k].state # "gone"
      BY DEF Spared
    <3>1. DOMAIN book[k] = LogFields
      BY <1>0 DEF Logs, LogOK
    <3> HIDE DEF m
    <3>2. CASE k # m.id
      BY <3>2
    <3>3. CASE k = m.id
      BY <3>1, <3>3 DEF LogFields
    <3> QED BY <3>2, <3>3
  <2> HIDE DEF b1
  <2> QED BY <1>2, <2>1, <2>2
<1>10. CASE WriteVersionDelete(c)
  <2> DEFINE i == RefToInitID(m.name)
             u(k) == SubSeq(book[i].vs, 1, Len(book[i].vs) - k)
  <2>1. book' = book \/ DeleteItems(i, m.n)
    BY <1>1, <1>10 DEF WriteVersionDelete, Nothing
  <2>2. \/ book' = book \/ book' = [book EXCEPT ![i].minus = TRUE]
        \/ \E k : book' = [book EXCEPT ![i].vs = u(k)]
    BY <2>1 DEF DeleteItems
  <2> HIDE DEF i, u
  <2> QED BY <1>0, <2>2, SparedSame
<1>11. CASE WriteDatasetDelete(c)
  <2> DEFINE i == RefToInitID(m.name)
  <2>1. book' = book \/ book' = [book EXCEPT ![i].state = "removed"]
    BY <1>1, <1>11 DEF WriteDatasetDelete, Nothing
  <2> HIDE DEF i
  <2> QED BY <1>0, <2>1, SparedSame
<1>12. ASSUME Request(c) \/ ReadRefs(c) \/ ByHand \/ UNCHANGED vars PROVE book' = book
  <2>1. ASSUME NEW q, Begin(c, q) PROVE book' = book
    BY <2>1 DEF Begin
  <2>2. CASE Save(c) \/ Rename(c) \/ Remove(c)
    BY <2>1, <2>2 DEF Save, Rename, Remove
  <2>3. CASE InitDataset(c) \/ Checkout(c)
    BY <2>1, <2>3 DEF InitDataset, Checkout
  <2>4. CASE Unlink(c) \/ EnsureRef(c)
    BY <2>1, <2>4 DEF Unlink, EnsureRef
  <2>5. CASE Write(c) \/ Restore(c)
    BY <2>5 DEF Write, Restore, SetFiles
  <2> QED BY <1>12, <2>2, <2>3, <2>4, <2>5 DEF Request, ReadRefs, Nothing, ByHand, vars
<1>13. ASSUME SaveStep(c) PROVE Spared(book, book')
  <2>1. CASE ReadWorkingDir(c) \/ WriteVersion(c) \/ DropRef(c) \/ CreateDatasetRef(c) \/ PutLink(c) \/ WriteComponents(c)
    BY <1>2, <2>1 DEF ReadWorkingDir, WriteVersion, DropRef, CreateDatasetRef, PutLink, WriteComponents, PutRef,
                      Nothing, StoreOnly, RefsOnly, DirsOnly
  <2> QED BY <1>3, <1>5, <1>7, <1>8, <1>13, <2>1 DEF SaveStep
<1>14. ASSUME RenameStep(c) PROVE Spared(book, book')
  <2>1. CASE ResolveRename(c) \/ RenameDelete(c) \/ RenamePut(c) \/ RenameLink(c)
    BY <1>2, <2>1 DEF ResolveRename, RenameDelete, RenamePut, RenameLink, PutRef, Nothing, RefsOnly, DirsOnly
  <2> QED BY <1>9, <1>14, <2>1 DEF RenameStep
<1>15. ASSUME RemoveStep(c) PROVE Spared(book, book')
  <2>1. CASE \/ ResolveRemove(c) \/ UnlinkRemoved(c) \/ DeleteVersion(c) \/ Rewind(c) \/ RewindPut(c)
             \/ RemoveRef(c) \/ RemoveFiles(c)
    BY <1>2, <2>1 DEF ResolveRemove, UnlinkRemoved, DeleteVersion, Rewind, RewindPut, RemoveRef, RemoveFiles, PutRef,
                      Nothing, RefsOnly, DirsOnly
  <2> QED BY <1>10, <1>11, <1>15, <2>1 DEF RemoveStep
<1>16. ASSUME InitStep(c) PROVE Spared(book, book')
  <2>1. CASE CheckInit(c) \/ InitRef(c) \/ InitLink(c) \/ InitFiles(c) \/ InitFailed(c)
    BY <1>2, <2>1 DEF CheckInit, InitRef, InitLink, InitFiles, InitFailed, PutRef, Nothing, RefsOnly, DirsOnly
  <2> QED BY <1>4, <1>6, <1>16, <2>1 DEF InitStep
<1>17. ASSUME LinkStep(c) PROVE book' = book
  BY <1>17 DEF LinkStep, CheckCheckout, CheckoutRef, CheckoutLink, CheckoutFiles, UnlinkFile, UnlinkRef,
               ModifyLinkDirectory, Done, PutRef, Nothing, RefsOnly, DirsOnly
<1> QED BY <1>1, <1>2, <1>12, <1>13, <1>14, <1>15, <1>16, <1>17 DEF Next

\* One request at a time: the clean-up of a save that was refused, the rollback of
\* InitDataset and the removal of a stray log never take out a log with versions
\* (CleanUpSparesHistory): what they remove by its name is the log they began.
THEOREM CleanUpSpares == OneClient => (Spec => CleanUpSparesHistory)
<1> SUFFICES ASSUME OneClient PROVE Spec => CleanUpSparesHistory
  OBVIOUS
<1>1. PICK c : Clients = {c}
  BY DEF OneClient
<1> DEFINE Step == faults' = 0 /\ ~muddled =>
                     \A i \in DOMAIN book : book[i].state = "live" /\ book[i].vs # <<>> => book'[i].state # "gone"
<1>2. Init => Inv(c)
  BY <1>1, InvInit
<1>3. Inv(c) /\ [Next]_vars => Inv(c)'
  BY <1>1, InvStep
<1>4. Inv(c) /\ [Next]_vars => [Step]_vars
  <2> SUFFICES ASSUME Inv(c), [Next]_vars PROVE Step
    OBVIOUS
  <2>1. World(c) /\ faults \in Nat /\ (faults' = 0 => faults = 0) /\ (faults = 0 => Agreed(c))
    BY FaultsGrow DEF Undoing, Inv
  <2>2. faults' = 0 /\ ~muddled => Spared(book, book')
    BY <1>1, <2>1, StepSpares
  <2> QED BY <2>2 DEF Spared
<1> QED BY <1>2, <1>3, <1>4, PTL DEF Spec, CleanUpSparesHistory

-----------------------------------------------------------------------------
(* What requests that failed leave behind is still a history.  Here accesses   *)
(* may fail and the process may crash.  First what the stores and the local    *)
(* variables hold, whatever fails.                                             *)

\* Where a remove is under way.
Removing == {"rmResolve", "rmVersion", "rewind", "rewindPut", "rmWrite", "rmLog", "rmRef", "unlink", "rmFiles"}

\* Numbers are numbers, and a request that renames or removes is one for that.
Stock(r, b, p, st) ==
  /\ p \in Seq(Nat) /\ (\A v \in DOMAIN p : p[v] \in 0 .. Len(p)) /\ st \subseteq DOMAIN p /\ Logs(b)
  /\ \A x \in Names : r[x].path \in Nat
Fine(m, b) ==
  /\ m.path \in Nat /\ m.at \in Nat /\ m.id \in 0 .. Len(b) /\ m.n \in {-1, 0, 1, 2}
  /\ m.pc \notin {"idle", "ensure", "done"} => m.name \in Names
  /\ m.pc = "prepare" => m.path = 0
  /\ m.pc = "rmResolve" => m.n # 0
  /\ m.pc \in Renaming => m.next \in Names /\ m.next # m.name /\ m.op = "rename"
  /\ m.pc \in Removing => m.op = "remove"

\* What a request does not change of itself when it goes on.
Alike(m, m1) ==
  /\ m1.op = m.op /\ m1.name = m.name /\ m1.next = m.next /\ m1.n = m.n
  /\ m1.id = m.id /\ m1.path = m.path /\ m1.at = m.at

\* The book is a book, and no shorter, after every access.
Onward(b, b1) == Logs(b1) /\ Len(b1) >= Len(b)

\* The book after what the requests do to it.
LEMMA BookGoesOn ==
  ASSUME Logs(book)
  PROVE  /\ Onward(book, book)
         /\ \A x \in Names : Onward(book, WriteDatasetInit(x)) /\ Len(WriteDatasetInit(x)) = Len(book) + 1
         /\ \A x : Onward(book, RemoveLog(book, x))
         /\ \A i \in DOMAIN book : /\ Onward(book, [book EXCEPT ![i].blank = FALSE])
                                   /\ Onward(book, [book EXCEPT ![i].minus = TRUE])
                                   /\ Onward(book, [book EXCEPT ![i].state = "removed"])
         /\ \A i \in DOMAIN book, v \in Nat :
              Onward(book, [book EXCEPT ![i].vs = Append(@, v), ![i].blank = FALSE])
         /\ \A i \in DOMAIN book, x \in Names : Onward(book, [book EXCEPT ![i].name = x, ![i].blank = FALSE])
         /\ \A i \in DOMAIN book, n \in {0, 1, 2} : Onward(book, [book EXCEPT ![i].vs = SubSeq(@, 1, Len(@) - n)])
<1>0. Len(book) \in Nat
  BY Domains
<1>1. Onward(book, book)
  BY <1>0 DEF Onward
<1>2. ASSUME NEW x \in Names PROVE Onward(book, WriteDatasetInit(x)) /\ Len(WriteDatasetInit(x)) = Len(book) + 1
  BY <1>0, LogBegun DEF LogAdded, Onward
<1>3. ASSUME NEW x PROVE Onward(book, RemoveLog(book, x))
  BY <1>0, LogRemoved DEF Fewer, Onward
<1>4. ASSUME NEW b1, NEW i, NEW s, NEW n, NEW vs, NEW bl, Updated(book, b1, i, s, n, vs, bl) PROVE Onward(book, b1)
  BY <1>0, <1>4 DEF Updated, Onward
<1>5. ASSUME NEW i \in DOMAIN book PROVE Onward(book, [book EXCEPT ![i].blank = FALSE])
  <2>1. \A b1 : b1 = [book EXCEPT ![i].blank = FALSE] => Onward(book, b1)
    BY <1>4, LogMarked
  <2> QED BY <2>1
<1>6. ASSUME NEW i \in DOMAIN book PROVE Onward(book, [book EXCEPT ![i].minus = TRUE])
  <2>1. \A b1 : b1 = [book EXCEPT ![i].minus = TRUE] => Onward(book, b1)
    BY <1>4, LogMinus
  <2> QED BY <2>1
<1>7. ASSUME NEW i \in DOMAIN book PROVE Onward(book, [book EXCEPT ![i].state = "removed"])
  <2>1. \A b1 : b1 = [book EXCEPT ![i].state = "removed"] => Onward(book, b1)
    BY <1>4, LogState
  <2> QED BY <2>1
<1>8. ASSUME NEW i \in DOMAIN book, NEW v \in Nat
      PROVE  Onward(book, [book EXCEPT ![i].vs = Append(@, v), ![i].blank = FALSE])
  <2>1. \A b1 : b1 = [book EXCEPT ![i].vs = Append(@, v), ![i].blank = FALSE] => Onward(book, b1)
    BY <1>4, LogSaved
  <2> QED BY <2>1
<1>9. ASSUME NEW i \in DOMAIN book, NEW x \in Names
      PROVE  Onward(book, [book EXCEPT ![i].name = x, ![i].blank = FALSE])
  <2>1. \A b1 : b1 = [book EXCEPT ![i].name = x, ![i].blank = FALSE] => Onward(book, b1)
    BY <1>4, LogRenamed
  <2> QED BY <2>1
<1>10. ASSUME NEW i \in DOMAIN book, NEW n \in {0, 1, 2}
       PROVE  Onward(book, [book EXCEPT ![i].vs = SubSeq(@, 1, Len(@) - n)])
  <2>1. ASSUME NEW b1, b1 = [book EXCEPT ![i].vs = SubSeq(@, 1, Len(@) - n)] PROVE Onward(book, b1)
    <3>1. Updated(book, b1, i, book[i].state, book[i].name, SubSeq(book[i].vs, 1, Len(book[i].vs) - n), book[i].blank)
      BY <2>1, LogCut
    <3> QED BY <1>4, <3>1
  <2> QED BY <2>1
<1> QED BY <1>1, <1>2, <1>3, <1>5, <1>6, <1>7, <1>8, <1>9, <1>10

\* The stores after an access to one of them.
LEMMA StockGoesOn ==
  ASSUME NEW r, NEW b, NEW p, NEW st, Stock(r, b, p, st)
  PROVE  /\ \A b1 : Onward(b, b1) => Stock(r, b1, p, st)
         /\ \A r1, x, q : Put(r, r1, x, q) /\ q.path \in Nat => Stock(r1, b, p, st)
         /\ \A s1 : s1 \subseteq st => Stock(r, b, p, s1)
         /\ \A v \in 0 .. Len(p) : Stock(r, b, Append(p, v), st \union {Len(p) + 1})
<1>1. \A b1 : Onward(b, b1) => Stock(r, b1, p, st)
  BY DEF Stock, Onward
<1>2. \A r1, x, q : Put(r, r1, x, q) /\ q.path \in Nat => Stock(r1, b, p, st)
  BY DEF Stock, Put
<1>3. \A s1 : s1 \subseteq st => Stock(r, b, p, s1)
  BY DEF Stock
<1>4. ASSUME NEW v \in 0 .. Len(p) PROVE Stock(r, b, Append(p, v), st \union {Len(p) + 1})
  <2> DEFINE p1 == Append(p, v)
             s1 == st \union {Len(p) + 1}
  <2>0. p \in Seq(Nat) /\ (\A k \in DOMAIN p : p[k] \in 0 .. Len(p)) /\ st \subseteq DOMAIN p /\ v \in Nat
    BY DEF Stock
  <2>1. /\ p1 \in Seq(Nat) /\ DOMAIN p1 = 1 .. Len(p) + 1 /\ Len(p1) = Len(p) + 1 /\ Len(p) \in Nat
        /\ p1[Len(p) + 1] = v /\ \A k \in DOMAIN p : p1[k] = p[k]
    BY <2>0
  <2>2. s1 \subseteq DOMAIN p1
    BY <2>0, <2>1
  <2> HIDE DEF p1, s1
  <2>3. ASSUME NEW k \in DOMAIN p1 PROVE p1[k] \in 0 .. Len(p1)
    <3>1. CASE k = Len(p) + 1
      BY <1>4, <2>1, <3>1
    <3>2. CASE k \in DOMAIN p
      BY <2>0, <2>1, <3>2
    <3> QED BY <2>0, <2>1, <3>1, <3>2
  <2>4. Stock(r, b, p1, s1)
    BY <2>1, <2>2, <2>3 DEF Stock
  <2> QED BY <2>4 DEF p1, s1
<1> QED BY <1>1, <1>2, <1>3, <1>4

\* A request that returns, that begins to wait for another book, and that goes on.
LEMMA FineIdle ==
  ASSUME NEW b, Logs(b) PROVE Fine(Idle, b) /\ Idle.pc = "idle"
<1>1. Len(b) \in Nat
  BY Domains
<1> QED BY <1>1 DEF Fine, Idle, Renaming, Removing

\* It stays fine in a book that goes on.
LEMMA FineBook ==
  ASSUME NEW m, NEW b, NEW b1, Logs(b), Fine(m, b), Onward(b, b1) PROVE Fine(m, b1)
<1>1. Len(b) \in Nat /\ Len(b1) \in Nat /\ Len(b1) >= Len(b)
  BY Domains DEF Onward
<1> QED BY <1>1 DEF Fine

\* So does one that takes its next step.
LEMMA FineOn ==
  ASSUME NEW m, NEW m1, NEW b, Fine(m, b), Alike(m, m1), m.pc \notin {"idle", "ensure", "done"},
         m1.pc \notin {"rmResolve", "prepare"}, m1.pc \in Renaming => m.pc \in Renaming, m1.pc \in Removing => m.pc \in Removing
  PROVE  Fine(m1, b)
BY DEF Fine, Alike

-----------------------------------------------------------------------------
(* The history of every reference, while no rename or remove has failed. *)

\* The version a history ends with.
End(h) == IF h = <<>> THEN 0 ELSE h[Len(h)]

\* A history: different versions in the store, each the previous one of the next.
Line(h, p, st) ==
  /\ \A q \in DOMAIN h : h[q] \in st /\ p[h[q]] = IF q = 1 THEN 0 ELSE h[q - 1]
  /\ \A q, s \in DOMAIN h : h[q] = h[s] => q = s

\* H[x] is the one of the name x; no version is in two of them.
Lines(H, p, st) ==
  /\ H = [x \in Names |-> H[x]] /\ \A x \in Names : H[x] \in Seq(Nat) /\ Line(H[x], p, st)
  /\ \A x, y \in Names : x # y => \A q \in DOMAIN H[x], s \in DOMAIN H[y] : H[x][q] # H[y][s]

\* The versions of a log, but for the newest d, are in the history, and above each of
\* them there are as many as in the log: so many of both can be taken off.
Fits(vs, h, d) == \A j \in 1 .. Len(vs) - d : \E q \in DOMAIN h : q =< Len(h) + d - Len(vs) + j /\ h[q] = vs[j]

\* The reference of x has the end of its history, and its log fits.
Told(H, r, b, x) ==
  /\ r[x].path = End(H[x])
  /\ r[x].stored => \A i \in DOMAIN b : Holds(b, i, x) => Fits(b[i].vs, H[x], 0)

\* Where the reference of a request's own name may be behind, or on the way out.
OffPcs == {"putRef", "renPut", "rmVersion", "rewind", "rewindPut", "rmWrite", "rmLog", "rmRef", "unlink"}

\* What a request has done to the history so far.
HistPcs(H, m, r, b, p, st) ==
  /\ m.pc \in {"working", "write", "dropRef", "putRef", "log"} => Holds(b, m.id, m.name)
  /\ m.pc \in {"working", "write", "dropRef", "putRef"} => m.path = End(H[m.name]) /\ Fits(b[m.id].vs, H[m.name], 0)
  /\ m.pc \in {"dropRef", "putRef"} =>
       m.at \in st /\ p[m.at] = m.path /\ \A y \in Names : \A q \in DOMAIN H[y] : H[y][q] # m.at
  /\ m.pc = "putRef" => ~r[m.name].stored \/ r[m.name].path = m.path
  /\ m.pc = "log" => \E h \in Seq(Nat) : Longer(h, H[m.name], m.at) /\ Fits(b[m.id].vs, h, 0)
  /\ m.pc \in {"log", "putLink"} => r[m.name].stored /\ r[m.name].path = m.at
  /\ m.pc = "iniPut" => Empty(b, m.name)
  /\ m.pc \in {"renLog", "renDelete"} => r[m.name].stored
  /\ m.pc \in {"renLog", "renDelete", "renPut"} => ~r[m.next].stored
  /\ m.pc = "renLog" => Holds(b, m.id, m.name)
  /\ m.pc \in {"renDelete", "renPut"} => Holds(b, m.id, m.next) /\ Fits(b[m.id].vs, H[m.name], 0)
  /\ m.pc = "renPut" => m.path = End(H[m.name]) /\ ~r[m.name].stored
  /\ m.pc = "rmVersion" \/ (m.pc \in {"rewind", "rewindPut"} /\ m.n # All) => m.at = End(H[m.name])
  /\ m.pc \in {"rmVersion", "rewind", "rmWrite"} /\ m.n # All => r[m.name].stored
  /\ m.pc \in {"rmVersion", "rewind", "rewindPut", "rmWrite"} /\ m.n # All =>
       /\ Holds(b, m.id, m.name) /\ m.n \in {1, 2} /\ m.n < Len(b[m.id].vs)
       /\ Fits(b[m.id].vs, H[m.name], IF m.pc = "rmVersion" THEN m.n - m.left ELSE m.n)
  /\ m.pc = "rmVersion" /\ m.n # All => m.left \in 1 .. m.n
  /\ m.pc = "rmWrite" /\ m.n # All => r[m.name].path = End(H[m.name])

\* Where it has done nothing, or all of it.
RestPcs == {"idle", "prepare", "cleanup", "files", "renResolve", "renLink", "rmResolve", "rmFiles",
            "iniCheck", "iniLog", "iniLink", "iniFiles", "rollback", "rolled",
            "outCheck", "outPut", "outLink", "outFiles", "unlinkFile", "unlinkRef", "ensure", "done"}

Hist(H, m, r, b, p, st) ==
  /\ Lines(H, p, st) /\ Single(b)
  /\ \A x \in Names : (x = m.name /\ m.pc \in OffPcs) \/ Told(H, r, b, x)
  /\ HistPcs(H, m, r, b, p, st)
Hists(m, r, b, p, st) == \E H : Hist(H, m, r, b, p, st)

\* Every reference has its history.
Calm(H, r, b, p, st) == Lines(H, p, st) /\ Single(b) /\ \A x \in Names : Told(H, r, b, x)
Calms(r, b, p, st) == \E H : Calm(H, r, b, p, st)

\* The live logs of b1 are logs of b, or empty.
Sub(b, b1) ==
  \A i \in DOMAIN b1 : b1[i].state = "live" =>
    b1[i].vs = <<>> \/ (i \in DOMAIN b /\ b[i].state = "live" /\ b[i].name = b1[i].name /\ b[i].vs = b1[i].vs)

\* Nothing fits everything.
LEMMA EmptyFits == ASSUME NEW h PROVE Fits(<<>>, h, 0)
<1>1. Len(<<>>) = 0 /\ 1 .. 0 - 0 = {}
  OBVIOUS
<1> QED BY <1>1 DEF Fits

\* The histories while a request is at one of the other steps.
LEMMA Rested ==
  ASSUME NEW H, NEW m, NEW r, NEW b, NEW p, NEW st, Hist(H, m, r, b, p, st), m.pc \notin OffPcs
  PROVE  Calm(H, r, b, p, st)
BY DEF Hist, Calm

\* The same of some histories.
LEMMA RestedSome ==
  ASSUME NEW m, NEW r, NEW b, NEW p, NEW st, Hists(m, r, b, p, st), m.pc \notin OffPcs
  PROVE  Calms(r, b, p, st)
BY Rested DEF Hists, Calms

\* A request that has done nothing, or all of it.
LEMMA Resting ==
  ASSUME NEW m, NEW r, NEW b, NEW p, NEW st, Calms(r, b, p, st), m.pc \in RestPcs
  PROVE  Hists(m, r, b, p, st)
<1>1. PICK H : Calm(H, r, b, p, st)
  BY DEF Calms
<1>2. HistPcs(H, m, r, b, p, st)
  BY DEF HistPcs, RestPcs
<1>3. Hist(H, m, r, b, p, st)
  BY <1>1, <1>2 DEF Hist, Calm
<1> QED BY <1>3 DEF Hists

\* Logs that begin, end, or are not changed in their versions.
LEMMA CalmSub ==
  ASSUME NEW r, NEW b, NEW b1, NEW p, NEW st, Calms(r, b, p, st), Sub(b, b1), Single(b1)
  PROVE  Calms(r, b1, p, st)
<1>1. PICK H : Calm(H, r, b, p, st)
  BY DEF Calms
<1>2. ASSUME NEW x \in Names PROVE Told(H, r, b1, x)
  <2>1. Told(H, r, b, x)
    BY <1>1 DEF Calm
  <2>2. ASSUME r[x].stored, NEW i \in DOMAIN b1, Holds(b1, i, x) PROVE Fits(b1[i].vs, H[x], 0)
    <3>1. CASE b1[i].vs = <<>>
      BY <3>1, EmptyFits
    <3>2. CASE b1[i].vs # <<>>
      <4>1. i \in DOMAIN b /\ b[i].state = "live" /\ b[i].name = b1[i].name /\ b[i].vs = b1[i].vs
        BY <2>2, <3>2 DEF Sub, Holds
      <4>2. Holds(b, i, x)
        BY <2>2, <4>1 DEF Holds
      <4>3. Fits(b[i].vs, H[x], 0)
        BY <2>1, <2>2, <4>1, <4>2 DEF Told
      <4> QED BY <4>1, <4>3
    <3> QED BY <3>1, <3>2
  <2> QED BY <2>1, <2>2 DEF Told
<1>3. Calm(H, r, b1, p, st)
  BY <1>1, <1>2 DEF Calm
<1> QED BY <1>3 DEF Calms

\* A reference that keeps its version.
LEMMA CalmSame ==
  ASSUME NEW r, NEW r1, NEW b, NEW p, NEW st, Calms(r, b, p, st),
         \A x \in Names : r1[x].path = r[x].path /\ (r1[x].stored => r[x].stored)
  PROVE  Calms(r1, b, p, st)
<1>1. PICK H : Calm(H, r, b, p, st)
  BY DEF Calms
<1>2. \A x \in Names : Told(H, r1, b, x)
  BY <1>1 DEF Calm, Told
<1>3. Calm(H, r1, b, p, st)
  BY <1>1, <1>2 DEF Calm
<1> QED BY <1>3 DEF Calms

\* The histories with that of x forgotten.
LEMMA Forgotten ==
  ASSUME NEW H, NEW p, NEW st, Lines(H, p, st), NEW x \in Names, NEW G,
         G = [y \in Names |-> G[y]], G[x] = <<>>, \A y \in Names : y # x => G[y] = H[y]
  PROVE  Lines(G, p, st) /\ End(G[x]) = 0
<1>1. G = [y \in Names |-> G[y]] /\ G[x] = <<>> /\ \A y \in Names : y # x => G[y] = H[y]
  OBVIOUS
<1>2. ASSUME NEW y \in Names PROVE G[y] \in Seq(Nat) /\ Line(G[y], p, st)
  <2>1. CASE y = x
    BY <1>1, <2>1 DEF Line
  <2>2. CASE y # x
    BY <1>1, <2>2 DEF Lines
  <2> QED BY <2>1, <2>2
<1>3. ASSUME NEW y \in Names, NEW z \in Names, y # z, NEW q \in DOMAIN G[y], NEW s \in DOMAIN G[z]
      PROVE  G[y][q] # G[z][s]
  <2>1. y # x /\ z # x
    BY <1>1, <1>3
  <2> QED BY <1>1, <1>3, <2>1 DEF Lines
<1> QED BY <1>1, <1>2, <1>3 DEF Lines, End

\* A reference that goes, or starts again where no log has a version; what was told of
\* its name before does not matter.
LEMMA CalmForgets ==
  ASSUME NEW r, NEW r1, NEW b, NEW p, NEW st, NEW H, Lines(H, p, st), Single(b), NEW x \in Names,
         \A y \in Names : y # x => Told(H, r, b, y) /\ r1[y] = r[y],
         r1[x].path = 0, ~r1[x].stored \/ Empty(b, x)
  PROVE  Calms(r1, b, p, st)
<1> DEFINE G == [H EXCEPT ![x] = <<>>]
<1>0. G = [y \in Names |-> G[y]] /\ G[x] = <<>> /\ \A y \in Names : y # x => G[y] = H[y]
  BY DEF Lines
<1> HIDE DEF G
<1>1. Lines(G, p, st) /\ G[x] = <<>> /\ End(G[x]) = 0 /\ \A y \in Names : y # x => G[y] = H[y]
  BY <1>0, Forgotten
<1>2. ASSUME NEW y \in Names PROVE Told(G, r1, b, y)
  <2>1. CASE y = x
    <3>1. ASSUME r1[x].stored, NEW i \in DOMAIN b, Holds(b, i, x) PROVE Fits(b[i].vs, G[x], 0)
      BY <3>1, EmptyFits DEF Empty
    <3> QED BY <1>1, <2>1, <3>1 DEF Told
  <2>2. CASE y # x
    BY <1>1, <2>2 DEF Told
  <2> QED BY <2>1, <2>2
<1>3. Calm(G, r1, b, p, st)
  BY <1>1, <1>2 DEF Calm
<1> QED BY <1>3 DEF Calms

\* What the logbook does to its logs.
LEMMA BookSub ==
  ASSUME Logs(book)
  PROVE  /\ Sub(book, book)
         /\ \A x \in Names : Sub(book, WriteDatasetInit(x))
         /\ \A x : Sub(book, RemoveLog(book, x))
         /\ \A i \in DOMAIN book : Sub(book, [book EXCEPT ![i].blank = FALSE])
         /\ \A i \in DOMAIN book : Sub(book, [book EXCEPT ![i].state = "removed"])
         /\ \A i \in DOMAIN book : Sub(book, [book EXCEPT ![i].minus = TRUE])
<1>1. Sub(book, book)
  BY DEF Sub
<1>2. ASSUME NEW x \in Names PROVE Sub(book, WriteDatasetInit(x))
  <2>1. LogAdded(book, WriteDatasetInit(x), x) /\ Len(book) \in Nat /\ DOMAIN book = 1 .. Len(book)
    BY LogBegun, Domains
  <2> DEFINE b1 == WriteDatasetInit(x)
  <2> HIDE DEF b1
  <2>2. ASSUME NEW i \in DOMAIN b1, b1[i].state = "live"
        PROVE  b1[i].vs = <<>> \/ (i \in DOMAIN book /\ book[i].state = "live" /\ book[i].name = b1[i].name /\ book[i].vs = b1[i].vs)
    <3>1. CASE i = Len(book) + 1
      BY <2>1, <3>1 DEF LogAdded, b1
    <3>2. CASE i # Len(book) + 1
      <4>1. i \in DOMAIN book
        BY <2>1, <2>2, <3>2 DEF LogAdded, b1
      <4> QED BY <2>1, <2>2, <4>1 DEF LogAdded, b1
    <3> QED BY <3>1, <3>2
  <2> QED BY <2>2 DEF Sub, b1
<1>3. ASSUME NEW x PROVE Sub(book, RemoveLog(book, x))
  <2>1. Fewer(book, RemoveLog(book, x), x)
    BY LogRemoved
  <2> QED BY <2>1 DEF Fewer, Sub
<1>4. ASSUME NEW i \in DOMAIN book, NEW b1, b1 = [book EXCEPT ![i].blank = FALSE] PROVE Sub(book, b1)
  <2>1. Updated(book, b1, i, book[i].state, book[i].name, book[i].vs, FALSE)
    BY <1>4, LogMarked
  <2> QED BY <2>1 DEF Updated, Sub
<1>5. ASSUME NEW i \in DOMAIN book, NEW b1, b1 = [book EXCEPT ![i].state = "removed"] PROVE Sub(book, b1)
  <2>1. Updated(book, b1, i, "removed", book[i].name, book[i].vs, book[i].blank)
    BY <1>5, LogState
  <2> QED BY <2>1 DEF Updated, Sub
<1>6. ASSUME NEW i \in DOMAIN book, NEW b1, b1 = [book EXCEPT ![i].minus = TRUE] PROVE Sub(book, b1)
  <2>1. Updated(book, b1, i, book[i].state, book[i].name, book[i].vs, book[i].blank)
    BY <1>6, LogMinus
  <2> QED BY <2>1 DEF Updated, Sub
<1> QED BY <1>1, <1>2, <1>3, <1>4, <1>5, <1>6

-----------------------------------------------------------------------------
(* The inductive invariant, and the steps that leave a request where it has    *)
(* done nothing or all of it.                                                  *)

\* No rename and no remove has failed, and no name has stood for two logs.
Clean == ~muddled /\ spoiled \intersect {"remove", "rename"} = {}

Whole(c) ==
  /\ Stock(refs, book, prev, store) /\ Fine(me[c], book)
  /\ Clean => Hists(me[c], refs, book, prev, store)

\* Clean was there before.
LEMMA Cleaner ==
  ASSUME NEW c, NoFault \/ Fault(c), muddled' = muddled \/ muddled' = (muddled \/ Twins(book'))
  PROVE  /\ Clean' => Clean
         /\ muddled' = (muddled \/ Twins(book')) => (Clean' => Single(book'))
         /\ Fault(c) /\ me[c].op \in {"remove", "rename"} => ~Clean'
<1>1. Clean' => Clean
  BY DEF Clean, NoFault, Fault
<1>2. muddled' = (muddled \/ Twins(book')) => (Clean' => Single(book'))
  BY DEF Clean, Twins, Single
<1>3. Fault(c) /\ me[c].op \in {"remove", "rename"} => ~Clean'
  BY DEF Clean, Fault
<1> QED BY <1>1, <1>2, <1>3

\* A rename or remove that fails.
LEMMA Spoils ==
  ASSUME NEW c, Stock(refs', book', prev', store'), Fine(me'[c], book'), ~Clean'
  PROVE  Whole(c)'
BY DEF Whole

\* References and logs are changed so that every reference has its history.
LEMMA Calms2 ==
  ASSUME NEW c, Stock(refs', book', prev', store'), Fine(me'[c], book'), me'[c].pc \in RestPcs,
         Clean' => Calms(refs', book', prev', store')
  PROVE  Whole(c)'
BY Resting DEF Whole

\* References are not changed.
LEMMA Rests ==
  ASSUME NEW c, Whole(c), me[c].pc \notin OffPcs, Fine(me'[c], book'), me'[c].pc \in RestPcs,
         refs' = refs, prev' = prev, store' = store, Clean' => Clean,
         book' = book \/ (Onward(book, book') /\ Sub(book, book') /\ (Clean' => Single(book')))
  PROVE  Whole(c)'
<1>1. Stock(refs', book', prev', store')
  BY StockGoesOn DEF Whole
<1>2. ASSUME Clean' PROVE Calms(refs', book', prev', store')
  <2>1. Calms(refs, book, prev, store)
    BY <1>2, RestedSome DEF Whole
  <2> QED BY <1>2, <2>1, CalmSub
<1> QED BY <1>1, <1>2, Calms2

\* The request returns from there.
LEMMA Returns ==
  ASSUME NEW c, Clients = {c}, World(c), Whole(c), me[c].pc \notin OffPcs, Return(c), NoFault \/ Fault(c), Nothing
  PROVE  Whole(c)'
<1>1. me'[c] = Idle
  BY DEF Return, World, Local
<1>2. refs' = refs /\ prev' = prev /\ store' = store /\ book' = book /\ muddled' = muddled
  BY DEF Nothing
<1>3. Fine(Idle, book) /\ Idle.pc = "idle" /\ Idle.pc \in RestPcs
  BY FineIdle DEF Whole, Stock, RestPcs
<1>4. Clean' => Clean
  BY <1>2, Cleaner
<1> HIDE DEF Idle
<1> QED BY <1>1, <1>2, <1>3, <1>4, Rests

\* It goes on from there.
LEMMA Goes ==
  ASSUME NEW c, Whole(c), me[c].pc \notin OffPcs, Alike(me[c], me'[c]), me[c].pc \notin {"idle", "ensure", "done"},
         me'[c].pc \notin {"rmResolve", "prepare"}, me'[c].pc \in Renaming => me[c].pc \in Renaming,
         me'[c].pc \in Removing => me[c].pc \in Removing, me'[c].pc \in RestPcs,
         NoFault \/ Fault(c), refs' = refs, prev' = prev, store' = store, book' = book, muddled' = muddled
  PROVE  Whole(c)'
<1>1. Fine(me'[c], book)
  BY FineOn DEF Whole
<1>2. Clean' => Clean
  BY Cleaner
<1> QED BY <1>1, <1>2, Rests

\* What a request that goes on keeps of itself.
LEMMA GoAlike ==
  ASSUME NEW c, Clients = {c}, World(c)
  PROVE  /\ \A p : Go(c, p) => Alike(me[c], me'[c]) /\ me'[c].pc = p
         /\ \A p : me' = [me EXCEPT ![c].pc = p, ![c].fresh = FALSE] => Alike(me[c], me'[c]) /\ me'[c].pc = p
         /\ \A p : me' = [me EXCEPT ![c].pc = "rollback", ![c].why = p] => Alike(me[c], me'[c]) /\ me'[c].pc = "rollback"
<1>0. DOMAIN me = Clients /\ DOMAIN me[c] = Fields
  BY DEF World, Local
<1>1. ASSUME NEW p, Go(c, p) PROVE Alike(me[c], me'[c]) /\ me'[c].pc = p
  BY <1>0, <1>1 DEF Go, Alike, Fields
<1>2. ASSUME NEW p, me' = [me EXCEPT ![c].pc = p, ![c].fresh = FALSE] PROVE Alike(me[c], me'[c]) /\ me'[c].pc = p
  BY <1>0, <1>2 DEF Alike, Fields
<1>3. ASSUME NEW p, me' = [me EXCEPT ![c].pc = "rollback", ![c].why = p]
      PROVE  Alike(me[c], me'[c]) /\ me'[c].pc = "rollback"
  BY <1>0, <1>3 DEF Alike, Fields
<1> QED BY <1>1, <1>2, <1>3

-----------------------------------------------------------------------------
(* The steps that change neither the references nor the logs, or a log that    *)
(* has no versions.                                                            *)

\* A request begins.
LEMMA RequestKeeps ==
  ASSUME NEW c, Clients = {c}, World(c), Whole(c), Request(c)
  PROVE  Whole(c)'
<1>0. DOMAIN me = Clients /\ Refs(refs)
  BY DEF World, Local
<1>1. me[c].pc = "idle" /\ me[c].pc \notin OffPcs
  <2>1. At(c, "idle")
    BY DEF Request, Save, Rename, Remove, InitDataset, Checkout, Unlink, EnsureRef, Write, Restore, SetFiles, Begin
  <2> QED BY <2>1 DEF At, OffPcs
<1>3. Logs(book) /\ Len(book) \in Nat
  BY Domains DEF Whole, Stock
<1>4. ASSUME NEW q, Begin(c, q), Fine(q, book), q.pc \in RestPcs PROVE Whole(c)'
  <2>1. me'[c] = q
    BY <1>0, <1>4 DEF Begin
  <2>2. refs' = refs /\ book' = book /\ prev' = prev /\ store' = store /\ muddled' = muddled /\ NoFault
    BY <1>4 DEF Begin
  <2>3. Clean' => Clean
    BY <2>2, Cleaner
  <2> QED BY <1>1, <1>4, <2>1, <2>2, <2>3, Rests
<1>5. CASE Save(c)
  <2>1. PICK x \in Names : Begin(c, [Idle EXCEPT !.op = "save", !.pc = "prepare", !.name = x])
    BY <1>5 DEF Save
  <2> DEFINE q == [Idle EXCEPT !.op = "save", !.pc = "prepare", !.name = x]
  <2>2. q.pc = "prepare" /\ q.name = x /\ q.path = 0 /\ q.at = 0 /\ q.id = 0 /\ q.n = 0
    BY DEF Idle
  <2>3. Begin(c, q)
    BY <2>1
  <2> HIDE DEF q
  <2>4. Fine(q, book) /\ q.pc \in RestPcs
    BY <1>3, <2>2 DEF Fine, Renaming, Removing, RestPcs
  <2> QED BY <1>4, <2>3, <2>4
<1>6. CASE Rename(c)
  <2>1. PICK x \in Names, y \in Names : x # y /\ Begin(c, [Idle EXCEPT !.op = "rename", !.pc = "renResolve", !.name = x, !.next = y])
    BY <1>6 DEF Rename
  <2> DEFINE q == [Idle EXCEPT !.op = "rename", !.pc = "renResolve", !.name = x, !.next = y]
  <2>2. /\ q.op = "rename" /\ q.pc = "renResolve" /\ q.name = x /\ q.next = y
        /\ q.path = 0 /\ q.at = 0 /\ q.id = 0 /\ q.n = 0
    BY DEF Idle
  <2>3. Begin(c, q)
    BY <2>1
  <2> HIDE DEF q
  <2>4. Fine(q, book) /\ q.pc \in RestPcs
    BY <1>3, <2>1, <2>2 DEF Fine, Renaming, Removing, RestPcs
  <2> QED BY <1>4, <2>3, <2>4
<1>7. CASE Remove(c)
  <2>1. PICK x \in Names, n \in {All, 1, 2}, keep \in BOOLEAN, force \in BOOLEAN :
          Begin(c, [Idle EXCEPT !.op = "remove", !.pc = "rmResolve", !.name = x, !.n = n, !.keep = keep,
                                !.force = force])
    BY <1>7 DEF Remove
  <2> DEFINE q == [Idle EXCEPT !.op = "remove", !.pc = "rmResolve", !.name = x, !.n = n, !.keep = keep,
                               !.force = force]
  <2>2. q.op = "remove" /\ q.pc = "rmResolve" /\ q.name = x /\ q.path = 0 /\ q.at = 0 /\ q.id = 0 /\ q.n = n
    BY DEF Idle
  <2>3. Begin(c, q)
    BY <2>1
  <2> HIDE DEF q
  <2>4. Fine(q, book) /\ q.pc \in RestPcs
    BY <1>3, <2>2 DEF Fine, Renaming, Removing, RestPcs, All
  <2> QED BY <1>4, <2>3, <2>4
<1>8. CASE InitDataset(c)
  <2> DEFINE q(x, d) == [Idle EXCEPT !.op = "init", !.pc = "iniCheck", !.name = x, !.dir = d,
                          !.before = [refs |-> refs, dirs |-> dirs, known |-> RefToInitID(x) # 0]]
  <2>1. PICK x \in Names, d \in Dirs : Begin(c, q(x, d))
    BY <1>8 DEF InitDataset
  <2> DEFINE q1 == q(x, d)
  <2>2. q1.pc = "iniCheck" /\ q1.name = x /\ q1.path = 0 /\ q1.at = 0 /\ q1.id = 0 /\ q1.n = 0
    BY DEF Idle
  <2>3. Begin(c, q1)
    BY <2>1
  <2> HIDE DEF q1
  <2>4. Fine(q1, book) /\ q1.pc \in RestPcs
    BY <1>3, <2>2 DEF Fine, Renaming, Removing, RestPcs
  <2> QED BY <1>4, <2>3, <2>4
<1>9. CASE Checkout(c)
  <2>1. PICK x \in Names, d \in Dirs : Begin(c, [Idle EXCEPT !.op = "checkout", !.pc = "outCheck", !.name = x, !.dir = d])
    BY <1>9 DEF Checkout
  <2> DEFINE q == [Idle EXCEPT !.op = "checkout", !.pc = "outCheck", !.name = x, !.dir = d]
  <2>2. q.pc = "outCheck" /\ q.name = x /\ q.path = 0 /\ q.at = 0 /\ q.id = 0 /\ q.n = 0
    BY DEF Idle
  <2>3. Begin(c, q)
    BY <2>1
  <2> HIDE DEF q
  <2>4. Fine(q, book) /\ q.pc \in RestPcs
    BY <1>3, <2>2 DEF Fine, Renaming, Removing, RestPcs
  <2> QED BY <1>4, <2>3, <2>4
<1>10. CASE Unlink(c)
  <2> DEFINE q(x) == [Idle EXCEPT !.op = "unlink", !.pc = "unlinkFile", !.name = x, !.path = refs[x].path,
                                  !.dir = refs[x].fsi]
  <2>1. PICK x \in Names : Begin(c, q(x))
    BY <1>10 DEF Unlink
  <2> DEFINE q1 == q(x)
  <2>2. q1.pc = "unlinkFile" /\ q1.name = x /\ q1.path = refs[x].path /\ q1.at = 0 /\ q1.id = 0 /\ q1.n = 0
    BY DEF Idle
  <2>3. Begin(c, q1)
    BY <2>1
  <2> HIDE DEF q1
  <2>4. Fine(q1, book) /\ q1.pc \in RestPcs
    BY <1>3, <2>2 DEF Fine, Renaming, Removing, RestPcs, Whole, Stock
  <2> QED BY <1>4, <2>3, <2>4
<1>11. CASE EnsureRef(c)
  <2> DEFINE q(d) == [Idle EXCEPT !.op = "ensure", !.pc = "ensure", !.name = dirs[d].link, !.dir = d]
  <2>1. PICK d \in Dirs : Begin(c, q(d))
    BY <1>11 DEF EnsureRef
  <2> DEFINE q1 == q(d)
  <2>2. q1.pc = "ensure" /\ q1.path = 0 /\ q1.at = 0 /\ q1.id = 0 /\ q1.n = 0
    BY DEF Idle
  <2>3. Begin(c, q1)
    BY <2>1
  <2> HIDE DEF q1
  <2>4. Fine(q1, book) /\ q1.pc \in RestPcs
    BY <1>3, <2>2 DEF Fine, Renaming, Removing, RestPcs
  <2> QED BY <1>4, <2>3, <2>4
<1>12. CASE Write(c) \/ Restore(c)
  <2>1. /\ me'[c] = me[c] /\ NoFault
        /\ refs' = refs /\ book' = book /\ prev' = prev /\ store' = store /\ muddled' = muddled
    BY <1>12 DEF Write, Restore, SetFiles
  <2>2. Clean' => Clean
    BY <2>1, Cleaner
  <2>3. Fine(me'[c], book') /\ me'[c].pc \in RestPcs
    BY <1>1, <2>1 DEF Whole, RestPcs
  <2> QED BY <1>1, <2>1, <2>2, <2>3, Rests
<1> QED BY <1>5, <1>6, <1>7, <1>8, <1>9, <1>10, <1>11, <1>12 DEF Request

\* A request that is where it was.
LEMMA HistAlike ==
  ASSUME NEW m, NEW m1, NEW r, NEW b, NEW p, NEW st, Alike(m, m1), m1.pc = m.pc, m1.left = m.left, Hists(m, r, b, p, st)
  PROVE  Hists(m1, r, b, p, st)
<1>1. PICK H : Hist(H, m, r, b, p, st)
  BY DEF Hists
<1>2. HistPcs(H, m1, r, b, p, st)
  <2>1. HistPcs(H, m, r, b, p, st)
    BY <1>1 DEF Hist
  <2> QED BY <2>1 DEF HistPcs, Alike
<1>3. Hist(H, m1, r, b, p, st)
  BY <1>1, <1>2 DEF Hist, Alike
<1> QED BY <1>3 DEF Hists

\* The refstore is read, a directory is changed by hand.
LEMMA ReadRefsKeeps ==
  ASSUME NEW c, Clients = {c}, World(c), Whole(c), ReadRefs(c)
  PROVE  Whole(c)'
<1>0. DOMAIN me = Clients /\ DOMAIN me[c] = Fields
  BY DEF World, Local
<1>1. me' = [me EXCEPT ![c].held = refs, ![c].fresh = TRUE]
  BY DEF ReadRefs
<1>2. refs' = refs /\ book' = book /\ prev' = prev /\ store' = store /\ muddled' = muddled /\ NoFault
  BY DEF ReadRefs, Nothing
<1>3. Alike(me[c], me'[c]) /\ me'[c].pc = me[c].pc /\ me'[c].left = me[c].left
  BY <1>0, <1>1 DEF Fields, Alike
<1>4. Fine(me'[c], book)
  BY <1>3 DEF Fine, Alike, Whole
<1>5. Clean' => Clean
  BY <1>2, Cleaner
<1>6. Clean' => Hists(me'[c], refs, book, prev, store)
  BY <1>3, <1>5, HistAlike DEF Whole
<1> QED BY <1>2, <1>4, <1>6 DEF Whole

\* Directories changed by hand.
LEMMA ByHandKeeps ==
  ASSUME NEW c, Clients = {c}, World(c), Whole(c), ByHand
  PROVE  Whole(c)'
<1>1. me[c].pc = "idle" /\ me'[c] = me[c]
  BY DEF ByHand, At
<1>2. refs' = refs /\ book' = book /\ prev' = prev /\ store' = store /\ muddled' = muddled /\ NoFault
  BY DEF ByHand
<1>3. Fine(me'[c], book') /\ me'[c].pc \in RestPcs /\ me[c].pc \notin OffPcs
  BY <1>1, <1>2 DEF Whole, RestPcs, OffPcs
<1>4. Clean' => Clean
  BY <1>2, Cleaner
<1> QED BY <1>2, <1>3, <1>4, Rests

\* Where steps that change directories at most go on to.
Ways == {"cleanup", "iniLog", "rolled", "iniFiles", "rollback", "outFiles", "unlinkRef"}

\* Steps that return or go on there.
LEMMA Leads ==
  ASSUME NEW c, Clients = {c}, World(c), Whole(c), me[c].pc \notin OffPcs, NoFault \/ Fault(c),
         refs' = refs, book' = book, prev' = prev, store' = store, muddled' = muddled,
         Return(c) \/ (me[c].pc \notin {"idle", "ensure", "done"} /\ \E p : RollBack(c, p) \/ (p \in Ways /\ Go(c, p)))
  PROVE  Whole(c)'
<1>0. DOMAIN me = Clients /\ Logs(book)
  BY DEF World, Local, Whole, Stock
<1>1. CASE Return(c)
  <2>1. me'[c] = Idle
    BY <1>0, <1>1 DEF Return
  <2>2. Fine(Idle, book) /\ Idle.pc \in RestPcs
    BY <1>0, FineIdle DEF RestPcs
  <2>3. Clean' => Clean
    BY Cleaner
  <2> HIDE DEF Idle
  <2> QED BY <2>1, <2>2, <2>3, Rests
<1>2. ASSUME NEW p, me[c].pc \notin {"idle", "ensure", "done"}, RollBack(c, p) \/ (p \in Ways /\ Go(c, p)) PROVE Whole(c)'
  <2>1. Alike(me[c], me'[c]) /\ me'[c].pc \in Ways
    BY <1>2, GoAlike DEF RollBack, Ways
  <2>2. /\ me'[c].pc \notin {"rmResolve", "prepare"} /\ me'[c].pc \notin Renaming /\ me'[c].pc \notin Removing
        /\ me'[c].pc \in RestPcs
    BY <2>1 DEF Ways, Renaming, Removing, RestPcs
  <2> QED BY <1>2, <2>1, <2>2, Goes
<1> QED BY <1>1, <1>2

\* The steps that write files and link files, and the last ones of a request.
LEMMA FilesKeep ==
  ASSUME NEW c, Clients = {c}, World(c), Whole(c),
         \/ WriteComponents(c) \/ RenameLink(c) \/ RemoveFiles(c) \/ CheckInit(c) \/ InitLink(c) \/ InitFiles(c)
         \/ InitFailed(c) \/ CheckoutLink(c) \/ CheckoutFiles(c) \/ UnlinkFile(c) \/ Done(c)
  PROVE  Whole(c)'
<1> DEFINE Same1 == refs' = refs /\ book' = book /\ prev' = prev /\ store' = store /\ muddled' = muddled
           Way == \E p : RollBack(c, p) \/ (p \in Ways /\ Go(c, p))
           Fit == /\ me[c].pc \notin OffPcs /\ (NoFault \/ Fault(c)) /\ Same1
                  /\ Return(c) \/ (me[c].pc \notin {"idle", "ensure", "done"} /\ Way)
<1>1. CASE WriteComponents(c)
  <2>1. Fit
    BY <1>1 DEF WriteComponents, At, OffPcs, DirsOnly
  <2> QED BY <2>1, Leads
<1>2. CASE RenameLink(c)
  <2>1. Fit
    BY <1>2 DEF RenameLink, At, OffPcs, DirsOnly, Nothing
  <2> QED BY <2>1, Leads
<1>3. CASE RemoveFiles(c)
  <2>1. Fit
    BY <1>3 DEF RemoveFiles, At, OffPcs, DirsOnly, Nothing
  <2> QED BY <2>1, Leads
<1>4. CASE CheckInit(c)
  <2>1. Go(c, "iniLog") \/ Go(c, "rolled")
    BY <1>4 DEF CheckInit
  <2>2. Way
    BY <2>1 DEF Ways
  <2>3. Fit
    <3> HIDE DEF Way
    <3> QED BY <1>4, <2>2 DEF CheckInit, At, OffPcs, DirsOnly
  <2> QED BY <2>3, Leads
<1>5. CASE InitLink(c)
  <2>1. Go(c, "iniFiles") \/ RollBack(c, "link")
    BY <1>5 DEF InitLink
  <2>2. Way
    BY <2>1 DEF Ways
  <2>3. Fit
    <3> HIDE DEF Way
    <3> QED BY <1>5, <2>2 DEF InitLink, At, OffPcs, DirsOnly
  <2> QED BY <2>3, Leads
<1>6. CASE InitFiles(c)
  <2>1. Return(c) \/ RollBack(c, "files")
    BY <1>6 DEF InitFiles
  <2>2. Return(c) \/ Way
    BY <2>1
  <2>3. Fit
    <3> HIDE DEF Way
    <3> QED BY <1>6, <2>2 DEF InitFiles, At, OffPcs, DirsOnly, Nothing
  <2> QED BY <2>3, Leads
<1>7. CASE InitFailed(c)
  <2>1. Fit
    BY <1>7 DEF InitFailed, At, OffPcs, Nothing
  <2> QED BY <2>1, Leads
<1>8. CASE CheckoutLink(c)
  <2>1. Return(c) \/ Go(c, "outFiles")
    BY <1>8 DEF CheckoutLink
  <2>2. Return(c) \/ Way
    BY <2>1 DEF Ways
  <2>3. Fit
    <3> HIDE DEF Way
    <3> QED BY <1>8, <2>2 DEF CheckoutLink, At, OffPcs, DirsOnly
  <2> QED BY <2>3, Leads
<1>9. CASE CheckoutFiles(c)
  <2>1. Fit
    BY <1>9 DEF CheckoutFiles, At, OffPcs, DirsOnly
  <2> QED BY <2>1, Leads
<1>10. CASE UnlinkFile(c)
  <2>1. Go(c, "unlinkRef")
    BY <1>10 DEF UnlinkFile
  <2>2. Way
    BY <2>1 DEF Ways
  <2>3. Fit
    <3> HIDE DEF Way
    <3> QED BY <1>10, <2>2 DEF UnlinkFile, At, OffPcs, DirsOnly
  <2> QED BY <2>3, Leads
<1>11. CASE Done(c)
  <2>1. Fit
    BY <1>11 DEF Done, At, OffPcs, Nothing
  <2> QED BY <2>1, Leads
<1> QED BY <1>1, <1>2, <1>3, <1>4, <1>5, <1>6, <1>7, <1>8, <1>9, <1>10, <1>11

\* A checkout begins with the version the reference has.
LEMMA CheckCheckoutKeeps ==
  ASSUME NEW c, Clients = {c}, World(c), Whole(c), CheckCheckout(c)
  PROVE  Whole(c)'
<1>0. DOMAIN me = Clients /\ DOMAIN me[c] = Fields
  BY DEF World, Local
<1>1. /\ me[c].pc = "outCheck" /\ me[c].pc \notin OffPcs /\ NoFault
      /\ refs' = refs /\ book' = book /\ prev' = prev /\ store' = store /\ muddled' = muddled
  BY DEF CheckCheckout, At, OffPcs, DirsOnly
<1>2. CASE Return(c)
  BY <1>1, <1>2, Leads
<1>3. CASE me' = [me EXCEPT ![c].pc = "outPut", ![c].at = refs[me[c].name].path]
  <2>1. /\ me'[c].pc = "outPut" /\ me'[c].name = me[c].name /\ me'[c].n = me[c].n
        /\ me'[c].id = me[c].id /\ me'[c].path = me[c].path /\ me'[c].at = refs[me[c].name].path
    BY <1>0, <1>3 DEF Fields
  <2>2. Fine(me'[c], book') /\ me'[c].pc \in RestPcs
    BY <1>1, <2>1 DEF Whole, Stock, Fine, Renaming, Removing, RestPcs
  <2>3. Clean' => Clean
    BY <1>1, Cleaner
  <2> QED BY <1>1, <2>2, <2>3, Rests
<1> QED BY <1>2, <1>3 DEF CheckCheckout

\* What a failed save leaves of its log is empty, or was there.
LEMMA SubSteps ==
  ASSUME NEW c, Clients = {c}, World(c), Whole(c), me[c].pc \notin OffPcs, NoFault \/ Fault(c),
         refs' = refs, prev' = prev, store' = store, muddled' = (muddled \/ Twins(book')),
         Onward(book, book'), Sub(book, book'),
         \/ Return(c)
         \/ me[c].pc \notin {"idle", "ensure", "done"} /\ \E p : RollBack(c, p) \/ (p \in Ways /\ Go(c, p))
  PROVE  Whole(c)'
<1>0. DOMAIN me = Clients /\ Logs(book) /\ Logs(book')
  BY DEF World, Local, Whole, Stock, Onward
<1>c. (Clean' => Clean) /\ (Clean' => Single(book'))
  BY Cleaner
<1>1. CASE Return(c)
  <2>1. me'[c] = Idle
    BY <1>0, <1>1 DEF Return
  <2>2. Fine(Idle, book') /\ Idle.pc \in RestPcs
    BY <1>0, FineIdle DEF RestPcs
  <2> HIDE DEF Idle
  <2> QED BY <1>c, <2>1, <2>2, Rests
<1>2. ASSUME NEW p, me[c].pc \notin {"idle", "ensure", "done"}, RollBack(c, p) \/ (p \in Ways /\ Go(c, p)) PROVE Whole(c)'
  <2>1. Alike(me[c], me'[c]) /\ me'[c].pc \in Ways
    BY <1>2, GoAlike DEF RollBack, Ways
  <2>2. /\ me'[c].pc \notin {"rmResolve", "prepare"} /\ me'[c].pc \notin Renaming /\ me'[c].pc \notin Removing
        /\ me'[c].pc \in RestPcs
    BY <2>1 DEF Ways, Renaming, Removing, RestPcs
  <2>3. Fine(me'[c], book)
    BY <1>2, <2>1, <2>2, FineOn DEF Whole
  <2>4. Fine(me'[c], book')
    BY <1>0, <2>3, FineBook
  <2> QED BY <1>c, <2>2, <2>4, Rests
<1> QED BY <1>1, <1>2

\* A failed save takes its log away.
LEMMA CleanupKeeps ==
  ASSUME NEW c, Clients = {c}, World(c), Whole(c), Cleanup(c)
  PROVE  Whole(c)'
<1>0. Logs(book)
  BY DEF Whole, Stock
<1>1. Onward(book, book') /\ Sub(book, book')
  BY <1>0, BookGoesOn, BookSub DEF Cleanup
<1> QED BY <1>1, SubSteps DEF Cleanup, At, OffPcs, BookOnly

\* A save that is refused, perhaps after a run was recorded.
LEMMA SaveRefusedKeeps ==
  ASSUME NEW c, Clients = {c}, World(c), Whole(c), SaveRefused(c)
  PROVE  Whole(c)'
<1>0. Logs(book) /\ Len(book) \in Nat /\ DOMAIN book = 1 .. Len(book) /\ me[c].id \in 0 .. Len(book)
  BY Domains DEF Whole, Stock, Fine
<1>1. Onward(book, book') /\ Sub(book, book')
  <2>1. CASE book' = book
    BY <1>0, <2>1, BookGoesOn, BookSub
  <2>2. CASE Writable(me[c].id) /\ book' = [book EXCEPT ![me[c].id].blank = FALSE]
    <3>1. me[c].id \in DOMAIN book
      BY <1>0, <2>2 DEF Writable
    <3> QED BY <1>0, <2>2, <3>1, BookGoesOn, BookSub
  <2> QED BY <2>1, <2>2 DEF SaveRefused
<1>2. Return(c) \/ Go(c, "cleanup")
  BY DEF SaveRefused, Failed
<1>3. Return(c) \/ \E p : RollBack(c, p) \/ (p \in Ways /\ Go(c, p))
  BY <1>2 DEF Ways
<1> QED BY <1>1, <1>3, SubSteps DEF SaveRefused, At, OffPcs, BookAndRuns

-----------------------------------------------------------------------------
(* A save. *)

\* A request where every reference has its history.
LEMMA Paused ==
  ASSUME NEW H, NEW m, NEW r, NEW b, NEW p, NEW st, Calm(H, r, b, p, st), HistPcs(H, m, r, b, p, st)
  PROVE  Hists(m, r, b, p, st)
<1>1. Hist(H, m, r, b, p, st)
  BY DEF Hist, Calm
<1> QED BY <1>1 DEF Hists

\* A history is one of versions that are there.
LEMMA Ends ==
  ASSUME NEW H, NEW p, NEW st, Lines(H, p, st), NEW x \in Names
  PROVE  /\ Len(H[x]) \in Nat /\ DOMAIN H[x] = 1 .. Len(H[x])
         /\ H[x] # <<>> <=> Len(H[x]) # 0
         /\ H[x] # <<>> => End(H[x]) = H[x][Len(H[x])] /\ Len(H[x]) \in DOMAIN H[x] /\ End(H[x]) \in st
         /\ H[x] = <<>> => End(H[x]) = 0
<1>1. H[x] \in Seq(Nat) /\ Line(H[x], p, st)
  BY DEF Lines
<1> DEFINE h == H[x]
<1> HIDE DEF h
<1>2. Len(h) \in Nat /\ DOMAIN h = 1 .. Len(h) /\ (h # <<>> <=> Len(h) # 0)
  BY <1>1 DEF h
<1> QED BY <1>1, <1>2 DEF Line, End, h

\* The logs of one name that has its history.
LEMMA FitsOne ==
  ASSUME NEW H, NEW r, NEW b, NEW x, NEW i, Told(H, r, b, x), r[x].stored, Holds(b, i, x)
  PROVE  Fits(b[i].vs, H[x], 0)
BY DEF Told, Holds

\* A save finds its dataset, or begins a log.
LEMMA PrepareSaveRefKeeps ==
  ASSUME NEW c, Clients = {c}, World(c), Whole(c), PrepareSaveRef(c)
  PROVE  Whole(c)'
<1> DEFINE m == me[c]
           m1 == me'[c]
           x == m.name
           i == RefToInitID(x)
<1>0. DOMAIN me = Clients /\ DOMAIN m = Fields /\ Refs(refs)
  BY DEF World, Local
<1>1. m.pc = "prepare" /\ m.pc \notin OffPcs
  BY DEF PrepareSaveRef, At, OffPcs
<1>2. Stock(refs, book, prev, store) /\ Fine(m, book) /\ Logs(book) /\ Len(book) \in Nat /\ x \in Names /\ m.path = 0
  BY <1>1, Domains DEF Whole, Stock, Fine
<1>3. i \in 0 .. Len(book) /\ (i # 0 => Holds(book, i, x))
  BY <1>2, LogOf DEF Holds
<1>4. CASE Return(c) /\ NoFault /\ Nothing
  BY <1>1, <1>4, Returns
<1>5. CASE /\ refs[x].stored /\ i # 0
           /\ me' = [me EXCEPT ![c].pc = "working", ![c].id = i, ![c].path = refs[x].path]
           /\ NoFault /\ Nothing
  <2>1. /\ m1.pc = "working" /\ m1.name = x /\ m1.n = m.n /\ m1.id = i /\ m1.path = refs[x].path /\ m1.at = m.at
    BY <1>0, <1>5 DEF Fields
  <2>2. refs' = refs /\ prev' = prev /\ store' = store /\ book' = book /\ muddled' = muddled
    BY <1>5 DEF Nothing
  <2> HIDE DEF m, m1, x, i
  <2>3. Fine(m1, book)
    BY <1>2, <1>3, <2>1 DEF Fine, Stock, Renaming, Removing
  <2>4. ASSUME Clean' PROVE Hists(m1, refs, book, prev, store)
    <3>1. Clean
      BY <1>5, <2>2, <2>4, Cleaner
    <3>2. PICK H : Calm(H, refs, book, prev, store)
      BY <1>1, <3>1, RestedSome DEF Whole, Calms, m
    <3>3. Told(H, refs, book, x)
      BY <1>2, <3>2 DEF Calm
    <3>4. Fits(book[i].vs, H[x], 0) /\ refs[x].path = End(H[x])
      BY <1>3, <1>5, <3>3, FitsOne DEF Told
    <3>5. HistPcs(H, m1, refs, book, prev, store)
      BY <1>3, <1>5, <2>1, <3>4 DEF HistPcs
    <3> QED BY <3>2, <3>5, Paused
  <2> QED BY <1>2, <2>2, <2>3, <2>4 DEF Whole, m1
<1>6. CASE /\ ~refs[x].stored /\ book' = WriteDatasetInit(x)
           /\ me' = [me EXCEPT ![c].pc = "working", ![c].id = Len(book) + 1, ![c].new = TRUE]
           /\ NoFault /\ BookOnly
  <2>1. /\ m1.pc = "working" /\ m1.name = x /\ m1.n = m.n /\ m1.id = Len(book) + 1 /\ m1.path = m.path /\ m1.at = m.at
    BY <1>0, <1>6 DEF Fields
  <2>2. refs' = refs /\ prev' = prev /\ store' = store /\ muddled' = (muddled \/ Twins(book'))
    BY <1>6 DEF BookOnly
  <2>3. LogAdded(book, book', x) /\ Onward(book, book') /\ Len(book') = Len(book) + 1 /\ Sub(book, book')
    BY <1>2, <1>6, LogBegun, BookGoesOn, BookSub
  <2> HIDE DEF m, m1, x, i
  <2>4. Fine(m1, book')
    BY <1>2, <2>1, <2>3 DEF Fine, Renaming, Removing
  <2>5. ASSUME Clean' PROVE Hists(m1, refs, book', prev, store)
    <3>1. Clean /\ Single(book')
      BY <1>6, <2>2, <2>5, Cleaner
    <3>2. Calms(refs, book, prev, store)
      BY <1>1, <3>1, RestedSome DEF Whole, m
    <3>3. PICK H : Calm(H, refs, book', prev, store)
      BY <2>3, <3>1, <3>2, CalmSub DEF Calms
    <3>4. refs[x].path = End(H[x])
      BY <1>2, <3>3 DEF Calm, Told
    <3>5. refs[x].path = 0
      BY <1>0, <1>2, <1>6 DEF Refs, NoRef
    <3>6. Holds(book', Len(book) + 1, x) /\ book'[Len(book) + 1].vs = <<>>
      BY <1>2, <2>3 DEF LogAdded, Holds
    <3>7. Fits(book'[Len(book) + 1].vs, H[x], 0)
      BY <3>6, EmptyFits
    <3>8. HistPcs(H, m1, refs, book', prev, store)
      BY <1>2, <2>1, <3>4, <3>5, <3>6, <3>7 DEF HistPcs
    <3> QED BY <3>3, <3>8, Paused
  <2>6. Stock(refs, book', prev, store)
    BY <1>2, <2>3, StockGoesOn
  <2> QED BY <2>2, <2>4, <2>5, <2>6 DEF Whole, m1
<1>7. CASE Fault(c) /\ book' \in {book, WriteDatasetInit(x)} /\ Return(c) /\ BookOnly
  <2>1. Onward(book, book') /\ Sub(book, book')
    BY <1>2, <1>7, BookGoesOn, BookSub
  <2> QED BY <1>1, <1>7, <2>1, SubSteps DEF BookOnly
<1> QED BY <1>4, <1>5, <1>6, <1>7 DEF PrepareSaveRef

\* It reads the files of the working directory.
LEMMA ReadWorkingDirKeeps ==
  ASSUME NEW c, Clients = {c}, World(c), Whole(c), ReadWorkingDir(c)
  PROVE  Whole(c)'
<1> DEFINE m == me[c]
           m1 == me'[c]
<1>0. DOMAIN me = Clients /\ DOMAIN m = Fields
  BY DEF World, Local
<1>1. m.pc = "working" /\ m.pc \notin OffPcs /\ NoFault /\ Nothing
  BY DEF ReadWorkingDir, At, OffPcs
<1>2. CASE Return(c)
  BY <1>1, <1>2, Returns
<1>3. CASE Go(c, "write") \/ me' = [me EXCEPT ![c].pc = "write", ![c].fsi = refs[me[c].name].fsi]
  <2>1. Alike(m, m1) /\ m1.pc = "write"
    BY <1>0, <1>3 DEF Fields, Go, Alike
  <2>2. refs' = refs /\ prev' = prev /\ store' = store /\ book' = book /\ muddled' = muddled
    BY <1>1 DEF Nothing
  <2> HIDE DEF m, m1
  <2>3. Fine(m1, book)
    BY <1>1, <2>1, FineOn DEF Whole, Renaming, Removing, m
  <2>4. ASSUME Clean' PROVE Hists(m1, refs, book, prev, store)
    <3>1. Clean
      BY <1>1, <2>2, <2>4, Cleaner
    <3>2. PICK H : Hist(H, m, refs, book, prev, store)
      BY <3>1 DEF Whole, Hists, m
    <3>3. HistPcs(H, m1, refs, book, prev, store)
      BY <1>1, <2>1, <3>2 DEF HistPcs, Hist, Alike
    <3>4. Calm(H, refs, book, prev, store)
      BY <1>1, <3>2, Rested
    <3> QED BY <3>3, <3>4, Paused
  <2> QED BY <2>2, <2>3, <2>4 DEF Whole, m1
<1> QED BY <1>2, <1>3 DEF ReadWorkingDir

\* A version more in the store.
LEMMA StoreGrows ==
  ASSUME NEW H, NEW p, NEW st, st \subseteq DOMAIN p, Lines(H, p, st), NEW v, v \notin DOMAIN p,
         NEW p1, \A k \in DOMAIN p : p1[k] = p[k], NEW s1, s1 = st \union {v}
  PROVE  Lines(H, p1, s1) /\ \A y \in Names : \A q \in DOMAIN H[y] : H[y][q] # v
<1>2. ASSUME NEW y \in Names PROVE Line(H[y], p1, s1) /\ \A q \in DOMAIN H[y] : H[y][q] # v
  <2>1. Line(H[y], p, st)
    BY DEF Lines
  <2>2. ASSUME NEW q \in DOMAIN H[y] PROVE H[y][q] \in DOMAIN p /\ H[y][q] \in s1 /\ p1[H[y][q]] = p[H[y][q]]
    BY <2>1 DEF Line
  <2> QED BY <2>1, <2>2 DEF Line
<1> QED BY <1>2 DEF Lines

\* It writes the version that comes after the newest one.
LEMMA WriteVersionKeeps ==
  ASSUME NEW c, Clients = {c}, World(c), Whole(c), WriteVersion(c)
  PROVE  Whole(c)'
<1> DEFINE m == me[c]
           m1 == me'[c]
           v == Len(prev) + 1
<1>0. DOMAIN me = Clients /\ DOMAIN m = Fields
  BY DEF World, Local
<1>1. m.pc = "write" /\ m.pc \notin OffPcs
  BY DEF WriteVersion, At, OffPcs
<1>2. /\ Stock(refs, book, prev, store) /\ Fine(m, book) /\ m.path \in Nat /\ m.name \in Names
      /\ prev \in Seq(Nat) /\ Len(prev) \in Nat /\ store \subseteq DOMAIN prev /\ DOMAIN prev = 1 .. Len(prev)
  BY <1>1 DEF Whole, Stock, Fine
<1>3. CASE (NoFault \/ Fault(c)) /\ Failed(c) /\ Nothing
  <2>1. Return(c) \/ Go(c, "cleanup")
    BY <1>3 DEF Failed
  <2>2. Return(c) \/ \E p : RollBack(c, p) \/ (p \in Ways /\ Go(c, p))
    BY <2>1 DEF Ways
  <2> QED BY <1>1, <1>3, <2>2, Leads DEF Nothing
<1>4. CASE /\ m.path # 0 => m.path \in store
           /\ prev' = Append(prev, m.path) /\ store' = store \union {v}
           /\ me' = [me EXCEPT ![c].at = v, ![c].pc = IF m.path = 0 THEN "putRef" ELSE "dropRef"]
           /\ NoFault /\ StoreOnly
  <2>1. /\ m1.pc \in {"putRef", "dropRef"} /\ m1.name = m.name /\ m1.n = m.n /\ m1.id = m.id
        /\ m1.path = m.path /\ m1.at = v
    BY <1>0, <1>4 DEF Fields
  <2>2. refs' = refs /\ book' = book /\ muddled' = muddled
    BY <1>4 DEF StoreOnly
  <2>3. v \in Nat /\ m.path \in 0 .. Len(prev)
    BY <1>2, <1>4
  <2>4. Stock(refs, book, prev', store')
    BY <1>2, <1>4, <2>3, StockGoesOn
  <2> HIDE DEF m, m1
  <2>5. Fine(m1, book)
    BY <1>1, <1>2, <2>1, <2>3 DEF Fine, Renaming, Removing
  <2>6. ASSUME Clean' PROVE Hists(m1, refs, book, prev', store')
    <3>1. Clean
      BY <1>4, <2>2, <2>6, Cleaner
    <3>2. PICK H : Hist(H, m, refs, book, prev, store)
      BY <3>1 DEF Whole, Hists, m
    <3>a. Lines(H, prev, store)
      BY <3>2 DEF Hist
    <3>b. v \notin DOMAIN prev /\ store' = store \union {v} /\ prev'[v] = m.path /\ \A k \in DOMAIN prev : prev'[k] = prev[k]
      BY <1>2, <1>4 DEF m
    <3> HIDE DEF v
    <3>3. /\ Lines(H, prev', store') /\ v \in store' /\ prev'[v] = m.path
          /\ \A y \in Names : \A q \in DOMAIN H[y] : H[y][q] # v
      BY <1>2, <3>a, <3>b, StoreGrows
    <3>4. Holds(book, m.id, m.name) /\ m.path = End(H[m.name]) /\ Fits(book[m.id].vs, H[m.name], 0)
      BY <1>1, <3>2 DEF Hist, HistPcs
    <3>5. \A y \in Names : Told(H, refs, book, y)
      BY <1>1, <3>2 DEF Hist
    <3>6. refs[m.name].path = m.path
      BY <1>2, <3>4, <3>5 DEF Told
    <3>7. HistPcs(H, m1, refs, book, prev', store')
      BY <2>1, <3>3, <3>4, <3>6 DEF HistPcs
    <3>8. Calm(H, refs, book, prev', store')
      BY <3>2, <3>3, <3>5 DEF Calm, Hist
    <3> QED BY <3>7, <3>8, Paused
  <2> QED BY <2>2, <2>4, <2>5, <2>6 DEF Whole, m1
<1> QED BY <1>3, <1>4 DEF WriteVersion

\* A reference is written.
LEMMA PutSteps ==
  ASSUME NEW c, Clients = {c}, World(c), NEW x \in Names, NEW q, NEW p, PutRef(c, x, q, p)
  PROVE  /\ Put(refs, refs', x, q) /\ Alike(me[c], me'[c]) /\ me'[c].pc = p /\ me[c].held = refs
         /\ NoFault /\ prev' = prev /\ store' = store /\ book' = book /\ muddled' = muddled
<1>1. me[c].held = refs /\ Refs(refs)
  BY DEF World, Local, PutRef
<1>2. Put(refs, refs', x, q)
  BY <1>1, Written DEF PutRef
<1>3. Alike(me[c], me'[c]) /\ me'[c].pc = p
  BY GoAlike DEF PutRef
<1> QED BY <1>1, <1>2, <1>3 DEF PutRef, RefsOnly

\* What is told of the other names.
LEMMA ToldPut ==
  ASSUME NEW H, NEW r, NEW r1, NEW x, NEW q, Put(r, r1, x, q), NEW b, NEW y \in Names, y # x, Told(H, r, b, y)
  PROVE  Told(H, r1, b, y)
BY DEF Told, Put

\* The reference of the previous version goes.
LEMMA DropRefKeeps ==
  ASSUME NEW c, Clients = {c}, World(c), Whole(c), DropRef(c)
  PROVE  Whole(c)'
<1> DEFINE m == me[c]
           m1 == me'[c]
           x == m.name
<1>0. DOMAIN me = Clients /\ DOMAIN m = Fields
  BY DEF World, Local
<1>1. m.pc = "dropRef" /\ m.pc \notin OffPcs
  BY DEF DropRef, At, OffPcs
<1>2. Stock(refs, book, prev, store) /\ Fine(m, book) /\ x \in Names
  BY <1>1 DEF Whole, Fine
<1>3. /\ Alike(m, m1) /\ m1.pc = "putRef" /\ (NoFault \/ Fault(c))
      /\ prev' = prev /\ store' = store /\ book' = book /\ muddled' = muddled
      /\ refs' = refs \/ Put(refs, refs', x, NoRef)
  <2>1. CASE PutRef(c, x, NoRef, "putRef")
    BY <1>2, <2>1, PutSteps
  <2>2. CASE me' = [me EXCEPT ![c].pc = "putRef", ![c].fresh = FALSE] /\ (NoFault \/ Fault(c)) /\ Nothing
    BY <2>2, GoAlike DEF Nothing
  <2> QED BY <2>1, <2>2 DEF DropRef
<1> HIDE DEF m, m1, x
<1>4. Fine(m1, book)
  BY <1>1, <1>2, <1>3, FineOn DEF Renaming, Removing
<1>5. Stock(refs', book, prev, store)
  <2>1. NoRef.path \in Nat
    BY DEF NoRef
  <2> QED BY <1>2, <1>3, <2>1, StockGoesOn
<1>6. ASSUME Clean' PROVE Hists(m1, refs', book, prev, store)
  <2>1. Clean
    BY <1>3, <1>6, Cleaner
  <2>2. PICK H : Hist(H, m, refs, book, prev, store)
    BY <2>1 DEF Whole, Hists, m
  <2>3. /\ Holds(book, m.id, x) /\ m.path = End(H[x]) /\ Fits(book[m.id].vs, H[x], 0)
        /\ m.at \in store /\ prev[m.at] = m.path /\ \A y \in Names : \A q \in DOMAIN H[y] : H[y][q] # m.at
    BY <1>1, <2>2 DEF Hist, HistPcs, x
  <2>4. \A y \in Names : Told(H, refs, book, y)
    BY <1>1, <2>2 DEF Hist
  <2>5. ~refs'[x].stored \/ refs'[x].path = m.path
    <3>1. CASE refs' = refs
      BY <1>2, <2>3, <2>4, <3>1 DEF Told
    <3>2. CASE Put(refs, refs', x, NoRef)
      BY <3>2 DEF Put, NoRef
    <3> QED BY <1>3, <3>1, <3>2
  <2>6. HistPcs(H, m1, refs', book, prev, store)
    BY <1>3, <2>3, <2>5 DEF HistPcs, Alike, x
  <2>7. \A y \in Names : y # x => Told(H, refs', book, y)
    BY <1>3, <2>4, ToldPut
  <2>8. Hist(H, m1, refs', book, prev, store)
    BY <1>3, <2>2, <2>6, <2>7 DEF Hist, OffPcs, Alike, x
  <2> QED BY <2>8 DEF Hists
<1> QED BY <1>3, <1>4, <1>5, <1>6 DEF Whole, m1

\* A save that ends before the new reference is put: the old one is still there or
\* there is none.
LEMMA PutLost ==
  ASSUME NEW m, NEW r, NEW b, NEW p, NEW st, m.pc = "putRef", m.name \in Names, Hists(m, r, b, p, st), Refs(r)
  PROVE  Calms(r, b, p, st)
<1>1. PICK H : Hist(H, m, r, b, p, st)
  BY DEF Hists
<1> DEFINE x == m.name
<1>2. /\ Holds(b, m.id, x) /\ m.path = End(H[x]) /\ Fits(b[m.id].vs, H[x], 0)
      /\ ~r[x].stored \/ r[x].path = m.path
  BY <1>1 DEF Hist, HistPcs
<1>3. Lines(H, p, st) /\ Single(b) /\ \A y \in Names : y # x => Told(H, r, b, y)
  BY <1>1 DEF Hist
<1> HIDE DEF x
<1>4. CASE r[x].stored
  <2>1. \A i \in DOMAIN b : Holds(b, i, x) => Fits(b[i].vs, H[x], 0)
    BY <1>2, <1>3 DEF Single, Holds
  <2>2. Told(H, r, b, x)
    BY <1>2, <1>4, <2>1 DEF Told
  <2>3. Calm(H, r, b, p, st)
    BY <1>3, <2>2 DEF Calm
  <2> QED BY <2>3 DEF Calms
<1>5. CASE ~r[x].stored
  <2>1. r[x].path = 0 /\ x \in Names
    BY <1>5 DEF Refs, NoRef, x
  <2> QED BY <1>3, <1>5, <2>1, CalmForgets
<1> QED BY <1>4, <1>5

\* A history with one version more.
LEMMA FitsLonger ==
  ASSUME NEW vs \in Seq(Nat), NEW h, NEW t, NEW v, Longer(h, t, v), Fits(vs, h, 0)
  PROVE  Fits(vs, t, 0) /\ Fits(Append(vs, v), t, 0)
<1>1. /\ Len(h) \in Nat /\ Len(t) = Len(h) + 1 /\ DOMAIN h = 1 .. Len(h) /\ DOMAIN t = 1 .. Len(h) + 1
      /\ t[Len(h) + 1] = v /\ \A j \in DOMAIN h : t[j] = h[j]
  BY DEF Longer
<1>2. /\ Len(vs) \in Nat /\ Len(Append(vs, v)) = Len(vs) + 1
      /\ (\A j \in 1 .. Len(vs) : Append(vs, v)[j] = vs[j]) /\ Append(vs, v)[Len(vs) + 1] = v
  OBVIOUS
<1>3. \A j \in 1 .. Len(vs) : \E q \in DOMAIN h : q =< Len(h) - Len(vs) + j /\ h[q] = vs[j]
  BY <1>1, <1>2 DEF Fits
<1>4. Fits(vs, t, 0)
  <2>1. ASSUME NEW j \in 1 .. Len(vs) PROVE \E q \in DOMAIN t : q =< Len(t) - Len(vs) + j /\ t[q] = vs[j]
    <3>1. PICK q \in DOMAIN h : q =< Len(h) - Len(vs) + j /\ h[q] = vs[j]
      BY <1>3
    <3>2. q \in DOMAIN t /\ q =< Len(t) - Len(vs) + j /\ t[q] = vs[j]
      BY <1>1, <1>2, <3>1
    <3> QED BY <3>2
  <2> QED BY <1>1, <1>2, <2>1 DEF Fits
<1>5. Fits(Append(vs, v), t, 0)
  <2> DEFINE us == Append(vs, v)
  <2>0. Len(us) = Len(vs) + 1 /\ (\A j \in 1 .. Len(vs) : us[j] = vs[j]) /\ us[Len(vs) + 1] = v
    BY <1>2
  <2> HIDE DEF us
  <2>1. ASSUME NEW j \in 1 .. Len(vs) + 1 PROVE \E q \in DOMAIN t : q =< Len(t) - Len(us) + j /\ t[q] = us[j]
    <3>1. CASE j \in 1 .. Len(vs)
      <4>1. PICK q \in DOMAIN h : q =< Len(h) - Len(vs) + j /\ h[q] = vs[j]
        BY <1>3, <3>1
      <4>2. q \in DOMAIN t /\ q =< Len(t) - Len(us) + j /\ t[q] = us[j]
        BY <1>1, <1>2, <2>0, <3>1, <4>1
      <4> QED BY <4>2
    <3>2. CASE j = Len(vs) + 1
      <4>1. Len(h) + 1 \in DOMAIN t /\ Len(h) + 1 =< Len(t) - Len(us) + j /\ t[Len(h) + 1] = us[j]
        BY <1>1, <1>2, <2>0, <3>2
      <4> QED BY <4>1
    <3> QED BY <1>2, <3>1, <3>2
  <2>2. Fits(us, t, 0)
    BY <1>1, <1>2, <2>0, <2>1 DEF Fits
  <2> QED BY <2>2 DEF us
<1> QED BY <1>4, <1>5

\* A version more at the end of the history of x.
Lengthened(H, G, x, v) ==
  G = [y \in Names |-> G[y]] /\ G[x] = Append(H[x], v) /\ \A y \in Names : y # x => G[y] = H[y]

\* It is the newest one now.
LEMMA LinesLonger ==
  ASSUME NEW H, NEW p, NEW st, Lines(H, p, st), NEW x \in Names, NEW v \in Nat, v \in st, p[v] = End(H[x]),
         \A y \in Names : \A q \in DOMAIN H[y] : H[y][q] # v, NEW G, Lengthened(H, G, x, v)
  PROVE  Lines(G, p, st) /\ End(G[x]) = v /\ Longer(H[x], G[x], v)
<1>0. G = [y \in Names |-> G[y]] /\ G[x] = Append(H[x], v) /\ \A y \in Names : y # x => G[y] = H[y]
  BY DEF Lengthened
<1> DEFINE h == H[x]
           g == G[x]
<1>1. h \in Seq(Nat) /\ Line(h, p, st) /\ g \in Seq(Nat)
  <2>1. h \in Seq(Nat) /\ Line(h, p, st)
    BY DEF Lines
  <2>2. g = Append(h, v)
    BY <1>0
  <2> HIDE DEF h, g
  <2> QED BY <2>1, <2>2
<1>2. Longer(h, g, v)
  BY <1>0, <1>1, Appended
<1>3. /\ Len(h) \in Nat /\ Len(g) = Len(h) + 1 /\ DOMAIN h = 1 .. Len(h) /\ DOMAIN g = 1 .. Len(h) + 1
      /\ g[Len(h) + 1] = v /\ (\A j \in DOMAIN h : g[j] = h[j]) /\ g # <<>>
  BY <1>2 DEF Longer
<1>4. (h # <<>> <=> Len(h) # 0) /\ \A q \in DOMAIN h : h[q] # v
  BY <1>1
<1>5. p[v] = End(h)
  OBVIOUS
<1> HIDE DEF h, g
<1>6. End(g) = v
  BY <1>3 DEF End
<1>7. Line(g, p, st)
  <2>1. ASSUME NEW q \in DOMAIN g PROVE g[q] \in st /\ p[g[q]] = IF q = 1 THEN 0 ELSE g[q - 1]
    <3>1. CASE q \in DOMAIN h
      <4>1. q # 1 => q - 1 \in DOMAIN h
        BY <1>3, <3>1
      <4> QED BY <1>1, <1>3, <3>1, <4>1 DEF Line
    <3>2. CASE q = Len(h) + 1
      <4>1. CASE h = <<>>
        BY <1>3, <1>4, <1>5, <3>2, <4>1 DEF End
      <4>2. CASE h # <<>>
        <5>1. Len(h) \in DOMAIN h /\ q # 1 /\ q - 1 = Len(h)
          BY <1>3, <1>4, <3>2, <4>2
        <5>2. p[v] = h[Len(h)]
          BY <1>5, <4>2 DEF End
        <5> QED BY <1>3, <3>2, <5>1, <5>2
      <4> QED BY <4>1, <4>2
    <3> QED BY <1>3, <3>1, <3>2
  <2>2. ASSUME NEW q \in DOMAIN g, NEW s \in DOMAIN g, g[q] = g[s] PROVE q = s
    <3>1. CASE q \in DOMAIN h /\ s \in DOMAIN h
      BY <1>1, <1>3, <2>2, <3>1 DEF Line
    <3>2. CASE q = Len(h) + 1 \/ s = Len(h) + 1
      BY <1>3, <1>4, <2>2, <3>2
    <3> QED BY <1>3, <3>1, <3>2
  <2> QED BY <2>1, <2>2 DEF Line
<1>8. \A q \in DOMAIN g : g[q] = v \/ (q \in DOMAIN h /\ g[q] = h[q])
  BY <1>3
<1>9. ASSUME NEW y \in Names, NEW z \in Names, y # z, NEW q \in DOMAIN G[y], NEW s \in DOMAIN G[z]
      PROVE  G[y][q] # G[z][s]
  <2>1. CASE y = x
    <3>1. G[z] = H[z] /\ G[y] = g
      BY <1>0, <1>9, <2>1 DEF g
    <3>2. H[z][s] # v
      BY <1>9, <3>1
    <3>3. q \in DOMAIN h => h[q] # H[z][s]
      BY <1>9, <2>1, <3>1 DEF Lines, h
    <3> QED BY <1>8, <1>9, <3>1, <3>2, <3>3
  <2>2. CASE z = x
    <3>1. G[y] = H[y] /\ G[z] = g
      BY <1>0, <1>9, <2>2 DEF g
    <3>2. H[y][q] # v
      BY <1>9, <3>1
    <3>3. s \in DOMAIN h => H[y][q] # h[s]
      BY <1>9, <2>2, <3>1 DEF Lines, h
    <3> QED BY <1>8, <1>9, <3>1, <3>2, <3>3
  <2>3. CASE y # x /\ z # x
    BY <1>0, <1>9, <2>3 DEF Lines
  <2> QED BY <2>1, <2>2, <2>3
<1>10. ASSUME NEW y \in Names PROVE G[y] \in Seq(Nat) /\ Line(G[y], p, st)
  <2>1. CASE y = x
    BY <1>1, <1>7, <2>1 DEF g
  <2>2. CASE y # x
    BY <1>0, <2>2 DEF Lines
  <2> QED BY <2>1, <2>2
<1>11. Lines(G, p, st)
  BY <1>0, <1>9, <1>10 DEF Lines
<1> QED BY <1>2, <1>6, <1>11 DEF g, h

\* The new reference: from here on the refstore is ahead of the logbook.
LEMMA CreateDatasetRefKeeps ==
  ASSUME NEW c, Clients = {c}, World(c), Whole(c), CreateDatasetRef(c)
  PROVE  Whole(c)'
<1> DEFINE m == me[c]
           m1 == me'[c]
           x == m.name
           v == m.at
<1>0. DOMAIN me = Clients /\ Refs(refs)
  BY DEF World, Local
<1>1. m.pc = "putRef"
  BY DEF CreateDatasetRef, At
<1>2. Stock(refs, book, prev, store) /\ Fine(m, book) /\ x \in Names /\ v \in Nat /\ Logs(book)
  BY <1>1 DEF Whole, Fine, Stock
<1>3. CASE Fault(c) /\ Failed(c) /\ Nothing
  <2>1. refs' = refs /\ prev' = prev /\ store' = store /\ book' = book /\ muddled' = muddled
    BY <1>3 DEF Nothing
  <2>2. Fine(m1, book) /\ m1.pc \in RestPcs
    <3>1. CASE Return(c)
      <4>1. m1 = Idle
        BY <1>0, <3>1 DEF Return
      <4> QED BY <1>2, <4>1, FineIdle DEF RestPcs
    <3>2. CASE Go(c, "cleanup")
      <4>1. Alike(m, m1) /\ m1.pc = "cleanup"
        BY <3>2, GoAlike
      <4> HIDE DEF m, m1
      <4> QED BY <1>1, <1>2, <4>1, FineOn DEF RestPcs, Renaming, Removing
    <3> QED BY <1>3, <3>1, <3>2 DEF Failed
  <2>3. ASSUME Clean' PROVE Calms(refs, book, prev, store)
    <3>1. Clean
      BY <1>3, <2>1, <2>3, Cleaner
    <3> QED BY <1>0, <1>1, <1>2, <3>1, PutLost DEF Whole
  <2> QED BY <1>2, <2>1, <2>2, <2>3, Calms2
<1>4. CASE PutRef(c, x, Ref(v, NoDir), "log")
  <2>1. /\ Put(refs, refs', x, Ref(v, NoDir)) /\ Alike(m, m1) /\ m1.pc = "log"
        /\ NoFault /\ prev' = prev /\ store' = store /\ book' = book /\ muddled' = muddled
    BY <1>2, <1>4, PutSteps
  <2>2. refs'[x].path = v /\ refs'[x].stored
    BY <2>1 DEF Put, Ref
  <2> HIDE DEF m, m1, x, v
  <2>3. Fine(m1, book)
    BY <1>1, <1>2, <2>1, FineOn DEF Renaming, Removing
  <2>4. Stock(refs', book, prev, store)
    <3>1. Ref(v, NoDir).path \in Nat
      BY <1>2 DEF Ref
    <3> QED BY <1>2, <2>1, <3>1, StockGoesOn
  <2>5. ASSUME Clean' PROVE Hists(m1, refs', book, prev, store)
    <3>1. Clean
      BY <2>1, <2>5, Cleaner
    <3>2. PICK H : Hist(H, m, refs, book, prev, store)
      BY <3>1 DEF Whole, Hists, m
    <3>3. /\ Holds(book, m.id, x) /\ m.path = End(H[x]) /\ Fits(book[m.id].vs, H[x], 0)
          /\ v \in store /\ prev[v] = m.path /\ \A y \in Names : \A q \in DOMAIN H[y] : H[y][q] # v
      BY <1>1, <3>2 DEF Hist, HistPcs, x, v
    <3>4. Lines(H, prev, store) /\ Single(book) /\ \A y \in Names : y # x => Told(H, refs, book, y)
      BY <3>2 DEF Hist, x
    <3> DEFINE G == [H EXCEPT ![x] = Append(H[x], v)]
    <3>5. G = [y \in Names |-> G[y]] /\ G[x] = Append(H[x], v) /\ \A y \in Names : y # x => G[y] = H[y]
      BY <1>2, <3>4 DEF Lines
    <3> HIDE DEF G
    <3>6. Lines(G, prev, store) /\ End(G[x]) = v /\ Longer(H[x], G[x], v) /\ H[x] \in Seq(Nat)
      <4>0. Lengthened(H, G, x, v)
        BY <3>5 DEF Lengthened
      <4>1. prev[v] = End(H[x])
        BY <3>3
      <4>2. H[x] \in Seq(Nat)
        BY <1>2, <3>4 DEF Lines
      <4> QED BY <1>2, <3>3, <3>4, <4>0, <4>1, <4>2, LinesLonger
    <3>7. book[m.id].vs \in Seq(Nat)
      BY <1>2, <3>3 DEF Logs, LogOK, Holds
    <3>8. Fits(book[m.id].vs, G[x], 0)
      BY <3>3, <3>6, <3>7, FitsLonger
    <3>9. Told(G, refs', book, x)
      <4>1. \A i \in DOMAIN book : Holds(book, i, x) => i = m.id
        BY <3>3, <3>4 DEF Single, Holds
      <4> QED BY <2>2, <3>6, <3>8, <4>1 DEF Told
    <3>10. ASSUME NEW y \in Names, y # x PROVE Told(G, refs', book, y)
      <4>1. Told(H, refs', book, y)
        BY <2>1, <3>4, <3>10, ToldPut
      <4> QED BY <3>5, <3>10, <4>1 DEF Told
    <3>11. Calm(G, refs', book, prev, store)
      BY <3>4, <3>6, <3>9, <3>10 DEF Calm
    <3>12. m1.name = x /\ m1.id = m.id /\ m1.at = v
      BY <2>1 DEF Alike, x, v
    <3>13. HistPcs(G, m1, refs', book, prev, store)
      BY <2>1, <2>2, <3>3, <3>6, <3>12 DEF HistPcs
    <3> QED BY <3>11, <3>13, Paused
  <2> QED BY <2>1, <2>3, <2>4, <2>5 DEF Whole, m1
<1> QED BY <1>3, <1>4 DEF CreateDatasetRef

\* The logbook follows: the new version is the newest of both.
LEMMA CalmSaved ==
  ASSUME NEW m, NEW r, NEW b, NEW b1, NEW p, NEW st, Logs(b), m.pc = "log", m.name \in Names, Hists(m, r, b, p, st),
         NEW bl, Updated(b, b1, m.id, b[m.id].state, b[m.id].name, Append(b[m.id].vs, m.at), bl), Single(b1)
  PROVE  Calms(r, b1, p, st) /\ r[m.name].stored /\ r[m.name].path = m.at
<1>1. PICK H : Hist(H, m, r, b, p, st)
  BY DEF Hists
<1> DEFINE x == m.name
           i == m.id
           vs == b[i].vs
<1>2. /\ Holds(b, i, x) /\ (\E h \in Seq(Nat) : Longer(h, H[x], m.at) /\ Fits(vs, h, 0))
      /\ r[x].stored /\ r[x].path = m.at
  BY <1>1 DEF Hist, HistPcs
<1>3. Calm(H, r, b, p, st)
  BY <1>1, Rested DEF OffPcs
<1> HIDE DEF x, i
<1>4. vs \in Seq(Nat)
  BY <1>2 DEF Logs, LogOK, Holds
<1>5. PICK h \in Seq(Nat) : Longer(h, H[x], m.at) /\ Fits(vs, h, 0)
  BY <1>2
<1>6. Fits(Append(vs, m.at), H[x], 0)
  BY <1>4, <1>5, FitsLonger
<1>7. /\ DOMAIN b1 = DOMAIN b /\ b1[i].vs = Append(vs, m.at) /\ b1[i].name = x
      /\ \A k \in DOMAIN b : k # i => b1[k] = b[k]
  BY <1>2 DEF Updated, Holds, i
<1> HIDE DEF vs
<1>8. ASSUME NEW y \in Names PROVE Told(H, r, b1, y)
  <2>1. Told(H, r, b, y)
    BY <1>3 DEF Calm
  <2>2. ASSUME r[y].stored, NEW k \in DOMAIN b1, Holds(b1, k, y) PROVE Fits(b1[k].vs, H[y], 0)
    <3>1. CASE k = i
      <4>1. y = x
        BY <1>7, <2>2, <3>1 DEF Holds
      <4> QED BY <1>6, <1>7, <3>1, <4>1
    <3>2. CASE k # i
      <4>1. b1[k] = b[k] /\ Holds(b, k, y)
        BY <1>7, <2>2, <3>2 DEF Holds
      <4> QED BY <1>7, <2>1, <2>2, <4>1 DEF Told
    <3> QED BY <3>1, <3>2
  <2> QED BY <2>1, <2>2 DEF Told
<1>9. Calm(H, r, b1, p, st)
  BY <1>3, <1>8 DEF Calm
<1> QED BY <1>2, <1>9 DEF Calms, x

\* When it cannot be written, it is in memory or not: either way the history is there.
LEMMA WriteVersionSaveKeeps ==
  ASSUME NEW c, Clients = {c}, World(c), Whole(c), WriteVersionSave(c)
  PROVE  Whole(c)'
<1> DEFINE m == me[c]
           m1 == me'[c]
           i == m.id
           done == [book EXCEPT ![i].vs = Append(@, m.at), ![i].blank = FALSE]
<1>0. DOMAIN me = Clients
  BY DEF World, Local
<1>1. m.pc = "log" /\ m.pc \notin OffPcs
  BY DEF WriteVersionSave, At, OffPcs
<1>2. /\ Stock(refs, book, prev, store) /\ Fine(m, book) /\ m.name \in Names /\ m.at \in Nat /\ Logs(book)
      /\ i \in 0 .. Len(book) /\ Len(book) \in Nat /\ DOMAIN book = 1 .. Len(book)
  BY <1>1, Domains DEF Whole, Fine, Stock
<1>3. CASE (NoFault \/ Fault(c)) /\ Failed(c) /\ book' = book /\ (Nothing \/ BookOnly)
  <2>1. Return(c) \/ Go(c, "cleanup")
    BY <1>3 DEF Failed
  <2>2. Return(c) \/ \E p : RollBack(c, p) \/ (p \in Ways /\ Go(c, p))
    BY <2>1 DEF Ways
  <2>3. CASE Nothing
    BY <1>1, <1>3, <2>2, <2>3, Leads DEF Nothing
  <2>4. CASE BookOnly
    <3>1. Onward(book, book') /\ Sub(book, book')
      BY <1>2, <1>3, BookGoesOn, BookSub
    <3> QED BY <1>1, <1>3, <2>2, <2>4, <3>1, SubSteps DEF BookOnly
  <2> QED BY <1>3, <2>3, <2>4
<1>4. CASE /\ Writable(i) /\ book' = done /\ (NoFault \/ Fault(c)) /\ BookOnly
           /\ Return(c) \/ Go(c, "cleanup") \/ Go(c, "putLink")
  <2>1. i \in DOMAIN book
    BY <1>2, <1>4 DEF Writable
  <2>2. Updated(book, book', i, book[i].state, book[i].name, Append(book[i].vs, m.at), FALSE) /\ Onward(book, book')
    BY <1>2, <1>4, <2>1, LogSaved, BookGoesOn
  <2>3. refs' = refs /\ prev' = prev /\ store' = store /\ muddled' = (muddled \/ Twins(book'))
    BY <1>4 DEF BookOnly
  <2>4. ASSUME Clean' PROVE Calms(refs, book', prev, store) /\ refs[m.name].stored /\ refs[m.name].path = m.at
    <3>1. Clean /\ Single(book')
      BY <1>4, <2>3, <2>4, Cleaner
    <3>2. Hists(m, refs, book, prev, store)
      BY <3>1 DEF Whole
    <3> HIDE DEF m
    <3> QED BY <1>1, <1>2, <2>2, <3>1, <3>2, CalmSaved DEF i
  <2>5. Stock(refs, book', prev, store)
    BY <1>2, <2>2, StockGoesOn
  <2>6. CASE Return(c)
    <3>1. m1 = Idle
      BY <1>0, <2>6 DEF Return
    <3>2. Fine(m1, book') /\ m1.pc \in RestPcs
      BY <2>2, <3>1, FineIdle DEF RestPcs, Onward
    <3> QED BY <2>3, <2>4, <2>5, <3>2, Calms2
  <2>7. CASE Go(c, "cleanup") \/ Go(c, "putLink")
    <3>1. Alike(m, m1) /\ m1.pc \in {"cleanup", "putLink"}
      BY <2>7, GoAlike
    <3> HIDE DEF m, m1, i
    <3>2. Fine(m1, book)
      BY <1>1, <1>2, <3>1, FineOn DEF Renaming, Removing
    <3>3. Fine(m1, book')
      BY <1>2, <2>2, <3>2, FineBook
    <3>4. ASSUME Clean' PROVE Hists(m1, refs, book', prev, store)
      <4>1. PICK H : Calm(H, refs, book', prev, store)
        BY <2>4, <3>4 DEF Calms
      <4>2. HistPcs(H, m1, refs, book', prev, store)
        BY <2>4, <3>1, <3>4 DEF HistPcs, Alike
      <4> QED BY <4>1, <4>2, Paused
    <3> QED BY <2>3, <2>5, <3>3, <3>4 DEF Whole, m1
  <2> QED BY <1>4, <2>6, <2>7
<1> QED BY <1>3, <1>4 DEF WriteVersionSave, Failed, Nothing

\* References that keep their versions are put again.
LEMMA SamePaths ==
  ASSUME NEW c, Clients = {c}, World(c), Whole(c), me[c].pc \notin OffPcs, NEW x \in Names, NEW d,
         NEW v, v = refs[x].path, refs[x].stored, Put(refs, refs', x, Ref(v, d)),
         Fine(me'[c], book), me'[c].pc \in RestPcs, NoFault, prev' = prev, store' = store, book' = book, muddled' = muddled
  PROVE  Whole(c)'
<1>1. \A y \in Names : refs'[y].path = refs[y].path /\ (refs'[y].stored => refs[y].stored)
  BY DEF Put, Ref
<1>2. Stock(refs', book, prev, store)
  BY <1>1 DEF Whole, Stock
<1>3. ASSUME Clean' PROVE Calms(refs', book, prev, store)
  <2>1. Clean
    BY <1>3, Cleaner
  <2>2. Calms(refs, book, prev, store)
    BY <2>1, RestedSome DEF Whole
  <2> QED BY <1>1, <2>2, CalmSame
<1> QED BY <1>2, <1>3, Calms2

\* A linked dataset gets its directory back.
LEMMA PutLinkKeeps ==
  ASSUME NEW c, Clients = {c}, World(c), Whole(c), PutLink(c)
  PROVE  Whole(c)'
<1> DEFINE m == me[c]
           m1 == me'[c]
           x == m.name
<1>1. m.pc = "putLink" /\ m.pc \notin OffPcs
  BY DEF PutLink, At, OffPcs
<1>2. Fine(m, book) /\ x \in Names /\ m.at \in Nat /\ Stock(refs, book, prev, store)
  BY <1>1 DEF Whole, Fine
<1>3. CASE Fault(c) /\ Return(c) /\ Nothing
  BY <1>1, <1>3, Returns
<1>4. CASE PutRef(c, x, Ref(m.at, m.fsi), "files")
  <2>1. /\ Put(refs, refs', x, Ref(m.at, m.fsi)) /\ Alike(m, m1) /\ m1.pc = "files"
        /\ NoFault /\ prev' = prev /\ store' = store /\ book' = book /\ muddled' = muddled
    BY <1>2, <1>4, PutSteps
  <2> HIDE DEF m, m1, x
  <2>2. Fine(m1, book) /\ m1.pc \in RestPcs
    BY <1>1, <1>2, <2>1, FineOn DEF Renaming, Removing, RestPcs
  <2>3. Stock(refs', book, prev, store)
    <3>1. Ref(m.at, m.fsi).path \in Nat
      BY <1>2 DEF Ref
    <3> QED BY <1>2, <2>1, <3>1, StockGoesOn
  <2>4. ASSUME Clean' PROVE Calms(refs', book, prev, store)
    <3>1. Clean
      BY <2>1, <2>4, Cleaner
    <3>2. Hists(m, refs, book, prev, store)
      BY <3>1 DEF Whole, m
    <3>3. refs[x].stored /\ refs[x].path = m.at
      BY <1>1, <3>2 DEF Hists, Hist, HistPcs, x
    <3>4. \A y \in Names : refs'[y].path = refs[y].path /\ (refs'[y].stored => refs[y].stored)
      BY <2>1, <3>3 DEF Put, Ref
    <3>5. Calms(refs, book, prev, store)
      BY <1>1, <3>2, RestedSome
    <3> QED BY <3>4, <3>5, CalmSame
  <2> QED BY <2>1, <2>2, <2>3, <2>4, Calms2 DEF m1
<1> QED BY <1>3, <1>4 DEF PutLink

\* The process dies.
LEMMA CrashKeeps ==
  ASSUME NEW c, Clients = {c}, World(c), Whole(c), Crash(c)
  PROVE  Whole(c)'
<1> DEFINE m == me[c]
<1>0. me'[c] = Idle /\ Refs(refs)
  BY DEF World, Local, Crash, Return
<1>1. Fault(c) /\ Return(c) /\ Nothing /\ m.pc # "idle"
  BY DEF Crash, At
<1>2. refs' = refs /\ prev' = prev /\ store' = store /\ book' = book /\ muddled' = muddled
  BY <1>1 DEF Nothing
<1>3. Stock(refs, book, prev, store) /\ Fine(Idle, book) /\ Idle.pc \in RestPcs /\ Fine(m, book)
  BY FineIdle DEF Whole, Stock, RestPcs
<1> HIDE DEF Idle
<1>4. CASE m.pc \notin OffPcs
  BY <1>1, <1>4, Returns
<1>5. CASE m.pc = "putRef"
  <2>1. m.name \in Names
    BY <1>3, <1>5 DEF Fine
  <2>2. ASSUME Clean' PROVE Calms(refs, book, prev, store)
    <3>1. Clean
      BY <1>1, <1>2, <2>2, Cleaner
    <3> QED BY <1>0, <1>5, <2>1, <3>1, PutLost DEF Whole
  <2> QED BY <1>0, <1>2, <1>3, <2>2, Calms2
<1>6. CASE m.pc \in OffPcs /\ m.pc # "putRef"
  <2>1. m.op \in {"remove", "rename"}
    BY <1>3, <1>6 DEF Fine, OffPcs, Renaming, Removing
  <2>2. ~Clean'
    BY <1>1, <1>2, <2>1, Cleaner
  <2> QED BY <1>0, <1>2, <1>3, <2>2, Spoils
<1> QED BY <1>4, <1>5, <1>6

-----------------------------------------------------------------------------
(* A rename. *)

\* A rename or a remove that fails at an access.
LEMMA FailsSpoiled ==
  ASSUME NEW c, Clients = {c}, World(c), Whole(c), Fault(c), me[c].pc \in Renaming \union Removing,
         Onward(book, book'),
         refs' = refs, prev' = prev, store' = store,
         Return(c) \/ (Alike(me[c], me'[c]) /\ me'[c].pc \in {"rmLog", "rmRef", "rmFiles"} /\ me[c].pc \in Removing)
  PROVE  Whole(c)'
<1>0. DOMAIN me = Clients /\ Stock(refs, book, prev, store) /\ Fine(me[c], book) /\ Logs(book) /\ Logs(book')
  BY DEF World, Local, Whole, Stock, Onward
<1>1. me[c].op \in {"remove", "rename"}
  BY <1>0 DEF Fine
<1>2. ~Clean'
  BY <1>1 DEF Clean, Fault
<1>3. Stock(refs, book', prev, store)
  BY <1>0, StockGoesOn
<1>4. Fine(me'[c], book')
  <2>1. CASE Return(c)
    <3>1. me'[c] = Idle
      BY <1>0, <2>1 DEF Return
    <3> QED BY <1>0, <3>1, FineIdle
  <2>2. CASE Alike(me[c], me'[c]) /\ me'[c].pc \in {"rmLog", "rmRef", "rmFiles"} /\ me[c].pc \in Removing
    <3>1. Fine(me'[c], book)
      BY <1>0, <2>2, FineOn DEF Renaming, Removing
    <3> QED BY <1>0, <3>1, FineBook
  <2> QED BY <2>1, <2>2
<1> QED BY <1>2, <1>3, <1>4, Spoils

\* A rename finds its dataset, and no reference in the way.
LEMMA ResolveRenameKeeps ==
  ASSUME NEW c, Clients = {c}, World(c), Whole(c), ResolveRename(c)
  PROVE  Whole(c)'
<1> DEFINE m == me[c]
           m1 == me'[c]
           x == m.name
           i == RefToInitID(x)
<1>0. DOMAIN me = Clients /\ DOMAIN m = Fields
  BY DEF World, Local
<1>1. m.pc = "renResolve" /\ m.pc \notin OffPcs /\ NoFault /\ Nothing
  BY DEF ResolveRename, At, OffPcs
<1>2. Stock(refs, book, prev, store) /\ Fine(m, book) /\ Logs(book) /\ x \in Names
  BY <1>1 DEF Whole, Stock, Fine
<1>3. i \in 0 .. Len(book) /\ (i # 0 => Holds(book, i, x))
  BY <1>2, LogOf DEF Holds
<1>4. CASE Return(c)
  BY <1>1, <1>4, Returns
<1>5. CASE /\ refs[x].stored /\ i # 0 /\ ~refs[m.next].stored
           /\ me' = [me EXCEPT ![c].pc = "renLog", ![c].id = i]
  <2>1. /\ m1.pc = "renLog" /\ m1.op = m.op /\ m1.name = x /\ m1.next = m.next /\ m1.n = m.n /\ m1.id = i
        /\ m1.path = m.path /\ m1.at = m.at
    BY <1>0, <1>5 DEF Fields
  <2>2. refs' = refs /\ prev' = prev /\ store' = store /\ book' = book /\ muddled' = muddled
    BY <1>1 DEF Nothing
  <2> HIDE DEF m, m1, i
  <2>3. Fine(m1, book)
    BY <1>1, <1>2, <1>3, <2>1 DEF Fine, Renaming, Removing, x
  <2> HIDE DEF x
  <2>4. ASSUME Clean' PROVE Hists(m1, refs, book, prev, store)
    <3>1. Clean
      BY <1>1, <2>2, <2>4, Cleaner
    <3>2. PICK H : Calm(H, refs, book, prev, store)
      BY <1>1, <3>1, RestedSome DEF Whole, Calms, m
    <3>3. HistPcs(H, m1, refs, book, prev, store)
      BY <1>3, <1>5, <2>1 DEF HistPcs
    <3> QED BY <3>2, <3>3, Paused
  <2> QED BY <1>2, <2>2, <2>3, <2>4 DEF Whole, m1
<1> QED BY <1>4, <1>5 DEF ResolveRename

\* The log has the new name, the reference has the old one.
LEMMA WriteDatasetRenameKeeps ==
  ASSUME NEW c, Clients = {c}, World(c), Whole(c), WriteDatasetRename(c)
  PROVE  Whole(c)'
<1> DEFINE m == me[c]
           m1 == me'[c]
           i == m.id
           x == m.name
           y == m.next
           done == [book EXCEPT ![i].name = y, ![i].blank = FALSE]
<1>1. m.pc = "renLog" /\ m.pc \notin OffPcs /\ m.pc \in Renaming
  BY DEF WriteDatasetRename, At, OffPcs, Renaming
<1>2. /\ Stock(refs, book, prev, store) /\ Fine(m, book) /\ x \in Names /\ y \in Names /\ y # x /\ Logs(book)
      /\ i \in 0 .. Len(book) /\ Len(book) \in Nat /\ DOMAIN book = 1 .. Len(book)
  BY <1>1, Domains DEF Whole, Fine, Stock
<1>w. Writable(i) => i \in DOMAIN book
  BY <1>2 DEF Writable
<1>3. CASE Return(c) /\ NoFault /\ Nothing
  BY <1>1, <1>3, Returns
<1>4. CASE Writable(i) /\ Fault(c) /\ book' \in {book, done} /\ Return(c) /\ BookOnly
  <2>1. Onward(book, book')
    <3>1. CASE book' = book
      BY <1>2, <3>1, BookGoesOn
    <3>2. CASE book' = done
      BY <1>2, <1>4, <1>w, <3>2, BookGoesOn
    <3> QED BY <1>4, <3>1, <3>2
  <2> QED BY <1>1, <1>4, <2>1, FailsSpoiled DEF BookOnly
<1>5. CASE Writable(i) /\ book' = done /\ Go(c, "renDelete") /\ NoFault /\ BookOnly
  <2>1. Alike(m, m1) /\ m1.pc = "renDelete"
    BY <1>5, GoAlike
  <2>2. refs' = refs /\ prev' = prev /\ store' = store /\ muddled' = (muddled \/ Twins(book'))
    BY <1>5 DEF BookOnly
  <2>3. Updated(book, book', i, book[i].state, y, book[i].vs, FALSE) /\ Onward(book, book') /\ i \in DOMAIN book
    BY <1>2, <1>5, <1>w, LogRenamed, BookGoesOn
  <2> HIDE DEF m, m1
  <2>4. Fine(m1, book)
    BY <1>1, <1>2, <2>1, FineOn DEF Renaming, Removing
  <2>5. Fine(m1, book') /\ Stock(refs, book', prev, store)
    BY <1>2, <2>3, <2>4, FineBook, StockGoesOn
  <2> HIDE DEF x, y, i
  <2>6. ASSUME Clean' PROVE Hists(m1, refs, book', prev, store)
    <3>1. Clean /\ Single(book')
      BY <1>5, <2>2, <2>6, Cleaner
    <3>2. PICK H : Hist(H, m, refs, book, prev, store)
      BY <3>1 DEF Whole, Hists, m
    <3>3. Holds(book, i, x) /\ refs[x].stored /\ ~refs[y].stored
      BY <1>1, <3>2 DEF Hist, HistPcs, i, x, y
    <3>4. Calm(H, refs, book, prev, store)
      BY <1>1, <3>2, Rested
    <3>5. /\ Holds(book', i, y) /\ book'[i].vs = book[i].vs /\ DOMAIN book' = DOMAIN book
          /\ \A k \in DOMAIN book : k # i => book'[k] = book[k]
      BY <2>3, <3>3 DEF Updated, Holds
    <3>6. ASSUME NEW z \in Names PROVE Told(H, refs, book', z)
      <4>1. Told(H, refs, book, z)
        BY <3>4 DEF Calm
      <4>2. ASSUME refs[z].stored, NEW k \in DOMAIN book', Holds(book', k, z) PROVE Fits(book'[k].vs, H[z], 0)
        <5>1. k # i
          BY <3>3, <3>5, <4>2 DEF Holds
        <5>2. book'[k] = book[k] /\ Holds(book, k, z)
          BY <3>5, <4>2, <5>1 DEF Holds
        <5> QED BY <3>5, <4>1, <4>2, <5>2 DEF Told
      <4> QED BY <4>1, <4>2 DEF Told
    <3>7. Calm(H, refs, book', prev, store)
      BY <3>1, <3>4, <3>6 DEF Calm
    <3>8. Fits(book'[i].vs, H[x], 0)
      <4>1. Told(H, refs, book, x)
        BY <1>2, <3>4 DEF Calm
      <4> QED BY <3>3, <3>5, <4>1, FitsOne
    <3>9. HistPcs(H, m1, refs, book', prev, store)
      BY <2>1, <3>3, <3>5, <3>8 DEF HistPcs, Alike, x, y, i
    <3> QED BY <3>7, <3>9, Paused
  <2> QED BY <2>2, <2>5, <2>6 DEF Whole, m1
<1> QED BY <1>3, <1>4, <1>5 DEF WriteDatasetRename

\* The old reference goes.
LEMMA RenameDeleteKeeps ==
  ASSUME NEW c, Clients = {c}, World(c), Whole(c), RenameDelete(c)
  PROVE  Whole(c)'
<1> DEFINE m == me[c]
           m1 == me'[c]
           x == m.name
           y == m.next
<1>0. DOMAIN me = Clients /\ DOMAIN m = Fields /\ Refs(refs) /\ (m.fresh => m.held = refs)
  BY DEF World, Local
<1>1. m.pc = "renDelete" /\ m.pc \notin OffPcs /\ m.pc \in Renaming
  BY DEF RenameDelete, At, OffPcs, Renaming
<1>2. /\ Stock(refs, book, prev, store) /\ Fine(m, book) /\ x \in Names /\ y \in Names /\ y # x /\ Logs(book)
  BY <1>1 DEF Whole, Fine, Stock
<1>3. CASE Return(c) /\ NoFault /\ Nothing
  BY <1>1, <1>3, Returns
<1>4. CASE Fault(c) /\ Return(c) /\ Nothing
  <2>1. Onward(book, book')
    BY <1>2, <1>4, BookGoesOn DEF Nothing
  <2> QED BY <1>1, <1>4, <2>1, FailsSpoiled DEF Nothing
<1>5. CASE /\ m.fresh /\ m.held[x].stored
           /\ refs' = [m.held EXCEPT ![x] = NoRef]
           /\ me' = [me EXCEPT ![c].pc = "renPut", ![c].fresh = FALSE, ![c].path = m.held[x].path, ![c].fsi = m.held[x].fsi]
           /\ NoFault /\ RefsOnly
  <2>1. /\ m1.pc = "renPut" /\ m1.op = m.op /\ m1.name = x /\ m1.next = y /\ m1.n = m.n /\ m1.id = m.id
        /\ m1.path = refs[x].path /\ m1.at = m.at
    BY <1>0, <1>5 DEF Fields
  <2>2. prev' = prev /\ store' = store /\ book' = book /\ muddled' = muddled
    BY <1>5 DEF RefsOnly
  <2>3. Put(refs, refs', x, NoRef)
    BY <1>0, <1>2, <1>5, Written
  <2>4. Stock(refs', book, prev, store)
    <3>1. NoRef.path \in Nat
      BY DEF NoRef
    <3> QED BY <1>2, <2>3, <3>1, StockGoesOn
  <2> HIDE DEF m, m1
  <2>5. Fine(m1, book)
    BY <1>1, <1>2, <2>1 DEF Fine, Stock, Renaming, Removing, x, y
  <2> HIDE DEF x, y
  <2>6. ASSUME Clean' PROVE Hists(m1, refs', book, prev, store)
    <3>1. Clean
      BY <1>5, <2>2, <2>6, Cleaner
    <3>2. PICK H : Hist(H, m, refs, book, prev, store)
      BY <3>1 DEF Whole, Hists, m
    <3>3. ~refs[y].stored /\ Holds(book, m.id, y) /\ Fits(book[m.id].vs, H[x], 0)
      BY <1>1, <3>2 DEF Hist, HistPcs, x, y
    <3>4. Calm(H, refs, book, prev, store)
      BY <1>1, <3>2, Rested
    <3>5. refs[x].path = End(H[x])
      BY <1>2, <3>4 DEF Calm, Told
    <3>6. ~refs'[x].stored /\ ~refs'[y].stored
      BY <1>2, <2>3, <3>3 DEF Put, NoRef
    <3>7. HistPcs(H, m1, refs', book, prev, store)
      BY <2>1, <3>3, <3>5, <3>6 DEF HistPcs
    <3>8. \A z \in Names : z # x => Told(H, refs', book, z)
      BY <2>3, <3>4, ToldPut DEF Calm
    <3>9. Hist(H, m1, refs', book, prev, store)
      BY <2>1, <3>2, <3>7, <3>8 DEF Hist, OffPcs
    <3> QED BY <3>9 DEF Hists
  <2> QED BY <2>2, <2>4, <2>5, <2>6 DEF Whole, m1
<1> QED BY <1>3, <1>4, <1>5 DEF RenameDelete

\* The history of x becomes the one of y.
LEMMA LinesMoved ==
  ASSUME NEW H, NEW p, NEW st, Lines(H, p, st), NEW x \in Names, NEW y \in Names, y # x,
         NEW G, G = [z \in Names |-> G[z]], G[x] = <<>>, G[y] = H[x],
         \A z \in Names : z # x /\ z # y => G[z] = H[z]
  PROVE  Lines(G, p, st) /\ End(G[x]) = 0
<1>1. ASSUME NEW z \in Names PROVE G[z] \in Seq(Nat) /\ Line(G[z], p, st)
  <2>1. CASE z = x
    BY <2>1 DEF Line
  <2>2. CASE z = y
    BY <2>2 DEF Lines
  <2>3. CASE z # x /\ z # y
    BY <2>3 DEF Lines
  <2> QED BY <2>1, <2>2, <2>3
<1>2. ASSUME NEW z \in Names, NEW w \in Names, z # w, NEW q \in DOMAIN G[z], NEW s \in DOMAIN G[w]
      PROVE  G[z][q] # G[w][s]
  <2>1. z # x /\ w # x
    BY <1>2
  <2> DEFINE z0 == IF z = y THEN x ELSE z
             w0 == IF w = y THEN x ELSE w
  <2>2. z0 \in Names /\ w0 \in Names /\ z0 # w0 /\ G[z] = H[z0] /\ G[w] = H[w0]
    BY <1>2, <2>1
  <2> HIDE DEF z0, w0
  <2> QED BY <1>2, <2>2 DEF Lines
<1> QED BY <1>1, <1>2 DEF Lines, End

\* The new reference has the history of the old one.
LEMMA RenamePutKeeps ==
  ASSUME NEW c, Clients = {c}, World(c), Whole(c), RenamePut(c)
  PROVE  Whole(c)'
<1> DEFINE m == me[c]
           m1 == me'[c]
           x == m.name
           y == m.next
<1>0. Refs(refs)
  BY DEF World
<1>1. m.pc = "renPut" /\ m.pc \in Renaming
  BY DEF RenamePut, At, Renaming
<1>2. /\ Stock(refs, book, prev, store) /\ Fine(m, book) /\ x \in Names /\ y \in Names /\ y # x /\ Logs(book)
      /\ m.path \in Nat
  BY <1>1 DEF Whole, Fine, Stock
<1>4. CASE Fault(c) /\ Return(c) /\ Nothing
  <2>1. Onward(book, book')
    BY <1>2, <1>4, BookGoesOn DEF Nothing
  <2> QED BY <1>1, <1>4, <2>1, FailsSpoiled DEF Nothing
<1>5. CASE PutRef(c, y, Ref(m.path, m.fsi), "renLink")
  <2>1. /\ Put(refs, refs', y, Ref(m.path, m.fsi)) /\ Alike(m, m1) /\ m1.pc = "renLink"
        /\ NoFault /\ prev' = prev /\ store' = store /\ book' = book /\ muddled' = muddled
    BY <1>2, <1>5, PutSteps
  <2>2. Stock(refs', book, prev, store)
    <3>1. Ref(m.path, m.fsi).path \in Nat
      BY <1>2 DEF Ref
    <3> QED BY <1>2, <2>1, <3>1, StockGoesOn
  <2> HIDE DEF m, m1
  <2>3. Fine(m1, book) /\ m1.pc \in RestPcs
    BY <1>1, <1>2, <2>1, FineOn DEF Renaming, Removing, RestPcs
  <2> HIDE DEF x, y
  <2>4. ASSUME Clean' PROVE Calms(refs', book, prev, store)
    <3>1. Clean
      BY <2>1, <2>4, Cleaner
    <3>2. PICK H : Hist(H, m, refs, book, prev, store)
      BY <3>1 DEF Whole, Hists, m
    <3>3. /\ ~refs[x].stored /\ Holds(book, m.id, y) /\ Fits(book[m.id].vs, H[x], 0) /\ m.path = End(H[x])
      BY <1>1, <3>2 DEF Hist, HistPcs, x, y
    <3>4. Lines(H, prev, store) /\ Single(book) /\ \A z \in Names : z # x => Told(H, refs, book, z)
      BY <3>2 DEF Hist, x
    <3> DEFINE G == [z \in Names |-> IF z = x THEN <<>> ELSE IF z = y THEN H[x] ELSE H[z]]
    <3>5. /\ G = [z \in Names |-> G[z]] /\ G[x] = <<>> /\ G[y] = H[x]
          /\ \A z \in Names : z # x /\ z # y => G[z] = H[z]
      BY <1>2
    <3> HIDE DEF G
    <3>6. Lines(G, prev, store) /\ End(G[x]) = 0
      BY <1>2, <3>4, <3>5, LinesMoved
    <3>7. refs'[y].path = m.path /\ refs'[y].stored /\ \A z \in Names : z # y => refs'[z] = refs[z]
      BY <2>1 DEF Put, Ref
    <3>8. refs[x].path = 0
      BY <1>0, <1>2, <3>3 DEF Refs, NoRef
    <3>9. ASSUME NEW z \in Names PROVE Told(G, refs', book, z)
      <4>1. CASE z = x
        BY <1>2, <3>3, <3>6, <3>7, <3>8, <4>1 DEF Told
      <4>2. CASE z = y
        <5>1. \A i \in DOMAIN book : Holds(book, i, y) => i = m.id
          BY <3>3, <3>4 DEF Single, Holds
        <5> QED BY <3>3, <3>5, <3>7, <4>2, <5>1 DEF Told
      <4>3. CASE z # x /\ z # y
        BY <3>4, <3>5, <3>7, <4>3 DEF Told
      <4> QED BY <4>1, <4>2, <4>3
    <3>10. Calm(G, refs', book, prev, store)
      BY <3>4, <3>6, <3>9 DEF Calm
    <3> QED BY <3>10 DEF Calms
  <2> QED BY <2>1, <2>2, <2>3, <2>4, Calms2 DEF m1
<1> QED BY <1>4, <1>5 DEF RenamePut

-----------------------------------------------------------------------------
(* A remove. *)

\* Where a remove of everything is, once the reference is on its way out.
Leaving(m) == m.pc \in {"rmLog", "rmRef", "unlink"} \/ (m.pc \in {"rewind", "rewindPut", "rmWrite"} /\ m.n = All)

\* What is told of a name whose logs begin, end, or keep their versions.
LEMMA ToldSub ==
  ASSUME NEW H, NEW r, NEW b, NEW b1, NEW x, Told(H, r, b, x), Sub(b, b1)
  PROVE  Told(H, r, b1, x)
<1>1. ASSUME r[x].stored, NEW i \in DOMAIN b1, Holds(b1, i, x) PROVE Fits(b1[i].vs, H[x], 0)
  <2>1. CASE b1[i].vs = <<>>
    BY <2>1, EmptyFits
  <2>2. CASE b1[i].vs # <<>>
    <3>1. i \in DOMAIN b /\ Holds(b, i, x) /\ b[i].vs = b1[i].vs
      BY <1>1, <2>2 DEF Sub, Holds
    <3> QED BY <1>1, <3>1 DEF Told
  <2> QED BY <2>1, <2>2
<1> QED BY <1>1 DEF Told

\* A remove of everything goes on, whatever becomes of the reference and the log.
LEMMA LeavesOn ==
  ASSUME NEW c, Clients = {c}, World(c), Whole(c), me[c].pc \in Removing, Fine(me'[c], book'),
         me'[c].name = me[c].name, Leaving(me'[c]), NoFault, prev' = prev, store' = store,
         Stock(refs', book', prev, store), \A y \in Names : y # me[c].name => refs'[y] = refs[y],
         \/ book' = book /\ muddled' = muddled
         \/ Sub(book, book') /\ muddled' = (muddled \/ Twins(book'))
  PROVE  Whole(c)'
<1> DEFINE m == me[c]
           m1 == me'[c]
<1>1. ASSUME Clean' PROVE Hists(m1, refs', book', prev, store)
  <2>1. Clean /\ (book' = book \/ (Sub(book, book') /\ Single(book')))
    BY <1>1, Cleaner
  <2>2. PICK H : Hist(H, m, refs, book, prev, store)
    BY <2>1 DEF Whole, Hists
  <2>3. Lines(H, prev, store) /\ Single(book) /\ \A y \in Names : y # m.name => Told(H, refs, book, y)
    BY <2>2 DEF Hist
  <2>4. HistPcs(H, m1, refs', book', prev, store)
    BY DEF HistPcs, Leaving, All
  <2>5. ASSUME NEW y \in Names, y # m.name PROVE Told(H, refs', book', y)
    <3>1. Told(H, refs, book', y)
      BY <2>1, <2>3, <2>5, ToldSub
    <3> QED BY <2>5, <3>1 DEF Told
  <2>6. m1.pc \in OffPcs
    BY DEF Leaving, OffPcs
  <2>7. Hist(H, m1, refs', book', prev, store)
    BY <2>1, <2>3, <2>4, <2>5, <2>6 DEF Hist
  <2> QED BY <2>7 DEF Hists
<1> QED BY <1>1 DEF Whole

\* A remove finds what there is to remove.
LEMMA ResolveRemoveKeeps ==
  ASSUME NEW c, Clients = {c}, World(c), Whole(c), ResolveRemove(c)
  PROVE  Whole(c)'
<1> DEFINE m == me[c]
           m1 == me'[c]
           x == m.name
           i == RefToInitID(x)
           d == refs[x].fsi
           k == Len(book[i].vs)
           n == IF m.n = All \/ m.n >= Items(i) THEN All ELSE m.n
           pc1 == IF n # All THEN "rmVersion"
                  ELSE IF d # NoDir THEN "unlink"
                  ELSE IF m.n # All /\ Items(i) > 0 /\ refs[x].path # 0 THEN "rmVersion" ELSE "rmLog"
<1>0. DOMAIN me = Clients /\ DOMAIN m = Fields
  BY DEF World, Local
<1>1. m.pc = "rmResolve" /\ m.pc \notin OffPcs /\ m.pc \in Removing /\ NoFault
  BY DEF ResolveRemove, At, OffPcs, Removing
<1>2. /\ Stock(refs, book, prev, store) /\ Fine(m, book) /\ Logs(book) /\ x \in Names /\ refs[x].path \in Nat
      /\ m.n \in {-1, 1, 2} /\ m.op = "remove"
  BY <1>1 DEF Whole, Stock, Fine
<1>3. i \in 0 .. Len(book) /\ (i # 0 => Holds(book, i, x))
  BY <1>2, LogOf DEF Holds
<1>4. refs' = refs /\ prev' = prev /\ store' = store /\ book' = book /\ UNCHANGED <<runs, dirs, ops, moved>>
  BY DEF ResolveRemove
<1>5. CASE Return(c) /\ muddled' = muddled
  <2>1. Nothing
    BY <1>4, <1>5 DEF Nothing
  <2> QED BY <1>1, <1>5, <2>1, Returns
<1>6. CASE me' = [me EXCEPT ![c].pc = "rmLog", ![c].n = All] /\ muddled' = muddled
  <2>1. /\ m1.pc = "rmLog" /\ m1.op = m.op /\ m1.name = x /\ m1.n = All /\ m1.id = m.id
        /\ m1.path = m.path /\ m1.at = m.at
    BY <1>0, <1>6 DEF Fields
  <2>2. Fine(m1, book) /\ Leaving(m1)
    BY <1>2, <2>1 DEF Fine, Leaving, Renaming, Removing, All
  <2> QED BY <1>1, <1>2, <1>4, <1>6, <2>1, <2>2, LeavesOn
<1>7. CASE /\ refs[x].stored /\ i # 0
           /\ me' = [me EXCEPT ![c].id = i, ![c].n = n, ![c].left = n, ![c].fsi = d,
                            ![c].path = refs[x].path, ![c].at = refs[x].path, ![c].pc = pc1]
           /\ muddled' = (muddled \/ (n # All /\ ~Clear(i, n)))
  <2>1. /\ m1.pc = pc1 /\ m1.op = m.op /\ m1.name = x /\ m1.n = n /\ m1.left = n /\ m1.id = i
        /\ m1.path = refs[x].path /\ m1.at = refs[x].path
    <3> HIDE DEF pc1, n, i, d
    <3> QED BY <1>0, <1>7 DEF Fields
  <2>2. /\ n = All \/ n = m.n
        /\ pc1 \in {"rmVersion", "unlink", "rmLog"} /\ (n # All => pc1 = "rmVersion")
    OBVIOUS
  <2>n. ~muddled' /\ n # All => n < k
    BY <1>7 DEF Clear
  <2> HIDE DEF pc1, n, i, d, m1, m, k
  <2>3. Fine(m1, book)
    BY <1>2, <1>3, <2>1, <2>2 DEF Fine, Renaming, Removing, All
  <2> HIDE DEF x
  <2>4. ASSUME Clean' PROVE Hists(m1, refs, book, prev, store)
    <3>1. Clean /\ (n # All => n \in {1, 2} /\ n < k)
      BY <1>1, <1>2, <1>7, <2>2, <2>4, <2>n DEF Clean, NoFault, All
    <3>2. PICK H : Calm(H, refs, book, prev, store)
      BY <1>1, <3>1, RestedSome DEF Whole, Calms, m
    <3>3. Told(H, refs, book, x)
      BY <1>2, <3>2 DEF Calm
    <3>4. Fits(book[i].vs, H[x], 0) /\ refs[x].path = End(H[x])
      BY <1>3, <1>7, <3>3, FitsOne DEF Told
    <3>5. ASSUME n # All PROVE n - n = 0 /\ n \in 1 .. n
      BY <3>1, <3>5
    <3>6. HistPcs(H, m1, refs, book, prev, store)
      BY <1>3, <1>7, <2>1, <2>2, <3>1, <3>4, <3>5 DEF HistPcs, k
    <3> QED BY <3>2, <3>6, Paused
  <2> QED BY <1>2, <1>4, <2>3, <2>4 DEF Whole, m1
<1>8. PlanRemove(c, i, refs[x]) =>
        /\ me' = [me EXCEPT ![c].id = i, ![c].n = n, ![c].left = n, ![c].fsi = d,
                            ![c].path = refs[x].path, ![c].at = refs[x].path, ![c].pc = pc1]
        /\ muddled' = (muddled \/ (n # All /\ ~Clear(i, n)))
  BY DEF PlanRemove
<1>9. \/ refs[x].stored /\ i # 0 /\ PlanRemove(c, i, refs[x])
      \/ Return(c) /\ muddled' = muddled
      \/ me' = [me EXCEPT ![c].pc = "rmLog", ![c].n = All] /\ muddled' = muddled
  BY DEF ResolveRemove
<1> HIDE DEF i, n, d, pc1, x, m
<1> QED BY <1>5, <1>6, <1>7, <1>8, <1>9

\* A remove of everything unlinks the directory first.
LEMMA UnlinkRemovedKeeps ==
  ASSUME NEW c, Clients = {c}, World(c), Whole(c), UnlinkRemoved(c)
  PROVE  Whole(c)'
<1> DEFINE m == me[c]
           m1 == me'[c]
           x == m.name
           was == m.held[x]
<1>0. Refs(refs) /\ (m.fresh => m.held = refs)
  BY DEF World, Local
<1>1. m.pc = "unlink" /\ m.pc \in Removing
  BY DEF UnlinkRemoved, At, Removing
<1>2. Stock(refs, book, prev, store) /\ Fine(m, book) /\ Logs(book) /\ x \in Names
  BY <1>1 DEF Whole, Stock, Fine
<1>3. me' = [me EXCEPT ![c].pc = "rmLog", ![c].fresh = FALSE]
  BY DEF UnlinkRemoved
<1>4. Alike(m, m1) /\ m1.pc = "rmLog"
  BY <1>3, GoAlike
<1>5. CASE Fault(c) /\ Nothing
  <2>1. Onward(book, book')
    BY <1>2, <1>5, BookGoesOn DEF Nothing
  <2> QED BY <1>1, <1>4, <1>5, <2>1, FailsSpoiled DEF Nothing
<1>6. CASE /\ m.fresh /\ NoFault
           /\ refs' = IF was.stored /\ was.path # 0 THEN [m.held EXCEPT ![x] = Ref(was.path, NoDir)] ELSE refs
           /\ prev' = prev /\ store' = store /\ book' = book /\ muddled' = muddled
  <2>1. Stock(refs', book, prev, store) /\ \A y \in Names : y # x => refs'[y] = refs[y]
    <3>1. CASE refs' = refs
      BY <1>2, <3>1
    <3>2. CASE refs' = [refs EXCEPT ![x] = Ref(refs[x].path, NoDir)]
      <4>1. Put(refs, refs', x, Ref(refs[x].path, NoDir))
        BY <1>0, <1>2, <3>2, Written
      <4>2. Ref(refs[x].path, NoDir).path \in Nat
        BY <1>2 DEF Ref, Stock
      <4> QED BY <1>2, <4>1, <4>2, StockGoesOn DEF Put
    <3> QED BY <1>0, <1>6, <3>1, <3>2
  <2> HIDE DEF m, m1
  <2>2. Fine(m1, book) /\ Leaving(m1) /\ m1.name = m.name
    BY <1>1, <1>2, <1>4, FineOn DEF Renaming, Removing, Leaving, Alike
  <2> QED BY <1>1, <1>6, <2>1, <2>2, LeavesOn DEF m, m1
<1> QED BY <1>5, <1>6 DEF UnlinkRemoved

\* It marks the log as removed.
LEMMA WriteDatasetDeleteKeeps ==
  ASSUME NEW c, Clients = {c}, World(c), Whole(c), WriteDatasetDelete(c)
  PROVE  Whole(c)'
<1> DEFINE m == me[c]
           m1 == me'[c]
           x == m.name
           i == RefToInitID(x)
<1>1. m.pc = "rmLog" /\ m.pc \in Removing /\ Go(c, "rmRef")
  BY DEF WriteDatasetDelete, At, Removing
<1>2. Stock(refs, book, prev, store) /\ Fine(m, book) /\ Logs(book) /\ x \in Names
  BY <1>1 DEF Whole, Stock, Fine
<1>3. Alike(m, m1) /\ m1.pc = "rmRef"
  BY <1>1, GoAlike
<1>4. Fine(m1, book) /\ Leaving(m1) /\ m1.name = m.name
  <2> HIDE DEF m, m1
  <2> QED BY <1>1, <1>2, <1>3, FineOn DEF Renaming, Removing, Leaving, Alike
<1>5. CASE Fault(c) /\ Nothing
  <2>1. Onward(book, book')
    BY <1>2, <1>5, BookGoesOn DEF Nothing
  <2> QED BY <1>1, <1>3, <1>5, <2>1, FailsSpoiled DEF Nothing
<1>6. CASE NoFault /\ Nothing
  BY <1>1, <1>2, <1>4, <1>6, LeavesOn DEF Nothing
<1>7. CASE i # 0 /\ book' = [book EXCEPT ![i].state = "removed"] /\ NoFault /\ BookOnly
  <2>1. i \in DOMAIN book
    BY <1>2, <1>7, LogOf
  <2>2. Onward(book, book') /\ Sub(book, book')
    BY <1>2, <1>7, <2>1, BookGoesOn, BookSub
  <2>3. Fine(m1, book') /\ Stock(refs, book', prev, store)
    BY <1>2, <1>4, <2>2, FineBook, StockGoesOn
  <2> QED BY <1>1, <1>4, <1>7, <2>2, <2>3, LeavesOn DEF BookOnly
<1> QED BY <1>5, <1>6, <1>7 DEF WriteDatasetDelete

\* The reference is gone, and its history with it.
LEMMA RemoveRefKeeps ==
  ASSUME NEW c, Clients = {c}, World(c), Whole(c), RemoveRef(c)
  PROVE  Whole(c)'
<1> DEFINE m == me[c]
           m1 == me'[c]
           x == m.name
<1>1. m.pc = "rmRef" /\ m.pc \in Removing
  BY DEF RemoveRef, At, Removing
<1>2. Stock(refs, book, prev, store) /\ Fine(m, book) /\ Logs(book) /\ x \in Names
  BY <1>1 DEF Whole, Stock, Fine
<1>3. CASE Fault(c) /\ Go(c, "rmFiles") /\ Nothing
  <2>1. Onward(book, book')
    BY <1>2, <1>3, BookGoesOn DEF Nothing
  <2>2. Alike(m, m1) /\ m1.pc = "rmFiles"
    BY <1>3, GoAlike
  <2> QED BY <1>1, <1>3, <2>1, <2>2, FailsSpoiled DEF Nothing
<1>4. CASE PutRef(c, x, NoRef, "rmFiles")
  <2>1. /\ Put(refs, refs', x, NoRef) /\ Alike(m, m1) /\ m1.pc = "rmFiles"
        /\ NoFault /\ prev' = prev /\ store' = store /\ book' = book /\ muddled' = muddled
    BY <1>2, <1>4, PutSteps
  <2>2. Stock(refs', book, prev, store)
    <3>1. NoRef.path \in Nat
      BY DEF NoRef
    <3> QED BY <1>2, <2>1, <3>1, StockGoesOn
  <2> HIDE DEF m, m1
  <2>3. Fine(m1, book) /\ m1.pc \in RestPcs
    BY <1>1, <1>2, <2>1, FineOn DEF Renaming, Removing, RestPcs
  <2> HIDE DEF x
  <2>4. ASSUME Clean' PROVE Calms(refs', book, prev, store)
    <3>1. Clean
      BY <2>1, <2>4, Cleaner
    <3>2. PICK H : Hist(H, m, refs, book, prev, store)
      BY <3>1 DEF Whole, Hists, m
    <3>3. Lines(H, prev, store) /\ Single(book) /\ \A y \in Names : y # x => Told(H, refs, book, y) /\ refs'[y] = refs[y]
      BY <2>1, <3>2 DEF Hist, x, Put
    <3>4. refs'[x].path = 0 /\ ~refs'[x].stored
      BY <2>1 DEF Put, NoRef
    <3> QED BY <1>2, <3>3, <3>4, CalmForgets
  <2> QED BY <2>1, <2>2, <2>3, <2>4, Calms2 DEF m1
<1> QED BY <1>3, <1>4 DEF RemoveRef

\* A history without its newest version.
Trimmed(h, g) ==
  /\ g \in Seq(Nat) /\ Len(g) = Len(h) - 1 /\ DOMAIN g = 1 .. Len(h) - 1
  /\ \A q \in 1 .. Len(h) - 1 : g[q] = h[q]

\* It is the one that is cut.
LEMMA CutOne ==
  ASSUME NEW h \in Seq(Nat), h # <<>>
  PROVE  Trimmed(h, SubSeq(h, 1, Len(h) - 1))
<1>1. Len(h) \in Nat /\ Len(h) >= 1 /\ DOMAIN h = 1 .. Len(h)
  OBVIOUS
<1> DEFINE g == SubSeq(h, 1, Len(h) - 1)
<1>2. g \in Seq(Nat) /\ Len(g) = Len(h) - 1 /\ DOMAIN g = 1 .. Len(h) - 1 /\ \A q \in 1 .. Len(h) - 1 : g[q] = h[q]
  BY <1>1
<1> QED BY <1>2 DEF Trimmed

\* What is left of a history still fits what is left of the log.
LEMMA FitsShorter ==
  ASSUME NEW vs \in Seq(Nat), NEW h \in Seq(Nat), h # <<>>, NEW d \in Nat, Fits(vs, h, d), NEW g, Trimmed(h, g)
  PROVE  Fits(vs, g, d + 1)
<1>1. Len(h) \in Nat /\ Len(h) >= 1 /\ DOMAIN h = 1 .. Len(h)
  OBVIOUS
<1>l. Len(vs) \in Nat
  OBVIOUS
<1>2. Len(g) = Len(h) - 1 /\ DOMAIN g = 1 .. Len(h) - 1 /\ \A q \in 1 .. Len(h) - 1 : g[q] = h[q]
  BY DEF Trimmed
<1>3. ASSUME NEW j \in 1 .. Len(vs) - (d + 1)
      PROVE  \E q \in DOMAIN g : q =< Len(g) + (d + 1) - Len(vs) + j /\ g[q] = vs[j]
  <2>1. j \in 1 .. Len(vs) - d /\ j \in Int /\ j =< Len(vs) - d - 1
    BY <1>l
  <2>2. PICK q \in DOMAIN h : q =< Len(h) + d - Len(vs) + j /\ h[q] = vs[j]
    BY <2>1 DEF Fits
  <2>3. q \in Nat /\ q >= 1
    BY <1>1
  <2>4. q =< Len(h) - 1
    BY <1>1, <1>l, <2>1, <2>2, <2>3
  <2>5. Len(g) + (d + 1) - Len(vs) + j = Len(h) + d - Len(vs) + j
    BY <1>1, <1>l, <1>2, <2>1
  <2>6. q \in DOMAIN g
    BY <1>1, <1>2, <2>3, <2>4
  <2> QED BY <1>2, <2>2, <2>5, <2>6
<1> QED BY <1>3 DEF Fits

\* A history that is long enough for what is left of the log.
LEMMA FitsEnough ==
  ASSUME NEW vs \in Seq(Nat), NEW h \in Seq(Nat), NEW d \in Nat, Fits(vs, h, d), d < Len(vs)
  PROVE  h # <<>> /\ (d + 1 < Len(vs) => Len(h) >= 2)
<1>1. Len(h) \in Nat /\ DOMAIN h = 1 .. Len(h) /\ Len(vs) \in Nat /\ 1 \in 1 .. Len(vs) - d
  OBVIOUS
<1>2. PICK q \in DOMAIN h : q =< Len(h) + d - Len(vs) + 1
  BY <1>1 DEF Fits
<1> QED BY <1>1, <1>2

\* The history of x without its newest version v, which is no longer stored.
Dropped(H, G, x, v, st, s1) ==
  /\ v = End(H[x]) /\ s1 = st \ {v}
  /\ G = [y \in Names |-> G[y]] /\ Trimmed(H[x], G[x]) /\ \A y \in Names : y # x => G[y] = H[y]

\* Every name still has a history, and the version before v is now the newest.
LEMMA LinesShorter ==
  ASSUME NEW H, NEW p, NEW st, Lines(H, p, st), NEW x \in Names, H[x] # <<>>, NEW v, NEW s1, NEW G,
         Dropped(H, G, x, v, st, s1)
  PROVE  /\ Lines(G, p, s1)
         /\ Len(H[x]) = 1 => p[v] = 0 /\ End(G[x]) = 0
         /\ Len(H[x]) # 1 => p[v] = End(G[x]) /\ End(G[x]) \in st
<1>0. /\ v = End(H[x]) /\ s1 = st \ {v}
      /\ G = [y \in Names |-> G[y]] /\ Trimmed(H[x], G[x]) /\ \A y \in Names : y # x => G[y] = H[y]
  BY DEF Dropped
<1> DEFINE h == H[x]
           g == G[x]
<1>1. h \in Seq(Nat) /\ Line(h, p, st) /\ h # <<>> /\ Trimmed(h, g)
  BY <1>0 DEF Lines
<1> HIDE DEF h, g
<1>2. Len(h) \in Nat /\ Len(h) >= 1 /\ DOMAIN h = 1 .. Len(h) /\ Len(h) \in DOMAIN h
  BY <1>1
<1>3. g \in Seq(Nat) /\ Len(g) = Len(h) - 1 /\ DOMAIN g = 1 .. Len(h) - 1 /\ \A q \in 1 .. Len(h) - 1 : g[q] = h[q]
  BY <1>1 DEF Trimmed
<1>4. v = h[Len(h)]
  BY <1>0, <1>1 DEF End, h
<1>5. Line(g, p, s1)
  <2>1. ASSUME NEW q \in DOMAIN g PROVE q \in DOMAIN h /\ g[q] = h[q] /\ h[q] # v /\ (q # 1 => q - 1 \in DOMAIN g)
    <3>1. q \in DOMAIN h /\ q # Len(h) /\ g[q] = h[q] /\ (q # 1 => q - 1 \in DOMAIN g)
      BY <1>2, <1>3
    <3> QED BY <1>1, <1>2, <1>4, <3>1 DEF Line
  <2>2. ASSUME NEW q \in DOMAIN g PROVE g[q] \in s1 /\ p[g[q]] = IF q = 1 THEN 0 ELSE g[q - 1]
    <3>1. q \in DOMAIN h /\ g[q] = h[q] /\ h[q] # v /\ (q # 1 => q - 1 \in DOMAIN g)
      BY <2>1
    <3>2. q # 1 => g[q - 1] = h[q - 1]
      BY <2>1, <3>1
    <3> QED BY <1>0, <1>1, <3>1, <3>2 DEF Line
  <2>3. \A q, s \in DOMAIN g : g[q] = g[s] => q = s
    BY <1>1, <2>1 DEF Line
  <2> QED BY <2>2, <2>3 DEF Line
<1>6. ASSUME NEW y \in Names, y # x PROVE G[y] \in Seq(Nat) /\ Line(G[y], p, s1)
  <2>1. G[y] = H[y] /\ H[y] \in Seq(Nat) /\ Line(H[y], p, st)
    BY <1>0, <1>6 DEF Lines
  <2>2. \A q \in DOMAIN H[y] : H[y][q] # v
    BY <1>2, <1>4, <1>6 DEF Lines, h
  <2> QED BY <1>0, <2>1, <2>2 DEF Line
<1>7. ASSUME NEW y \in Names, NEW z \in Names, y # z, NEW q \in DOMAIN G[y], NEW s \in DOMAIN G[z]
      PROVE  G[y][q] # G[z][s]
  <2>1. ASSUME NEW w \in Names, NEW u \in DOMAIN G[w] PROVE u \in DOMAIN H[w] /\ G[w][u] = H[w][u]
    <3>1. CASE w = x
      <4>1. u \in DOMAIN g
        BY <2>1, <3>1 DEF g
      <4>2. u \in DOMAIN h /\ g[u] = h[u]
        BY <1>2, <1>3, <4>1
      <4> QED BY <3>1, <4>2 DEF g, h
    <3>2. CASE w # x
      BY <1>0, <2>1, <3>2
    <3> QED BY <3>1, <3>2
  <2> QED BY <1>0, <1>7, <2>1 DEF Lines
<1>8. Lines(G, p, s1)
  <2>1. \A y \in Names : G[y] \in Seq(Nat) /\ Line(G[y], p, s1)
    BY <1>3, <1>5, <1>6 DEF g
  <2> QED BY <1>0, <1>7, <2>1 DEF Lines
<1>9. /\ Len(h) = 1 => p[v] = 0 /\ End(g) = 0
      /\ Len(h) # 1 => p[v] = End(g) /\ End(g) \in st
  <2>1. CASE Len(h) = 1
    <3>1. g = <<>>
      BY <1>3, <2>1
    <3>2. p[v] = 0
      BY <1>1, <1>2, <1>4, <2>1 DEF Line
    <3> QED BY <2>1, <3>1, <3>2 DEF End
  <2>2. CASE Len(h) # 1
    <3>1. g # <<>> /\ Len(h) - 1 \in DOMAIN g /\ Len(h) - 1 \in DOMAIN h
      BY <1>2, <1>3, <2>2
    <3>2. End(g) = h[Len(h) - 1]
      BY <1>3, <3>1 DEF End
    <3>3. p[v] = h[Len(h) - 1] /\ h[Len(h) - 1] \in st
      BY <1>1, <1>2, <1>4, <2>2, <3>1 DEF Line
    <3> QED BY <2>2, <3>2, <3>3
  <2> QED BY <2>1, <2>2
<1> QED BY <1>8, <1>9 DEF g, h

\* A version is deleted: the newest of the history.
LEMMA DeleteVersionKeeps ==
  ASSUME NEW c, Clients = {c}, World(c), Whole(c), DeleteVersion(c)
  PROVE  Whole(c)'
<1> DEFINE m == me[c]
           m1 == me'[c]
           x == m.name
           v == m.at
<1>0. DOMAIN me = Clients /\ DOMAIN m = Fields
  BY DEF World, Local
<1>1. m.pc = "rmVersion" /\ m.pc \in Removing
  BY DEF DeleteVersion, At, Removing
<1>2. /\ Stock(refs, book, prev, store) /\ Fine(m, book) /\ Logs(book) /\ x \in Names
      /\ prev \in Seq(Nat) /\ store \subseteq DOMAIN prev /\ m.n \in {-1, 0, 1, 2} /\ DOMAIN prev = 1 .. Len(prev) /\ Len(prev) \in Nat
  BY <1>1 DEF Whole, Stock, Fine
<1>g. ASSUME GoOn(c) PROVE Return(c) \/ (Alike(m, m1) /\ m1.pc = "rmLog" /\ m.n = All)
  BY <1>g, GoAlike DEF GoOn
<1>3. CASE Fault(c) /\ GoOn(c) /\ Nothing
  <2>1. Onward(book, book')
    BY <1>2, <1>3, BookGoesOn DEF Nothing
  <2> QED BY <1>1, <1>3, <1>g, <2>1, FailsSpoiled DEF Nothing
\* What the histories say of the request.
<1> DEFINE vs == book[m.id].vs
           d == m.n - m.left
<1>h. ASSUME Clean
      PROVE  \E H : /\ Hist(H, m, refs, book, prev, store) /\ Lines(H, prev, store) /\ v = End(H[x])
                    /\ H[x] \in Seq(Nat)
                    /\ H[x] # <<>> => v \in store
                    /\ H[x] = <<>> => v \notin store
                    /\ m.n # All => /\ vs \in Seq(Nat) /\ m.n \in {1, 2} /\ m.left \in 1 .. m.n /\ d \in Nat
                                    /\ Fits(vs, H[x], d) /\ H[x] # <<>> /\ Len(H[x]) >= 2
                                    /\ Holds(book, m.id, x) /\ refs[x].stored /\ m.n < Len(vs)
  <2>1. PICK H : Hist(H, m, refs, book, prev, store)
    BY <1>h DEF Whole, Hists
  <2>2. Lines(H, prev, store) /\ v = End(H[x])
    BY <1>1, <2>1 DEF Hist, HistPcs
  <2>3. /\ H[x] # <<>> => End(H[x]) \in store
        /\ H[x] = <<>> => End(H[x]) = 0
        /\ H[x] \in Seq(Nat)
    BY <1>2, <2>2, Ends DEF Lines
  <2>4. 0 \notin store
    BY <1>2
  <2>5. ASSUME m.n # All
        PROVE  /\ vs \in Seq(Nat) /\ m.n \in {1, 2} /\ m.left \in 1 .. m.n /\ d \in Nat
               /\ Fits(vs, H[x], d) /\ H[x] # <<>> /\ Len(H[x]) >= 2
               /\ Holds(book, m.id, x) /\ refs[x].stored /\ m.n < Len(vs)
    <3>1. /\ Holds(book, m.id, x) /\ refs[x].stored /\ m.n \in {1, 2} /\ m.n < Len(vs) /\ Fits(vs, H[x], d)
          /\ m.left \in 1 .. m.n
      BY <1>1, <2>1, <2>5 DEF Hist, HistPcs
    <3>2. vs \in Seq(Nat)
      BY <1>2, <3>1 DEF Logs, LogOK, Holds
    <3>3. d \in Nat /\ d + 1 < Len(vs) /\ d < Len(vs)
      <4> HIDE DEF vs
      <4>1. Len(vs) \in Nat
        BY <3>2
      <4> QED BY <3>1, <4>1
    <3> HIDE DEF vs, d
    <3>4. H[x] # <<>> /\ Len(H[x]) >= 2
      BY <2>3, <3>1, <3>2, <3>3, FitsEnough
    <3> QED BY <3>1, <3>2, <3>3, <3>4
  <2> HIDE DEF d, vs
  <2> QED BY <2>1, <2>2, <2>3, <2>4, <2>5
<1>4. CASE v \notin store /\ GoOn(c) /\ NoFault /\ Nothing
  <2>0. refs' = refs /\ prev' = prev /\ store' = store /\ book' = book /\ muddled' = muddled
    BY <1>4 DEF Nothing
  <2>1. CASE Alike(m, m1) /\ m1.pc = "rmLog"
    <3>1. Fine(m1, book) /\ Leaving(m1) /\ m1.name = m.name
      <4> HIDE DEF m, m1
      <4> QED BY <1>1, <1>2, <2>1, FineOn DEF Renaming, Removing, Leaving, Alike
    <3> QED BY <1>1, <1>2, <1>4, <2>0, <3>1, LeavesOn
  <2>2. CASE Return(c) /\ m.n # All
    <3>1. ~Clean
      BY <1>4, <1>h, <2>2
    <3>2. ~Clean'
      BY <1>4, <2>0, <3>1, Cleaner
    <3>3. m1 = Idle
      BY <1>0, <2>2 DEF Return
    <3>4. Fine(m1, book)
      BY <1>2, <3>3, FineIdle
    <3> QED BY <1>2, <2>0, <3>2, <3>4, Spoils
  <2>3. Return(c) => m.n # All \/ (Alike(m, m1) /\ m1.pc = "rmLog")
    BY <1>4, GoAlike DEF GoOn
  <2> QED BY <1>4, <1>g, <2>1, <2>2, <2>3
<1>5. CASE /\ v \in store /\ store' = store \ {v} /\ NoFault
           /\ prev' = prev /\ refs' = refs /\ book' = book /\ muddled' = muddled
           /\ IF prev[v] = 0 \/ prev[v] \notin store THEN Go(c, "rewind")
              ELSE me' = [me EXCEPT ![c].at = prev[v], ![c].left = @ - 1, ![c].pc = IF m.left = 1 THEN "rewind" ELSE @]
  <2>s. Stock(refs, book, prev, store')
    BY <1>2, <1>5, StockGoesOn
  <2>v. v \in DOMAIN prev /\ prev[v] \in Nat
    BY <1>2, <1>5
  <2>1. CASE (prev[v] = 0 \/ prev[v] \notin store) /\ Go(c, "rewind")
    <3>1. Alike(m, m1) /\ m1.pc = "rewind"
      BY <2>1, GoAlike
    <3> HIDE DEF m1, m
    <3>2. Fine(m1, book)
      BY <1>1, <1>2, <3>1, FineOn DEF Renaming, Removing
    <3> HIDE DEF vs, d, x, v
    <3>3. ASSUME Clean' PROVE Hists(m1, refs, book, prev, store')
      <4>1. Clean
        BY <1>5, <3>3, Cleaner
      <4>2. PICK H : /\ Hist(H, m, refs, book, prev, store) /\ Lines(H, prev, store) /\ v = End(H[x])
                     /\ H[x] \in Seq(Nat) /\ H[x] # <<>> /\ (m.n # All => Len(H[x]) >= 2)
        BY <1>5, <1>h, <4>1
      <4> DEFINE G == [H EXCEPT ![x] = SubSeq(H[x], 1, Len(H[x]) - 1)]
      <4>c. Trimmed(H[x], SubSeq(H[x], 1, Len(H[x]) - 1))
        BY <4>2, CutOne
      <4>3. /\ G = [y \in Names |-> G[y]] /\ Trimmed(H[x], G[x])
            /\ \A y \in Names : y # x => G[y] = H[y]
        BY <1>2, <4>2, <4>c DEF Lines
      <4>s. Dropped(H, G, x, v, store, store')
        BY <1>5, <4>2, <4>3 DEF Dropped
      <4> HIDE DEF G
      <4>4. /\ Lines(G, prev, store') /\ (Len(H[x]) # 1 => prev[v] = End(G[x]) /\ End(G[x]) \in store)
        BY <1>2, <4>2, <4>s, LinesShorter
      <4>5. m.n = All
        <5>1. 0 \notin store
          BY <1>2
        <5>2. Len(H[x]) = 1
          BY <2>1, <4>4, <5>1
        <5> QED BY <4>2, <5>2
      <4>6. HistPcs(G, m1, refs, book, prev, store')
        BY <3>1, <4>5 DEF HistPcs, Alike
      <4>7. \A y \in Names : y # x => Told(H, refs, book, y)
        BY <4>2 DEF Hist, x
      <4>8. \A y \in Names : y # x => Told(G, refs, book, y)
        BY <4>3, <4>7 DEF Told
      <4>9. Hist(G, m1, refs, book, prev, store')
        BY <3>1, <4>2, <4>4, <4>6, <4>8 DEF Hist, OffPcs, Alike, x
      <4> QED BY <4>9 DEF Hists
    <3> QED BY <1>5, <2>s, <3>2, <3>3 DEF Whole, m1
  <2>2. CASE /\ prev[v] # 0 /\ prev[v] \in store
             /\ me' = [me EXCEPT ![c].at = prev[v], ![c].left = @ - 1, ![c].pc = IF m.left = 1 THEN "rewind" ELSE @]
    <3>1. /\ m1.pc = (IF m.left = 1 THEN "rewind" ELSE "rmVersion") /\ m1.op = m.op /\ m1.name = x /\ m1.next = m.next
          /\ m1.n = m.n /\ m1.id = m.id /\ m1.path = m.path /\ m1.at = prev[v] /\ m1.left = m.left - 1
      BY <1>0, <1>1, <2>2 DEF Fields
    <3> HIDE DEF m1, m
    <3>2. Fine(m1, book)
      BY <1>1, <1>2, <2>v, <3>1 DEF Fine, Renaming, Removing
    <3> HIDE DEF vs, d, x, v
    <3>3. ASSUME Clean' PROVE Hists(m1, refs, book, prev, store')
      <4>1. Clean
        BY <1>5, <3>3, Cleaner
      <4>2. PICK H : /\ Hist(H, m, refs, book, prev, store) /\ Lines(H, prev, store) /\ v = End(H[x])
                     /\ H[x] \in Seq(Nat) /\ H[x] # <<>>
                     /\ m.n # All => /\ vs \in Seq(Nat) /\ m.n \in {1, 2} /\ m.left \in 1 .. m.n /\ d \in Nat
                                     /\ Fits(vs, H[x], d)
                                     /\ Holds(book, m.id, x) /\ refs[x].stored /\ m.n < Len(vs)
        BY <1>5, <1>h, <4>1
      <4> DEFINE G == [H EXCEPT ![x] = SubSeq(H[x], 1, Len(H[x]) - 1)]
      <4>c. Trimmed(H[x], SubSeq(H[x], 1, Len(H[x]) - 1))
        BY <4>2, CutOne
      <4>3. /\ G = [y \in Names |-> G[y]] /\ Trimmed(H[x], G[x])
            /\ \A y \in Names : y # x => G[y] = H[y]
        BY <1>2, <4>2, <4>c DEF Lines
      <4>s. Dropped(H, G, x, v, store, store')
        BY <1>5, <4>2, <4>3 DEF Dropped
      <4> HIDE DEF G
      <4>4. /\ Lines(G, prev, store')
            /\ Len(H[x]) = 1 => prev[v] = 0
            /\ Len(H[x]) # 1 => prev[v] = End(G[x])
        BY <1>2, <4>2, <4>s, LinesShorter
      <4>5. m1.at = End(G[x])
        BY <2>2, <3>1, <4>4
      <4>6. m.n # All => Fits(vs, G[x], d + 1)
        BY <4>2, <4>3, FitsShorter
      <4>7. HistPcs(G, m1, refs, book, prev, store')
        <5>1. CASE m.n = All
          BY <3>1, <4>5, <5>1 DEF HistPcs
        <5>2. CASE m.n # All /\ m.left = 1
          <6>1. d + 1 = m.n
            BY <4>2, <5>2 DEF d
          <6> QED BY <3>1, <4>2, <4>5, <4>6, <5>2, <6>1 DEF HistPcs, vs
        <5>3. CASE m.n # All /\ m.left # 1
          <6>1. d + 1 = m1.n - m1.left /\ m1.left \in 1 .. m1.n
            BY <3>1, <4>2, <5>3 DEF d
          <6> QED BY <3>1, <4>2, <4>5, <4>6, <5>3, <6>1 DEF HistPcs, vs
        <5> QED BY <5>1, <5>2, <5>3
      <4>8. \A y \in Names : y # x => Told(H, refs, book, y)
        BY <4>2 DEF Hist, x
      <4>9. \A y \in Names : y # x => Told(G, refs, book, y)
        BY <4>3, <4>8 DEF Told
      <4>10. Hist(G, m1, refs, book, prev, store')
        BY <3>1, <4>2, <4>4, <4>7, <4>9 DEF Hist, OffPcs
      <4> QED BY <4>10 DEF Hists
    <3> QED BY <1>5, <2>s, <3>2, <3>3 DEF Whole, m1
  <2> QED BY <1>5, <2>1, <2>2
<1> QED BY <1>3, <1>4, <1>5 DEF DeleteVersion

\* A remove that does not go on: that of all versions does, one of some has failed before.
LEMMA GivesUp ==
  ASSUME NEW c, Clients = {c}, World(c), Whole(c), me[c].pc \in Removing, GoOn(c), NoFault, Nothing,
         me[c].n # All => ~Clean
  PROVE  Whole(c)'
<1> DEFINE m == me[c]
           m1 == me'[c]
<1>0. DOMAIN me = Clients /\ Stock(refs, book, prev, store) /\ Fine(m, book) /\ Logs(book)
  BY DEF World, Local, Whole, Stock
<1>1. refs' = refs /\ prev' = prev /\ store' = store /\ book' = book /\ muddled' = muddled
  BY DEF Nothing
<1>2. CASE m.n = All
  <2>1. Alike(m, m1) /\ m1.pc = "rmLog"
    BY <1>2, GoAlike DEF GoOn
  <2>2. Fine(m1, book) /\ Leaving(m1) /\ m1.name = m.name
    <3>1. m.pc \in Removing
      OBVIOUS
    <3> HIDE DEF m, m1
    <3> QED BY <1>0, <2>1, <3>1, FineOn DEF Renaming, Removing, Leaving, Alike
  <2> QED BY <1>0, <1>1, <2>2, LeavesOn
<1>3. CASE m.n # All
  <2>1. m1 = Idle
    BY <1>0, <1>3 DEF GoOn, Return
  <2>2. Fine(m1, book)
    BY <1>0, <2>1, FineIdle
  <2>3. ~Clean'
    BY <1>1, <1>3, Cleaner
  <2> QED BY <1>0, <1>1, <2>2, <2>3, Spoils
<1> QED BY <1>2, <1>3

\* The reference goes, to come back with the version that is left.
LEMMA RewindKeeps ==
  ASSUME NEW c, Clients = {c}, World(c), Whole(c), Rewind(c)
  PROVE  Whole(c)'
<1> DEFINE m == me[c]
           m1 == me'[c]
           x == m.name
           q == NoRef
<1>0. m.fresh => m.held = refs
  BY DEF World, Local
<1>1. m.pc = "rewind" /\ m.pc \in Removing
  BY DEF Rewind, At, Removing
<1>2. Stock(refs, book, prev, store) /\ Fine(m, book) /\ Logs(book) /\ x \in Names /\ m.at \in Nat
  BY <1>1 DEF Whole, Stock, Fine
<1>h. ASSUME Clean, m.n # All
      PROVE  \E H : /\ Hist(H, m, refs, book, prev, store) /\ m.at = End(H[x]) /\ Holds(book, m.id, x) /\ refs[x].stored
                    /\ m.n \in {1, 2} /\ m.n < Len(book[m.id].vs) /\ Fits(book[m.id].vs, H[x], m.n)
  <2>1. PICK H : Hist(H, m, refs, book, prev, store)
    BY <1>h DEF Whole, Hists
  <2> HIDE DEF m
  <2>2. /\ m.at = End(H[x]) /\ Holds(book, m.id, x) /\ refs[x].stored
        /\ m.n \in {1, 2} /\ m.n < Len(book[m.id].vs) /\ Fits(book[m.id].vs, H[x], m.n)
    BY <1>1, <1>h, <2>1 DEF Hist, HistPcs
  <2> QED BY <2>1, <2>2
<1>3. CASE Fault(c) /\ GoOn(c) /\ Nothing
  <2>1. Onward(book, book')
    BY <1>2, <1>3, BookGoesOn DEF Nothing
  <2>2. Return(c) \/ (Alike(m, m1) /\ m1.pc = "rmLog")
    BY <1>3, GoAlike DEF GoOn
  <2> QED BY <1>1, <1>3, <2>1, <2>2, FailsSpoiled DEF Nothing
<1>4. CASE m.fresh /\ ~m.held[x].stored /\ GoOn(c) /\ NoFault /\ Nothing
  <2>1. m.n # All => ~Clean
    BY <1>0, <1>4, <1>h
  <2> QED BY <1>1, <1>4, <2>1, GivesUp
<1>5. CASE /\ m.fresh /\ refs' = [m.held EXCEPT ![x] = q] /\ NoFault /\ RefsOnly
           /\ me' = [me EXCEPT ![c].pc = "rewindPut", ![c].fresh = FALSE, ![c].dir = m.held[x].fsi]
  <2>0. DOMAIN me = Clients /\ DOMAIN m = Fields /\ Refs(refs)
    BY DEF World, Local
  <2>1. /\ Put(refs, refs', x, q) /\ Alike(m, m1) /\ m1.pc = "rewindPut"
        /\ NoFault /\ prev' = prev /\ store' = store /\ book' = book /\ muddled' = muddled
    <3>1. Put(refs, refs', x, q)
      <4> HIDE DEF q
      <4> QED BY <1>0, <1>2, <1>5, <2>0, Written
    <3>2. Alike(m, m1) /\ m1.pc = "rewindPut"
      BY <1>5, <2>0 DEF Alike, Fields
    <3> QED BY <1>5, <3>1, <3>2 DEF RefsOnly
  <2>2. q.path \in Nat
    BY DEF NoRef
  <2> HIDE DEF q
  <2>3. Stock(refs', book, prev, store)
    BY <1>2, <2>1, <2>2, StockGoesOn
  <2>4. \A y \in Names : y # x => refs'[y] = refs[y]
    BY <2>1 DEF Put
  <2>5. Fine(m1, book) /\ m1.name = m.name /\ (m.n = All => Leaving(m1))
    <3> HIDE DEF m, m1
    <3> QED BY <1>1, <1>2, <2>1, FineOn DEF Renaming, Removing, Leaving, Alike
  <2>6. CASE m.n = All
    BY <1>1, <2>1, <2>3, <2>4, <2>5, <2>6, LeavesOn
  <2>7. CASE m.n # All
    <3>1. ASSUME Clean' PROVE Hists(m1, refs', book, prev, store)
      <4>1. Clean
        BY <2>1, <3>1, Cleaner
      <4>2. PICK H : /\ Hist(H, m, refs, book, prev, store) /\ m.at = End(H[x]) /\ Holds(book, m.id, x) /\ refs[x].stored
                     /\ m.n \in {1, 2} /\ m.n < Len(book[m.id].vs) /\ Fits(book[m.id].vs, H[x], m.n)
        BY <1>h, <2>7, <4>1
      <4> HIDE DEF m, m1
      <4>4. m1.name = x /\ m1.id = m.id /\ m1.n = m.n /\ m1.at = m.at /\ m1.pc = "rewindPut"
        BY <2>1 DEF Alike
      <4> HIDE DEF x
      <4>5. HistPcs(H, m1, refs', book, prev, store)
        BY <4>2, <4>4 DEF HistPcs
      <4>6. \A y \in Names : y # x => Told(H, refs, book, y)
        BY <4>2 DEF Hist, x
      <4>7. \A y \in Names : y # x => Told(H, refs', book, y)
        BY <2>1, <4>6, ToldPut
      <4>8. Hist(H, m1, refs', book, prev, store)
        BY <4>2, <4>4, <4>5, <4>7 DEF Hist, OffPcs
      <4> QED BY <4>8 DEF Hists
    <3> QED BY <2>1, <2>3, <2>5, <3>1 DEF Whole
  <2> QED BY <2>6, <2>7
<1> QED BY <1>3, <1>4, <1>5 DEF Rewind

\* It comes back.
LEMMA RewindPutKeeps ==
  ASSUME NEW c, Clients = {c}, World(c), Whole(c), RewindPut(c)
  PROVE  Whole(c)'
<1> DEFINE m == me[c]
           m1 == me'[c]
           x == m.name
           q == Ref(m.at, m.dir)
<1>0. m.fresh => m.held = refs
  BY DEF World, Local
<1>1. m.pc = "rewindPut" /\ m.pc \in Removing
  BY DEF RewindPut, At, Removing
<1>2. Stock(refs, book, prev, store) /\ Fine(m, book) /\ Logs(book) /\ x \in Names /\ m.at \in Nat
  BY <1>1 DEF Whole, Stock, Fine
<1>h. ASSUME Clean, m.n # All
      PROVE  \E H : /\ Hist(H, m, refs, book, prev, store) /\ m.at = End(H[x]) /\ Holds(book, m.id, x)
                    /\ m.n \in {1, 2} /\ m.n < Len(book[m.id].vs) /\ Fits(book[m.id].vs, H[x], m.n)
  <2>1. PICK H : Hist(H, m, refs, book, prev, store)
    BY <1>h DEF Whole, Hists
  <2> HIDE DEF m
  <2>2. /\ m.at = End(H[x]) /\ Holds(book, m.id, x)
        /\ m.n \in {1, 2} /\ m.n < Len(book[m.id].vs) /\ Fits(book[m.id].vs, H[x], m.n)
    BY <1>1, <1>h, <2>1 DEF Hist, HistPcs
  <2> QED BY <2>1, <2>2
<1>3. CASE Fault(c) /\ GoOn(c) /\ Nothing
  <2>1. Onward(book, book')
    BY <1>2, <1>3, BookGoesOn DEF Nothing
  <2>2. Return(c) \/ (Alike(m, m1) /\ m1.pc = "rmLog")
    BY <1>3, GoAlike DEF GoOn
  <2> QED BY <1>1, <1>3, <2>1, <2>2, FailsSpoiled DEF Nothing
<1>5. CASE PutRef(c, x, q, "rmWrite")
  <2>1. /\ Put(refs, refs', x, q) /\ Alike(m, m1) /\ m1.pc = "rmWrite"
        /\ NoFault /\ prev' = prev /\ store' = store /\ book' = book /\ muddled' = muddled
    <3> HIDE DEF q
    <3> QED BY <1>2, <1>5, PutSteps
  <2>2. q.path = m.at /\ q.stored
    BY DEF Ref
  <2> HIDE DEF q
  <2>3. Stock(refs', book, prev, store)
    BY <1>2, <2>1, <2>2, StockGoesOn
  <2>4. \A y \in Names : y # x => refs'[y] = refs[y]
    BY <2>1 DEF Put
  <2>5. Fine(m1, book) /\ m1.name = m.name /\ (m.n = All => Leaving(m1))
    <3> HIDE DEF m, m1
    <3> QED BY <1>1, <1>2, <2>1, FineOn DEF Renaming, Removing, Leaving, Alike
  <2>6. CASE m.n = All
    BY <1>1, <2>1, <2>3, <2>4, <2>5, <2>6, LeavesOn
  <2>7. CASE m.n # All
    <3>1. ASSUME Clean' PROVE Hists(m1, refs', book, prev, store)
      <4>1. Clean
        BY <2>1, <3>1, Cleaner
      <4>2. PICK H : /\ Hist(H, m, refs, book, prev, store) /\ m.at = End(H[x]) /\ Holds(book, m.id, x)
                     /\ m.n \in {1, 2} /\ m.n < Len(book[m.id].vs) /\ Fits(book[m.id].vs, H[x], m.n)
        BY <1>h, <2>7, <4>1
      <4>3. refs'[x].stored /\ refs'[x].path = End(H[x])
        BY <2>1, <2>2, <4>2 DEF Put
      <4> HIDE DEF m, m1
      <4>4. m1.name = x /\ m1.id = m.id /\ m1.n = m.n /\ m1.at = m.at /\ m1.pc = "rmWrite"
        BY <2>1 DEF Alike
      <4> HIDE DEF x
      <4>5. HistPcs(H, m1, refs', book, prev, store)
        BY <4>2, <4>3, <4>4 DEF HistPcs
      <4>6. \A y \in Names : y # x => Told(H, refs, book, y)
        BY <4>2 DEF Hist, x
      <4>7. \A y \in Names : y # x => Told(H, refs', book, y)
        BY <2>1, <4>6, ToldPut
      <4>8. Hist(H, m1, refs', book, prev, store)
        BY <4>2, <4>4, <4>5, <4>7 DEF Hist, OffPcs
      <4> QED BY <4>8 DEF Hists
    <3> QED BY <2>1, <2>3, <2>5, <3>1 DEF Whole
  <2> QED BY <2>6, <2>7
<1> QED BY <1>3, <1>5 DEF RewindPut

\* The versions that are left of a log fit what is left of the history.
LEMMA FitsCut ==
  ASSUME NEW vs \in Seq(Nat), NEW h, NEW n \in {1, 2}, n < Len(vs), Fits(vs, h, n), Len(h) \in Nat
  PROVE  Fits(SubSeq(vs, 1, Len(vs) - n), h, 0)
<1> DEFINE us == SubSeq(vs, 1, Len(vs) - n)
<1>1. Len(vs) \in Nat
  OBVIOUS
<1>2. Len(us) = Len(vs) - n /\ \A j \in 1 .. Len(vs) - n : us[j] = vs[j]
  BY <1>1
<1> HIDE DEF us
<1>3. ASSUME NEW j \in 1 .. Len(us) - 0 PROVE \E q \in DOMAIN h : q =< Len(h) + 0 - Len(us) + j /\ h[q] = us[j]
  <2>1. j \in 1 .. Len(vs) - n /\ j \in Int
    BY <1>1, <1>2
  <2>2. PICK q \in DOMAIN h : q =< Len(h) + n - Len(vs) + j /\ h[q] = vs[j]
    BY <2>1 DEF Fits
  <2>3. Len(h) + n - Len(vs) + j = Len(h) + 0 - Len(us) + j
    BY <1>1, <1>2, <2>1
  <2> QED BY <1>2, <2>1, <2>2, <2>3
<1>4. Fits(us, h, 0)
  BY <1>3 DEF Fits
<1> QED BY <1>4 DEF us

\* The log follows the reference.
LEMMA CalmCut ==
  ASSUME NEW m, NEW r, NEW b, NEW b1, NEW p, NEW st, Logs(b), m.pc = "rmWrite", m.n # All, m.name \in Names,
         Hists(m, r, b, p, st), NEW i, Holds(b, i, m.name), NEW us, us = SubSeq(b[i].vs, 1, Len(b[i].vs) - m.n),
         NEW bl, Updated(b, b1, i, b[i].state, b[i].name, us, bl), Single(b1)
  PROVE  Calms(r, b1, p, st)
<1>1. PICK H : Hist(H, m, r, b, p, st)
  BY DEF Hists
<1> DEFINE x == m.name
           vs == b[i].vs
<1>2. Lines(H, p, st) /\ Single(b) /\ \A y \in Names : y # x => Told(H, r, b, y)
  BY <1>1 DEF Hist
<1>3. /\ Holds(b, m.id, x) /\ m.n \in {1, 2} /\ m.n < Len(b[m.id].vs) /\ Fits(b[m.id].vs, H[x], m.n)
      /\ r[x].path = End(H[x])
  BY <1>1 DEF Hist, HistPcs
<1>4. i = m.id /\ vs \in Seq(Nat) /\ Len(H[x]) \in Nat
  BY <1>2, <1>3, Ends DEF Single, Holds, Logs, LogOK
<1>5. us = SubSeq(vs, 1, Len(vs) - m.n) /\ m.n < Len(vs) /\ Fits(vs, H[x], m.n)
  BY <1>3, <1>4
<1>6. Holds(b, i, x)
  OBVIOUS
<1> HIDE DEF x, vs
<1>7. Fits(us, H[x], 0)
  BY <1>3, <1>4, <1>5, FitsCut
<1>8. /\ DOMAIN b1 = DOMAIN b /\ b1[i].vs = us /\ b1[i].name = x
      /\ \A k \in DOMAIN b : k # i => b1[k] = b[k]
  BY <1>6 DEF Updated, Holds
<1>9. ASSUME NEW y \in Names PROVE Told(H, r, b1, y)
  <2>1. CASE y = x
    <3>1. ASSUME NEW k \in DOMAIN b1, Holds(b1, k, y) PROVE Fits(b1[k].vs, H[y], 0)
      <4>1. k = i
        BY <1>2, <1>6, <1>8, <2>1, <3>1 DEF Holds, Single
      <4> QED BY <1>7, <1>8, <2>1, <4>1
    <3> QED BY <1>3, <2>1, <3>1 DEF Told
  <2>2. CASE y # x
    <3>1. Told(H, r, b, y)
      BY <1>2, <2>2
    <3>2. ASSUME NEW k \in DOMAIN b1, Holds(b1, k, y) PROVE k \in DOMAIN b /\ b1[k] = b[k] /\ Holds(b, k, y)
      BY <1>8, <2>2, <3>2 DEF Holds
    <3> QED BY <3>1, <3>2 DEF Told
  <2> QED BY <2>1, <2>2
<1>10. Calm(H, r, b1, p, st)
  BY <1>2, <1>9 DEF Calm
<1> QED BY <1>10 DEF Calms

\* Versions are taken off the log.
LEMMA WriteVersionDeleteKeeps ==
  ASSUME NEW c, Clients = {c}, World(c), Whole(c), WriteVersionDelete(c)
  PROVE  Whole(c)'
<1> DEFINE m == me[c]
           m1 == me'[c]
           x == m.name
           i == RefToInitID(x)
           minus == [book EXCEPT ![i].minus = TRUE]
           cut(h) == [book EXCEPT ![i].vs = SubSeq(@, 1, Len(@) - h)]
           on == IF m.n = All THEN "rmLog" ELSE "rmFiles"
<1>1. m.pc = "rmWrite" /\ m.pc \in Removing
  BY DEF WriteVersionDelete, At, Removing
<1>2. Stock(refs, book, prev, store) /\ Fine(m, book) /\ Logs(book) /\ x \in Names /\ m.n \in {-1, 0, 1, 2}
  BY <1>1 DEF Whole, Stock, Fine
<1>3. /\ i # 0 => i \in DOMAIN book /\ Holds(book, i, x)
      /\ i = 0 => \A k \in DOMAIN book : ~Holds(book, k, x)
  BY <1>2, LogOf DEF Holds
<1>4. m.n # All => m.n \in {0, 1, 2}
  BY <1>2 DEF All
<1>d. ASSUME DeleteItems(i, m.n)
      PROVE  \/ m.n = All /\ book' = minus /\ muddled' = (muddled \/ Twins(book'))
             \/ /\ m.n # All /\ muddled' = (muddled \/ Twins(book') \/ Popped(i, m.n) # {})
                /\ \E h \in {0, 1, 2} : book' = cut(h) /\ (Popped(i, m.n) = {} => h = m.n)
  <2>1. CASE m.n = All
    BY <1>d, <2>1 DEF DeleteItems
  <2>2. CASE m.n # All
    <3>1. PICK h \in 0 .. m.n : Cardinality(Popped(i, m.n)) = m.n - h /\ book' = cut(h)
      BY <1>d, <2>2 DEF DeleteItems
    <3>2. muddled' = (muddled \/ Twins(book') \/ Popped(i, m.n) # {})
      BY <1>d, <2>2 DEF DeleteItems
    <3>3. m.n \in {0, 1, 2}
      BY <1>4, <2>2
    <3>4. Popped(i, m.n) = {} => Cardinality(Popped(i, m.n)) = 0
      BY FS_EmptySet
    <3> HIDE DEF m, i
    <3>5. h \in {0, 1, 2} /\ (Popped(i, m.n) = {} => h = m.n)
      BY <3>1, <3>3, <3>4
    <3> HIDE DEF cut
    <3> QED BY <2>2, <3>1, <3>2, <3>5
  <2> QED BY <2>1, <2>2
<1>f. ASSUME Go(c, on) PROVE Alike(m, m1) /\ m1.pc = on /\ Fine(m1, book) /\ m1.name = x /\ (m.n = All => Leaving(m1))
  <2>1. Alike(m, m1) /\ m1.pc = on
    BY <1>f, GoAlike
  <2>2. m1.pc \in {"rmLog", "rmFiles"}
    BY <2>1
  <2> HIDE DEF m, m1
  <2> QED BY <1>1, <1>2, <2>1, <2>2, FineOn DEF Renaming, Removing, Leaving, Alike
<1>5. CASE i # 0 /\ DeleteItems(i, m.n) /\ Go(c, on) /\ NoFault /\ BookAndRuns
  <2>1. refs' = refs /\ prev' = prev /\ store' = store /\ i \in DOMAIN book
    BY <1>3, <1>5 DEF BookAndRuns
  <2>2. CASE m.n = All
    <3>1. book' = [book EXCEPT ![i].minus = TRUE] /\ muddled' = (muddled \/ Twins(book'))
      BY <1>5, <1>d, <2>2
    <3> HIDE DEF i
    <3>2. Onward(book, book') /\ Sub(book, book')
      BY <1>2, <2>1, <3>1, BookGoesOn, BookSub
    <3>3. Fine(m1, book') /\ Stock(refs, book', prev, store) /\ Leaving(m1) /\ m1.name = m.name
      BY <1>2, <1>5, <1>f, <2>2, <3>2, FineBook, StockGoesOn
    <3> QED BY <1>1, <1>5, <2>1, <3>1, <3>2, <3>3, LeavesOn
  <2>3. CASE m.n # All
    <3>1. PICK h \in {0, 1, 2} : book' = cut(h) /\ (Popped(i, m.n) = {} => h = m.n)
      BY <1>5, <1>d, <2>3
    <3>t. muddled' = (muddled \/ Twins(book') \/ Popped(i, m.n) # {})
      BY <1>5, <1>d, <2>3
    <3>2. Holds(book, i, x)
      BY <1>3, <1>5
    <3> DEFINE us == SubSeq(book[i].vs, 1, Len(book[i].vs) - h)
    <3> HIDE DEF i
    <3>3. Onward(book, book')
      BY <1>2, <2>1, <3>1, BookGoesOn
    <3>4. Updated(book, book', i, book[i].state, book[i].name, us, book[i].blank)
      <4> HIDE DEF m
      <4> QED BY <1>2, <2>1, <3>1, LogCut
    <3>5. Fine(m1, book') /\ Stock(refs, book', prev, store) /\ m1.pc \in RestPcs
      BY <1>2, <1>5, <1>f, <2>3, <3>3, FineBook, StockGoesOn DEF RestPcs
    <3> HIDE DEF us, cut
    <3>6. ASSUME Clean' PROVE Calms(refs, book', prev, store)
      <4>1. Clean /\ Single(book') /\ h = m.n
        <5>1. ~muddled' /\ spoiled' = spoiled
          BY <1>5, <3>6 DEF Clean, NoFault
        <5>2. ~muddled /\ ~Twins(book') /\ Popped(i, m.n) = {}
          BY <3>t, <5>1
        <5>3. Single(book')
          BY <5>2 DEF Twins, Single
        <5> QED BY <3>1, <3>6, <5>1, <5>2, <5>3 DEF Clean
      <4>2. Hists(m, refs, book, prev, store)
        BY <4>1 DEF Whole
      <4>3. us = SubSeq(book[i].vs, 1, Len(book[i].vs) - m.n)
        BY <4>1 DEF us
      <4> HIDE DEF m
      <4> QED BY <1>1, <1>2, <2>3, <3>2, <3>4, <4>1, <4>2, <4>3, CalmCut
    <3> QED BY <2>1, <3>5, <3>6, Calms2
  <2> QED BY <2>2, <2>3
<1>6. CASE i = 0 /\ Go(c, on) /\ NoFault /\ Nothing
  <2>1. refs' = refs /\ prev' = prev /\ store' = store /\ book' = book /\ muddled' = muddled
    BY <1>6 DEF Nothing
  <2>2. CASE m.n = All
    BY <1>1, <1>2, <1>6, <1>f, <2>1, <2>2, LeavesOn
  <2>3. CASE m.n # All
    <3>1. ASSUME Clean PROVE FALSE
      <4>1. PICK H : Hist(H, m, refs, book, prev, store)
        BY <3>1 DEF Whole, Hists
      <4>2. Holds(book, m.id, x)
        BY <1>1, <2>3, <4>1 DEF Hist, HistPcs
      <4> QED BY <1>3, <1>6, <4>2 DEF Holds
    <3>2. ~Clean'
      BY <1>6, <2>1, <3>1, Cleaner
    <3> QED BY <1>2, <1>6, <1>f, <2>1, <3>2, Spoils
  <2> QED BY <2>2, <2>3
<1>7. CASE i # 0 /\ Fault(c) /\ GoOn(c) /\ ((DeleteItems(i, m.n) /\ BookAndRuns) \/ Nothing)
  <2>1. i \in DOMAIN book /\ refs' = refs /\ prev' = prev /\ store' = store
    BY <1>3, <1>7 DEF BookAndRuns, Nothing
  <2>2. Onward(book, book')
    <3>1. CASE Nothing
      BY <1>2, <3>1, BookGoesOn DEF Nothing
    <3>2. CASE DeleteItems(i, m.n)
      <4>1. book' = minus \/ \E h \in {0, 1, 2} : book' = cut(h)
        BY <1>d, <3>2
      <4> HIDE DEF i
      <4> QED BY <1>2, <2>1, <4>1, BookGoesOn
    <3> QED BY <1>7, <3>1, <3>2
  <2>3. Return(c) \/ (Alike(m, m1) /\ m1.pc = "rmLog")
    BY <1>7, GoAlike DEF GoOn
  <2> QED BY <1>1, <1>7, <2>1, <2>2, <2>3, FailsSpoiled
<1> QED BY <1>5, <1>6, <1>7 DEF WriteVersionDelete

-----------------------------------------------------------------------------
(* Init, checkout, unlink. *)

\* A log is begun for a name that no reference with versions has.
LEMMA InitLogKeeps ==
  ASSUME NEW c, Clients = {c}, World(c), Whole(c), InitLog(c)
  PROVE  Whole(c)'
<1> DEFINE m == me[c]
           m1 == me'[c]
           x == m.name
<1>1. m.pc = "iniLog" /\ m.pc \notin OffPcs /\ m.pc \notin {"idle", "ensure", "done"}
  BY DEF InitLog, At, OffPcs
<1>2. Stock(refs, book, prev, store) /\ Fine(m, book) /\ Logs(book) /\ Len(book) \in Nat /\ x \in Names
  BY <1>1, Domains DEF Whole, Stock, Fine
<1>3. CASE RollBack(c, "log") /\ NoFault /\ Nothing
  BY <1>1, <1>3, Leads DEF Nothing
<1>4. CASE Fault(c) /\ book' \in {book, WriteDatasetInit(x)} /\ RollBack(c, "log") /\ BookOnly
  <2>1. Onward(book, book') /\ Sub(book, book')
    BY <1>2, <1>4, BookGoesOn, BookSub
  <2> QED BY <1>1, <1>4, <2>1, SubSteps DEF BookOnly
<1>5. CASE book' = WriteDatasetInit(x) /\ Go(c, "iniPut") /\ NoFault /\ BookOnly
  <2>1. Alike(m, m1) /\ m1.pc = "iniPut"
    BY <1>5, GoAlike
  <2>2. refs' = refs /\ prev' = prev /\ store' = store /\ muddled' = (muddled \/ Twins(book'))
    BY <1>5 DEF BookOnly
  <2>3. LogAdded(book, book', x) /\ Onward(book, book') /\ Sub(book, book')
    BY <1>2, <1>5, LogBegun, BookGoesOn, BookSub
  <2> HIDE DEF m, m1
  <2>4. Fine(m1, book)
    BY <1>1, <1>2, <2>1, FineOn DEF Renaming, Removing
  <2>5. Fine(m1, book') /\ Stock(refs, book', prev, store)
    BY <1>2, <2>3, <2>4, FineBook, StockGoesOn
  <2>6. ASSUME Clean' PROVE Hists(m1, refs, book', prev, store)
    <3>1. Clean /\ Single(book')
      BY <1>5, <2>2, <2>6, Cleaner
    <3>2. Calms(refs, book, prev, store)
      BY <1>1, <3>1, RestedSome DEF Whole, m
    <3>3. PICK H : Calm(H, refs, book', prev, store)
      BY <2>3, <3>1, <3>2, CalmSub DEF Calms
    <3>4. Empty(book', x)
      <4>1. Len(book) + 1 \in DOMAIN book' /\ Holds(book', Len(book) + 1, x) /\ book'[Len(book) + 1].vs = <<>>
        BY <1>2, <2>3 DEF LogAdded, Holds
      <4> QED BY <3>1, <4>1 DEF Single, Holds, Empty
    <3>5. HistPcs(H, m1, refs, book', prev, store)
      BY <2>1, <3>4 DEF HistPcs, Alike
    <3> QED BY <3>3, <3>5, Paused
  <2> QED BY <2>2, <2>5, <2>6 DEF Whole, m1
<1> QED BY <1>3, <1>4, <1>5 DEF InitLog

\* A reference without a version.
LEMMA InitRefKeeps ==
  ASSUME NEW c, Clients = {c}, World(c), Whole(c), InitRef(c)
  PROVE  Whole(c)'
<1> DEFINE m == me[c]
           m1 == me'[c]
           x == m.name
           q == Ref(0, m.dir)
<1>1. m.pc = "iniPut" /\ m.pc \notin OffPcs /\ m.pc \notin {"idle", "ensure", "done"}
  BY DEF InitRef, At, OffPcs
<1>2. Stock(refs, book, prev, store) /\ Fine(m, book) /\ Logs(book) /\ x \in Names
  BY <1>1 DEF Whole, Stock, Fine
<1>3. CASE RollBack(c, "ref") /\ (NoFault \/ Fault(c)) /\ Nothing
  BY <1>1, <1>3, Leads DEF Nothing
<1>4. CASE PutRef(c, x, q, "iniLink")
  <2>0. q.path = 0 /\ q.path \in Nat
    BY DEF Ref
  <2> HIDE DEF q
  <2>1. /\ Put(refs, refs', x, q) /\ Alike(m, m1) /\ m1.pc = "iniLink"
        /\ NoFault /\ prev' = prev /\ store' = store /\ book' = book /\ muddled' = muddled
    BY <1>2, <1>4, PutSteps
  <2>2. Stock(refs', book, prev, store)
    BY <1>2, <2>0, <2>1, StockGoesOn
  <2> HIDE DEF m, m1
  <2>3. Fine(m1, book) /\ m1.pc \in RestPcs
    BY <1>1, <1>2, <2>1, FineOn DEF Renaming, Removing, RestPcs
  <2> HIDE DEF x
  <2>4. ASSUME Clean' PROVE Calms(refs', book, prev, store)
    <3>1. Clean
      BY <2>1, <2>4, Cleaner
    <3>2. PICK H : Hist(H, m, refs, book, prev, store)
      BY <3>1 DEF Whole, Hists, m
    <3>3. Empty(book, x)
      BY <1>1, <3>2 DEF Hist, HistPcs, x
    <3>4. Lines(H, prev, store) /\ Single(book) /\ \A y \in Names : y # x => Told(H, refs, book, y) /\ refs'[y] = refs[y]
      BY <2>1, <3>2 DEF Hist, x, Put
    <3>5. refs'[x].path = 0
      BY <2>0, <2>1 DEF Put
    <3> QED BY <1>2, <3>3, <3>4, <3>5, CalmForgets
  <2> QED BY <2>1, <2>2, <2>3, <2>4, Calms2 DEF m1
<1> QED BY <1>3, <1>4 DEF InitRef

\* An init takes its reference and its log back.
LEMMA RollbackInitKeeps ==
  ASSUME NEW c, Clients = {c}, World(c), Whole(c), RollbackInit(c)
  PROVE  Whole(c)'
<1> DEFINE m == me[c]
           m1 == me'[c]
           x == m.name
<1>0. Refs(refs)
  BY DEF World
<1>1. /\ m.pc = "rollback" /\ m.pc \notin OffPcs /\ Go(c, "rolled") /\ NoFault
      /\ prev' = prev /\ store' = store /\ muddled' = muddled
  BY DEF RollbackInit, At, OffPcs
<1>2. Stock(refs, book, prev, store) /\ Fine(m, book) /\ Logs(book) /\ x \in Names
  BY <1>1 DEF Whole, Stock, Fine
<1>3. refs' = refs \/ Put(refs, refs', x, NoRef)
  <2>1. CASE refs' = [refs EXCEPT ![x] = NoRef]
    BY <1>0, <1>2, <2>1, Written
  <2> QED BY <2>1 DEF RollbackInit
<1>4. book' = book \/ book' = RemoveLog(book, x)
  BY DEF RollbackInit
<1>5. Onward(book, book') /\ Sub(book, book') /\ (Single(book) => Single(book'))
  <2>1. Onward(book, book') /\ Sub(book, book')
    BY <1>2, <1>4, BookGoesOn, BookSub
  <2>2. book' = book \/ Fewer(book, book', x)
    BY <1>2, <1>4, LogRemoved
  <2> QED BY <2>1, <2>2 DEF Single, Fewer
<1>6. Alike(m, m1) /\ m1.pc = "rolled"
  BY <1>1, GoAlike
<1>7. Stock(refs', book, prev, store)
  <2>1. NoRef.path \in Nat
    BY DEF NoRef
  <2> QED BY <1>2, <1>3, <2>1, StockGoesOn
<1>8. Stock(refs', book', prev, store)
  BY <1>5, <1>7, StockGoesOn
<1> HIDE DEF m, m1
<1>9. Fine(m1, book) /\ m1.pc \in RestPcs
  BY <1>1, <1>2, <1>6, FineOn DEF Renaming, Removing, RestPcs
<1>10. Fine(m1, book')
  BY <1>2, <1>5, <1>9, FineBook
<1> HIDE DEF x
<1>11. ASSUME Clean' PROVE Calms(refs', book', prev, store)
  <2>1. Clean
    BY <1>1, <1>11, Cleaner
  <2>2. PICK H : Calm(H, refs, book, prev, store)
    BY <1>1, <2>1, RestedSome DEF Whole, Calms, m
  <2>3. Calms(refs', book, prev, store)
    <3>1. CASE refs' = refs
      BY <2>2, <3>1 DEF Calms
    <3>2. CASE Put(refs, refs', x, NoRef)
      <4>1. Lines(H, prev, store) /\ Single(book) /\ \A y \in Names : y # x => Told(H, refs, book, y) /\ refs'[y] = refs[y]
        BY <2>2, <3>2 DEF Calm, Put
      <4>2. refs'[x].path = 0 /\ ~refs'[x].stored
        BY <3>2 DEF Put, NoRef
      <4> QED BY <1>2, <4>1, <4>2, CalmForgets
    <3> QED BY <1>3, <3>1, <3>2
  <2>4. Single(book')
    BY <1>5, <2>2 DEF Calm
  <2> QED BY <1>5, <2>3, <2>4, CalmSub
<1> QED BY <1>1, <1>8, <1>9, <1>10, <1>11, Calms2 DEF m1

\* A checkout puts the directory, and nothing else, into the reference.
LEMMA CheckoutRefKeeps ==
  ASSUME NEW c, Clients = {c}, World(c), Whole(c), CheckoutRef(c)
  PROVE  Whole(c)'
<1> DEFINE m == me[c]
           m1 == me'[c]
           x == m.name
           was == m.held[x]
<1>1. m.pc = "outPut" /\ m.pc \notin OffPcs
  BY DEF CheckoutRef, At, OffPcs
<1>2. Stock(refs, book, prev, store) /\ Fine(m, book) /\ Logs(book) /\ x \in Names
  BY <1>1 DEF Whole, Stock, Fine
<1>3. CASE Return(c) /\ (NoFault \/ Fault(c)) /\ Nothing
  BY <1>1, <1>3, Returns
<1>4. CASE was.stored /\ PutRef(c, x, Ref(was.path, m.dir), "outLink")
  <2>1. /\ Put(refs, refs', x, Ref(was.path, m.dir)) /\ Alike(m, m1) /\ m1.pc = "outLink" /\ m.held = refs
        /\ NoFault /\ prev' = prev /\ store' = store /\ book' = book /\ muddled' = muddled
    BY <1>2, <1>4, PutSteps
  <2>2. refs[x].stored /\ was.path = refs[x].path
    BY <1>4, <2>1
  <2>3. Fine(m1, book) /\ m1.pc \in RestPcs
    <3> HIDE DEF m, m1
    <3> QED BY <1>1, <1>2, <2>1, FineOn DEF Renaming, Removing, RestPcs
  <2> HIDE DEF was
  <2> QED BY <1>1, <1>2, <2>1, <2>2, <2>3, SamePaths
<1> QED BY <1>3, <1>4 DEF CheckoutRef

\* A dataset without a version is forgotten, the others lose their directory.
LEMMA UnlinkRefKeeps ==
  ASSUME NEW c, Clients = {c}, World(c), Whole(c), UnlinkRef(c)
  PROVE  Whole(c)'
<1> DEFINE m == me[c]
           m1 == me'[c]
           x == m.name
           was == m.held[x]
<1>1. m.pc = "unlinkRef" /\ m.pc \notin OffPcs
  BY DEF UnlinkRef, At, OffPcs
<1>2. Stock(refs, book, prev, store) /\ Fine(m, book) /\ Logs(book) /\ x \in Names
  BY <1>1 DEF Whole, Stock, Fine
<1>3. CASE Return(c) /\ (NoFault \/ Fault(c)) /\ Nothing
  BY <1>1, <1>3, Returns
<1>f. ASSUME Alike(m, m1) /\ m1.pc = "done" PROVE Fine(m1, book) /\ m1.pc \in RestPcs
  <2> HIDE DEF m, m1
  <2> QED BY <1>1, <1>2, <1>f, FineOn DEF Renaming, Removing, RestPcs
<1>4. CASE was.stored /\ PutRef(c, x, Ref(was.path, NoDir), "done")
  <2>1. /\ Put(refs, refs', x, Ref(was.path, NoDir)) /\ Alike(m, m1) /\ m1.pc = "done" /\ m.held = refs
        /\ NoFault /\ prev' = prev /\ store' = store /\ book' = book /\ muddled' = muddled
    BY <1>2, <1>4, PutSteps
  <2>2. refs[x].stored /\ was.path = refs[x].path
    BY <1>4, <2>1
  <2> HIDE DEF was
  <2> QED BY <1>1, <1>2, <1>f, <2>1, <2>2, SamePaths
<1>5. CASE PutRef(c, x, NoRef, "done")
  <2>1. /\ Put(refs, refs', x, NoRef) /\ Alike(m, m1) /\ m1.pc = "done"
        /\ NoFault /\ prev' = prev /\ store' = store /\ book' = book /\ muddled' = muddled
    BY <1>2, <1>5, PutSteps
  <2>2. Stock(refs', book, prev, store)
    <3>1. NoRef.path \in Nat
      BY DEF NoRef
    <3> QED BY <1>2, <2>1, <3>1, StockGoesOn
  <2>3. Fine(m1, book) /\ m1.pc \in RestPcs
    BY <1>f, <2>1
  <2> HIDE DEF m, m1, x
  <2>4. ASSUME Clean' PROVE Calms(refs', book, prev, store)
    <3>1. Clean
      BY <2>1, <2>4, Cleaner
    <3>2. PICK H : Calm(H, refs, book, prev, store)
      BY <1>1, <3>1, RestedSome DEF Whole, Calms, m
    <3>3. Lines(H, prev, store) /\ Single(book) /\ \A y \in Names : y # x => Told(H, refs, book, y) /\ refs'[y] = refs[y]
      BY <2>1, <3>2 DEF Calm, Put
    <3>4. refs'[x].path = 0 /\ ~refs'[x].stored
      BY <2>1 DEF Put, NoRef
    <3> QED BY <1>2, <3>3, <3>4, CalmForgets
  <2> QED BY <2>1, <2>2, <2>3, <2>4, Calms2 DEF m1
<1> QED BY <1>3, <1>4, <1>5 DEF UnlinkRef

\* A directory is put right.
LEMMA ModifyLinkDirectoryKeeps ==
  ASSUME NEW c, Clients = {c}, World(c), Whole(c), ModifyLinkDirectory(c)
  PROVE  Whole(c)'
<1> DEFINE m == me[c]
           m1 == me'[c]
           x == m.name
           v == m.held[x].path
<1>0. DOMAIN me = Clients /\ Refs(refs) /\ (m.fresh => m.held = refs)
  BY DEF World, Local
<1>1. m.pc = "ensure" /\ m.pc \notin OffPcs
  BY DEF ModifyLinkDirectory, At, OffPcs
<1>2. Stock(refs, book, prev, store) /\ Fine(m, book) /\ Logs(book)
  BY DEF Whole, Stock
<1>3. CASE Return(c) /\ (NoFault \/ Fault(c)) /\ Nothing
  BY <1>1, <1>3, Returns
<1>4. CASE /\ m.fresh /\ m.held[x].stored /\ refs' = [m.held EXCEPT ![x] = Ref(v, m.dir)]
           /\ me' = [me EXCEPT ![c].pc = "done", ![c].fresh = FALSE]
           /\ NoFault /\ prev' = prev /\ store' = store /\ book' = book /\ muddled' = muddled
  <2>1. Alike(m, m1) /\ m1.pc = "done"
    BY <1>4, GoAlike
  <2>2. Fine(m1, book) /\ m1.pc \in RestPcs
    <3> HIDE DEF m, m1
    <3> QED BY <1>1, <1>2, <2>1 DEF Fine, Alike, Renaming, Removing, RestPcs
  <2>3. refs' = [refs EXCEPT ![x] = Ref(v, m.dir)] /\ refs[x].stored /\ v = refs[x].path
    BY <1>0, <1>4
  <2> HIDE DEF v, m, m1, x
  <2>4. CASE x \in Names
    <3>1. Put(refs, refs', x, Ref(v, m.dir))
      BY <1>0, <2>3, <2>4, Written
    <3> QED BY <1>1, <1>4, <2>2, <2>3, <2>4, <3>1, SamePaths DEF m, m1
  <2>5. CASE x \notin Names
    <3>1. refs' = refs
      BY <1>0, <2>3, <2>5 DEF Refs
    <3>2. Clean' => Clean
      BY <1>4, Cleaner
    <3> QED BY <1>1, <1>4, <2>2, <3>1, <3>2, Rests DEF m, m1
  <2> QED BY <2>4, <2>5
<1> QED BY <1>3, <1>4 DEF ModifyLinkDirectory

-----------------------------------------------------------------------------
(* Every step, and what follows. *)

\* At first there are no versions.
LEMMA WholeInit ==
  ASSUME NEW c, Clients = {c}, Init
  PROVE  Whole(c)
<1>1. me[c] = Idle /\ prev = <<>> /\ store = {} /\ book = <<>> /\ \A x \in Names : refs[x] = NoRef
  BY DEF Init
<1>2. Stock(refs, book, prev, store)
  BY <1>1 DEF Stock, Logs, NoRef
<1>3. Fine(me[c], book) /\ me[c].pc \in RestPcs
  BY <1>1, <1>2, FineIdle DEF Stock, RestPcs
<1> DEFINE H == [x \in Names |-> <<>>]
<1>4. H = [x \in Names |-> H[x]] /\ \A x \in Names : H[x] = <<>>
  OBVIOUS
<1> HIDE DEF H
<1>5. Lines(H, prev, store)
  <2>1. ASSUME NEW x \in Names PROVE H[x] \in Seq(Nat) /\ DOMAIN H[x] = {}
    <3>1. H[x] = <<>>
      BY <1>4
    <3> QED BY <3>1
  <2>2. ASSUME NEW x \in Names PROVE Line(H[x], prev, store)
    BY <2>1 DEF Line
  <2> QED BY <1>4, <2>1, <2>2 DEF Lines
<1>6. Single(book) /\ \A x \in Names : Told(H, refs, book, x)
  BY <1>1, <1>4 DEF Single, Told, End, NoRef
<1>7. Calms(refs, book, prev, store)
  BY <1>5, <1>6 DEF Calm, Calms
<1> QED BY <1>2, <1>3, <1>7, Resting DEF Whole

\* Every step keeps the histories, those that fail and crashes included.
LEMMA WholeStep ==
  ASSUME NEW c, Clients = {c}, World(c), Whole(c), [Next]_vars
  PROVE  Whole(c)'
<1>1. CASE UNCHANGED vars
  BY <1>1 DEF vars, Whole, Clean
<1>2. CASE ByHand
  BY <1>2, ByHandKeeps
<1>3. CASE Request(c)
  BY <1>3, RequestKeeps
<1>4. CASE ReadRefs(c)
  BY <1>4, ReadRefsKeeps
<1>5. CASE Crash(c)
  BY <1>5, CrashKeeps
<1>6. CASE SaveStep(c)
  BY <1>6, PrepareSaveRefKeeps, ReadWorkingDirKeeps, SaveRefusedKeeps, WriteVersionKeeps, DropRefKeeps,
     CreateDatasetRefKeeps, WriteVersionSaveKeeps, PutLinkKeeps, FilesKeep, CleanupKeeps
     DEF SaveStep
<1>7. CASE RenameStep(c)
  BY <1>7, ResolveRenameKeeps, WriteDatasetRenameKeeps, RenameDeleteKeeps, RenamePutKeeps, FilesKeep
     DEF RenameStep
<1>8. CASE RemoveStep(c)
  BY <1>8, ResolveRemoveKeeps, UnlinkRemovedKeeps, DeleteVersionKeeps, RewindKeeps, RewindPutKeeps, WriteVersionDeleteKeeps,
     WriteDatasetDeleteKeeps, RemoveRefKeeps, FilesKeep
     DEF RemoveStep
<1>9. CASE InitStep(c)
  BY <1>9, InitLogKeeps, InitRefKeeps, RollbackInitKeeps, FilesKeep
     DEF InitStep
<1>10. CASE LinkStep(c)
  BY <1>10, CheckCheckoutKeeps, CheckoutRefKeeps, UnlinkRefKeeps, ModifyLinkDirectoryKeeps, FilesKeep
     DEF LinkStep
<1> QED BY <1>1, <1>2, <1>3, <1>4, <1>5, <1>6, <1>7, <1>8, <1>9, <1>10 DEF Next

\* Reading back from a version: there is a function that says what is reached, the
\* one of the least set that is closed under it.
LEMMA BackIs ==
  ASSUME \A k \in DOMAIN prev : prev[k] \in 0 .. Len(prev), DOMAIN prev = 1 .. Len(prev), Len(prev) \in Nat, NEW v
  PROVE  \E f : /\ \A w : Reaches(w, v) <=> f[w]
                /\ \A k \in 1 .. Len(prev) : f[k] <=> k \in store /\ (k = v \/ f[prev[k]])
<1> DEFINE D == 0 .. Len(prev)
           P(f, k) == IF k = 0 THEN FALSE ELSE k \in store /\ (k = v \/ f[prev[k]])
           back == CHOOSE f : f = [k \in D |-> P(f, k)]
           F(S) == {k \in D : k # 0 /\ k \in store /\ (k = v \/ prev[k] \in S)}
           L == {k \in D : \A S \in SUBSET D : F(S) \subseteq S => k \in S}
<1>0. \A k \in D : k # 0 => prev[k] \in D
  OBVIOUS
<1>1. \A S, T : S \subseteq T => F(S) \subseteq F(T)
  OBVIOUS
<1>2. F(L) \subseteq L
  <2>1. ASSUME NEW k \in F(L), NEW S \in SUBSET D, F(S) \subseteq S PROVE k \in S
    <3>1. L \subseteq S
      BY <2>1
    <3>2. k \in F(S)
      BY <1>1, <2>1, <3>1
    <3> QED BY <2>1, <3>2
  <2>2. F(L) \subseteq D
    OBVIOUS
  <2> HIDE DEF F
  <2> QED BY <2>1, <2>2
<1>3. L \subseteq F(L)
  <2>1. F(L) \in SUBSET D /\ F(F(L)) \subseteq F(L)
    BY <1>1, <1>2
  <2> HIDE DEF F
  <2> QED BY <2>1
<1>4. \A k \in D : k \in L <=> k # 0 /\ k \in store /\ (k = v \/ prev[k] \in L)
  <2>1. L = F(L)
    BY <1>2, <1>3
  <2> HIDE DEF L
  <2> QED BY <2>1
<1> HIDE DEF L, F
<1> DEFINE g == [k \in D |-> k \in L]
<1>5. \A k \in D : g[k] = P(g, k)
  <2> SUFFICES ASSUME NEW k \in D PROVE g[k] = P(g, k)
    OBVIOUS
  <2>1. CASE k = 0
    <3>1. (k \in L) = FALSE
      BY <1>4, <2>1
    <3>2. g[k] = (k \in L)
      OBVIOUS
    <3>3. P(g, k) = FALSE
      BY <2>1
    <3> HIDE DEF g, P
    <3> QED BY <3>1, <3>2, <3>3
  <2>2. CASE k # 0
    <3>1. prev[k] \in D
      BY <1>0, <2>2
    <3>2. g[prev[k]] = (prev[k] \in L) /\ g[k] = (k \in L)
      BY <3>1
    <3> QED BY <1>4, <2>2, <3>2
  <2> QED BY <2>1, <2>2
<1>6. g = [k \in D |-> P(g, k)]
  <2>1. g = [k \in D |-> g[k]]
    OBVIOUS
  <2> HIDE DEF g, P
  <2> QED BY <1>5, <2>1
<1>7. back = [k \in D |-> P(back, k)]
  <2> HIDE DEF g, P
  <2> QED BY <1>6
<1>8. \A w : Reaches(w, v) = back[w]
  BY DEF Reaches
<1> HIDE DEF back
<1>9. ASSUME NEW k \in 1 .. Len(prev) PROVE back[k] = (k \in store /\ (k = v \/ back[prev[k]]))
  <2>1. k \in D /\ k # 0
    OBVIOUS
  <2>2. back[k] = P(back, k)
    <3> HIDE DEF P
    <3> QED BY <1>7, <2>1
  <2> QED BY <2>1, <2>2
<1> QED BY <1>8, <1>9

\* From the newest version of a history every version of it is reached.
LEMMA LineReached ==
  ASSUME NEW h \in Seq(Nat), Line(h, prev, store), Stock(refs, book, prev, store), NEW q \in DOMAIN h
  PROVE  Reaches(End(h), h[q])
<1>1. /\ \A k \in DOMAIN prev : prev[k] \in 0 .. Len(prev)
      /\ DOMAIN prev = 1 .. Len(prev) /\ Len(prev) \in Nat /\ store \subseteq DOMAIN prev
  BY DEF Stock
<1>2. PICK f : /\ \A w : Reaches(w, h[q]) <=> f[w]
               /\ \A k \in 1 .. Len(prev) : f[k] <=> k \in store /\ (k = h[q] \/ f[prev[k]])
  BY <1>1, BackIs
<1>3. Len(h) \in Nat /\ DOMAIN h = 1 .. Len(h) /\ q \in Nat /\ q >= 1 /\ q =< Len(h) /\ h # <<>>
  OBVIOUS
<1>4. \A s \in DOMAIN h : h[s] \in store /\ h[s] \in 1 .. Len(prev)
  BY <1>1 DEF Line
<1> DEFINE S == {s \in q .. Len(h) : ~f[h[s]]}
<1>5. S = {}
  <2> SUFFICES ASSUME S # {} PROVE FALSE
    OBVIOUS
  <2>1. S \in SUBSET Nat
    BY <1>3
  <2>2. PICK s \in S : \A y \in S : s =< y
    <3> HIDE DEF S
    <3> QED BY <2>1, LeastIn
  <2>3. s \in Nat /\ s >= q /\ s =< Len(h) /\ s \in DOMAIN h /\ ~f[h[s]]
    BY <1>3, <2>2
  <2>4. s # q
    BY <1>2, <1>4, <2>3
  <2>5. s - 1 \in q .. Len(h) /\ s - 1 < s /\ s # 1
    BY <1>3, <2>3, <2>4
  <2>6. f[h[s - 1]]
    <3>1. s - 1 \notin S
      <4> HIDE DEF S
      <4> QED BY <2>1, <2>2, <2>5
    <3> QED BY <2>5, <3>1
  <2>7. prev[h[s]] = h[s - 1]
    BY <2>3, <2>5 DEF Line
  <2> QED BY <1>2, <1>4, <2>3, <2>6, <2>7
<1>6. f[h[Len(h)]]
  <2>1. Len(h) \in q .. Len(h)
    BY <1>3
  <2> QED BY <1>5, <2>1
<1> QED BY <1>2, <1>3, <1>6 DEF End

\* Between requests the invariant says that the histories can be read back.
LEMMA WholeMeans ==
  ASSUME NEW c, Clients = {c}, Whole(c)
  PROVE  HistoryReachable
<1> SUFFICES ASSUME Quiet, Clean, NEW x \in Names, refs[x].stored, RefToInitID(x) # 0,
                    NEW k \in DOMAIN book[RefToInitID(x)].vs
             PROVE  Reaches(refs[x].path, book[RefToInitID(x)].vs[k])
  BY DEF HistoryReachable, Clean
<1> DEFINE i == RefToInitID(x)
           vs == book[i].vs
<1>1. Stock(refs, book, prev, store) /\ Logs(book) /\ Hists(me[c], refs, book, prev, store)
  BY DEF Whole, Stock
<1>2. me[c].pc = "idle" /\ me[c].pc \notin OffPcs
  BY DEF Quiet, At, OffPcs
<1>3. PICK H : Calm(H, refs, book, prev, store)
  BY <1>1, <1>2, RestedSome DEF Calms
<1>4. Holds(book, i, x)
  BY <1>1, LogOf DEF Holds
<1>5. Told(H, refs, book, x) /\ H[x] \in Seq(Nat) /\ Line(H[x], prev, store)
  BY <1>3 DEF Calm, Lines
<1> HIDE DEF i
<1>6. Fits(vs, H[x], 0) /\ refs[x].path = End(H[x])
  BY <1>4, <1>5, FitsOne DEF Told
<1>7. k \in 1 .. Len(vs) - 0
  <2>1. vs \in Seq(Nat) /\ k \in DOMAIN vs
    BY <1>1, <1>4 DEF Holds, Logs, LogOK, i
  <2> HIDE DEF vs
  <2> QED BY <2>1
<1>8. PICK q \in DOMAIN H[x] : H[x][q] = vs[k]
  BY <1>6, <1>7 DEF Fits
<1>9. Reaches(End(H[x]), H[x][q])
  BY <1>1, <1>5, LineReached
<1> QED BY <1>6, <1>8, <1>9 DEF i

\* One request at a time: whatever fails in a save, an init, a checkout or an unlink, and
\* wherever the process dies in one, every version the logbook lists of a dataset can be
\* read back from its reference (HistoryReachable), for as long as no rename or remove has
\* failed and no name has stood for two logs.
THEOREM HistoryIsReachable == OneClient => (Spec => []HistoryReachable)
<1> SUFFICES ASSUME OneClient PROVE Spec => []HistoryReachable
  OBVIOUS
<1>1. PICK c : Clients = {c}
  BY DEF OneClient
<1>2. Init => Inv(c) /\ Whole(c)
  BY <1>1, InvInit, WholeInit
<1>3. Inv(c) /\ Whole(c) /\ [Next]_vars => Inv(c)' /\ Whole(c)'
  BY <1>1, InvStep, WholeStep DEF Inv, Undoing
<1>4. Whole(c) => HistoryReachable
  BY <1>1, WholeMeans
<1> QED BY <1>2, <1>3, <1>4, PTL DEF Spec

=============================================================================
