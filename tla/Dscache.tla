------------------------------ MODULE Dscache ------------------------------
(***************************************************************************)
(* The dataset cache: users and references in one serialized buffer that   *)
(* is rebuilt on every event, and in full from the logbook, the profiles   *)
(* and the refstore.  Operators over values; Catalog holds the state.      *)
(*                                                                         *)
(* Users, profile IDs, names, init IDs, version paths and directories are  *)
(* numbers, 0 is "".  Of an entry's fields the ones that identify it, its  *)
(* index, its head and its directory are kept.                             *)
(***************************************************************************)
EXTENDS BranchHistory

\* entryInfo, and what reading past the end of the vector of references can give.
entryInfo(init, id, name, path, top, dir) ==
  [init |-> init, id |-> id, name |-> name, path |-> path, top |-> top, dir |-> dir]
Garbage == entryInfo(-1, -1, -1, -1, -1, -1)

NewDscache == [on |-> FALSE, users |-> <<>>, refs |-> <<>>]
IsEmpty(c) == ~c.on

\* The first element of s that has the property, or none.
FirstOf(s, has(_), none) == IF \E i \in DOMAIN s : has(s[i]) THEN s[SelectInSeq(s, has)] ELSE none

-----------------------------------------------------------------------------
(***************************************************************************)
(* Building.  References are sorted by alias; of two with one alias the    *)
(* earlier stays first (as sort.Slice does below a dozen).                 *)
(***************************************************************************)
userMap(users, id) == FirstOf(users, LAMBDA u : u.id = id, [user |-> 0, id |-> id]).user

buildDscacheFlatbuffer(users, infos) ==
  LET before(a, b) == \/ userMap(users, a.id) < userMap(users, b.id)
                      \/ userMap(users, a.id) = userMap(users, b.id) /\ a.name < b.name
  IN  [on |-> TRUE, users |-> users, refs |-> SortSeq(infos, before)]

\* AddDsVersionInfo: a dataset that has no version yet.
AddDsVersionInfo(infos, act) == Append(infos, entryInfo(act.init, act.id, act.name, 0, 0, 0))

\* The "Ref" of an operation: a version path, a run ID (negative here) or "".
OpRef(op) == IF op.model = "run" THEN 0 - op.run ELSE op.ref

\* convertHistoryToIndexAndRef: any operation that is no remove counts as a reference,
\* also the one that starts the branch; a slice of one more than there are shows "".
\* It panics ("ok" is FALSE) when more is removed than there is, or all of it.
convertHistoryToIndexAndRef(ops) ==
  LET step(st, op) ==
        IF op.type # "remove" THEN [st EXCEPT !.refs = Append(@, OpRef(op))]
        ELSE IF op.size < 0 THEN [st EXCEPT !.refs = Append(@, 0)]
        ELSE [refs |-> DropTop(st.refs, op.size), ok |-> st.ok /\ op.size <= Len(st.refs)]
      end == Fold(step, [refs |-> <<>>, ok |-> TRUE], ops)
  IN  [ok |-> end.ok /\ end.refs # <<>>, top |-> Len(end.refs) - 1, head |-> Head0(end.refs)]

\* convertDatasetHistoryToDsInfo: the newest name; nothing of a deleted dataset.
convertDatasetHistoryToDsInfo(i, log, id) ==
  IF log.gone THEN <<>>
  ELSE LET h == convertHistoryToIndexAndRef(log.ops) IN <<entryInfo(i, id, log.name, h.head, h.top, 0)>>

convertLogbookUserToDsInfoList(book, id) ==
  FlattenSeq([i \in DOMAIN book |-> convertDatasetHistoryToDsInfo(i, book[i], id)])

\* findMatchingInfo: by profile and name, the init ID is not in the refstore.
findMatchingInfo(ref, infos) ==
  LET same == {i \in DOMAIN infos : infos[i].id = ref.id /\ infos[i].name = ref.name}
  IN  IF same = {} THEN 0 ELSE CHOOSE i \in same : \A j \in same : i <= j

\* convertLogbookAndRefs: directories come from the refstore, and so do the references
\* that have no log (without an init ID).
convertLogbookAndRefs(book, id, dsrefs) ==
  LET infos == convertLogbookUserToDsInfoList(book, id)
      add(all, ref) ==
        LET i == findMatchingInfo(ref, infos) IN
        IF i # 0 THEN [all EXCEPT ![i].dir = ref.dir]
        ELSE Append(all, entryInfo(0, ref.id, ref.name, ref.path, 0, ref.dir))
  IN  Fold(add, infos, dsrefs)

BuildPanics(book) == \E i \in DOMAIN book : ~book[i].gone /\ ~convertHistoryToIndexAndRef(book[i].ops).ok

DscacheFromRepo(users, book, id, dsrefs) == buildDscacheFlatbuffer(users, convertLogbookAndRefs(book, id, dsrefs))

-----------------------------------------------------------------------------
(***************************************************************************)
(* Reading.                                                                *)
(***************************************************************************)
\* LookupByName: the user's profile, then the first entry with profile and name.
LookupByName(c, user, name) ==
  LET id == FirstOf(c.users, LAMBDA u : u.user = user, [user |-> user, id |-> 0]).id
  IN  IF id = 0 THEN Garbage ELSE FirstOf(c.refs, LAMBDA r : r.id = id /\ r.name = name, Garbage)

\* ResolveRef: a path that came with the reference stays.
ResolveInCache(c, user, name, path) ==
  LET e == LookupByName(c, user, name) IN
  IF IsEmpty(c) \/ e = Garbage THEN [found |-> FALSE, init |-> 0, path |-> path]
  ELSE [found |-> TRUE, init |-> e.init, path |-> IF path = 0 THEN e.path ELSE path]

\* ListRefs: every entry, under the username of its profile ("" when there is none).
ListRefs(c) ==
  [i \in DOMAIN c.refs |-> [user |-> userMap(c.users, c.refs[i].id), name |-> c.refs[i].name,
                            path |-> c.refs[i].path, dir |-> c.refs[i].dir]]

-----------------------------------------------------------------------------
(***************************************************************************)
(* Following events: a new buffer, copied from the old one.                *)
(***************************************************************************)
\* copyReferenceListWithReplacement: every entry, but new[i] for the ones at "at".
copyReferenceListWithReplacement(c, at, new) ==
  [c EXCEPT !.refs = [i \in DOMAIN @ |-> IF i \in at THEN new[i] ELSE @[i]]]

\* The loop over the references runs as often as there are users.
ReadsPastEnd(c) == ~IsEmpty(c) /\ Len(c.users) > Len(c.refs)

updateInitDataset(c, act, createNew) ==
  IF IsEmpty(c)
  THEN IF createNew THEN buildDscacheFlatbuffer(<<[user |-> act.user, id |-> act.id]>>, AddDsVersionInfo(<<>>, act)) ELSE c
  ELSE LET copied == [i \in DOMAIN c.users |-> IF i \in DOMAIN c.refs THEN c.refs[i] ELSE Garbage]
       IN  buildDscacheFlatbuffer(c.users, AddDsVersionInfo(copied, act))

\* MUTANT: the entry is found by the index the event continues, not by the init ID.
updateChangeCursorByTop(c, act) ==
  LET at == {i \in DOMAIN c.refs : c.refs[i].top + 1 = act.top}
  IN  copyReferenceListWithReplacement(c, at, [i \in at |-> [c.refs[i] EXCEPT !.top = act.top, !.path = act.head]])

updateChangeCursor(c, act) ==
  LET at == {i \in DOMAIN c.refs : c.refs[i].init = act.init}
  IN  copyReferenceListWithReplacement(c, at, [i \in at |-> [c.refs[i] EXCEPT !.top = act.top, !.path = act.head]])

updateDeleteDataset(c, act) == [c EXCEPT !.refs = SelectSeq(@, LAMBDA r : r.init # act.init)]

updateCreateLink(c, act, defaultUser) ==
  LET at == {i \in DOMAIN c.refs : IF act.init # 0 THEN c.refs[i].init = act.init
                                   ELSE defaultUser = act.user /\ c.refs[i].name = act.name}
  IN  copyReferenceListWithReplacement(c, at, [i \in at |-> [c.refs[i] EXCEPT !.dir = act.dir]])

\* handler: what the cache is after an event.  Renames are passed over.
handler(c, type, act, createNew, defaultUser) ==
  CASE type = "init"   -> updateInitDataset(c, act, createNew)
    [] type = "commit" -> IF IsEmpty(c) THEN c ELSE updateChangeCursor(c, act)
    [] type = "delete" -> IF IsEmpty(c) THEN c ELSE updateDeleteDataset(c, act)
    [] type = "link"   -> IF IsEmpty(c) THEN c ELSE updateCreateLink(c, act, defaultUser)
    [] type = "rename" -> c

=============================================================================
