--------------------------- MODULE BranchHistory ---------------------------
(***************************************************************************)
(* What a branch log means, and how the code reads it.                     *)
(*                                                                         *)
(* A branch log is an append-only sequence of operations (oplog.Op) about  *)
(* one line of commits.  Three readers in logbook/logbook.go fold it into  *)
(* the versions that still exist: branchToVersionInfos (what `qri log`     *)
(* shows), addReferencedPaths (which stored blocks are in use) and         *)
(* latestSavePath (the head path a reference resolves to).  Each is a fold *)
(* of its own; Versions is the meaning the writers of the operations give  *)
(* them, and the yardstick the readers are compared with.                  *)
(*                                                                         *)
(* A version path, a run ID and the empty string are naturals: 0 is "".    *)
(***************************************************************************)
EXTENDS Integers, Sequences, SequencesExt

\* Op: the fields of oplog.Op that a branch log uses.  "ref" is the version
\* path of a commit, "run" the run ID (of a run, or of the runID: relation of
\* a commit), "size" the number of versions a remove or a push counts.
Op == [model : {"branch", "commit", "push", "run"},
       type  : {"init", "amend", "remove"},
       ref   : Nat, run : Nat, size : Int]

BranchInit      == [model |-> "branch", type |-> "init",
                    ref |-> 0, run |-> 0, size |-> 0]
\* A slip to compare with: a commit recorded under another model.
CommitOfDataset(p, r) == [model |-> "dataset", type |-> "init",
                          ref |-> p, run |-> r, size |-> 0]
Commit(p, r)    == [model |-> "commit", type |-> "init",
                    ref |-> p, run |-> r, size |-> 0]
Delete(n)       == [model |-> "commit", type |-> "remove",
                    ref |-> 0, run |-> 0, size |-> n]
Run(r)          == [model |-> "run", type |-> "init",
                    ref |-> 0, run |-> r, size |-> 0]
Push(n)         == [model |-> "push", type |-> "init",
                    ref |-> 0, run |-> 0, size |-> n]
Unpush(n)       == [model |-> "push", type |-> "remove",
                    ref |-> 0, run |-> 0, size |-> n]

IsCommit(op, t) == op.model = "commit" /\ op.type = t

-----------------------------------------------------------------------------
\* The first k elements: the slice s[:k], for 0 <= k <= len(s).
Upto(s, k) == SubSeq(s, 1, k)

\* The fold of op over s from its first element on, as a recursive function of
\* the position (the loop "for _, op := range ops" of each reader).
Fold(op(_, _), start, s) ==
  LET upto[i \in 0 .. Len(s)] == IF i = 0 THEN start ELSE op(upto[i - 1], s[i])
  IN  upto[Len(s)]

\* A fold that slices outside what the slice holds panics, or brings back a
\* slot that is not part of the history: "ok" says that never happened.
DropTop(s, n) == IF n \in 0 .. Len(s) THEN Upto(s, Len(s) - n) ELSE s

(***************************************************************************)
(* branchToVersionInfos: runs and commits become items, oldest first here  *)
(* (the code reverses at the end, see VersionInfos).  A commit joins the   *)
(* last item when that is the run it came from.  With all = FALSE deletes  *)
(* are only counted, in "tail", and taken off once at the end.             *)
(***************************************************************************)
Item == [path : Nat, run : Nat, published : BOOLEAN]

ItemOf(p, r) == [path |-> p, run |-> r, published |-> FALSE]

Mark(items, n, b) ==
  [i \in DOMAIN items |->
     IF i > Len(items) - n THEN [items[i] EXCEPT !.published = b] ELSE items[i]]

\* A slip to compare with: the commit never joins the run it came from.
CollapseCommitApart(st, op) ==
  [st EXCEPT !.items = Append(@, ItemOf(op.ref, 0))]

CollapseCommit(st, op) ==
  LET s == st.items IN
  IF op.run # 0 /\ s # <<>> /\ Last(s).run = op.run
  THEN [st EXCEPT !.items = [s EXCEPT ![Len(s)].path = op.ref]]
  ELSE [st EXCEPT !.items = Append(s, ItemOf(op.ref, 0))]

CollapseOp(st, op, all) ==
  LET s == st.items IN
  CASE IsCommit(op, "init") -> CollapseCommit(st, op)
    [] IsCommit(op, "amend") ->
         IF s = <<>> THEN [st EXCEPT !.ok = FALSE]
         ELSE [st EXCEPT !.tail = 0, !.items[Len(s)] = ItemOf(op.ref, 0)]
    [] IsCommit(op, "remove") /\ all ->
         [st EXCEPT !.items = DropTop(s, op.size),
                    !.ok = @ /\ op.size \in 0 .. Len(s)]
    [] IsCommit(op, "remove") /\ ~all -> [st EXCEPT !.tail = @ + op.size]
    [] op.model = "run" -> [st EXCEPT !.items = Append(s, ItemOf(0, op.run))]
    [] op.model = "push" ->
         [st EXCEPT !.items = Mark(s, op.size, op.type = "init"),
                    !.ok = @ /\ op.size <= Len(s)]
    [] OTHER -> st

Collapse(ops, all) ==
  Fold(LAMBDA st, op : CollapseOp(st, op, all),
           [items |-> <<>>, tail |-> 0, ok |-> TRUE], ops)

\* The items left once the counted deletes are taken off the end.
Remaining(st) ==
  IF st.tail <= 0 THEN st.items
  ELSE IF st.tail < Len(st.items) THEN Upto(st.items, Len(st.items) - st.tail)
  ELSE <<>>

\* branchToVersionInfos with offset 0 and no limit: newest first.
VersionInfos(ops, all) == Reverse(Remaining(Collapse(ops, all)))

Items(ops) == VersionInfos(ops, TRUE)

\* No step of Items slices or indexes out of range.
ItemsDefined(ops) == Collapse(ops, TRUE).ok

(***************************************************************************)
(* addReferencedPaths: the paths of one log, oldest first.                 *)
(***************************************************************************)
ReferenceOp(st, op) ==
  LET s == st.paths IN
  CASE IsCommit(op, "init")   -> [st EXCEPT !.paths = Append(s, op.ref)]
    [] IsCommit(op, "remove") -> [st EXCEPT !.paths = DropTop(s, op.size),
                                            !.ok = @ /\ op.size \in 0 .. Len(s)]
    [] IsCommit(op, "amend")  -> IF s = <<>> THEN [st EXCEPT !.ok = FALSE]
                                 ELSE [st EXCEPT !.paths[Len(s)] = op.ref]
    [] OTHER -> st

addReferencedPaths(ops) ==
  Fold(ReferenceOp, [paths |-> <<>>, ok |-> TRUE], ops)

(***************************************************************************)
(* latestSavePath: walks back from the newest operation, counting removes  *)
(* down, and stops at the first commit met with the count at zero.  The    *)
(* count is taken down BEFORE the test, so the commit that brings it to    *)
(* zero is the one returned.                                               *)
(***************************************************************************)
LatestOp(st, op) ==
  IF st.found # 0 THEN st
  ELSE IF IsCommit(op, "remove") THEN [st EXCEPT !.removes = @ + op.size]
  ELSE IF op.model = "commit" /\ op.type # "remove" THEN
         LET left == IF st.removes > 0 THEN st.removes - 1 ELSE st.removes
         IN  [removes |-> left, found |-> IF left = 0 THEN op.ref ELSE 0]
  ELSE st

latestSavePath(ops) ==
  Fold(LatestOp, [removes |-> 0, found |-> 0], Reverse(ops)).found

-----------------------------------------------------------------------------
(***************************************************************************)
(* The reference reading.  A commit adds a version, an amend replaces the  *)
(* newest, a delete of n takes the n newest away, and a delete of -1 takes *)
(* all of them ("when n == -1, remove all versions", base/remove.go).      *)
(***************************************************************************)
VersionOp(vs, op) ==
  CASE IsCommit(op, "init")  -> Append(vs, op.ref)
    [] IsCommit(op, "amend") -> Append(Upto(vs, Len(vs) - 1), op.ref)
    [] IsCommit(op, "remove") ->
         IF op.size \in 0 .. Len(vs) THEN DropTop(vs, op.size) ELSE <<>>
    [] OTHER -> vs

Versions(ops) == Fold(VersionOp, <<>>, ops)

Head0(vs) == IF vs = <<>> THEN 0 ELSE Last(vs)

\* A run that no commit followed: the transform failed, or changed nothing.
BareRun(ops) ==
  \E i \in DOMAIN ops :
     /\ ops[i].model = "run"
     /\ ~\E k \in DOMAIN ops : k = i + 1 /\ ops[k].run = ops[i].run
=============================================================================
