------------------------------- MODULE Oplog -------------------------------
(***************************************************************************)
(* The journal an author keeps (oplog.Journal), as a value: the dataset    *)
(* logs under the author's own user log, each with its single branch.      *)
(*                                                                         *)
(* An init ID is the hash of a log's first operation.  Here it is the rank *)
(* of the log's creation, which is also its place among the children of    *)
(* the user log: AddChild appends, and nothing reorders.  A log with no    *)
(* operations is a log that is not in the journal.                         *)
(***************************************************************************)
EXTENDS BranchHistory

CONSTANTS Names,        \* the names a dataset may be given
          MaxDatasets   \* BOUND: init IDs handed out in a behaviour

\* The name of an operation that carries none: "" in the code.
NoName == "unnamed"

ASSUME NamesAssumption    == NoName \notin Names
ASSUME DatasetsAssumption == MaxDatasets \in Nat

Ids == 1 .. MaxDatasets

DatasetOp == [type : {"init", "amend", "remove"}, name : Names \union {NoName}]
Log       == [ops : Seq(DatasetOp), branch : Seq(Op)]
Journal   == [Ids -> Log]

NoLog        == [ops |-> <<>>, branch |-> <<>>]
EmptyJournal == [id \in Ids |-> NoLog]

Present(j, id) == j[id].ops # <<>>

\* Log.Removed: some operation of the log removes it.
Removed(j, id) == \E i \in DOMAIN j[id].ops : j[id].ops[i].type = "remove"

Live(j, id) == Present(j, id) /\ ~Removed(j, id)

\* Log.Name: the last operation that carries a name decides it.
Named(j, id, n) ==
  \E i \in DOMAIN j[id].ops :
     /\ j[id].ops[i].name = n
     /\ n # NoName
     /\ \A k \in DOMAIN j[id].ops : k > i => j[id].ops[k].name = NoName

\* The first child in the user log's order that is in S: a set of at most one.
First(S) == {id \in S : \A k \in S : id <= k}

\* Log.HeadRef: the first log with the name that is not removed.
HeadRef(j, n) == First({id \in Ids : Live(j, id) /\ Named(j, id, n)})

\* The init IDs that some name resolves to (Book.RefToInitID).
Resolvable(j) == UNION {HeadRef(j, n) : n \in Names}

\* Journal.RemoveLog: takes out the first child with the name.  Unlike
\* HeadRef it does not ask whether that child is already marked removed.
RemoveLog(j, n) ==
  LET gone == First({id \in Ids : Present(j, id) /\ Named(j, id, n)})
  IN  [id \in Ids |-> IF id \in gone THEN NoLog ELSE j[id]]

\* Log.Append on a dataset log, and on the branch below it.
AppendDataset(j, id, op) == [j EXCEPT ![id].ops = Append(@, op)]
AppendBranch(j, id, op)  == [j EXCEPT ![id].branch = Append(@, op)]

\* A fresh dataset log with its "main" branch.
NewDataset(j, id, n) ==
  [j EXCEPT ![id] = [ops    |-> <<[type |-> "init", name |-> n]>>,
                     branch |-> <<BranchInit>>]]

\* WriteDatasetInit's test for a log that never got a version.
Blank(j, id) == Len(j[id].ops) = 1 /\ Len(j[id].branch) = 1
=============================================================================
