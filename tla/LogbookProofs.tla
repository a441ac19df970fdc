--------------------------- MODULE LogbookProofs ---------------------------
(***************************************************************************)
(* Proofs about the logbook, for any number of clients, names, datasets    *)
(* and bounds.                                                             *)
(***************************************************************************)
EXTENDS Logbook, FiniteSetTheorems, NaturalsInduction, SequenceTheorems,
        WellFoundedInduction, TLAPS

-----------------------------------------------------------------------------
(* The operations on journals yield journals. *)

\* The operations the Book writes to a branch log are operations.
LEMMA OpTypes ==
  /\ BranchInit \in Op
  /\ \A p, r \in Nat : Commit(p, r) \in Op
  /\ \A r \in Nat : Run(r) \in Op
  /\ \A k \in Int : Delete(k) \in Op /\ Push(k) \in Op /\ Unpush(k) \in Op
BY DEF BranchInit, Commit, Run, Delete, Push, Unpush, Op

\* A missing log is a log with no operations, and a journal without logs is
\* a journal.
LEMMA EmptyTypes == NoLog \in Log /\ EmptyJournal \in Journal
BY DEF NoLog, EmptyJournal, Log, Journal, DatasetOp, Op

\* Replacing one log by another leaves the rest of the journal alone.
LEMMA PutLogFacts ==
  ASSUME NEW j \in Journal, NEW id \in Ids, NEW l \in Log
  PROVE  /\ [j EXCEPT ![id] = l] \in Journal
         /\ \A k \in Ids \ {id} : [j EXCEPT ![id] = l][k] = j[k]
         /\ [j EXCEPT ![id] = l][id] = l
BY DEF Journal

\* A log of a journal has its two parts.
LEMMA LogParts ==
  ASSUME NEW j \in Journal, NEW id \in Ids
  PROVE  /\ j[id] \in Log
         /\ j[id].ops \in Seq(DatasetOp)
         /\ j[id].branch \in Seq(Op)
BY DEF Journal, Log

\* Replacing the branch of a log leaves its dataset operations alone.
LEMMA PutBranchFacts ==
  ASSUME NEW j \in Journal, NEW id \in Ids, NEW b \in Seq(Op)
  PROVE  /\ [j EXCEPT ![id].branch = b] \in Journal
         /\ \A k \in Ids : [j EXCEPT ![id].branch = b][k].ops = j[k].ops
         /\ \A k \in Ids \ {id} : [j EXCEPT ![id].branch = b][k].branch = j[k].branch
         /\ [j EXCEPT ![id].branch = b][id].branch = b
<1> DEFINE l == [j[id] EXCEPT !.branch = b]
<1>1. l \in Log /\ l.ops = j[id].ops /\ l.branch = b
  BY LogParts DEF Log
<1>2. [j EXCEPT ![id].branch = b] = [j EXCEPT ![id] = l]
  BY DEF Journal
<1> HIDE DEF l
<1> QED BY <1>1, <1>2, PutLogFacts

\* Appending to a branch changes that branch only, at its end.
LEMMA AppendBranchFacts ==
  ASSUME NEW j \in Journal, NEW id \in Ids, NEW op \in Op
  PROVE  /\ AppendBranch(j, id, op) \in Journal
         /\ \A k \in Ids : AppendBranch(j, id, op)[k].ops = j[k].ops
         /\ \A k \in Ids \ {id} : AppendBranch(j, id, op)[k].branch = j[k].branch
         /\ AppendBranch(j, id, op)[id].branch = Append(j[id].branch, op)
<1> DEFINE b == Append(j[id].branch, op)
<1>1. b \in Seq(Op)
  BY LogParts
<1>2. AppendBranch(j, id, op) = [j EXCEPT ![id].branch = b]
  BY DEF AppendBranch
<1> HIDE DEF b
<1>3. /\ [j EXCEPT ![id].branch = b] \in Journal
      /\ \A k \in Ids : [j EXCEPT ![id].branch = b][k].ops = j[k].ops
      /\ \A k \in Ids \ {id} : [j EXCEPT ![id].branch = b][k].branch = j[k].branch
      /\ [j EXCEPT ![id].branch = b][id].branch = b
  BY <1>1, PutBranchFacts
<1>4. QED BY <1>2, <1>3 DEF b

\* Appending to a dataset log leaves every branch alone, and makes no log
\* appear: the dataset log was there.
LEMMA AppendDatasetFacts ==
  ASSUME NEW j \in Journal, NEW id \in Ids, NEW op \in DatasetOp, Present(j, id)
  PROVE  /\ AppendDataset(j, id, op) \in Journal
         /\ \A k \in Ids : AppendDataset(j, id, op)[k].branch = j[k].branch
         /\ \A k \in Ids : Present(AppendDataset(j, id, op), k) => Present(j, k)
         /\ \A k \in Ids \ {id} : AppendDataset(j, id, op)[k] = j[k]
<1> DEFINE l == [j[id] EXCEPT !.ops = Append(j[id].ops, op)]
<1>0. Append(j[id].ops, op) \in Seq(DatasetOp)
  BY LogParts
<1>1. l \in Log /\ l.branch = j[id].branch
  BY <1>0, LogParts DEF Log
<1>2. AppendDataset(j, id, op) = [j EXCEPT ![id] = l]
  BY DEF AppendDataset, Journal
<1> HIDE DEF l
<1>3. /\ [j EXCEPT ![id] = l] \in Journal
      /\ \A k \in Ids \ {id} : [j EXCEPT ![id] = l][k] = j[k]
      /\ [j EXCEPT ![id] = l][id] = l
  BY <1>1, PutLogFacts
<1>4. QED BY <1>1, <1>2, <1>3 DEF Present

\* Journal.RemoveLog takes logs out whole, and touches no other.
LEMMA RemoveLogFacts ==
  ASSUME NEW j \in Journal, NEW n
  PROVE  /\ RemoveLog(j, n) \in Journal
         /\ \A k \in Ids : RemoveLog(j, n)[k] = j[k] \/ RemoveLog(j, n)[k] = NoLog
BY EmptyTypes DEF RemoveLog, Journal

\* A new dataset log is named once, and has a branch with its init alone.
LEMMA NewDatasetFacts ==
  ASSUME NEW j \in Journal, NEW id \in Ids, NEW n \in Names
  PROVE  /\ NewDataset(j, id, n) \in Journal
         /\ \A k \in Ids \ {id} : NewDataset(j, id, n)[k] = j[k]
         /\ NewDataset(j, id, n)[id].branch = <<BranchInit>>
<1> DEFINE l == [ops |-> <<[type |-> "init", name |-> n]>>, branch |-> <<BranchInit>>]
<1>1. [type |-> "init", name |-> n] \in DatasetOp
  BY DEF DatasetOp
<1>2. l \in Log /\ l.branch = <<BranchInit>>
  BY <1>1, OpTypes DEF Log
<1>3. NewDataset(j, id, n) = [j EXCEPT ![id] = l]
  BY DEF NewDataset
<1> HIDE DEF l
<1>4. /\ [j EXCEPT ![id] = l] \in Journal
      /\ \A k \in Ids \ {id} : [j EXCEPT ![id] = l][k] = j[k]
      /\ [j EXCEPT ![id] = l][id] = l
  BY <1>2, PutLogFacts
<1>5. QED BY <1>2, <1>3, <1>4

\* Dropping the last of two or more operations leaves a shorter log with the
\* same beginning.
LEMMA DropLastFacts ==
  ASSUME NEW j \in Journal, NEW id \in Ids, Len(j[id].branch) >= 2
  PROVE  /\ DropLast(j, id) \in Journal
         /\ \A k \in Ids : DropLast(j, id)[k].ops = j[k].ops
         /\ \A k \in Ids \ {id} : DropLast(j, id)[k].branch = j[k].branch
         /\ Len(DropLast(j, id)[id].branch) = Len(j[id].branch) - 1
         /\ DropLast(j, id)[id].branch[1] = j[id].branch[1]
<1> DEFINE b == SubSeq(j[id].branch, 1, Len(j[id].branch) - 1)
<1>1. /\ b \in Seq(Op)
      /\ Len(b) = Len(j[id].branch) - 1
      /\ b[1] = j[id].branch[1]
  BY LogParts
<1>2. DropLast(j, id) = [j EXCEPT ![id].branch = b]
  BY DEF DropLast, Upto
<1> HIDE DEF b
<1>3. /\ [j EXCEPT ![id].branch = b] \in Journal
      /\ \A k \in Ids : [j EXCEPT ![id].branch = b][k].ops = j[k].ops
      /\ \A k \in Ids \ {id} : [j EXCEPT ![id].branch = b][k].branch = j[k].branch
      /\ [j EXCEPT ![id].branch = b][id].branch = b
  BY <1>1, PutBranchFacts
<1>4. QED BY <1>1, <1>2, <1>3

\* A name resolves to a log that is there.
LEMMA HeadRefFacts ==
  ASSUME NEW j, NEW n, NEW id \in HeadRef(j, n)
  PROVE  id \in Ids /\ Present(j, id)
BY DEF HeadRef, First, Live

-----------------------------------------------------------------------------
(***************************************************************************)
(* The inductive invariant behind InitKept.  InitKept speaks of the journal *)
(* in memory and of the pushes under way; a restart replaces the journal    *)
(* by the file's, so the file's logs must begin right too, and the logs     *)
(* and requests there are must only speak of init IDs that were handed      *)
(* out, so that no push is in flight for a dataset that is yet to be made.  *)
(***************************************************************************)
HoldsLog(r) == r.pc \in {"put", "new"} \/ r.then \in {"put", "new"}

InUse(r, u) == r.id <= u /\ (HoldsLog(r) => r.id >= 1)

Allotted ==
  /\ used <= MaxDatasets
  /\ \A id \in Ids : Present(mem, id) \/ Present(disk, id) => id <= used
  /\ \A c \in Clients : InUse(req[c], used)

IInv == TypeOK /\ Allotted /\ Rooted(disk) /\ InitKept

\* What the writers publish are events.
LEMMA EventTypes ==
  /\ NoEvent \in Event
  /\ \A id \in Nat, n \in Names : NameInit(id, n) \in Event /\ Rename(id, n) \in Event
  /\ \A id \in Nat : DeleteAll(id) \in Event
  /\ \A id, p \in Nat, k \in Int : Change(id, k, p) \in Event
<1>1. NoEvent \in Event
  BY DEF NoEvent, Event
<1>2. \A id \in Nat, n \in Names : NameInit(id, n) \in Event /\ Rename(id, n) \in Event
  BY <1>1 DEF NameInit, Rename, Event
<1>3. \A id \in Nat : DeleteAll(id) \in Event
  BY <1>1 DEF DeleteAll, Event
<1>4. \A id, p \in Nat, k \in Int : Change(id, k, p) \in Event
  BY <1>1 DEF Change, Event
<1>5. QED BY <1>1, <1>2, <1>3, <1>4

\* A client at rest is a request like any other.
LEMMA IdleType == Idle \in Req
BY EventTypes DEF Idle, Req, PCs

\* The empty journal satisfies the invariant.
THEOREM InitIInv == Init => IInv
<1> SUFFICES ASSUME Init PROVE IInv
  OBVIOUS
<1>1. TypeOK
  BY EmptyTypes, EventTypes, IdleType DEF Init, TypeOK
<1>2. \A id \in Ids : ~Present(mem, id) /\ ~Present(disk, id)
  BY DEF Init, EmptyJournal, NoLog, Present
<1>3. Allotted
  BY <1>2, DatasetsAssumption DEF Init, Allotted, Idle, HoldsLog, InUse
<1>4. Rooted(disk) /\ InitKept
  BY <1>2 DEF Rooted, InitKept
<1>5. QED BY <1>1, <1>3, <1>4 DEF IInv

-----------------------------------------------------------------------------
\* What every step that changes the journal and goes on to save it keeps,
\* whatever it wrote: only the request that wrote is anywhere else than it
\* was, and it has a rollback to come only if it pushed.
LEMMA WriteStep ==
  ASSUME IInv, NEW c \in Clients, NEW j \in Journal, NEW then \in PCs,
         NEW id \in Nat, NEW n \in Names \union {NoName}, NEW e \in Event,
         Write(c, j, then, id, n, e),
         bus' \in Event, paths' \in Nat, runs' \in Nat,
         used' \in Nat, used <= used', used' <= MaxDatasets, id <= used',
         then \in {"put", "new"} => id >= 1,
         \A k \in Ids : Present(j, k) => k <= used'
  PROVE  /\ TypeOK' /\ Allotted' /\ Rooted(disk)'
         /\ \A k \in Ids : InFlight(k)' \subseteq
               InFlight(k) \union (IF then = "put" /\ k = id THEN {c} ELSE {})
<1> DEFINE r == [pc |-> "save", then |-> then, id |-> id, name |-> n, evt |-> e]
<1>1. r \in Req
  BY DEF Req
<1>2. mem' = j /\ disk' = disk /\ located' = located /\ req' = [req EXCEPT ![c] = r]
  BY DEF Write
<1>3. r.pc = "save" /\ r.then = then /\ r.id = id
  OBVIOUS
<1> HIDE DEF r
<1>4. req \in [Clients -> Req] /\ used \in Nat
  BY DEF IInv, TypeOK
<1>5. req'[c] = r /\ \A d \in Clients \ {c} : req'[d] = req[d]
  BY <1>2, <1>4
<1>6. TypeOK'
  BY <1>1, <1>2, <1>4 DEF IInv, TypeOK
<1>7. Allotted'
  <2>0. \A k \in Ids : k \in Nat
    BY DatasetsAssumption DEF Ids
  <2>1. \A k \in Ids : Present(mem, k)' \/ Present(disk, k)' => k <= used'
    <3>1. \A k \in Ids : Present(disk, k) => k <= used'
      BY <1>4, <2>0 DEF IInv, Allotted
    <3>2. QED BY <1>2, <3>1 DEF Present
  <2>2. \A d \in Clients : d # c => InUse(req'[d], used')
    <3>1. \A d \in Clients : req[d].id \in Nat
      BY <1>4 DEF Req
    <3>2. \A d \in Clients : InUse(req[d], used')
      BY <1>4, <3>1 DEF IInv, Allotted, InUse
    <3>3. QED BY <1>5, <3>2
  <2>3. InUse(req'[c], used')
    BY <1>3, <1>5 DEF InUse, HoldsLog
  <2>4. QED BY <2>1, <2>2, <2>3 DEF Allotted
<1>8. Rooted(disk)'
  BY <1>2 DEF IInv, Rooted, Present
<1>9. ASSUME NEW k \in Ids
      PROVE  InFlight(k)' \subseteq
               InFlight(k) \union (IF then = "put" /\ k = id THEN {c} ELSE {})
  BY <1>3, <1>5 DEF InFlight, At
<1>10. QED BY <1>6, <1>7, <1>8, <1>9

\* The logs j are the ones in memory, or fewer, none of them shorter or
\* beginning otherwise.
Grown(j) ==
  /\ j \in Journal
  /\ \A k \in Ids : Present(j, k) =>
        /\ Present(mem, k)
        /\ Len(j[k].branch) >= Len(mem[k].branch)
        /\ j[k].branch[1] = mem[k].branch[1]

\* What Append does to the length and the first element of a sequence.
LEMMA SeqAppend ==
  ASSUME NEW T, NEW q \in Seq(T), Len(q) >= 1, NEW x \in T
  PROVE  Len(Append(q, x)) = Len(q) + 1 /\ Append(q, x)[1] = q[1]
OBVIOUS

\* The pushes in flight are some of the clients, so there are finitely many.
LEMMA InFlightFinite ==
  ASSUME NEW k
  PROVE  IsFiniteSet(InFlight(k)) /\ Cardinality(InFlight(k)) \in Nat
BY ClientsAssumption, FS_Subset, FS_CardinalityType DEF InFlight

\* A step that makes no log appear, takes nothing off a branch and starts no
\* push keeps InitKept.
LEMMA KeptWhenLonger ==
  ASSUME IInv, Grown(mem'), \A k \in Ids : InFlight(k)' \subseteq InFlight(k)
  PROVE  InitKept'
<1>1. SUFFICES ASSUME NEW k \in Ids, Present(mem', k)
               PROVE  /\ Len(mem'[k].branch) >= 1 + Cardinality(InFlight(k)')
                      /\ mem'[k].branch[1] = BranchInit
  BY DEF InitKept, Present
<1>2. /\ Len(mem[k].branch) >= 1 + Cardinality(InFlight(k))
      /\ mem[k].branch[1] = BranchInit
      /\ Len(mem'[k].branch) >= Len(mem[k].branch)
      /\ mem'[k].branch[1] = mem[k].branch[1]
  BY <1>1 DEF IInv, InitKept, Grown
<1>3. /\ IsFiniteSet(InFlight(k)')
      /\ Cardinality(InFlight(k)') \in Nat
      /\ Cardinality(InFlight(k)') <= Cardinality(InFlight(k))
      /\ Cardinality(InFlight(k)) \in Nat
  BY InFlightFinite, FS_Subset, FS_CardinalityType
<1>4. Len(mem[k].branch) \in Nat /\ Len(mem'[k].branch) \in Nat
  BY LogParts DEF IInv, TypeOK, Grown
<1>5. QED BY <1>1, <1>2, <1>3, <1>4

\* A client that appended to a branch, or removed a log or its name, and has
\* not pushed, leaves the invariant alone.
LEMMA GentleWrite ==
  ASSUME IInv, NEW c \in Clients, NEW j, Grown(j), NEW then \in PCs \ {"put"},
         NEW id \in Nat, NEW n \in Names \union {NoName}, NEW e \in Event,
         Write(c, j, then, id, n, e),
         bus' \in Event, paths' \in Nat, runs' \in Nat, used' = used,
         id <= used, then # "new"
  PROVE  IInv'
<1>1. /\ used' \in Nat /\ used <= used' /\ used' <= MaxDatasets /\ id <= used'
      /\ then \in PCs /\ (then \in {"put", "new"} => id >= 1)
  BY DEF IInv, TypeOK, Allotted
<1>2. j \in Journal /\ \A k \in Ids : Present(j, k) => k <= used'
  BY DEF IInv, Allotted, Grown
<1>3. /\ TypeOK' /\ Allotted' /\ Rooted(disk)'
      /\ \A k \in Ids : InFlight(k)' \subseteq
            InFlight(k) \union (IF then = "put" /\ k = id THEN {c} ELSE {})
  BY <1>1, <1>2, WriteStep
<1>4. \A k \in Ids : InFlight(k)' \subseteq InFlight(k)
  BY <1>3
<1>5. mem' = j
  BY DEF Write
<1>6. InitKept'
  BY <1>4, <1>5, KeptWhenLonger
<1>7. QED BY <1>3, <1>6 DEF IInv

\* An appended operation makes a branch longer, and leaves its first.
LEMMA AppendLonger ==
  ASSUME IInv, NEW id \in Ids, NEW op \in Op, Present(mem, id)
  PROVE  Grown(AppendBranch(mem, id, op))
<1>1. mem \in Journal
  BY DEF IInv, TypeOK
<1>2. mem[id].branch \in Seq(Op) /\ Len(mem[id].branch) >= 1
  BY <1>1, LogParts, InFlightFinite DEF IInv, InitKept
<1>3. /\ Len(Append(mem[id].branch, op)) = Len(mem[id].branch) + 1
      /\ Append(mem[id].branch, op)[1] = mem[id].branch[1]
  BY <1>2
<1>4. \A k \in Ids : Len(mem[k].branch) \in Nat
  BY <1>1, LogParts
<1> DEFINE j == AppendBranch(mem, id, op)
<1>5. /\ j \in Journal
      /\ \A k \in Ids : j[k].ops = mem[k].ops
      /\ \A k \in Ids \ {id} : j[k].branch = mem[k].branch
      /\ j[id].branch = Append(mem[id].branch, op)
  BY <1>1, AppendBranchFacts
<1> HIDE DEF j
<1>6. ASSUME NEW k \in Ids, Present(j, k)
      PROVE  /\ Present(mem, k)
             /\ Len(j[k].branch) >= Len(mem[k].branch)
             /\ j[k].branch[1] = mem[k].branch[1]
  <2>1. Present(mem, k)
    BY <1>5, <1>6 DEF Present
  <2>2. Len(j[k].branch) >= Len(mem[k].branch) /\ j[k].branch[1] = mem[k].branch[1]
    <3>1. CASE k = id
      BY <1>3, <1>4, <1>5, <3>1
    <3>2. CASE k # id
      BY <1>4, <1>5, <3>2
    <3>3. QED BY <3>1, <3>2
  <2>3. QED BY <2>1, <2>2
<1>7. Grown(j)
  BY <1>5, <1>6 DEF Grown
<1>8. QED BY <1>7 DEF j

\* Removing a log makes no log appear and leaves the others as they were.
LEMMA RemoveLonger ==
  ASSUME IInv, NEW n
  PROVE  Grown(RemoveLog(mem, n))
<1>1. mem \in Journal
  BY DEF IInv, TypeOK
<1>2. \A k \in Ids : Len(mem[k].branch) \in Nat
  BY <1>1, LogParts
<1>3. \A k \in Ids : Present(RemoveLog(mem, n), k) => RemoveLog(mem, n)[k] = mem[k]
  BY <1>1, RemoveLogFacts DEF Present, NoLog
<1>4. QED BY <1>1, <1>2, <1>3, RemoveLogFacts DEF Present, Grown

-----------------------------------------------------------------------------
(* One lemma per action. *)

\* Book.save, whether its Put works or not, keeps the invariant: the file
\* receives the logs in memory or none.
LEMMA SaveKeeps ==
  ASSUME IInv, NEW c \in Clients, Save(c)
  PROVE  IInv'
<1>1. /\ mem' = mem /\ used' = used /\ paths' = paths /\ runs' = runs
      /\ bus' = req[c].evt
      /\ req' = [req EXCEPT ![c] = Resume(req[c])]
      /\ At(c, "save")
  BY DEF Save
<1>2. (disk' = mem \/ disk' = disk) /\ located' \in BOOLEAN
  BY DEF Save, FsPut, IInv, TypeOK
<1>3. req \in [Clients -> Req] /\ mem \in Journal
  BY DEF IInv, TypeOK
<1>4. /\ Resume(req[c]) \in Req
      /\ Resume(req[c]).id \in {0, req[c].id}
      /\ HoldsLog(Resume(req[c])) => HoldsLog(req[c]) /\ Resume(req[c]).id = req[c].id
      /\ Resume(req[c]).pc = "put" => req[c].then = "put"
      /\ Resume(req[c]).pc # "save"
  <2>1. req[c] \in Req /\ req[c].then \in PCs
    BY <1>3 DEF Req
  <2>2. CASE req[c].then = "idle"
    BY <2>2, IdleType DEF Resume, Idle, HoldsLog
  <2>3. CASE req[c].then # "idle"
    <3>1. Resume(req[c]) = [pc |-> req[c].then, then |-> "idle", id |-> req[c].id,
                            name |-> req[c].name, evt |-> NoEvent]
      BY <2>1, <2>3 DEF Resume, Req
    <3>2. QED BY <2>1, <3>1, EventTypes DEF Req, PCs, HoldsLog
  <2>4. QED BY <2>2, <2>3
<1>5. req'[c] = Resume(req[c]) /\ \A d \in Clients \ {c} : req'[d] = req[d]
  BY <1>1, <1>3
<1>6. TypeOK'
  <2>1. req[c].evt \in Event
    BY <1>3 DEF Req
  <2>2. req' \in [Clients -> Req]
    BY <1>1, <1>3, <1>4
  <2>3. QED BY <1>1, <1>2, <1>3, <2>1, <2>2 DEF IInv, TypeOK
<1>7. Allotted'
  <2>1. \A k \in Ids : Present(mem, k)' \/ Present(disk, k)' => k <= used'
    BY <1>1, <1>2 DEF IInv, Allotted, Present
  <2>2. used \in Nat /\ \A d \in Clients : InUse(req[d], used)
    BY DEF IInv, TypeOK, Allotted
  <2>3. InUse(req'[c], used)
    BY <1>4, <1>5, <2>2 DEF InUse
  <2>4. \A d \in Clients : InUse(req'[d], used)
    BY <1>5, <2>2, <2>3
  <2>5. QED BY <1>1, <2>1, <2>4 DEF IInv, Allotted
<1>8. Rooted(disk)'
  <2>1. Rooted(mem)
    BY <1>3, LogParts, InFlightFinite DEF IInv, InitKept, Rooted
  <2>2. QED BY <1>2, <2>1 DEF IInv, Rooted, Present
<1>9. \A k \in Ids : InFlight(k)' \subseteq InFlight(k)
  BY <1>1, <1>4, <1>5 DEF InFlight, At, HoldsLog
<1>10. InitKept'
  <2>1. \A k \in Ids : Len(mem[k].branch) \in Nat
    BY <1>3, LogParts
  <2>2. Grown(mem')
    BY <1>1, <1>3, <2>1 DEF Grown
  <2>3. QED BY <1>9, <2>2, KeptWhenLonger
<1>11. QED BY <1>6, <1>7, <1>8, <1>10 DEF IInv

\* WriteDatasetInit's removal of a stray log keeps the invariant.
LEMMA RemoveStrayKeeps ==
  ASSUME IInv, NEW c \in Clients, NEW n \in Names, RemoveStray(c, n)
  PROVE  IInv'
<1>1. /\ Write(c, RemoveLog(mem, n), "init", 0, n, NoEvent)
      /\ bus' = NoEvent /\ used' = used /\ paths' = paths /\ runs' = runs
  BY DEF RemoveStray
<1>2. used \in Nat /\ paths \in Nat /\ runs \in Nat
  BY DEF IInv, TypeOK
<1>3. "init" \in PCs \ {"put"}
  BY DEF PCs
<1>4. Grown(RemoveLog(mem, n))
  BY RemoveLonger
<1>5. bus' \in Event /\ NoEvent \in Event
  BY <1>1, EventTypes
<1>6. 0 \in Nat /\ 0 <= used /\ paths' \in Nat /\ runs' \in Nat
  BY <1>1, <1>2
<1>7. QED BY <1>1, <1>3, <1>4, <1>5, <1>6, GentleWrite

\* The clean up after a failed first save keeps the invariant.
LEMMA CleanupNewKeeps ==
  ASSUME IInv, NEW c \in Clients, CleanupNew(c)
  PROVE  IInv'
<1>1. /\ Write(c, RemoveLog(mem, req[c].name), "idle", 0, NoName, NoEvent)
      /\ bus' = NoEvent /\ used' = used /\ paths' = paths /\ runs' = runs
  BY DEF CleanupNew
<1>2. used \in Nat /\ paths \in Nat /\ runs \in Nat
  BY DEF IInv, TypeOK
<1>3. "idle" \in PCs \ {"put"}
  BY DEF PCs
<1>4. Grown(RemoveLog(mem, req[c].name))
  BY RemoveLonger
<1>5. bus' \in Event /\ NoEvent \in Event
  BY <1>1, EventTypes
<1>6. 0 \in Nat /\ 0 <= used /\ paths' \in Nat /\ runs' \in Nat
  BY <1>1, <1>2
<1>7. QED BY <1>1, <1>3, <1>4, <1>5, <1>6, GentleWrite

\* A step that only sends its client back to rest.
LEMMA RestKeeps ==
  ASSUME IInv, NEW c \in Clients, req' = [req EXCEPT ![c] = Idle], bus' = NoEvent,
         UNCHANGED <<mem, disk, located, used, paths, runs>>
  PROVE  IInv'
<1>1. req \in [Clients -> Req] /\ mem \in Journal
  BY DEF IInv, TypeOK
<1>2. req'[c] = Idle /\ \A d \in Clients \ {c} : req'[d] = req[d]
  BY <1>1
<1>3. TypeOK'
  BY <1>1, EventTypes, IdleType DEF IInv, TypeOK
<1>4. Allotted'
  <2>1. used \in Nat /\ \A d \in Clients : InUse(req[d], used)
    BY DEF IInv, TypeOK, Allotted
  <2>2. InUse(req'[c], used)
    BY <1>2, <2>1 DEF InUse, Idle, HoldsLog
  <2>3. \A d \in Clients : InUse(req'[d], used)
    BY <1>2, <2>1, <2>2
  <2>4. QED BY <2>3 DEF IInv, Allotted, Present
<1>5. Rooted(disk)'
  BY DEF IInv, Rooted, Present
<1>6. \A k \in Ids : InFlight(k)' \subseteq InFlight(k)
  BY <1>2 DEF InFlight, At, Idle
<1>7. InitKept'
  <2>1. \A k \in Ids : Len(mem[k].branch) \in Nat
    BY <1>1, LogParts
  <2>2. Grown(mem')
    BY <1>1, <2>1 DEF Grown
  <2>3. QED BY <1>6, <2>2, KeptWhenLonger
<1>8. QED BY <1>3, <1>4, <1>5, <1>7 DEF IInv

\* Appending to a dataset log leaves its branch as it was.
LEMMA DatasetLonger ==
  ASSUME IInv, NEW id \in Ids, NEW op \in DatasetOp, Present(mem, id)
  PROVE  Grown(AppendDataset(mem, id, op))
<1>1. mem \in Journal
  BY DEF IInv, TypeOK
<1>2. \A k \in Ids : Len(mem[k].branch) \in Nat
  BY <1>1, LogParts
<1> DEFINE j == AppendDataset(mem, id, op)
<1>3. /\ j \in Journal
      /\ \A k \in Ids : j[k].branch = mem[k].branch
      /\ \A k \in Ids : Present(j, k) => Present(mem, k)
  BY <1>1, AppendDatasetFacts
<1> HIDE DEF j
<1>4. \A k \in Ids : /\ Len(j[k].branch) >= Len(mem[k].branch)
                     /\ j[k].branch[1] = mem[k].branch[1]
  BY <1>2, <1>3
<1>5. Grown(j)
  BY <1>3, <1>4 DEF Grown
<1>6. QED BY <1>5 DEF j

\* WriteDatasetRename keeps the invariant.
LEMMA WriteDatasetRenameKeeps ==
  ASSUME IInv, NEW c \in Clients, NEW n \in Names, NEW m \in Names,
         WriteDatasetRename(c, n, m)
  PROVE  IInv'
<1> DEFINE op == [type |-> "amend", name |-> m]
<1>1. PICK id \in HeadRef(mem, n) :
        /\ Write(c, AppendDataset(mem, id, op), "idle", 0, NoName, NoEvent)
        /\ bus' = Rename(id, m)
  BY DEF WriteDatasetRename
<1>2. used' = used /\ paths' = paths /\ runs' = runs
  BY DEF WriteDatasetRename
<1>3. id \in Ids /\ Present(mem, id) /\ id \in Nat
  BY HeadRefFacts, DatasetsAssumption DEF Ids
<1>4. op \in DatasetOp
  BY DEF DatasetOp
<1>5. used \in Nat /\ paths \in Nat /\ runs \in Nat /\ "idle" \in PCs \ {"put"}
  BY DEF IInv, TypeOK, PCs
<1>6. bus' \in Event /\ NoEvent \in Event
  BY <1>1, <1>3, EventTypes
<1> HIDE DEF op
<1> DEFINE j == AppendDataset(mem, id, op)
<1>7. Grown(j)
  BY <1>3, <1>4, DatasetLonger
<1>8. Write(c, j, "idle", 0, NoName, NoEvent)
  BY <1>1
<1> HIDE DEF j
<1>9. 0 \in Nat /\ 0 <= used /\ paths' \in Nat /\ runs' \in Nat
  BY <1>2, <1>5
<1>10. QED BY <1>2, <1>5, <1>6, <1>7, <1>8, <1>9, GentleWrite

\* WriteDatasetDelete keeps the invariant.
LEMMA WriteDatasetDeleteKeeps ==
  ASSUME IInv, NEW c \in Clients, NEW n \in Names, WriteDatasetDelete(c, n)
  PROVE  IInv'
<1> DEFINE op == [type |-> "remove", name |-> NoName]
<1>1. PICK id \in HeadRef(mem, n) :
        /\ Write(c, AppendDataset(mem, id, op), "idle", 0, NoName, NoEvent)
        /\ bus' = DeleteAll(id)
  BY DEF WriteDatasetDelete
<1>2. used' = used /\ paths' = paths /\ runs' = runs
  BY DEF WriteDatasetDelete
<1>3. id \in Ids /\ Present(mem, id) /\ id \in Nat
  BY HeadRefFacts, DatasetsAssumption DEF Ids
<1>4. op \in DatasetOp
  BY DEF DatasetOp
<1>5. used \in Nat /\ paths \in Nat /\ runs \in Nat /\ "idle" \in PCs \ {"put"}
  BY DEF IInv, TypeOK, PCs
<1>6. bus' \in Event /\ NoEvent \in Event
  BY <1>1, <1>3, EventTypes
<1> HIDE DEF op
<1> DEFINE j == AppendDataset(mem, id, op)
<1>7. Grown(j)
  BY <1>3, <1>4, DatasetLonger
<1>8. Write(c, j, "idle", 0, NoName, NoEvent)
  BY <1>1
<1> HIDE DEF j
<1>9. 0 \in Nat /\ 0 <= used /\ paths' \in Nat /\ runs' \in Nat
  BY <1>2, <1>5
<1>10. QED BY <1>2, <1>5, <1>6, <1>7, <1>8, <1>9, GentleWrite

\* A log that is there has an init ID that was handed out.
LEMMA PresentInUse ==
  ASSUME IInv, NEW id \in Ids, Present(mem, id)
  PROVE  id \in Nat /\ id >= 1 /\ id <= used
BY DatasetsAssumption DEF IInv, Allotted, Ids

\* A request that holds a log names one of the init IDs.
LEMMA HeldLog ==
  ASSUME IInv, NEW c \in Clients, At(c, "put") \/ At(c, "new")
  PROVE  req[c].id \in Ids
<1>1. req[c].id \in Nat /\ used \in Nat /\ MaxDatasets \in Nat
  BY DatasetsAssumption DEF IInv, TypeOK, Req
<1>2. req[c].id <= used /\ req[c].id >= 1 /\ used <= MaxDatasets
  BY DEF IInv, Allotted, InUse, HoldsLog, At
<1>3. QED BY <1>1, <1>2 DEF Ids

\* Recording a run in the branch of a log that is there keeps the invariant.
LEMMA TransformRunKeeps ==
  ASSUME IInv, NEW c \in Clients, NEW id \in Ids, Present(mem, id),
         NEW then \in {"idle", "failed"}, TransformRun(c, id, then)
  PROVE  IInv'
<1>1. /\ Write(c, AppendBranch(mem, id, Run(runs + 1)), then, id, req[c].name, NoEvent)
      /\ runs' = runs + 1 /\ bus' = NoEvent /\ used' = used /\ paths' = paths
  BY DEF TransformRun
<1>2. /\ used \in Nat /\ paths \in Nat /\ runs \in Nat
      /\ then \in PCs \ {"put"} /\ then # "new"
  BY DEF IInv, TypeOK, PCs
<1>3. req[c].name \in Names \union {NoName}
  BY DEF IInv, TypeOK, Req
<1>4. Run(runs + 1) \in Op
  BY <1>2, OpTypes
<1>5. paths' \in Nat /\ runs' \in Nat /\ bus' \in Event /\ NoEvent \in Event
  BY <1>1, <1>2, EventTypes
<1>6. Grown(AppendBranch(mem, id, Run(runs + 1)))
  BY <1>4, AppendLonger
<1>7. id \in Nat /\ id <= used
  BY PresentInUse
<1>8. QED BY <1>1, <1>2, <1>3, <1>5, <1>6, <1>7, GentleWrite

\* Recording a commit, and the run before it, keeps the invariant.
LEMMA VersionSaveKeeps ==
  ASSUME IInv, NEW c \in Clients, NEW id \in Ids, Present(mem, id),
         NEW withRun \in BOOLEAN, VersionSave(c, id, withRun)
  PROVE  IInv'
<1> DEFINE run == IF withRun THEN runs + 1 ELSE 0
           ran == IF withRun THEN AppendBranch(mem, id, Run(run)) ELSE mem
           j   == AppendBranch(ran, id, Commit(paths + 1, run))
           e   == Change(id, Len(j[id].branch) - 1, paths + 1)
<1>1. /\ Write(c, j, "idle", id, NoName, e)
      /\ paths' = paths + 1 /\ runs' = (IF withRun THEN run ELSE runs)
      /\ bus' = NoEvent /\ used' = used
  BY DEF VersionSave
<1>2. /\ used \in Nat /\ paths \in Nat /\ runs \in Nat /\ mem \in Journal
      /\ "idle" \in PCs \ {"put"}
  BY DEF IInv, TypeOK, PCs
<1>3. run \in Nat /\ runs' \in Nat /\ paths' \in Nat
  BY <1>1, <1>2
<1>4. Grown(ran)
  <2>1. CASE withRun
    BY <1>3, <2>1, OpTypes, AppendLonger
  <2>2. CASE ~withRun
    <3>1. \A k \in Ids : Len(mem[k].branch) \in Nat
      BY <1>2, LogParts
    <3>2. QED BY <1>2, <2>2, <3>1 DEF Grown
  <2>3. QED BY <2>1, <2>2
<1>5. Present(ran, id) /\ ran[id].branch \in Seq(Op) /\ Len(ran[id].branch) >= 1
  <2>1. Present(ran, id)
    <3>1. CASE withRun
      <4>1. ran[id].ops = mem[id].ops
        BY <1>2, <1>3, <3>1, OpTypes, AppendBranchFacts
      <4>2. QED BY <4>1 DEF Present
    <3>2. CASE ~withRun
      BY <3>2
    <3>3. QED BY <3>1, <3>2
  <2>2. Len(mem[id].branch) >= 1 /\ mem[id].branch \in Seq(Op)
    BY <1>2, LogParts, InFlightFinite DEF IInv, InitKept
  <2>3. ran[id].branch \in Seq(Op)
    BY <1>4, LogParts DEF Grown
  <2>4. Len(ran[id].branch) >= Len(mem[id].branch)
    BY <1>4, <2>1 DEF Grown
  <2>5. QED BY <2>1, <2>2, <2>3, <2>4
<1>6. Commit(paths + 1, run) \in Op
  BY <1>2, <1>3, OpTypes
<1> HIDE DEF run, ran
<1>7. /\ j \in Journal
      /\ \A k \in Ids : j[k].ops = ran[k].ops
      /\ \A k \in Ids \ {id} : j[k].branch = ran[k].branch
      /\ j[id].branch = Append(ran[id].branch, Commit(paths + 1, run))
  BY <1>4, <1>6, AppendBranchFacts DEF Grown
<1>8. /\ Len(Append(ran[id].branch, Commit(paths + 1, run))) = Len(ran[id].branch) + 1
      /\ Append(ran[id].branch, Commit(paths + 1, run))[1] = ran[id].branch[1]
  BY <1>5, <1>6, SeqAppend
<1> HIDE DEF j
<1>9. ASSUME NEW k \in Ids, Present(j, k)
      PROVE  /\ Present(mem, k)
             /\ Len(j[k].branch) >= Len(mem[k].branch)
             /\ j[k].branch[1] = mem[k].branch[1]
  <2>1. Present(ran, k)
    BY <1>7, <1>9 DEF Present
  <2>2. Len(ran[k].branch) \in Nat /\ Len(mem[k].branch) \in Nat
    BY <1>2, <1>4, LogParts DEF Grown
  <2>3. /\ Present(mem, k)
        /\ Len(ran[k].branch) >= Len(mem[k].branch)
        /\ ran[k].branch[1] = mem[k].branch[1]
    BY <1>4, <2>1 DEF Grown
  <2>4. /\ Len(j[k].branch) >= Len(ran[k].branch)
        /\ j[k].branch[1] = ran[k].branch[1]
    <3>1. CASE k = id
      BY <1>7, <1>8, <2>2, <3>1
    <3>2. CASE k # id
      BY <1>7, <2>2, <3>2
    <3>3. QED BY <3>1, <3>2
  <2>5. QED BY <2>2, <2>3, <2>4
<1>10. e \in Event
  <2>1. Len(j[id].branch) - 1 \in Int /\ id \in Nat /\ paths + 1 \in Nat
    BY <1>2, <1>7, LogParts, PresentInUse
  <2>2. QED BY <2>1, EventTypes
<1> HIDE DEF e
<1>11. Grown(j)
  BY <1>7, <1>9 DEF Grown
<1>12. bus' \in Event /\ id \in Nat /\ id <= used
  BY <1>1, EventTypes, PresentInUse
<1>13. QED BY <1>1, <1>2, <1>3, <1>10, <1>11, <1>12, GentleWrite

\* WriteVersionSave keeps the invariant, for an old dataset and a new one.
LEMMA WriteVersionSaveKeeps ==
  ASSUME IInv, NEW c \in Clients, NEW n \in Names, WriteVersionSave(c, n)
  PROVE  IInv'
<1>1. PICK withRun \in BOOLEAN :
        \/ \E id \in HeadRef(mem, n) : VersionSave(c, id, withRun)
        \/ At(c, "new") /\ Present(mem, req[c].id) /\ VersionSave(c, req[c].id, withRun)
  BY DEF WriteVersionSave
<1>2. CASE \E id \in HeadRef(mem, n) : VersionSave(c, id, withRun)
  BY <1>2, HeadRefFacts, VersionSaveKeeps
<1>3. CASE At(c, "new") /\ Present(mem, req[c].id) /\ VersionSave(c, req[c].id, withRun)
  <2>1. req[c].id \in Ids
    BY <1>3, HeldLog
  <2>2. QED BY <1>3, <2>1, VersionSaveKeeps
<1>4. QED BY <1>1, <1>2, <1>3

\* WriteTransformRun keeps the invariant, for an old dataset and a new one.
LEMMA WriteTransformRunKeeps ==
  ASSUME IInv, NEW c \in Clients, NEW n \in Names, WriteTransformRun(c, n)
  PROVE  IInv'
<1>1. CASE \E id \in HeadRef(mem, n) : TransformRun(c, id, "idle")
  BY <1>1, HeadRefFacts, TransformRunKeeps
<1>2. CASE At(c, "new") /\ Present(mem, req[c].id) /\ TransformRun(c, req[c].id, "failed")
  <2>1. req[c].id \in Ids
    BY <1>2, HeldLog
  <2>2. QED BY <1>2, <2>1, TransformRunKeeps
<1>3. QED BY <1>1, <1>2 DEF WriteTransformRun

\* Recording a delete, of any size, keeps the invariant.
LEMMA VersionDeleteKeeps ==
  ASSUME IInv, NEW c \in Clients, NEW id \in Ids, NEW n \in Names, Present(mem, id),
         NEW k \in Int, NEW then \in {"idle", "drop"}, VersionDelete(c, id, n, k, then)
  PROVE  IInv'
<1>1. /\ Write(c, AppendBranch(mem, id, Delete(k)), then, id, n, NoEvent)
      /\ used' = used /\ paths' = paths /\ runs' = runs
  BY DEF VersionDelete
<1>2. /\ used \in Nat /\ paths \in Nat /\ runs \in Nat
      /\ then \in PCs \ {"put"} /\ then # "new"
  BY DEF IInv, TypeOK, PCs
<1>3. Delete(k) \in Op
  BY OpTypes
<1>4. bus' \in Event
  <2>1. \/ bus' = NoEvent
        \/ \E top \in 1 .. MaxOps, head \in 0 .. MaxVersions :
              bus' = Change(id, top, head)
    BY DEF VersionDelete
  <2>2. id \in Nat
    BY PresentInUse
  <2>3. QED BY <2>1, <2>2, EventTypes, BoundsAssumption
<1>5. Grown(AppendBranch(mem, id, Delete(k)))
  BY <1>3, AppendLonger
<1>6. /\ id \in Nat /\ id <= used /\ NoEvent \in Event
      /\ paths' \in Nat /\ runs' \in Nat
  BY <1>1, <1>2, EventTypes, PresentInUse
<1>7. QED BY <1>1, <1>2, <1>4, <1>5, <1>6, GentleWrite

\* WriteVersionDelete keeps the invariant.
LEMMA WriteVersionDeleteKeeps ==
  ASSUME IInv, NEW c \in Clients, NEW n \in Names, WriteVersionDelete(c, n)
  PROVE  IInv'
<1>1. PICK id \in HeadRef(mem, n) :
        \/ \E k \in 1 .. MaxOps : VersionDelete(c, id, n, k, "idle")
        \/ VersionDelete(c, id, n, -1, "drop")
  BY DEF WriteVersionDelete
<1>2. id \in Ids /\ Present(mem, id)
  BY HeadRefFacts
<1>3. QED BY <1>1, <1>2, BoundsAssumption, VersionDeleteKeeps

\* WriteRemoteDelete keeps the invariant.
LEMMA WriteRemoteDeleteKeeps ==
  ASSUME IInv, NEW c \in Clients, NEW n \in Names, WriteRemoteDelete(c, n)
  PROVE  IInv'
<1>1. PICK id \in HeadRef(mem, n), k \in 0 .. MaxOps :
        Write(c, AppendBranch(mem, id, Unpush(k)), "idle", 0, NoName, NoEvent)
  BY DEF WriteRemoteDelete
<1>2. bus' = NoEvent /\ used' = used /\ paths' = paths /\ runs' = runs
  BY DEF WriteRemoteDelete
<1>3. id \in Ids /\ Present(mem, id) /\ Unpush(k) \in Op
  BY HeadRefFacts, OpTypes, BoundsAssumption
<1>4. used \in Nat /\ paths \in Nat /\ runs \in Nat /\ "idle" \in PCs \ {"put"}
  BY DEF IInv, TypeOK, PCs
<1>5. bus' \in Event /\ NoEvent \in Event
  BY <1>2, EventTypes
<1> DEFINE j == AppendBranch(mem, id, Unpush(k))
<1>6. Grown(j)
  BY <1>3, AppendLonger
<1>7. Write(c, j, "idle", 0, NoName, NoEvent)
  BY <1>1
<1> HIDE DEF j
<1>8. 0 \in Nat /\ 0 <= used /\ paths' \in Nat /\ runs' \in Nat
  BY <1>2, <1>4
<1>9. QED BY <1>2, <1>4, <1>5, <1>6, <1>7, <1>8, GentleWrite

\* A new log begins with its init, and no push is in flight for it: no
\* request speaks of an init ID that is yet to be handed out.
LEMMA WriteDatasetInitKeeps ==
  ASSUME IInv, NEW c \in Clients, NEW n \in Names, WriteDatasetInit(c, n)
  PROVE  IInv'
<1> DEFINE id == used + 1
           j  == NewDataset(mem, id, n)
<1>1. PICK then \in {"new", "idle"} : Write(c, j, then, id, n, NoEvent)
  BY DEF WriteDatasetInit
<1>2. /\ used < MaxDatasets /\ used' = id
      /\ bus' = NameInit(id, n) /\ paths' = paths /\ runs' = runs
  BY DEF WriteDatasetInit
<1>3. used \in Nat /\ paths \in Nat /\ runs \in Nat /\ then \in PCs /\ mem \in Journal
  BY DEF IInv, TypeOK, PCs
<1>4. id \in Ids /\ id \in Nat
  BY <1>2, <1>3, DatasetsAssumption DEF Ids
<1>5. bus' \in Event /\ NoEvent \in Event
  BY <1>2, <1>4, EventTypes
<1>6. /\ j \in Journal
      /\ \A k \in Ids \ {id} : j[k] = mem[k]
      /\ j[id].branch = <<BranchInit>>
  BY <1>3, <1>4, NewDatasetFacts
<1>7. /\ used' \in Nat /\ used <= used' /\ used' <= MaxDatasets /\ id <= used' /\ id >= 1
      /\ paths' \in Nat /\ runs' \in Nat
  BY <1>2, <1>3, DatasetsAssumption
<1>8. InFlight(id) = {}
  <2>1. \A d \in Clients : req[d].id \in Nat /\ req[d].id <= used
    BY DEF IInv, TypeOK, Req, Allotted, InUse
  <2>2. \A d \in Clients : req[d].id # id
    BY <1>3, <2>1
  <2>3. QED BY <2>2 DEF InFlight
<1> HIDE DEF j
<1>9. \A k \in Ids : Present(j, k) => k <= used'
  <2>1. \A k \in Ids \ {id} : Present(j, k) => k <= used
    BY <1>6 DEF Present, IInv, Allotted
  <2>2. \A k \in Ids : k \in Nat
    BY DatasetsAssumption DEF Ids
  <2>3. QED BY <1>2, <1>3, <2>1, <2>2
<1> HIDE DEF id
<1>10. /\ TypeOK' /\ Allotted' /\ Rooted(disk)'
       /\ \A k \in Ids : InFlight(k)' \subseteq
             InFlight(k) \union (IF then = "put" /\ k = id THEN {c} ELSE {})
  BY <1>1, <1>3, <1>4, <1>5, <1>6, <1>7, <1>9, WriteStep
<1>11. \A k \in Ids : InFlight(k)' \subseteq InFlight(k)
  BY <1>10
<1>12. mem' = j
  BY <1>1 DEF Write
<1>13. InitKept'
  <2>1. SUFFICES ASSUME NEW k \in Ids, Present(j, k)
                 PROVE  /\ Len(j[k].branch) >= 1 + Cardinality(InFlight(k)')
                        /\ j[k].branch[1] = BranchInit
    BY <1>12 DEF InitKept, Present
  <2>2. CASE k = id
    <3>1. InFlight(k)' = {}
      BY <1>4, <1>8, <1>11, <2>2
    <3>2. Cardinality(InFlight(k)') = 0
      BY <3>1, FS_EmptySet
    <3>3. j[k].branch = <<BranchInit>>
      BY <1>6, <2>2
    <3>4. QED BY <3>2, <3>3
  <2>3. CASE k # id
    <3>1. j[k] = mem[k] /\ Present(mem, k)
      BY <1>6, <2>1, <2>3 DEF Present
    <3>2. /\ Len(mem[k].branch) >= 1 + Cardinality(InFlight(k))
          /\ mem[k].branch[1] = BranchInit
      BY <3>1 DEF IInv, InitKept
    <3>3. /\ Cardinality(InFlight(k)') \in Nat
          /\ Cardinality(InFlight(k)') <= Cardinality(InFlight(k))
          /\ Cardinality(InFlight(k)) \in Nat
      BY <1>11, InFlightFinite, FS_Subset, FS_CardinalityType
    <3>4. Len(mem[k].branch) \in Nat
      BY <1>3, LogParts
    <3>5. QED BY <3>1, <3>2, <3>3, <3>4
  <2>4. QED BY <2>2, <2>3
<1>14. QED BY <1>10, <1>13 DEF IInv

\* A push that is recorded adds one operation, and one rollback that may come.
LEMMA WriteRemotePushKeeps ==
  ASSUME IInv, NEW c \in Clients, NEW n \in Names, WriteRemotePush(c, n)
  PROVE  IInv'
<1>1. PICK id \in HeadRef(mem, n) :
        Write(c, AppendBranch(mem, id, Push(1)), "put", id, NoName, NoEvent)
  BY DEF WriteRemotePush
<1>2. bus' = NoEvent /\ used' = used /\ paths' = paths /\ runs' = runs
  BY DEF WriteRemotePush
<1>3. /\ used \in Nat /\ used <= MaxDatasets /\ paths \in Nat /\ runs \in Nat
      /\ "put" \in PCs /\ mem \in Journal
  BY DEF IInv, TypeOK, Allotted, PCs
<1>4. id \in Ids /\ Present(mem, id) /\ Push(1) \in Op
  BY HeadRefFacts, OpTypes
<1>5. id \in Nat /\ id >= 1 /\ id <= used
  BY <1>4, PresentInUse
<1>6. bus' \in Event /\ NoEvent \in Event
  BY <1>2, EventTypes
<1> DEFINE j == AppendBranch(mem, id, Push(1))
<1>7. /\ j \in Journal
      /\ \A k \in Ids : j[k].ops = mem[k].ops
      /\ \A k \in Ids \ {id} : j[k].branch = mem[k].branch
      /\ j[id].branch = Append(mem[id].branch, Push(1))
  BY <1>3, <1>4, AppendBranchFacts
<1>8. Write(c, j, "put", id, NoName, NoEvent)
  BY <1>1
<1> HIDE DEF j
<1>9. \A k \in Ids : Present(j, k) => Present(mem, k) /\ k <= used'
  BY <1>2, <1>7 DEF Present, IInv, Allotted
<1>10. /\ TypeOK' /\ Allotted' /\ Rooted(disk)'
       /\ \A k \in Ids : InFlight(k)' \subseteq
             InFlight(k) \union (IF k = id THEN {c} ELSE {})
  <2>1. /\ used' \in Nat /\ used <= used' /\ used' <= MaxDatasets /\ id <= used'
        /\ paths' \in Nat /\ runs' \in Nat
    BY <1>2, <1>3, <1>5
  <2>2. PICK then \in PCs : then = "put"
    BY <1>3
  <2>3. Write(c, j, then, id, NoName, NoEvent)
    BY <1>8, <2>2
  <2>4. /\ TypeOK' /\ Allotted' /\ Rooted(disk)'
        /\ \A k \in Ids : InFlight(k)' \subseteq
              InFlight(k) \union (IF then = "put" /\ k = id THEN {c} ELSE {})
    <3>1. \A k \in Ids : Present(j, k) => k <= used'
      BY <1>9
    <3>2. j \in Journal /\ NoName \in Names \union {NoName} /\ id >= 1 /\ id \in Nat
      BY <1>5, <1>7
    <3>3. QED BY <1>6, <2>1, <2>3, <3>1, <3>2, WriteStep
  <2>5. QED BY <2>2, <2>4
<1>11. mem' = j
  BY <1>8 DEF Write
<1>12. InitKept'
  <2>1. SUFFICES ASSUME NEW k \in Ids, Present(j, k)
                 PROVE  /\ Len(j[k].branch) >= 1 + Cardinality(InFlight(k)')
                        /\ j[k].branch[1] = BranchInit
    BY <1>11 DEF InitKept, Present
  <2>2. /\ Len(mem[k].branch) >= 1 + Cardinality(InFlight(k))
        /\ mem[k].branch[1] = BranchInit
        /\ mem[k].branch \in Seq(Op)
        /\ IsFiniteSet(InFlight(k)) /\ Cardinality(InFlight(k)) \in Nat
    BY <1>3, <1>9, <2>1, LogParts, InFlightFinite DEF IInv, InitKept
  <2>3. CASE k = id
    <3>1. /\ Len(j[k].branch) = Len(mem[k].branch) + 1
          /\ j[k].branch[1] = mem[k].branch[1]
      <4>1. j[k].branch = Append(mem[k].branch, Push(1))
        BY <1>7, <2>3
      <4>2. Len(mem[k].branch) \in Nat /\ Len(mem[k].branch) >= 1
        BY <2>2
      <4>3. QED BY <1>4, <2>2, <4>1, <4>2, SeqAppend
    <3>2. InFlight(k)' \subseteq InFlight(k) \union {c}
      BY <1>10, <2>3
    <3>3. /\ IsFiniteSet(InFlight(k) \union {c})
          /\ Cardinality(InFlight(k) \union {c}) <= Cardinality(InFlight(k)) + 1
          /\ Cardinality(InFlight(k) \union {c}) \in Nat
      <4>1. /\ IsFiniteSet(InFlight(k) \union {c})
            /\ Cardinality(InFlight(k) \union {c}) =
                 IF c \in InFlight(k) THEN Cardinality(InFlight(k))
                 ELSE Cardinality(InFlight(k)) + 1
        BY <2>2, FS_AddElement
      <4>2. QED BY <2>2, <4>1
    <3>4. /\ Cardinality(InFlight(k)') <= Cardinality(InFlight(k) \union {c})
          /\ Cardinality(InFlight(k)') \in Nat
      BY <3>2, <3>3, FS_Subset, FS_CardinalityType
    <3>5. Len(mem[k].branch) \in Nat
      BY <2>2
    <3>6. Len(j[k].branch) >= 1 + Cardinality(InFlight(k)')
      BY <2>2, <3>1, <3>3, <3>4, <3>5
    <3>7. QED BY <2>2, <3>1, <3>6
  <2>4. CASE k # id
    <3>1. j[k].branch = mem[k].branch
      BY <1>7, <2>4
    <3>2. InFlight(k)' \subseteq InFlight(k)
      BY <1>10, <2>4
    <3>3. /\ Cardinality(InFlight(k)') <= Cardinality(InFlight(k))
          /\ Cardinality(InFlight(k)') \in Nat
      BY <2>2, <3>2, FS_Subset, FS_CardinalityType
    <3>4. QED BY <2>2, <3>1, <3>3
  <2>5. QED BY <2>3, <2>4
<1>13. QED BY <1>10, <1>12 DEF IInv

\* A rollback takes one operation off, and is one rollback less to come.
LEMMA PushRefusedKeeps ==
  ASSUME IInv, NEW c \in Clients, PushRefused(c)
  PROVE  IInv'
<1>1. At(c, "put") /\ bus' = NoEvent /\ used' = used /\ paths' = paths /\ runs' = runs
  BY DEF PushRefused
<1>2. CASE ~Present(mem, req[c].id) /\ req' = [req EXCEPT ![c] = Idle] /\ UNCHANGED book
  BY <1>1, <1>2, RestKeeps DEF book
<1>3. CASE Present(mem, req[c].id)
           /\ Write(c, DropLast(mem, req[c].id), "idle", 0, NoName, NoEvent)
  <2> DEFINE id == req[c].id
             j  == DropLast(mem, id)
  <2>1. /\ used \in Nat /\ used <= MaxDatasets /\ paths \in Nat /\ runs \in Nat
        /\ "idle" \in PCs /\ mem \in Journal
    BY DEF IInv, TypeOK, Allotted, PCs
  <2>2. id \in Ids /\ c \in InFlight(id)
    BY <1>1, HeldLog DEF InFlight
  <2>3. /\ Len(mem[id].branch) >= 1 + Cardinality(InFlight(id))
        /\ Len(mem[id].branch) \in Nat
        /\ IsFiniteSet(InFlight(id)) /\ Cardinality(InFlight(id)) \in Nat
    BY <1>3, <2>1, <2>2, LogParts, InFlightFinite DEF IInv, InitKept
  <2>4. /\ IsFiniteSet(InFlight(id) \ {c})
        /\ Cardinality(InFlight(id) \ {c}) = Cardinality(InFlight(id)) - 1
        /\ Cardinality(InFlight(id) \ {c}) \in Nat
    BY <2>2, <2>3, FS_RemoveElement, FS_CardinalityType
  <2>5. Len(mem[id].branch) >= 2
    BY <2>3, <2>4
  <2>6. /\ j \in Journal
        /\ \A k \in Ids : j[k].ops = mem[k].ops
        /\ \A k \in Ids \ {id} : j[k].branch = mem[k].branch
        /\ Len(j[id].branch) = Len(mem[id].branch) - 1
        /\ j[id].branch[1] = mem[id].branch[1]
    BY <2>1, <2>2, <2>5, DropLastFacts
  <2>7. Write(c, j, "idle", 0, NoName, NoEvent)
    BY <1>3
  <2> HIDE DEF j
  <2>8. \A k \in Ids : Present(j, k) => Present(mem, k) /\ k <= used'
    BY <1>1, <2>6 DEF Present, IInv, Allotted
  <2>9. /\ TypeOK' /\ Allotted' /\ Rooted(disk)'
        /\ \A k \in Ids : InFlight(k)' \subseteq InFlight(k)
    <3>1. /\ used' \in Nat /\ used <= used' /\ used' <= MaxDatasets
          /\ 0 \in Nat /\ 0 <= used' /\ paths' \in Nat /\ runs' \in Nat
      BY <1>1, <2>1
    <3>2. bus' \in Event /\ NoEvent \in Event
      BY <1>1, EventTypes
    <3>3. PICK then \in PCs : then = "idle"
      BY <2>1
    <3>4. Write(c, j, then, 0, NoName, NoEvent)
      BY <2>7, <3>3
    <3>5. /\ TypeOK' /\ Allotted' /\ Rooted(disk)'
          /\ \A k \in Ids : InFlight(k)' \subseteq
                InFlight(k) \union (IF then = "put" /\ k = 0 THEN {c} ELSE {})
      <4>1. \A k \in Ids : Present(j, k) => k <= used'
        BY <2>8
      <4>2. j \in Journal /\ NoName \in Names \union {NoName}
        BY <2>6
      <4>3. then \notin {"put", "new"}
        BY <3>3
      <4>4. QED BY <3>1, <3>2, <3>4, <4>1, <4>2, <4>3, WriteStep
    <3>6. QED BY <3>3, <3>5
  <2>10. mem' = j
    BY <2>7 DEF Write
  <2>11. \A k \in Ids : c \notin InFlight(k)'
    <3>1. req'[c].pc = "save" /\ req'[c].then = "idle"
      BY <2>7 DEF Write, IInv, TypeOK
    <3>2. QED BY <3>1 DEF InFlight, At
  <2>12. InitKept'
    <3>1. SUFFICES ASSUME NEW k \in Ids, Present(j, k)
                   PROVE  /\ Len(j[k].branch) >= 1 + Cardinality(InFlight(k)')
                          /\ j[k].branch[1] = BranchInit
      BY <2>10 DEF InitKept, Present
    <3>2. /\ Len(mem[k].branch) >= 1 + Cardinality(InFlight(k))
          /\ mem[k].branch[1] = BranchInit
          /\ Len(mem[k].branch) \in Nat
          /\ IsFiniteSet(InFlight(k)) /\ Cardinality(InFlight(k)) \in Nat
      BY <2>1, <2>8, <3>1, LogParts, InFlightFinite DEF IInv, InitKept
    <3>3. CASE k = id
      <4>1. InFlight(k)' \subseteq InFlight(id) \ {c}
        BY <2>9, <2>11, <3>3
      <4>2. /\ Cardinality(InFlight(k)') <= Cardinality(InFlight(id) \ {c})
            /\ Cardinality(InFlight(k)') \in Nat
        BY <2>4, <4>1, FS_Subset, FS_CardinalityType
      <4>3. /\ Len(j[k].branch) = Len(mem[k].branch) - 1
            /\ j[k].branch[1] = mem[k].branch[1]
            /\ Cardinality(InFlight(id)) = Cardinality(InFlight(k))
        BY <2>6, <3>3
      <4>4. QED BY <2>4, <3>2, <4>2, <4>3
    <3>4. CASE k # id
      <4>1. /\ Cardinality(InFlight(k)') <= Cardinality(InFlight(k))
            /\ Cardinality(InFlight(k)') \in Nat
        BY <2>9, <3>2, FS_Subset, FS_CardinalityType
      <4>2. j[k].branch = mem[k].branch
        BY <2>6, <3>4
      <4>3. QED BY <3>2, <4>1, <4>2
    <3>5. QED BY <3>3, <3>4
  <2>13. QED BY <2>9, <2>12 DEF IInv
<1>4. QED BY <1>2, <1>3 DEF PushRefused

\* A restart forgets the pushes under way and goes back to the file's logs.
LEMMA RestartKeeps ==
  ASSUME IInv, Restart
  PROVE  IInv'
<1>1. /\ mem' = disk /\ disk' = disk /\ located' = TRUE /\ bus' = NoEvent
      /\ req' = [c \in Clients |-> Idle]
      /\ used' = used /\ paths' = paths /\ runs' = runs
  BY DEF Restart
<1>2. TypeOK'
  BY <1>1, EventTypes, IdleType DEF IInv, TypeOK
<1>3. \A c \in Clients : req'[c] = Idle
  BY <1>1
<1>4. Allotted'
  <2>1. \A c \in Clients : InUse(req'[c], used')
    BY <1>1, <1>3 DEF InUse, HoldsLog, Idle, IInv, TypeOK
  <2>2. QED BY <1>1, <2>1 DEF IInv, Allotted, Present
<1>5. Rooted(disk)'
  BY <1>1 DEF IInv, Rooted, Present
<1>6. InitKept'
  <2>1. SUFFICES ASSUME NEW k \in Ids, Present(disk, k)
                 PROVE  /\ Len(disk[k].branch) >= 1 + Cardinality(InFlight(k)')
                        /\ disk[k].branch[1] = BranchInit
    BY <1>1 DEF InitKept, Present
  <2>2. Cardinality(InFlight(k)') = 0
    <3>1. InFlight(k)' = {}
      BY <1>3 DEF InFlight, At, Idle
    <3>2. QED BY <3>1, FS_EmptySet
  <2>3. disk[k].branch # <<>> /\ disk[k].branch[1] = BranchInit
    BY <2>1 DEF IInv, Rooted
  <2>4. disk[k].branch \in Seq(Op)
    BY LogParts DEF IInv, TypeOK
  <2>5. QED BY <2>2, <2>3, <2>4
<1>7. QED BY <1>2, <1>4, <1>5, <1>6 DEF IInv

-----------------------------------------------------------------------------
\* Every step, and every stuttering step, keeps the invariant.
LEMMA NextIInv == IInv /\ [Next]_vars => IInv'
<1> SUFFICES ASSUME IInv, [Next]_vars PROVE IInv'
  OBVIOUS
<1>1. CASE Restart
  BY <1>1, RestartKeeps
<1>2. ASSUME NEW c \in Clients, ClientStep(c) PROVE IInv'
  <2>1. CASE Save(c)
    BY <2>1, SaveKeeps
  <2>2. CASE CleanupNew(c)
    BY <2>2, CleanupNewKeeps
  <2>3. CASE DropNothing(c)
    BY <2>3, RestKeeps DEF DropNothing
  <2>4. CASE PushAccepted(c)
    BY <2>4, RestKeeps DEF PushAccepted
  <2>5. CASE PushRefused(c)
    BY <2>5, PushRefusedKeeps
  <2>6. ASSUME NEW n \in Names, NameStep(c, n) PROVE IInv'
    BY <2>6, RemoveStrayKeeps, WriteDatasetInitKeeps, WriteDatasetDeleteKeeps,
       WriteVersionSaveKeeps, WriteTransformRunKeeps, WriteVersionDeleteKeeps,
       WriteRemotePushKeeps, WriteRemoteDeleteKeeps, WriteDatasetRenameKeeps
       DEF NameStep
  <2>7. QED BY <1>2, <2>1, <2>2, <2>3, <2>4, <2>5, <2>6 DEF ClientStep
<1>3. CASE UNCHANGED vars
  BY <1>3 DEF vars, IInv, TypeOK, Allotted, Rooted, InitKept, InFlight, At, Present
<1>4. QED BY <1>1, <1>2, <1>3 DEF Next

\* The invariant holds of every reachable state of the logbook.
THEOREM Inductive == Spec => []IInv
BY InitIInv, NextIInv, PTL DEF Spec

\* Type correctness of the journal, the file, the requests and the events.
THEOREM TypeCorrect == Spec => []TypeOK
<1>1. IInv => TypeOK
  BY DEF IInv
<1>2. QED BY <1>1, Inductive, PTL

\* A branch log keeps the operation that gave it its identity: for any number
\* of concurrent pushes, of rollbacks in any order, of faults of the
\* filesystem and of restarts, WriteRemotePush's rollback never takes it off.
THEOREM InitIsKept == Spec => []InitKept
<1>1. IInv => InitKept
  BY DEF IInv
<1>2. QED BY <1>1, Inductive, PTL

-----------------------------------------------------------------------------
(***************************************************************************)
(* Durability.  Where Put does not fail, the file is always where the Book *)
(* thinks it is, and a journal that differs from it is about to be saved.  *)
(***************************************************************************)
Durable == located = TRUE /\ QuiescentDurable

\* No step leaves the file behind memory once no request is about to save.
LEMMA NextDurable ==
  ASSUME FsFaults = FALSE
  PROVE  IInv /\ Durable /\ [Next]_vars => Durable'
<1> SUFFICES ASSUME IInv, Durable, [Next]_vars PROVE Durable'
  OBVIOUS
<1>0. req \in [Clients -> Req]
  BY DEF IInv, TypeOK
<1>1. ASSUME NEW c \in Clients, NEW j, NEW then, NEW id, NEW n, NEW e,
             Write(c, j, then, id, n, e)
      PROVE  Durable'
  <2>1. req'[c].pc = "save" /\ located' = located
    BY <1>0, <1>1 DEF Write
  <2>2. QED BY <2>1 DEF Durable, QuiescentDurable, At
<1>2. ASSUME NEW c \in Clients, ~At(c, "save"), req' = [req EXCEPT ![c] = Idle],
             UNCHANGED <<mem, disk, located>>
      PROVE  Durable'
  <2>1. \A d \in Clients : At(d, "save") => At(d, "save")'
    BY <1>0, <1>2 DEF At
  <2>2. QED BY <1>2, <2>1 DEF Durable, QuiescentDurable
<1>3. ASSUME NEW c \in Clients, Save(c) PROVE Durable'
  <2>1. disk' = mem /\ mem' = mem /\ located' = located
    BY <1>3 DEF Save, FsPut, Durable
  <2>2. QED BY <2>1 DEF Durable, QuiescentDurable
<1>4. CASE Restart
  BY <1>4 DEF Restart, Durable, QuiescentDurable
<1>5. CASE UNCHANGED vars
  BY <1>5 DEF vars, Durable, QuiescentDurable, At
<1>6. ASSUME NEW c \in Clients, ClientStep(c) PROVE Durable'
  <2>1. CASE Save(c)
    BY <1>3, <2>1
  <2>2. CASE CleanupNew(c)
    BY <1>1, <2>2 DEF CleanupNew
  <2>3. CASE DropNothing(c)
    BY <1>2, <2>3 DEF DropNothing, At
  <2>4. CASE PushAccepted(c)
    BY <1>2, <2>4 DEF PushAccepted, At
  <2>5. CASE PushRefused(c)
    BY <1>1, <1>2, <2>5 DEF PushRefused, At, book
  <2>6. ASSUME NEW n \in Names, NameStep(c, n) PROVE Durable'
    <3>1. CASE RemoveStray(c, n)
      BY <1>1, <3>1 DEF RemoveStray
    <3>2. CASE WriteDatasetInit(c, n)
      BY <1>1, <3>2 DEF WriteDatasetInit
    <3>3. CASE WriteDatasetDelete(c, n)
      BY <1>1, <3>3 DEF WriteDatasetDelete
    <3>4. CASE WriteVersionSave(c, n)
      BY <1>1, <3>4 DEF WriteVersionSave, VersionSave
    <3>5. CASE WriteTransformRun(c, n)
      BY <1>1, <3>5 DEF WriteTransformRun, TransformRun
    <3>6. CASE WriteVersionDelete(c, n)
      BY <1>1, <3>6 DEF WriteVersionDelete, VersionDelete
    <3>7. CASE WriteRemotePush(c, n)
      BY <1>1, <3>7 DEF WriteRemotePush
    <3>8. CASE WriteRemoteDelete(c, n)
      BY <1>1, <3>8 DEF WriteRemoteDelete
    <3>9. CASE \E m \in Names : WriteDatasetRename(c, n, m)
      BY <1>1, <3>9 DEF WriteDatasetRename
    <3>10. QED BY <2>6, <3>1, <3>2, <3>3, <3>4, <3>5, <3>6, <3>7, <3>8, <3>9 DEF NameStep
  <2>7. QED BY <1>6, <2>1, <2>2, <2>3, <2>4, <2>5, <2>6 DEF ClientStep
<1>7. QED BY <1>4, <1>5, <1>6 DEF Next

\* Where the filesystem refuses no Put, whatever a caller was told is done is
\* in the file: the durability Book.save owes each of its callers, with any
\* number of requests interleaved and the process ending at any point.
THEOREM DurableWithoutFaults ==
  ASSUME FsFaults = FALSE
  PROVE  Spec => []QuiescentDurable
<1>1. Init => Durable
  BY DEF Init, Durable, QuiescentDurable
<1>2. IInv /\ Durable /\ [Next]_vars => Durable'
  BY NextDurable
<1>3. Durable => QuiescentDurable
  BY DEF Durable
<1>4. QED BY <1>1, <1>2, <1>3, Inductive, PTL DEF Spec
-----------------------------------------------------------------------------
(***************************************************************************)
(* Reading a branch log back.  The three readers are folds; what a fold    *)
(* holds after i operations is a recursive function of i, and a fact about *)
(* it is proved for every i by looking at the least i that breaks it.      *)
(***************************************************************************)

\* A set of naturals that is not empty has a least element.
LEMMA LeastOne ==
  ASSUME NEW S \in SUBSET Nat, S # {}
  PROVE  \E k \in S : \A j \in Nat : j < k => j \notin S
<1>1. IsWellFoundedOn({ss \in Nat \X Nat : ss[1] < ss[2]}, Nat)
  BY NatLessThanWellFounded DEF OpToRel
<1>2. PICK k \in S : \A y \in S : ~(<<y, k>> \in {ss \in Nat \X Nat : ss[1] < ss[2]})
  BY <1>1, WFMin
<1> QED BY <1>2

\* f holds what the fold of F over s from a holds after each of its first k
\* steps.
Solves(f, F, a, s, k) ==
  f[0] = a /\ \A i \in 1 .. k : f[i] = F[<<f[i - 1], s[i]>>]

\* The recursion of a fold has a solution.
LEMMA RecursionSolved ==
  ASSUME NEW St, NEW Os, NEW F \in [St \X Os -> St], NEW a \in St, NEW s \in Seq(Os)
  PROVE  \E f \in [0 .. Len(s) -> St] : Solves(f, F, a, s, Len(s))
<1> DEFINE Bad == {j \in 0 .. Len(s) : ~\E f \in [0 .. j -> St] : Solves(f, F, a, s, j)}
<1> SUFFICES ASSUME Bad # {} PROVE FALSE
  OBVIOUS
<1>2. PICK j \in Bad : \A i \in Nat : i < j => i \notin Bad
  <2>1. Bad \in SUBSET Nat
    OBVIOUS
  <2> HIDE DEF Bad
  <2> QED BY <2>1, LeastOne
<1>3. j # 0
  <2> DEFINE z == [i \in 0 .. 0 |-> a]
  <2>1. z \in [0 .. 0 -> St] /\ Solves(z, F, a, s, 0)
    BY DEF Solves
  <2> QED BY <2>1, <1>2
<1>4. j - 1 \in 0 .. Len(s) /\ j - 1 \notin Bad /\ j \in 1 .. Len(s)
  BY <1>2, <1>3
<1>5. PICK f \in [0 .. (j - 1) -> St] : Solves(f, F, a, s, j - 1)
  BY <1>4
<1> DEFINE v == F[<<f[j - 1], s[j]>>]
           g == [i \in 0 .. j |-> IF i = j THEN v ELSE f[i]]
<1>6. v \in St
  <2>1. s[j] \in Os /\ f[j - 1] \in St
    BY <1>4, <1>5
  <2> QED BY <2>1
<1>7. g \in [0 .. j -> St] /\ Solves(g, F, a, s, j)
  <2>1. g \in [0 .. j -> St]
    <3>1. \A i \in 0 .. j : i # j => f[i] \in St
      BY <1>4, <1>5
    <3> HIDE DEF v
    <3> QED BY <3>1, <1>6
  <2>2. g[0] = a
    BY <1>4, <1>5, <1>3 DEF Solves
  <2>3. ASSUME NEW i \in 1 .. j PROVE g[i] = F[<<g[i - 1], s[i]>>]
    <3>1. CASE i = j
      <4>1. g[j] = v /\ g[j - 1] = f[j - 1]
        BY <1>4
      <4> QED BY <3>1, <4>1
    <3>2. CASE i # j
      <4>1. i \in 1 .. (j - 1)
        BY <3>2, <1>4
      <4>2. f[i] = F[<<f[i - 1], s[i]>>]
        BY <4>1, <1>5 DEF Solves
      <4>3. g[i] = f[i] /\ g[i - 1] = f[i - 1]
        BY <4>1, <1>4
      <4> QED BY <4>2, <4>3
    <3> QED BY <3>1, <3>2
  <2> HIDE DEF g
  <2> QED BY <2>1, <2>2, <2>3 DEF Solves
<1> QED BY <1>7, <1>2

\* The operations the Book writes: none amends a commit, every run has its ID,
\* and only a run or a saved commit names one.
Recorded == {op \in Op :
  /\ op.type # "amend"
  /\ op.model = "run" => op.run # 0
  /\ op.model \notin {"run", "commit"} => op.run = 0
  /\ IsCommit(op, "remove") => op.run = 0}

\* What branchToVersionInfos and addReferencedPaths hold along a log.
Listing == [items : Seq(Item), tail : Nat, ok : BOOLEAN]
PathsInUse == [paths : Seq(Nat), ok : BOOLEAN]

\* What an operation the Book writes is made of.
LEMMA OpKinds ==
  ASSUME NEW op \in Recorded
  PROVE  /\ op.model \in {"branch", "commit", "push", "run"} /\ op.type \in {"init", "remove"}
         /\ op.ref \in Nat /\ op.run \in Nat /\ op.size \in Int
         /\ op.model = "run" => op.run # 0
         /\ op.model \notin {"run", "commit"} => op.run = 0
         /\ IsCommit(op, "remove") => op.run = 0
         /\ op \in Op
BY DEF Recorded, Op

\* A new item has the path and the run it is made of.
LEMMA ItemTyped == \A p \in Nat, r \in Nat : /\ ItemOf(p, r) \in Item
                                             /\ ItemOf(p, r).path = p /\ ItemOf(p, r).run = r
BY DEF ItemOf, Item

\* Taking n off the end leaves the beginning.
LEMMA DropTopTyped ==
  ASSUME NEW S, NEW s \in Seq(S), NEW n \in Int
  PROVE  /\ DropTop(s, n) \in Seq(S)
         /\ n \in 0 .. Len(s) => /\ Len(DropTop(s, n)) = Len(s) - n
                                 /\ \A i \in 1 .. (Len(s) - n) : DropTop(s, n)[i] = s[i]
<1>1. CASE n \in 0 .. Len(s)
  <2> DEFINE k == Len(s) - n
  <2>1. k \in 0 .. Len(s)
    BY <1>1
  <2> HIDE DEF k
  <2>2. /\ SubSeq(s, 1, k) \in Seq(S) /\ Len(SubSeq(s, 1, k)) = k
        /\ \A i \in 1 .. k : SubSeq(s, 1, k)[i] = s[i]
    BY <2>1
  <2>3. DropTop(s, n) = SubSeq(s, 1, k)
    BY <1>1 DEF DropTop, Upto, k
  <2> QED BY <2>2, <2>3 DEF k
<1>2. CASE n \notin 0 .. Len(s)
  BY <1>2 DEF DropTop
<1> QED BY <1>1, <1>2

\* Marking items published or not leaves their paths and runs.
LEMMA MarkFacts ==
  ASSUME NEW s \in Seq(Item), NEW n \in Int, NEW b \in BOOLEAN
  PROVE  /\ Mark(s, n, b) \in Seq(Item) /\ Len(Mark(s, n, b)) = Len(s)
         /\ \A i \in 1 .. Len(s) : Mark(s, n, b)[i].path = s[i].path /\ Mark(s, n, b)[i].run = s[i].run
<1>1. \A i \in 1 .. Len(s) : s[i] \in Item
  OBVIOUS
<1>2. \A x \in Item : /\ [x EXCEPT !.published = b] \in Item
                      /\ [x EXCEPT !.published = b].path = x.path
                      /\ [x EXCEPT !.published = b].run = x.run
  BY DEF Item
<1>3. DOMAIN s = 1 .. Len(s) /\ Len(s) \in Nat
  OBVIOUS
<1>4. \A i \in 1 .. Len(s) : Mark(s, n, b)[i] \in Item /\ Mark(s, n, b)[i].path = s[i].path /\ Mark(s, n, b)[i].run = s[i].run
  BY <1>1, <1>2, <1>3 DEF Mark
<1>5. Mark(s, n, b) = [i \in 1 .. Len(s) |-> Mark(s, n, b)[i]]
  BY <1>3 DEF Mark
<1> QED BY <1>3, <1>4, <1>5

\* Overwriting the last element leaves the ones before it.
LEMMA SetLast ==
  ASSUME NEW S, NEW s \in Seq(S), s # <<>>, NEW y \in S
  PROVE  /\ Len(s) \in 1 .. Len(s)
         /\ [s EXCEPT ![Len(s)] = y] \in Seq(S) /\ Len([s EXCEPT ![Len(s)] = y]) = Len(s)
         /\ \A i \in 1 .. (Len(s) - 1) : [s EXCEPT ![Len(s)] = y][i] = s[i]
         /\ [s EXCEPT ![Len(s)] = y][Len(s)] = y
<1>1. Len(s) \in Nat /\ Len(s) # 0
  OBVIOUS
<1>2. Len(s) \in 1 .. Len(s)
  BY <1>1
<1> QED BY <1>1, <1>2, ExceptSeq

\* Appending adds one element at the end.
LEMMA Appended ==
  ASSUME NEW S, NEW s \in Seq(S), NEW y \in S
  PROVE  /\ Append(s, y) \in Seq(S) /\ Len(Append(s, y)) = Len(s) + 1
         /\ \A i \in 1 .. Len(s) : Append(s, y)[i] = s[i]
         /\ Append(s, y)[Len(s) + 1] = y
OBVIOUS

\* What the list of versions becomes with one operation more.
LEMMA ListingStep ==
  ASSUME NEW st \in Listing, st.tail = 0, NEW op \in Recorded
  PROVE  LET x == CollapseOp(st, op, TRUE) IN
         /\ x \in Listing /\ x.tail = 0
         /\ IsCommit(op, "init") => x.ok = st.ok
         /\ IsCommit(op, "init") /\ (op.run = 0 \/ st.items = <<>> \/ st.items[Len(st.items)].run # op.run) =>
              x.items = Append(st.items, ItemOf(op.ref, 0))
         /\ IsCommit(op, "init") /\ op.run # 0 /\ st.items # <<>> /\ st.items[Len(st.items)].run = op.run =>
              /\ Len(x.items) = Len(st.items)
              /\ \A i \in 1 .. (Len(st.items) - 1) : x.items[i] = st.items[i]
              /\ x.items[Len(st.items)].path = op.ref
         /\ IsCommit(op, "remove") => /\ x.items = DropTop(st.items, op.size)
                                      /\ x.ok = (st.ok /\ op.size \in 0 .. Len(st.items))
         /\ op.model = "run" => x.items = Append(st.items, ItemOf(0, op.run)) /\ x.ok = st.ok
         /\ op.model = "push" => /\ x.items = Mark(st.items, op.size, op.type = "init")
                                 /\ x.ok = (st.ok /\ op.size <= Len(st.items))
         /\ op.model = "branch" => x = st
<1> DEFINE x == CollapseOp(st, op, TRUE)
<1>0. st.items \in Seq(Item) /\ st.tail = 0 /\ st.ok \in BOOLEAN
  BY DEF Listing
<1>00. ASSUME NEW its \in Seq(Item), x = [st EXCEPT !.items = its]
       PROVE  x \in Listing /\ x.tail = 0 /\ x.ok = st.ok /\ x.items = its
  BY <1>00 DEF Listing
<1>1. CASE IsCommit(op, "init")
  <2>1. x = CollapseCommit(st, op)
    BY <1>1 DEF CollapseOp, IsCommit
  <2>2. CASE op.run # 0 /\ st.items # <<>> /\ st.items[Len(st.items)].run = op.run
    <3> DEFINE its == [st.items EXCEPT ![Len(st.items)].path = op.ref]
    <3>1. x = [st EXCEPT !.items = its]
      BY <2>1, <2>2 DEF CollapseCommit, Last
    <3>2. /\ its \in Seq(Item) /\ Len(its) = Len(st.items)
          /\ \A i \in 1 .. (Len(st.items) - 1) : its[i] = st.items[i]
          /\ its[Len(st.items)].path = op.ref
      <4> DEFINE y == [st.items[Len(st.items)] EXCEPT !.path = op.ref]
      <4>1. Len(st.items) \in 1 .. Len(st.items) /\ st.items[Len(st.items)] \in Item
        BY <1>0, <2>2, SetLast
      <4>2. y \in Item /\ y.path = op.ref
        BY <4>1, OpKinds DEF Item
      <4>3. its = [st.items EXCEPT ![Len(st.items)] = y]
        OBVIOUS
      <4> HIDE DEF y, its
      <4>4. /\ [st.items EXCEPT ![Len(st.items)] = y] \in Seq(Item)
            /\ Len([st.items EXCEPT ![Len(st.items)] = y]) = Len(st.items)
            /\ \A i \in 1 .. (Len(st.items) - 1) : [st.items EXCEPT ![Len(st.items)] = y][i] = st.items[i]
            /\ [st.items EXCEPT ![Len(st.items)] = y][Len(st.items)] = y
        BY <1>0, <2>2, <4>2, SetLast
      <4> QED BY <4>2, <4>3, <4>4
    <3> HIDE DEF its
    <3>3. x \in Listing /\ x.tail = 0 /\ x.ok = st.ok /\ x.items = its
      BY <1>00, <3>1, <3>2
    <3> HIDE DEF x
    <3> QED BY <1>1, <2>2, <3>2, <3>3 DEF IsCommit, x
  <2>3. CASE ~(op.run # 0 /\ st.items # <<>> /\ st.items[Len(st.items)].run = op.run)
    <3> DEFINE its == Append(st.items, ItemOf(op.ref, 0))
    <3>1. x = [st EXCEPT !.items = its]
      BY <2>1, <2>3 DEF CollapseCommit, Last
    <3>2. its \in Seq(Item)
      <4>1. ItemOf(op.ref, 0) \in Item
        BY ItemTyped, OpKinds
      <4> QED BY <1>0, <4>1, Appended
    <3> HIDE DEF its
    <3>3. x \in Listing /\ x.tail = 0 /\ x.ok = st.ok /\ x.items = its
      BY <1>00, <3>1, <3>2
    <3> QED BY <1>1, <2>3, <3>3 DEF IsCommit, its
  <2> QED BY <2>2, <2>3
<1>2. CASE IsCommit(op, "remove")
  <2> DEFINE its == DropTop(st.items, op.size)
             o == st.ok /\ op.size \in 0 .. Len(st.items)
  <2>1. x = [st EXCEPT !.items = its, !.ok = o]
    BY <1>2 DEF CollapseOp, IsCommit
  <2>2. its \in Seq(Item) /\ o \in BOOLEAN
    BY <1>0, DropTopTyped, OpKinds
  <2> HIDE DEF its, o
  <2>3. x \in Listing /\ x.tail = 0 /\ x.ok = o /\ x.items = its
    <3>1. CASE o = TRUE
      <4>1. x = [st EXCEPT !.items = its, !.ok = TRUE]
        BY <2>1, <3>1
      <4> QED BY <1>0, <2>2, <3>1, <4>1 DEF Listing
    <3>2. CASE o = FALSE
      <4>1. x = [st EXCEPT !.items = its, !.ok = FALSE]
        BY <2>1, <3>2
      <4> QED BY <1>0, <2>2, <3>2, <4>1 DEF Listing
    <3> QED BY <2>2, <3>1, <3>2
  <2> QED BY <1>2, <2>3 DEF IsCommit, its, o
<1>3. CASE op.model = "run"
  <2> DEFINE its == Append(st.items, ItemOf(0, op.run))
  <2>1. x = [st EXCEPT !.items = its]
    BY <1>3 DEF CollapseOp, IsCommit
  <2>2. its \in Seq(Item)
    <3>1. ItemOf(0, op.run) \in Item
      BY ItemTyped, OpKinds
    <3> QED BY <1>0, <3>1, Appended
  <2> HIDE DEF its
  <2>3. x \in Listing /\ x.tail = 0 /\ x.ok = st.ok /\ x.items = its
    BY <1>00, <2>1, <2>2
  <2> QED BY <1>3, <2>3 DEF IsCommit, its
<1>4. CASE op.model = "push"
  <2> DEFINE its == Mark(st.items, op.size, op.type = "init")
             o == st.ok /\ op.size <= Len(st.items)
  <2>1. x = [st EXCEPT !.items = its, !.ok = o]
    BY <1>4 DEF CollapseOp, IsCommit
  <2>2. its \in Seq(Item) /\ o \in BOOLEAN
    BY <1>0, MarkFacts, OpKinds
  <2> HIDE DEF its, o
  <2>3. x \in Listing /\ x.tail = 0 /\ x.ok = o /\ x.items = its
    <3>1. CASE o = TRUE
      <4>1. x = [st EXCEPT !.items = its, !.ok = TRUE]
        BY <2>1, <3>1
      <4> QED BY <1>0, <2>2, <3>1, <4>1 DEF Listing
    <3>2. CASE o = FALSE
      <4>1. x = [st EXCEPT !.items = its, !.ok = FALSE]
        BY <2>1, <3>2
      <4> QED BY <1>0, <2>2, <3>2, <4>1 DEF Listing
    <3> QED BY <2>2, <3>1, <3>2
  <2> QED BY <1>4, <2>3 DEF IsCommit, its, o
<1>5. CASE op.model = "branch"
  BY <1>5 DEF CollapseOp, IsCommit
<1> QED
  BY <1>1, <1>2, <1>3, <1>4, <1>5, OpKinds DEF IsCommit

\* What the paths in use become with one operation more.
LEMMA UseStep ==
  ASSUME NEW st \in PathsInUse, NEW op \in Recorded
  PROVE  LET x == ReferenceOp(st, op) IN
         /\ x \in PathsInUse
         /\ IsCommit(op, "init") => x.paths = Append(st.paths, op.ref) /\ x.ok = st.ok
         /\ IsCommit(op, "remove") => /\ x.paths = DropTop(st.paths, op.size)
                                      /\ x.ok = (st.ok /\ op.size \in 0 .. Len(st.paths))
         /\ op.model # "commit" => x = st
<1> DEFINE x == ReferenceOp(st, op)
<1>0. st.paths \in Seq(Nat) /\ st.ok \in BOOLEAN
  BY DEF PathsInUse
<1>1. CASE IsCommit(op, "init")
  <2> DEFINE ps == Append(st.paths, op.ref)
  <2>1. x = [st EXCEPT !.paths = ps]
    BY <1>1 DEF ReferenceOp, IsCommit
  <2>2. ps \in Seq(Nat)
    BY <1>0, Appended, OpKinds
  <2> HIDE DEF ps
  <2>3. x \in PathsInUse /\ x.paths = ps /\ x.ok = st.ok
    BY <2>1, <2>2 DEF PathsInUse
  <2> QED BY <1>1, <2>3 DEF IsCommit, ps
<1>2. CASE IsCommit(op, "remove")
  <2> DEFINE ps == DropTop(st.paths, op.size)
             o == st.ok /\ op.size \in 0 .. Len(st.paths)
  <2>1. x = [st EXCEPT !.paths = ps, !.ok = o]
    BY <1>2 DEF ReferenceOp, IsCommit
  <2>2. ps \in Seq(Nat) /\ o \in BOOLEAN
    BY <1>0, DropTopTyped, OpKinds
  <2> HIDE DEF ps, o
  <2>3. x \in PathsInUse /\ x.paths = ps /\ x.ok = o
    <3>1. CASE o = TRUE
      <4>1. x = [st EXCEPT !.paths = ps, !.ok = TRUE]
        BY <2>1, <3>1
      <4> QED BY <1>0, <2>2, <3>1, <4>1 DEF PathsInUse
    <3>2. CASE o = FALSE
      <4>1. x = [st EXCEPT !.paths = ps, !.ok = FALSE]
        BY <2>1, <3>2
      <4> QED BY <1>0, <2>2, <3>2, <4>1 DEF PathsInUse
    <3> QED BY <2>2, <3>1, <3>2
  <2> QED BY <1>2, <2>3 DEF IsCommit, ps, o
<1>3. CASE op.model # "commit"
  BY <1>3 DEF ReferenceOp, IsCommit
<1> QED BY <1>1, <1>2, <1>3, OpKinds DEF IsCommit

\* What the versions become with one operation more.
LEMMA VersionStep ==
  ASSUME NEW vs \in Seq(Nat), NEW op \in Recorded
  PROVE  /\ VersionOp(vs, op) \in Seq(Nat)
         /\ IsCommit(op, "init") => VersionOp(vs, op) = Append(vs, op.ref)
         /\ IsCommit(op, "remove") /\ op.size \in 0 .. Len(vs) => VersionOp(vs, op) = DropTop(vs, op.size)
         /\ op.model # "commit" => VersionOp(vs, op) = vs
<1>1. CASE IsCommit(op, "init")
  <2>1. VersionOp(vs, op) = Append(vs, op.ref)
    BY <1>1 DEF VersionOp, IsCommit
  <2> QED BY <1>1, <2>1, Appended, OpKinds DEF IsCommit
<1>2. CASE IsCommit(op, "remove")
  <2>1. VersionOp(vs, op) = IF op.size \in 0 .. Len(vs) THEN DropTop(vs, op.size) ELSE <<>>
    BY <1>2 DEF VersionOp, IsCommit
  <2>2. DropTop(vs, op.size) \in Seq(Nat)
    BY DropTopTyped, OpKinds
  <2> QED BY <1>2, <2>1, <2>2 DEF IsCommit
<1>3. CASE op.model # "commit"
  BY <1>3 DEF VersionOp, IsCommit
<1> QED BY <1>1, <1>2, <1>3, OpKinds DEF IsCommit

\* What the folds start from.
NoItems == [items |-> <<>>, tail |-> 0, ok |-> TRUE]
NoPaths == [paths |-> <<>>, ok |-> TRUE]

\* The states along a log of the fold of branchToVersionInfos,
LEMMA CollapseFolds ==
  ASSUME NEW b \in Seq(Recorded)
  PROVE  \E f : /\ f[0] = NoItems
                /\ \A i \in 0 .. Len(b) : f[i] \in Listing /\ f[i].tail = 0
                /\ \A i \in 1 .. Len(b) : f[i] = CollapseOp(f[i - 1], b[i], TRUE)
                /\ Collapse(b, TRUE) = f[Len(b)]
<1> DEFINE St == {st \in Listing : st.tail = 0}
           F == [x \in St \X Recorded |-> CollapseOp(x[1], x[2], TRUE)]
           P(g) == g = [i \in 0 .. Len(b) |->
                          IF i = 0 THEN NoItems ELSE CollapseOp(g[i - 1], b[i], TRUE)]
           h == CHOOSE g : P(g)
<1>1. F \in [St \X Recorded -> St]
  <2>1. \A st \in St, op \in Recorded : CollapseOp(st, op, TRUE) \in St
    BY ListingStep
  <2> QED BY <2>1
<1>2. NoItems \in St
  BY DEF NoItems, Listing
<1>3. PICK f \in [0 .. Len(b) -> St] : Solves(f, F, NoItems, b, Len(b))
  <2> HIDE DEF F, St
  <2> QED BY <1>1, <1>2, RecursionSolved
<1>4. \A i \in 0 .. Len(b) : f[i] \in St
  BY <1>3
<1>5. \A i \in 1 .. Len(b) : f[i] = CollapseOp(f[i - 1], b[i], TRUE)
  <2> TAKE i \in 1 .. Len(b)
  <2>1. f[i - 1] \in St /\ b[i] \in Recorded
    BY <1>4
  <2>2. f[i] = F[<<f[i - 1], b[i]>>]
    BY <1>3 DEF Solves
  <2> HIDE DEF St
  <2> QED BY <2>1, <2>2
<1>6. P(f)
  BY <1>3, <1>5 DEF Solves
<1>7. P(h)
  <2> HIDE DEF P
  <2> QED BY <1>6
<1>8. Collapse(b, TRUE) = h[Len(b)]
  BY DEF Collapse, Fold, NoItems
<1>9. h[Len(b)] = f[Len(b)]
  <2> DEFINE Bad == {j \in 0 .. Len(b) : h[j] # f[j]}
  <2> HIDE DEF h
  <2> SUFFICES ASSUME Bad # {} PROVE FALSE
    OBVIOUS
  <2>1. PICK j \in Bad : \A i \in Nat : i < j => i \notin Bad
    <3>1. Bad \in SUBSET Nat
      OBVIOUS
    <3> HIDE DEF Bad
    <3> QED BY <3>1, LeastOne
  <2>2. h[j] = IF j = 0 THEN NoItems ELSE CollapseOp(h[j - 1], b[j], TRUE)
    BY <1>7
  <2>3. f[j] = IF j = 0 THEN NoItems ELSE CollapseOp(f[j - 1], b[j], TRUE)
    BY <1>6
  <2>4. j # 0 => h[j - 1] = f[j - 1]
    BY <2>1
  <2> QED BY <2>1, <2>2, <2>3, <2>4
<1>10. f[0] = NoItems
  BY <1>3 DEF Solves
<1> QED BY <1>4, <1>5, <1>8, <1>9, <1>10

\* ... of addReferencedPaths,
LEMMA UseFolds ==
  ASSUME NEW b \in Seq(Recorded)
  PROVE  \E f : /\ f[0] = NoPaths
                /\ \A i \in 0 .. Len(b) : f[i] \in PathsInUse
                /\ \A i \in 1 .. Len(b) : f[i] = ReferenceOp(f[i - 1], b[i])
                /\ addReferencedPaths(b) = f[Len(b)]
<1> DEFINE St == PathsInUse
           F == [x \in St \X Recorded |-> ReferenceOp(x[1], x[2])]
           P(g) == g = [i \in 0 .. Len(b) |->
                          IF i = 0 THEN NoPaths ELSE ReferenceOp(g[i - 1], b[i])]
           h == CHOOSE g : P(g)
<1>1. F \in [St \X Recorded -> St]
  <2>1. \A st \in St, op \in Recorded : ReferenceOp(st, op) \in St
    BY UseStep
  <2> QED BY <2>1
<1>2. NoPaths \in St
  BY DEF NoPaths, PathsInUse
<1>3. PICK f \in [0 .. Len(b) -> St] : Solves(f, F, NoPaths, b, Len(b))
  <2> HIDE DEF F, St
  <2> QED BY <1>1, <1>2, RecursionSolved
<1>4. \A i \in 0 .. Len(b) : f[i] \in St
  BY <1>3
<1>5. \A i \in 1 .. Len(b) : f[i] = ReferenceOp(f[i - 1], b[i])
  <2> TAKE i \in 1 .. Len(b)
  <2>1. f[i - 1] \in St /\ b[i] \in Recorded
    BY <1>4
  <2>2. f[i] = F[<<f[i - 1], b[i]>>]
    BY <1>3 DEF Solves
  <2> HIDE DEF St
  <2> QED BY <2>1, <2>2
<1>6. P(f)
  BY <1>3, <1>5 DEF Solves
<1>7. P(h)
  <2> HIDE DEF P
  <2> QED BY <1>6
<1>8. addReferencedPaths(b) = h[Len(b)]
  BY DEF addReferencedPaths, Fold, NoPaths
<1>9. h[Len(b)] = f[Len(b)]
  <2> DEFINE Bad == {j \in 0 .. Len(b) : h[j] # f[j]}
  <2> HIDE DEF h
  <2> SUFFICES ASSUME Bad # {} PROVE FALSE
    OBVIOUS
  <2>1. PICK j \in Bad : \A i \in Nat : i < j => i \notin Bad
    <3>1. Bad \in SUBSET Nat
      OBVIOUS
    <3> HIDE DEF Bad
    <3> QED BY <3>1, LeastOne
  <2>2. h[j] = IF j = 0 THEN NoPaths ELSE ReferenceOp(h[j - 1], b[j])
    BY <1>7
  <2>3. f[j] = IF j = 0 THEN NoPaths ELSE ReferenceOp(f[j - 1], b[j])
    BY <1>6
  <2>4. j # 0 => h[j - 1] = f[j - 1]
    BY <2>1
  <2> QED BY <2>1, <2>2, <2>3, <2>4
<1>10. f[0] = NoPaths
  BY <1>3 DEF Solves
<1> QED BY <1>4, <1>5, <1>8, <1>9, <1>10

\* ... and of the reference reading.
LEMMA VersionFolds ==
  ASSUME NEW b \in Seq(Recorded)
  PROVE  \E f : /\ f[0] = <<>>
                /\ \A i \in 0 .. Len(b) : f[i] \in Seq(Nat)
                /\ \A i \in 1 .. Len(b) : f[i] = VersionOp(f[i - 1], b[i])
                /\ Versions(b) = f[Len(b)]
<1> DEFINE St == Seq(Nat)
           F == [x \in St \X Recorded |-> VersionOp(x[1], x[2])]
           P(g) == g = [i \in 0 .. Len(b) |->
                          IF i = 0 THEN <<>> ELSE VersionOp(g[i - 1], b[i])]
           h == CHOOSE g : P(g)
<1>1. F \in [St \X Recorded -> St]
  <2>1. \A st \in St, op \in Recorded : VersionOp(st, op) \in St
    BY VersionStep
  <2> QED BY <2>1
<1>2. <<>> \in St
  OBVIOUS
<1>3. PICK f \in [0 .. Len(b) -> St] : Solves(f, F, <<>>, b, Len(b))
  <2> HIDE DEF F, St
  <2> QED BY <1>1, <1>2, RecursionSolved
<1>4. \A i \in 0 .. Len(b) : f[i] \in St
  BY <1>3
<1>5. \A i \in 1 .. Len(b) : f[i] = VersionOp(f[i - 1], b[i])
  <2> TAKE i \in 1 .. Len(b)
  <2>1. f[i - 1] \in St /\ b[i] \in Recorded
    BY <1>4
  <2>2. f[i] = F[<<f[i - 1], b[i]>>]
    BY <1>3 DEF Solves
  <2> HIDE DEF St
  <2> QED BY <2>1, <2>2
<1>6. P(f)
  BY <1>3, <1>5 DEF Solves
<1>7. P(h)
  <2> HIDE DEF P
  <2> QED BY <1>6
<1>8. Versions(b) = h[Len(b)]
  BY DEF Versions, Fold
<1>9. h[Len(b)] = f[Len(b)]
  <2> DEFINE Bad == {j \in 0 .. Len(b) : h[j] # f[j]}
  <2> HIDE DEF h
  <2> SUFFICES ASSUME Bad # {} PROVE FALSE
    OBVIOUS
  <2>1. PICK j \in Bad : \A i \in Nat : i < j => i \notin Bad
    <3>1. Bad \in SUBSET Nat
      OBVIOUS
    <3> HIDE DEF Bad
    <3> QED BY <3>1, LeastOne
  <2>2. h[j] = IF j = 0 THEN <<>> ELSE VersionOp(h[j - 1], b[j])
    BY <1>7
  <2>3. f[j] = IF j = 0 THEN <<>> ELSE VersionOp(f[j - 1], b[j])
    BY <1>6
  <2>4. j # 0 => h[j - 1] = f[j - 1]
    BY <2>1
  <2> QED BY <2>1, <2>2, <2>3, <2>4
<1>10. f[0] = <<>>
  BY <1>3 DEF Solves
<1> QED BY <1>4, <1>5, <1>8, <1>9, <1>10

\* How runs and commits follow one another in a log: a commit that names a run
\* comes right after a run, and no run comes right after itself.
RunsFirst(b) ==
  \A i \in DOMAIN b :
     /\ IsCommit(b[i], "init") /\ b[i].run # 0 => i > 1 /\ b[i - 1].model = "run"
     /\ b[i].model = "run" /\ i > 1 => b[i - 1].model # "run" \/ b[i - 1].run # b[i].run

\* The list c of versions shows those of vs, and after them the run r, if it is
\* not 0, that no commit has followed yet.
Shows(c, vs, r) ==
  /\ \A i \in 1 .. Len(vs) : c.items[i].path = vs[i]
  /\ r # 0 => Len(c.items) = Len(vs) + 1 /\ c.items[Len(c.items)].run = r
  /\ r = 0 => Len(c.items) = Len(vs)

\* The run that an operation leaves open, 0 for none.
OpenRun(op) == IF op.model = "run" THEN op.run ELSE 0

\* If the three readings agree before an operation, they agree after it.
LEMMA AgreeStep ==
  ASSUME NEW c \in Listing, c.tail = 0, NEW u \in PathsInUse, NEW vs \in Seq(Nat), NEW op \in Recorded,
         NEW r \in Nat,
         CollapseOp(c, op, TRUE).ok,
         c.ok => u.ok /\ u.paths = vs /\ Shows(c, vs, r),
         r # 0 => op.run = r /\ op.model # "run",
         r = 0 => op.model = "run" \/ op.run = 0
  PROVE  /\ ReferenceOp(u, op).ok /\ ReferenceOp(u, op).paths = VersionOp(vs, op)
         /\ Shows(CollapseOp(c, op, TRUE), VersionOp(vs, op), OpenRun(op))
<1> DEFINE x == CollapseOp(c, op, TRUE)
           y == ReferenceOp(u, op)
           z == VersionOp(vs, op)
<1>0. /\ c.items \in Seq(Item) /\ c.ok \in BOOLEAN /\ Len(c.items) \in Nat /\ Len(vs) \in Nat
      /\ u.paths \in Seq(Nat) /\ u.ok \in BOOLEAN
  BY DEF Listing, PathsInUse
<1>1. CASE IsCommit(op, "init")
  <2>1. c.ok /\ x.ok
    BY <1>1, ListingStep
  <2>2. z = Append(vs, op.ref) /\ y.paths = Append(u.paths, op.ref) /\ y.ok = u.ok
    BY <1>1, UseStep, VersionStep
  <2>3. Len(z) = Len(vs) + 1 /\ z[Len(vs) + 1] = op.ref /\ \A i \in 1 .. Len(vs) : z[i] = vs[i]
    <3> HIDE DEF z
    <3> QED BY <2>2, Appended, OpKinds
  <2>4. CASE r # 0
    <3>1. /\ Len(c.items) = Len(vs) + 1 /\ c.items[Len(c.items)].run = op.run /\ op.run # 0
          /\ c.items # <<>>
      BY <1>0, <2>1, <2>4 DEF Shows
    <3>2. /\ Len(x.items) = Len(c.items)
          /\ \A i \in 1 .. (Len(c.items) - 1) : x.items[i] = c.items[i]
          /\ x.items[Len(c.items)].path = op.ref
      BY <1>1, <3>1, ListingStep
    <3> HIDE DEF x, y, z
    <3>3. \A i \in 1 .. Len(z) : x.items[i].path = z[i]
      <4> TAKE i \in 1 .. Len(z)
      <4>1. CASE i = Len(vs) + 1
        BY <2>3, <3>1, <3>2, <4>1
      <4>2. CASE i # Len(vs) + 1
        <5>1. i \in 1 .. Len(vs) /\ i \in 1 .. (Len(c.items) - 1)
          BY <1>0, <2>3, <3>1, <4>2
        <5> QED BY <2>1, <2>3, <3>2, <5>1 DEF Shows
      <4> QED BY <4>1, <4>2
    <3>4. Shows(x, z, OpenRun(op))
      BY <1>0, <1>1, <2>3, <3>1, <3>2, <3>3 DEF Shows, OpenRun, IsCommit
    <3> QED BY <2>1, <2>2, <3>4 DEF x, y, z
  <2>5. CASE r = 0
    <3>1. op.run = 0
      BY <1>1, <2>5 DEF IsCommit
    <3>2. x.items = Append(c.items, ItemOf(op.ref, 0)) /\ Len(c.items) = Len(vs)
      BY <1>1, <2>1, <2>5, <3>1, ListingStep DEF Shows
    <3> HIDE DEF x, y, z
    <3>3. /\ Len(x.items) = Len(vs) + 1 /\ x.items[Len(vs) + 1].path = op.ref
          /\ \A i \in 1 .. Len(vs) : x.items[i] = c.items[i]
      <4>1. ItemOf(op.ref, 0) \in Item /\ ItemOf(op.ref, 0).path = op.ref
        BY ItemTyped, OpKinds
      <4> QED BY <1>0, <3>2, <4>1, Appended
    <3>4. \A i \in 1 .. Len(z) : x.items[i].path = z[i]
      <4> TAKE i \in 1 .. Len(z)
      <4>1. CASE i = Len(vs) + 1
        BY <2>3, <3>3, <4>1
      <4>2. CASE i # Len(vs) + 1
        <5>1. i \in 1 .. Len(vs)
          BY <1>0, <2>3, <4>2
        <5> QED BY <2>1, <2>3, <3>3, <5>1 DEF Shows
      <4> QED BY <4>1, <4>2
    <3>5. Shows(x, z, OpenRun(op))
      BY <1>0, <1>1, <2>3, <3>3, <3>4 DEF Shows, OpenRun, IsCommit
    <3> QED BY <2>1, <2>2, <3>5 DEF x, y, z
  <2> QED BY <2>4, <2>5
<1>2. CASE op.model = "run"
  <2>1. c.ok /\ r = 0 /\ x.items = Append(c.items, ItemOf(0, op.run))
    BY <1>2, ListingStep
  <2>2. z = vs /\ y = u
    BY <1>2, UseStep, VersionStep
  <2>3. Len(c.items) = Len(vs) /\ \A i \in 1 .. Len(vs) : c.items[i].path = vs[i]
    BY <2>1 DEF Shows
  <2> HIDE DEF x, y, z
  <2>4. /\ Len(x.items) = Len(vs) + 1 /\ x.items[Len(vs) + 1].run = op.run
        /\ \A i \in 1 .. Len(vs) : x.items[i] = c.items[i]
    <3>1. ItemOf(0, op.run) \in Item /\ ItemOf(0, op.run).run = op.run
      BY ItemTyped, OpKinds
    <3> QED BY <1>0, <2>1, <2>3, <3>1, Appended
  <2>5. Shows(x, z, OpenRun(op))
    BY <1>0, <1>2, <2>2, <2>3, <2>4, OpKinds DEF Shows, OpenRun
  <2> QED BY <2>1, <2>2, <2>5 DEF x, y, z
<1>3. CASE ~IsCommit(op, "init") /\ op.model # "run"
  <2>0. r = 0
    <3>1. op.run = 0
      BY <1>3, OpKinds DEF IsCommit
    <3> QED BY <3>1
  <2>1. CASE IsCommit(op, "remove")
    <3>1. c.ok /\ op.size \in 0 .. Len(c.items) /\ x.items = DropTop(c.items, op.size)
      BY <1>0, <2>1, ListingStep
    <3>2. Len(c.items) = Len(vs) /\ \A i \in 1 .. Len(vs) : c.items[i].path = vs[i]
      BY <2>0, <3>1 DEF Shows
    <3>3. u.ok /\ u.paths = vs
      BY <3>1
    <3>4. z = DropTop(vs, op.size) /\ y.paths = DropTop(vs, op.size) /\ y.ok
      BY <2>1, <3>1, <3>2, <3>3, UseStep, VersionStep
    <3>5. /\ Len(z) = Len(vs) - op.size /\ Len(x.items) = Len(vs) - op.size
          /\ \A i \in 1 .. (Len(vs) - op.size) : z[i] = vs[i] /\ x.items[i] = c.items[i]
      <4> HIDE DEF x, y, z
      <4>0. op.size \in Int /\ op.size \in 0 .. Len(vs) /\ op.size \in 0 .. Len(c.items)
        BY <3>1, <3>2
      <4>1. /\ Len(DropTop(vs, op.size)) = Len(vs) - op.size
            /\ \A i \in 1 .. (Len(vs) - op.size) : DropTop(vs, op.size)[i] = vs[i]
        BY <4>0, DropTopTyped
      <4>2. /\ Len(DropTop(c.items, op.size)) = Len(c.items) - op.size
            /\ \A i \in 1 .. (Len(c.items) - op.size) : DropTop(c.items, op.size)[i] = c.items[i]
        BY <1>0, <4>0, DropTopTyped
      <4> QED BY <3>1, <3>2, <3>4, <4>1, <4>2
    <3> HIDE DEF x, y, z
    <3>6. op.size \in Int /\ op.size >= 0
      BY <3>1
    <3>7. Shows(x, z, OpenRun(op))
      <4>1. \A i \in 1 .. Len(z) : i \in 1 .. Len(vs) /\ i \in 1 .. (Len(vs) - op.size)
        BY <1>0, <3>5, <3>6
      <4>2. \A i \in 1 .. Len(z) : x.items[i].path = z[i]
        BY <3>2, <3>5, <4>1
      <4> QED BY <1>3, <3>5, <4>2 DEF Shows, OpenRun
    <3> QED BY <3>4, <3>7 DEF x, y, z
  <2>2. CASE op.model = "push"
    <3>1. c.ok /\ x.items = Mark(c.items, op.size, op.type = "init")
      BY <1>0, <2>2, ListingStep
    <3>2. z = vs /\ y = u /\ u.ok /\ u.paths = vs
      BY <2>2, <3>1, UseStep, VersionStep
    <3>3. Len(c.items) = Len(vs) /\ \A i \in 1 .. Len(vs) : c.items[i].path = vs[i]
      BY <2>0, <3>1 DEF Shows
    <3> HIDE DEF x, y, z
    <3>4. Len(x.items) = Len(c.items) /\ \A i \in 1 .. Len(c.items) : x.items[i].path = c.items[i].path
      <4>0. op.size \in Int
        BY OpKinds
      <4>1. CASE op.type = "init"
        <5>1. x.items = Mark(c.items, op.size, TRUE)
          BY <3>1, <4>1
        <5>2. /\ Len(Mark(c.items, op.size, TRUE)) = Len(c.items)
              /\ \A i \in 1 .. Len(c.items) : Mark(c.items, op.size, TRUE)[i].path = c.items[i].path
          BY <1>0, <4>0, MarkFacts, Zenon
        <5> QED BY <5>1, <5>2
      <4>2. CASE op.type # "init"
        <5>1. x.items = Mark(c.items, op.size, FALSE)
          BY <3>1, <4>2
        <5>2. /\ Len(Mark(c.items, op.size, FALSE)) = Len(c.items)
              /\ \A i \in 1 .. Len(c.items) : Mark(c.items, op.size, FALSE)[i].path = c.items[i].path
          BY <1>0, <4>0, MarkFacts, Zenon
        <5> QED BY <5>1, <5>2
      <4> QED BY <4>1, <4>2
    <3>5. Shows(x, z, OpenRun(op))
      BY <1>3, <3>2, <3>3, <3>4 DEF Shows, OpenRun
    <3> QED BY <3>2, <3>5 DEF x, y, z
  <2>3. CASE op.model = "branch"
    <3>1. x = c
      BY <2>3, ListingStep
    <3>2. z = vs /\ y = u
      BY <2>3, UseStep, VersionStep
    <3> HIDE DEF x, y, z
    <3>3. c.ok /\ Shows(c, vs, OpenRun(op))
      BY <1>3, <2>0, <3>1 DEF Shows, OpenRun, x
    <3> QED BY <3>1, <3>2, <3>3 DEF x, y, z
  <2> QED BY <1>3, <2>1, <2>2, <2>3, OpKinds DEF IsCommit
<1> QED BY <1>1, <1>2, <1>3

\* The three readings agree at the end of a log in which a commit follows
\* every run.
LEMMA FoldsAgree ==
  ASSUME NEW b \in Seq(Recorded), RunsFirst(b), ItemsDefined(b), ~BareRun(b)
  PROVE  LET c == Collapse(b, TRUE)
             u == addReferencedPaths(b)
             vs == Versions(b)
         IN  /\ c \in Listing /\ c.tail = 0 /\ u \in PathsInUse /\ vs \in Seq(Nat)
             /\ u.ok /\ u.paths = vs /\ Shows(c, vs, 0)
<1>1. PICK f : /\ f[0] = NoItems
               /\ \A i \in 0 .. Len(b) : f[i] \in Listing /\ f[i].tail = 0
               /\ \A i \in 1 .. Len(b) : f[i] = CollapseOp(f[i - 1], b[i], TRUE)
               /\ Collapse(b, TRUE) = f[Len(b)]
  BY CollapseFolds
<1>2. PICK g : /\ g[0] = NoPaths
               /\ \A i \in 0 .. Len(b) : g[i] \in PathsInUse
               /\ \A i \in 1 .. Len(b) : g[i] = ReferenceOp(g[i - 1], b[i])
               /\ addReferencedPaths(b) = g[Len(b)]
  BY UseFolds
<1>3. PICK h : /\ h[0] = <<>>
               /\ \A i \in 0 .. Len(b) : h[i] \in Seq(Nat)
               /\ \A i \in 1 .. Len(b) : h[i] = VersionOp(h[i - 1], b[i])
               /\ Versions(b) = h[Len(b)]
  BY VersionFolds
<1> DEFINE Open(i) == IF i = 0 THEN 0 ELSE OpenRun(b[i])
           Agree(i) == f[i].ok => g[i].ok /\ g[i].paths = h[i] /\ Shows(f[i], h[i], Open(i))
           Bad == {i \in 0 .. Len(b) : ~Agree(i)}
<1>4. \A i \in 1 .. Len(b) : b[i] \in Recorded
  OBVIOUS
<1>5. Agree(0)
  BY <1>1, <1>2, <1>3 DEF NoItems, NoPaths, Shows
<1>6. ASSUME NEW j \in 1 .. Len(b), Agree(j - 1), f[j].ok
      PROVE  g[j].ok /\ g[j].paths = h[j] /\ Shows(f[j], h[j], Open(j))
  <2>0. j - 1 \in 0 .. Len(b) /\ j # 0 /\ b[j] \in Recorded
    BY <1>4
  <2>1. /\ f[j - 1] \in Listing /\ f[j - 1].tail = 0
        /\ f[j] = CollapseOp(f[j - 1], b[j], TRUE)
    BY <1>1, <2>0
  <2>2. g[j - 1] \in PathsInUse /\ g[j] = ReferenceOp(g[j - 1], b[j])
    BY <1>2, <2>0
  <2>3. h[j - 1] \in Seq(Nat) /\ h[j] = VersionOp(h[j - 1], b[j])
    BY <1>3, <2>0
  <2> DEFINE r == Open(j - 1)
  <2>4. r \in Nat
    BY <1>4, <2>0, OpKinds DEF OpenRun
  <2>5. ASSUME r # 0 PROVE b[j].run = r /\ b[j].model # "run"
    <3>1. j - 1 \in 1 .. Len(b) /\ b[j - 1].model = "run" /\ r = b[j - 1].run
      BY <2>0, <2>5 DEF OpenRun
    <3>2. b[j].run = b[j - 1].run
      <4>1. PICK k \in DOMAIN b : k = (j - 1) + 1 /\ b[k].run = b[j - 1].run
        BY <3>1 DEF BareRun
      <4> QED BY <2>0, <4>1
    <3>3. b[j].model # "run"
      BY <3>1, <3>2 DEF RunsFirst
    <3> QED BY <3>1, <3>2, <3>3
  <2>6. ASSUME r = 0 PROVE b[j].model = "run" \/ b[j].run = 0
    <3>1. CASE IsCommit(b[j], "init") /\ b[j].run # 0
      <4>1. j > 1 /\ b[j - 1].model = "run"
        BY <3>1 DEF RunsFirst
      <4>2. b[j - 1].run # 0
        BY <1>4, <4>1, OpKinds
      <4> QED BY <2>6, <4>1, <4>2 DEF OpenRun
    <3>2. CASE ~(IsCommit(b[j], "init") /\ b[j].run # 0)
      BY <2>0, <3>2, OpKinds DEF IsCommit
    <3> QED BY <3>1, <3>2
  <2>7. /\ f[j - 1].ok => g[j - 1].ok /\ g[j - 1].paths = h[j - 1] /\ Shows(f[j - 1], h[j - 1], r)
        /\ CollapseOp(f[j - 1], b[j], TRUE).ok
    BY <1>6, <2>1
  <2> HIDE DEF r, Agree, Bad
  <2>8. /\ ReferenceOp(g[j - 1], b[j]).ok
        /\ ReferenceOp(g[j - 1], b[j]).paths = VersionOp(h[j - 1], b[j])
        /\ Shows(CollapseOp(f[j - 1], b[j], TRUE), VersionOp(h[j - 1], b[j]), OpenRun(b[j]))
    <3>1. r # 0 => b[j].run = r /\ b[j].model # "run"
      BY <2>5
    <3>2. r = 0 => b[j].model = "run" \/ b[j].run = 0
      BY <2>6
    <3> DEFINE c == f[j - 1]
               u == g[j - 1]
               vs == h[j - 1]
               op == b[j]
    <3>3. c \in Listing /\ c.tail = 0 /\ u \in PathsInUse /\ vs \in Seq(Nat) /\ op \in Recorded
      BY <2>0, <2>1, <2>2, <2>3
    <3>4. r # 0 => op.run = r /\ op.model # "run"
      BY <3>1
    <3>5. r = 0 => op.model = "run" \/ op.run = 0
      BY <3>2
    <3>6. CollapseOp(c, op, TRUE).ok
      BY <2>7
    <3>7. c.ok => u.ok /\ u.paths = vs /\ Shows(c, vs, r)
      BY <2>7
    <3> HIDE DEF c, u, vs, op
    <3>8. /\ ReferenceOp(u, op).ok /\ ReferenceOp(u, op).paths = VersionOp(vs, op)
          /\ Shows(CollapseOp(c, op, TRUE), VersionOp(vs, op), OpenRun(op))
      BY <2>4, <3>3, <3>4, <3>5, <3>6, <3>7, AgreeStep
    <3> QED BY <3>8 DEF c, u, vs, op
  <2> QED BY <2>0, <2>1, <2>2, <2>3, <2>8
<1>7. Bad = {}
  <2> SUFFICES ASSUME Bad # {} PROVE FALSE
    OBVIOUS
  <2>1. PICK j \in Bad : \A i \in Nat : i < j => i \notin Bad
    <3>1. Bad \in SUBSET Nat
      OBVIOUS
    <3> HIDE DEF Bad
    <3> QED BY <3>1, LeastOne
  <2>2. j # 0
    BY <1>5
  <2>3. j \in 1 .. Len(b) /\ Agree(j - 1)
    BY <2>1, <2>2
  <2> QED BY <1>6, <2>1, <2>3
<1>8. f[Len(b)].ok /\ Agree(Len(b))
  <2>1. Len(b) \in 0 .. Len(b)
    OBVIOUS
  <2>2. f[Len(b)].ok
    BY <1>1 DEF ItemsDefined
  <2> QED BY <1>7, <2>1, <2>2
<1>9. Open(Len(b)) = 0
  <2> SUFFICES ASSUME Open(Len(b)) # 0 PROVE FALSE
    OBVIOUS
  <2>1. Len(b) \in DOMAIN b /\ b[Len(b)].model = "run"
    BY DEF OpenRun
  <2>2. PICK k \in DOMAIN b : k = Len(b) + 1
    BY <2>1 DEF BareRun
  <2> QED BY <2>2
<1>10. g[Len(b)].ok /\ g[Len(b)].paths = h[Len(b)] /\ Shows(f[Len(b)], h[Len(b)], 0)
  BY <1>8, <1>9
<1>11. Len(b) \in 0 .. Len(b)
  OBVIOUS
<1> QED BY <1>1, <1>2, <1>3, <1>10, <1>11

\* The list of versions, newest first, and the paths in use are the versions
\* saved and not deleted.
LEMMA ReadsBack ==
  ASSUME NEW b \in Seq(Recorded), RunsFirst(b), ItemsDefined(b), ~BareRun(b)
  PROVE  /\ [i \in DOMAIN Items(b) |-> Items(b)[i].path] = Reverse(Versions(b))
         /\ addReferencedPaths(b) = [paths |-> Versions(b), ok |-> TRUE]
<1> DEFINE c == Collapse(b, TRUE)
           u == addReferencedPaths(b)
           vs == Versions(b)
<1>1. /\ c \in Listing /\ c.tail = 0 /\ u \in PathsInUse /\ vs \in Seq(Nat)
      /\ u.ok /\ u.paths = vs /\ Shows(c, vs, 0)
  BY FoldsAgree
<1>2. Items(b) = Reverse(c.items)
  <2>1. Remaining(c) = c.items
    <3> HIDE DEF c
    <3> QED BY <1>1 DEF Remaining
  <2> QED BY <2>1 DEF Items, VersionInfos
<1> HIDE DEF c, u, vs
<1>3. /\ c.items \in Seq(Item) /\ Len(c.items) = Len(vs) /\ Len(vs) \in Nat
      /\ \A i \in 1 .. Len(vs) : c.items[i].path = vs[i]
  BY <1>1 DEF Listing, Shows
<1>4. \A i \in 1 .. Len(vs) : (Len(vs) - i) + 1 \in 1 .. Len(vs)
  BY <1>3
<1>5. DOMAIN Reverse(c.items) = 1 .. Len(vs) /\ \A i \in 1 .. Len(vs) : Reverse(c.items)[i] = c.items[(Len(vs) - i) + 1]
  BY <1>3 DEF Reverse
<1>6. [i \in DOMAIN Items(b) |-> Items(b)[i].path] = [i \in 1 .. Len(vs) |-> vs[(Len(vs) - i) + 1]]
  BY <1>2, <1>3, <1>4, <1>5
<1>7. u = [paths |-> vs, ok |-> TRUE]
  BY <1>1 DEF PathsInUse
<1> QED BY <1>6, <1>7 DEF Reverse, u, vs

-----------------------------------------------------------------------------
(***************************************************************************)
(* What the Book writes keeps to the rules ReadsBack rests on.  A run and  *)
(* its commit are appended by one step, under an ID no earlier operation   *)
(* has, and a rollback leaves a beginning of the log.                      *)
(***************************************************************************)

\* A branch log as the Book writes it, with n runs so far.
BranchOK(b, n) ==
  /\ b \in Seq(Recorded)
  /\ RunsFirst(b)
  /\ \A i \in DOMAIN b : b[i].run <= n

JournalOK(j, n) == \A id \in Ids : BranchOK(j[id].branch, n)

\* Every branch, in memory and in the file, is one the readers agree about.
ReadInv == JournalOK(mem, runs) /\ JournalOK(disk, runs)

\* The operations the Book writes are such operations.
LEMMA RecordedOps ==
  /\ BranchInit \in Recorded
  /\ \A p, r \in Nat : Commit(p, r) \in Recorded
  /\ \A r \in Nat : r # 0 => Run(r) \in Recorded
  /\ \A k \in Int : Delete(k) \in Recorded /\ Push(k) \in Recorded /\ Unpush(k) \in Recorded
BY OpTypes DEF BranchInit, Commit, Run, Delete, Push, Unpush, Recorded, IsCommit

\* A missing log, and a new one.
LEMMA NewBranchOK == \A n \in Nat : BranchOK(<<>>, n) /\ BranchOK(<<BranchInit>>, n)
<1> SUFFICES ASSUME NEW n \in Nat PROVE BranchOK(<<>>, n) /\ BranchOK(<<BranchInit>>, n)
  OBVIOUS
<1>1. BranchOK(<<>>, n)
  BY DEF BranchOK, RunsFirst
<1>2. BranchInit \in Recorded /\ BranchInit.model = "branch" /\ BranchInit.run = 0
  BY RecordedOps DEF BranchInit
<1> HIDE DEF BranchInit
<1>3. <<BranchInit>> \in Seq(Recorded) /\ DOMAIN <<BranchInit>> = 1 .. 1 /\ <<BranchInit>>[1] = BranchInit
  BY <1>2
<1>4. \A i \in 1 .. 1 : i = 1
  OBVIOUS
<1>5. BranchOK(<<BranchInit>>, n)
  BY <1>2, <1>3, <1>4 DEF BranchOK, RunsFirst, IsCommit
<1> QED BY <1>1, <1>5

\* More runs elsewhere leave a branch as it was.
LEMMA MoreRunsOK ==
  ASSUME NEW b, NEW n \in Nat, NEW m \in Nat, n <= m, BranchOK(b, n)
  PROVE  BranchOK(b, m)
<1>1. \A i \in DOMAIN b : b[i] \in Recorded
  BY DEF BranchOK
<1>2. \A i \in DOMAIN b : b[i].run \in Nat
  BY <1>1, OpKinds
<1> QED BY <1>2 DEF BranchOK

\* An operation that is neither a run nor a commit of one.
LEMMA PlainOpOK ==
  ASSUME NEW b, NEW n \in Nat, BranchOK(b, n), NEW op \in Recorded, op.run = 0
  PROVE  BranchOK(Append(b, op), n)
<1> DEFINE a == Append(b, op)
<1>1. b \in Seq(Recorded) /\ op.model # "run"
  BY OpKinds DEF BranchOK
<1>2. /\ a \in Seq(Recorded) /\ Len(a) = Len(b) + 1 /\ Len(b) \in Nat
      /\ \A i \in 1 .. Len(b) : a[i] = b[i]
      /\ a[Len(b) + 1] = op
  BY <1>1
<1>3. DOMAIN a = 1 .. (Len(b) + 1) /\ DOMAIN b = 1 .. Len(b)
  BY <1>1, <1>2
<1> HIDE DEF a
<1>4. ASSUME NEW i \in DOMAIN a
      PROVE  /\ IsCommit(a[i], "init") /\ a[i].run # 0 => i > 1 /\ a[i - 1].model = "run"
             /\ a[i].model = "run" /\ i > 1 => a[i - 1].model # "run" \/ a[i - 1].run # a[i].run
             /\ a[i].run <= n
  <2>1. CASE i = Len(b) + 1
    BY <2>1, <1>1, <1>2
  <2>2. CASE i # Len(b) + 1
    <3>1. i \in DOMAIN b /\ a[i] = b[i]
      BY <2>2, <1>2, <1>3
    <3>2. i > 1 => a[i - 1] = b[i - 1]
      BY <3>1, <1>2, <1>3
    <3> QED BY <3>1, <3>2 DEF BranchOK, RunsFirst
  <2> QED BY <2>1, <2>2
<1> QED BY <1>2, <1>4 DEF BranchOK, RunsFirst, a

\* The next run, which no earlier operation names.
LEMMA NextRunOK ==
  ASSUME NEW b, NEW n \in Nat, BranchOK(b, n)
  PROVE  BranchOK(Append(b, Run(n + 1)), n + 1)
<1> DEFINE op == Run(n + 1)
           a == Append(b, op)
<1>0. op \in Recorded /\ op.run = n + 1 /\ op.model = "run"
  BY RecordedOps DEF Run
<1> HIDE DEF op
<1>1. b \in Seq(Recorded) /\ \A i \in DOMAIN b : b[i] \in Recorded
  BY DEF BranchOK
<1>2. /\ a \in Seq(Recorded) /\ Len(a) = Len(b) + 1 /\ Len(b) \in Nat
      /\ \A i \in 1 .. Len(b) : a[i] = b[i]
      /\ a[Len(b) + 1] = op
  BY <1>0, <1>1
<1>3. DOMAIN a = 1 .. (Len(b) + 1) /\ DOMAIN b = 1 .. Len(b)
  BY <1>1, <1>2
<1>5. \A i \in DOMAIN b : b[i].run \in Nat /\ b[i].run <= n
  BY <1>1, OpKinds DEF BranchOK
<1> HIDE DEF a
<1>4. ASSUME NEW i \in DOMAIN a
      PROVE  /\ IsCommit(a[i], "init") /\ a[i].run # 0 => i > 1 /\ a[i - 1].model = "run"
             /\ a[i].model = "run" /\ i > 1 => a[i - 1].model # "run" \/ a[i - 1].run # a[i].run
             /\ a[i].run <= n + 1
  <2>1. CASE i = Len(b) + 1
    <3>1. ~IsCommit(a[i], "init") /\ a[i].run <= n + 1
      BY <2>1, <1>0, <1>2 DEF IsCommit
    <3>2. ASSUME i > 1 PROVE a[i - 1].run # a[i].run
      <4>1. i - 1 \in DOMAIN b /\ a[i - 1] = b[i - 1] /\ a[i] = op
        BY <2>1, <3>2, <1>2, <1>3
      <4> QED BY <4>1, <1>0, <1>5
    <3> QED BY <3>1, <3>2
  <2>2. CASE i # Len(b) + 1
    <3>1. i \in DOMAIN b /\ a[i] = b[i]
      BY <2>2, <1>2, <1>3
    <3>2. i > 1 => a[i - 1] = b[i - 1]
      BY <3>1, <1>2, <1>3
    <3>3. a[i].run <= n + 1
      BY <3>1, <1>5
    <3> QED BY <3>1, <3>2, <3>3 DEF BranchOK, RunsFirst
  <2> QED BY <2>1, <2>2
<1> QED BY <1>2, <1>4 DEF BranchOK, RunsFirst, a, op

\* The commit of the run the log ends with.
LEMMA CommitOfRunOK ==
  ASSUME NEW b, NEW n \in Nat, BranchOK(b, n), NEW p \in Nat, NEW r \in Nat, r <= n,
         Len(b) >= 1, b[Len(b)].model = "run"
  PROVE  BranchOK(Append(b, Commit(p, r)), n)
<1> DEFINE op == Commit(p, r)
           a == Append(b, op)
<1>0. op \in Recorded /\ op.run = r /\ op.model = "commit"
  BY RecordedOps DEF Commit
<1> HIDE DEF op
<1>1. b \in Seq(Recorded)
  BY DEF BranchOK
<1>2. /\ a \in Seq(Recorded) /\ Len(a) = Len(b) + 1 /\ Len(b) \in Nat
      /\ \A i \in 1 .. Len(b) : a[i] = b[i]
      /\ a[Len(b) + 1] = op
  BY <1>0, <1>1
<1>3. DOMAIN a = 1 .. (Len(b) + 1) /\ DOMAIN b = 1 .. Len(b)
  BY <1>1, <1>2
<1> HIDE DEF a
<1>4. ASSUME NEW i \in DOMAIN a
      PROVE  /\ IsCommit(a[i], "init") /\ a[i].run # 0 => i > 1 /\ a[i - 1].model = "run"
             /\ a[i].model = "run" /\ i > 1 => a[i - 1].model # "run" \/ a[i - 1].run # a[i].run
             /\ a[i].run <= n
  <2>1. CASE i = Len(b) + 1
    <3>1. i > 1 /\ i - 1 = Len(b) /\ a[i - 1] = b[Len(b)] /\ a[i] = op
      BY <2>1, <1>2
    <3> QED BY <3>1, <1>0
  <2>2. CASE i # Len(b) + 1
    <3>1. i \in DOMAIN b /\ a[i] = b[i]
      BY <2>2, <1>2, <1>3
    <3>2. i > 1 => a[i - 1] = b[i - 1]
      BY <3>1, <1>2, <1>3
    <3> QED BY <3>1, <3>2 DEF BranchOK, RunsFirst
  <2> QED BY <2>1, <2>2
<1> QED BY <1>2, <1>4 DEF BranchOK, RunsFirst, a, op

\* A rollback leaves a beginning of the log.
LEMMA RolledBackOK ==
  ASSUME NEW b, NEW n \in Nat, BranchOK(b, n), Len(b) >= 1
  PROVE  BranchOK(Upto(b, Len(b) - 1), n)
<1> DEFINE k == Len(b) - 1
           a == SubSeq(b, 1, k)
<1>1. b \in Seq(Recorded) /\ Len(b) \in Nat /\ k \in 0 .. Len(b)
  BY DEF BranchOK
<1> HIDE DEF k
<1>2. a \in Seq(Recorded) /\ Len(a) = k /\ \A i \in 1 .. k : a[i] = b[i]
  BY <1>1
<1>3. DOMAIN a = 1 .. k /\ DOMAIN b = 1 .. Len(b)
  BY <1>1, <1>2
<1> HIDE DEF a
<1>4. ASSUME NEW i \in DOMAIN a
      PROVE  /\ IsCommit(a[i], "init") /\ a[i].run # 0 => i > 1 /\ a[i - 1].model = "run"
             /\ a[i].model = "run" /\ i > 1 => a[i - 1].model # "run" \/ a[i - 1].run # a[i].run
             /\ a[i].run <= n
  <2>1. i \in DOMAIN b /\ a[i] = b[i]
    BY <1>1, <1>2, <1>3
  <2>2. i > 1 => a[i - 1] = b[i - 1]
    BY <2>1, <1>1, <1>2, <1>3
  <2> QED BY <2>1, <2>2 DEF BranchOK, RunsFirst
<1>5. BranchOK(a, n)
  BY <1>2, <1>4 DEF BranchOK, RunsFirst
<1> QED BY <1>5 DEF Upto, a, k

\* More runs leave a whole journal as it was.
LEMMA JournalKept ==
  ASSUME NEW j, NEW n \in Nat, NEW m \in Nat, n <= m, JournalOK(j, n)
  PROVE  JournalOK(j, m)
BY MoreRunsOK DEF JournalOK

\* A journal in which only the branch of id differs.
LEMMA BranchReplacedOK ==
  ASSUME NEW j, NEW i, NEW n \in Nat, NEW m \in Nat, n <= m, NEW id \in Ids, JournalOK(j, n),
         \A k \in Ids \ {id} : i[k].branch = j[k].branch,
         BranchOK(i[id].branch, m)
  PROVE  JournalOK(i, m)
<1> SUFFICES ASSUME NEW k \in Ids PROVE BranchOK(i[k].branch, m)
  BY DEF JournalOK
<1>1. CASE k = id
  BY <1>1
<1>2. CASE k # id
  <2>1. BranchOK(j[k].branch, m)
    BY MoreRunsOK DEF JournalOK
  <2> QED BY <1>2, <2>1
<1> QED BY <1>1, <1>2

\* Operations that name no run may be appended anywhere.
LEMMA PlainAppendOK ==
  ASSUME NEW j \in Journal, NEW n \in Nat, JournalOK(j, n), NEW id \in Ids,
         NEW op \in Recorded, op.run = 0
  PROVE  JournalOK(AppendBranch(j, id, op), n)
<1> DEFINE i == AppendBranch(j, id, op)
<1>1. op \in Op
  BY OpKinds
<1>2. /\ \A k \in Ids \ {id} : i[k].branch = j[k].branch
      /\ i[id].branch = Append(j[id].branch, op)
  BY <1>1, AppendBranchFacts
<1>3. BranchOK(Append(j[id].branch, op), n)
  BY PlainOpOK DEF JournalOK
<1> HIDE DEF i
<1>4. n <= n /\ BranchOK(i[id].branch, n)
  BY <1>2, <1>3
<1>5. JournalOK(i, n)
  BY <1>2, <1>4, BranchReplacedOK
<1> QED BY <1>5 DEF i

\* The next run, in any branch.
LEMMA RunAppendOK ==
  ASSUME NEW j \in Journal, NEW n \in Nat, JournalOK(j, n), NEW id \in Ids
  PROVE  JournalOK(AppendBranch(j, id, Run(n + 1)), n + 1)
<1> DEFINE i == AppendBranch(j, id, Run(n + 1))
<1>1. Run(n + 1) \in Op
  BY OpTypes
<1>2. /\ \A k \in Ids \ {id} : i[k].branch = j[k].branch
      /\ i[id].branch = Append(j[id].branch, Run(n + 1))
  BY <1>1, AppendBranchFacts
<1>3. BranchOK(Append(j[id].branch, Run(n + 1)), n + 1)
  BY NextRunOK DEF JournalOK
<1> HIDE DEF i
<1>4. n \in Nat /\ n + 1 \in Nat /\ n <= n + 1 /\ BranchOK(i[id].branch, n + 1)
  BY <1>2, <1>3
<1>5. JournalOK(i, n + 1)
  BY <1>2, <1>4, BranchReplacedOK
<1> QED BY <1>5 DEF i

\* The next run and the commit it led to, in any branch.
LEMMA RanAppendOK ==
  ASSUME NEW j \in Journal, NEW n \in Nat, JournalOK(j, n), NEW id \in Ids, NEW p \in Nat
  PROVE  JournalOK(AppendBranch(AppendBranch(j, id, Run(n + 1)), id, Commit(p, n + 1)), n + 1)
<1> DEFINE r == AppendBranch(j, id, Run(n + 1))
           i == AppendBranch(r, id, Commit(p, n + 1))
<1>0. n + 1 \in Nat /\ n + 1 <= n + 1
  OBVIOUS
<1>1. Run(n + 1) \in Op /\ Commit(p, n + 1) \in Op /\ Run(n + 1).model = "run"
  BY <1>0, OpTypes DEF Run
<1>2. r \in Journal /\ r[id].branch = Append(j[id].branch, Run(n + 1)) /\ j[id].branch \in Seq(Op)
  BY <1>1, AppendBranchFacts, LogParts
<1>3. JournalOK(r, n + 1)
  BY RunAppendOK
<1> DEFINE o == Run(n + 1)
<1>4. Len(r[id].branch) >= 1 /\ r[id].branch[Len(r[id].branch)].model = "run"
  <2>1. o \in Op /\ o.model = "run" /\ r[id].branch = Append(j[id].branch, o)
    BY <1>1, <1>2
  <2> HIDE DEF o, r
  <2> QED BY <1>2, <2>1
<1> HIDE DEF r
<1>5. /\ \A k \in Ids \ {id} : i[k].branch = r[k].branch
      /\ i[id].branch = Append(r[id].branch, Commit(p, n + 1))
  BY <1>1, <1>2, AppendBranchFacts
<1>6. BranchOK(Append(r[id].branch, Commit(p, n + 1)), n + 1)
  <2> DEFINE b == r[id].branch
             m == n + 1
  <2>1. BranchOK(b, m) /\ m \in Nat /\ m <= m /\ Len(b) >= 1 /\ b[Len(b)].model = "run"
    BY <1>0, <1>3, <1>4 DEF JournalOK
  <2> HIDE DEF b, m
  <2>2. BranchOK(Append(b, Commit(p, m)), m)
    BY <2>1, CommitOfRunOK
  <2> QED BY <2>2 DEF b, m
<1> HIDE DEF i
<1>7. JournalOK(i, n + 1)
  <2> DEFINE m == n + 1
  <2>1. m \in Nat /\ m <= m /\ JournalOK(r, m) /\ BranchOK(i[id].branch, m)
    BY <1>0, <1>3, <1>5, <1>6
  <2> HIDE DEF m
  <2>2. JournalOK(i, m)
    BY <1>5, <2>1, BranchReplacedOK
  <2> QED BY <2>2 DEF m
<1> QED BY <1>7 DEF i, r

\* Taking logs out, adding one, and changing what is said of a dataset.
LEMMA OtherWritesOK ==
  ASSUME NEW j \in Journal, NEW n \in Nat, JournalOK(j, n)
  PROVE  /\ \A m : JournalOK(RemoveLog(j, m), n)
         /\ \A id \in Ids, m \in Names : JournalOK(NewDataset(j, id, m), n)
         /\ \A id \in Ids, op \in DatasetOp :
              Present(j, id) => JournalOK(AppendDataset(j, id, op), n)
         /\ \A id \in Ids : Len(j[id].branch) >= 2 => JournalOK(DropLast(j, id), n)
<1>0. BranchOK(<<>>, n) /\ BranchOK(<<BranchInit>>, n) /\ n <= n
  BY NewBranchOK
<1>1. ASSUME NEW m PROVE JournalOK(RemoveLog(j, m), n)
  <2>1. \A k \in Ids : RemoveLog(j, m)[k] = j[k] \/ RemoveLog(j, m)[k] = NoLog
    BY RemoveLogFacts
  <2>2. NoLog.branch = <<>>
    BY DEF NoLog
  <2> HIDE DEF NoLog
  <2> QED BY <1>0, <2>1, <2>2 DEF JournalOK
<1>2. ASSUME NEW id \in Ids, NEW m \in Names PROVE JournalOK(NewDataset(j, id, m), n)
  <2> DEFINE i == NewDataset(j, id, m)
  <2>1. (\A k \in Ids \ {id} : i[k] = j[k]) /\ i[id].branch = <<BranchInit>>
    BY NewDatasetFacts
  <2> HIDE DEF i
  <2>2. (\A k \in Ids \ {id} : i[k].branch = j[k].branch) /\ BranchOK(i[id].branch, n)
    BY <1>0, <2>1
  <2>3. JournalOK(i, n)
    BY <1>0, <2>2, BranchReplacedOK
  <2> QED BY <2>3 DEF i
<1>3. ASSUME NEW id \in Ids, NEW op \in DatasetOp, Present(j, id)
      PROVE  JournalOK(AppendDataset(j, id, op), n)
  <2>1. \A k \in Ids : AppendDataset(j, id, op)[k].branch = j[k].branch
    BY <1>3, AppendDatasetFacts
  <2> QED BY <2>1 DEF JournalOK
<1>4. ASSUME NEW id \in Ids, Len(j[id].branch) >= 2 PROVE JournalOK(DropLast(j, id), n)
  <2> DEFINE i == DropLast(j, id)
             b == Upto(j[id].branch, Len(j[id].branch) - 1)
  <2>1. j[id].branch \in Seq(Op) /\ BranchOK(j[id].branch, n) /\ Len(j[id].branch) >= 1
    BY <1>4, LogParts DEF JournalOK
  <2>2. BranchOK(b, n)
    BY <2>1, RolledBackOK
  <2>3. i = [j EXCEPT ![id].branch = b]
    BY DEF DropLast
  <2>4. b \in Seq(Op)
    BY <1>4, <2>1 DEF Upto
  <2> HIDE DEF b, i
  <2>5. (\A k \in Ids \ {id} : i[k].branch = j[k].branch) /\ i[id].branch = b
    BY <2>3, <2>4, PutBranchFacts
  <2>6. JournalOK(i, n)
    BY <1>0, <2>2, <2>5, BranchReplacedOK
  <2> QED BY <2>6 DEF i
<1> QED BY <1>1, <1>2, <1>3, <1>4

\* A step that writes the journal j to memory.
LEMMA WrittenOK ==
  ASSUME IInv, ReadInv, NEW c, NEW j, NEW then, NEW id, NEW n, NEW e,
         Write(c, j, then, id, n, e), runs' \in Nat, runs <= runs', JournalOK(j, runs')
  PROVE  ReadInv'
<1>1. mem' = j /\ disk' = disk
  BY DEF Write
<1>2. runs \in Nat
  BY DEF IInv, TypeOK
<1>3. JournalOK(disk, runs')
  BY <1>2, JournalKept DEF ReadInv
<1> QED BY <1>1, <1>3 DEF ReadInv, JournalOK

\* A push under way is in the log: there is something to take off.
LEMMA RollbackRoom ==
  ASSUME IInv, NEW c \in Clients, At(c, "put"), Present(mem, req[c].id)
  PROVE  req[c].id \in Ids /\ Len(mem[req[c].id].branch) >= 2
<1> DEFINE id == req[c].id
<1>1. id \in Ids /\ c \in InFlight(id) /\ mem \in Journal
  BY HeldLog DEF InFlight, IInv, TypeOK
<1>2. /\ Len(mem[id].branch) >= 1 + Cardinality(InFlight(id))
      /\ Len(mem[id].branch) \in Nat
      /\ IsFiniteSet(InFlight(id)) /\ Cardinality(InFlight(id)) \in Nat
  BY <1>1, LogParts, InFlightFinite DEF IInv, InitKept
<1>3. /\ Cardinality(InFlight(id) \ {c}) = Cardinality(InFlight(id)) - 1
      /\ Cardinality(InFlight(id) \ {c}) \in Nat
  BY <1>1, <1>2, FS_RemoveElement, FS_CardinalityType
<1> QED BY <1>1, <1>2, <1>3

\* Every step keeps every branch one the readers agree about.
LEMMA NextReads == IInv /\ ReadInv /\ [Next]_vars => ReadInv'
<1> SUFFICES ASSUME IInv, ReadInv, [Next]_vars PROVE ReadInv'
  OBVIOUS
<1>0. /\ mem \in Journal /\ runs \in Nat /\ paths \in Nat /\ used \in Nat
      /\ JournalOK(mem, runs) /\ JournalOK(disk, runs) /\ runs <= runs
  BY DEF IInv, TypeOK, ReadInv
<1>1. ASSUME NEW c, NEW j, NEW then, NEW id, NEW n, NEW e, Write(c, j, then, id, n, e),
             runs' = runs, JournalOK(j, runs)
      PROVE  ReadInv'
  BY <1>0, <1>1, WrittenOK
<1>2. ASSUME UNCHANGED <<mem, disk, runs>> PROVE ReadInv'
  BY <1>0, <1>2 DEF ReadInv, JournalOK
<1>3. CASE Restart
  BY <1>0, <1>3 DEF Restart, ReadInv, JournalOK
<1>4. CASE UNCHANGED vars
  BY <1>2, <1>4 DEF vars
<1>5. ASSUME NEW c \in Clients, Save(c) PROVE ReadInv'
  BY <1>0, <1>5 DEF Save, FsPut, ReadInv, JournalOK
<1>6. ASSUME NEW c \in Clients, PushRefused(c) PROVE ReadInv'
  <2>1. CASE UNCHANGED book
    BY <1>2, <1>6, <2>1 DEF PushRefused, book
  <2>2. CASE Present(mem, req[c].id)
             /\ Write(c, DropLast(mem, req[c].id), "idle", 0, NoName, NoEvent)
    <3>1. req[c].id \in Ids /\ Len(mem[req[c].id].branch) >= 2
      BY <1>6, <2>2, RollbackRoom DEF PushRefused
    <3>2. JournalOK(DropLast(mem, req[c].id), runs)
      BY <1>0, <3>1, OtherWritesOK
    <3> QED BY <1>1, <1>6, <2>2, <3>2 DEF PushRefused
  <2> QED BY <1>6, <2>1, <2>2 DEF PushRefused
<1>7. ASSUME NEW c \in Clients, NEW id \in Ids, NEW b \in BOOLEAN, VersionSave(c, id, b)
      PROVE  ReadInv'
  <2>0. paths + 1 \in Nat /\ runs + 1 \in Nat /\ runs <= runs + 1 /\ 0 \in Nat
    BY <1>0
  <2>1. CASE b
    <3> DEFINE j == AppendBranch(AppendBranch(mem, id, Run(runs + 1)), id, Commit(paths + 1, runs + 1))
    <3>1. JournalOK(j, runs + 1)
      BY <1>0, <2>0, RanAppendOK
    <3>2. runs' = runs + 1
      BY <1>7, <2>1 DEF VersionSave
    <3>3. \E e : Write(c, j, "idle", id, NoName, e)
      BY <1>7, <2>1 DEF VersionSave
    <3> HIDE DEF j
    <3>4. JournalOK(j, runs') /\ runs' \in Nat /\ runs <= runs'
      BY <2>0, <3>1, <3>2
    <3> QED BY <3>3, <3>4, WrittenOK
  <2>2. CASE ~b
    <3> DEFINE op == Commit(paths + 1, 0)
               j == AppendBranch(mem, id, op)
    <3>0. op \in Recorded /\ op.run = 0
      BY <2>0, RecordedOps DEF Commit
    <3> HIDE DEF op
    <3>1. JournalOK(j, runs)
      BY <1>0, <3>0, PlainAppendOK
    <3>2. runs' = runs
      BY <1>7, <2>2 DEF VersionSave
    <3>3. \E e : Write(c, j, "idle", id, NoName, e)
      BY <1>7, <2>2 DEF VersionSave, op
    <3> HIDE DEF j
    <3> QED BY <1>1, <3>1, <3>2, <3>3
  <2> QED BY <2>1, <2>2
<1>8. ASSUME NEW c \in Clients, NEW id \in Ids, NEW then, TransformRun(c, id, then)
      PROVE  ReadInv'
  <2> DEFINE j == AppendBranch(mem, id, Run(runs + 1))
  <2>1. JournalOK(j, runs + 1)
    BY <1>0, RunAppendOK
  <2>2. runs' = runs + 1 /\ Write(c, j, then, id, req[c].name, NoEvent)
    BY <1>8 DEF TransformRun
  <2> HIDE DEF j
  <2>3. JournalOK(j, runs') /\ runs' \in Nat /\ runs <= runs'
    BY <1>0, <2>1, <2>2
  <2> QED BY <2>2, <2>3, WrittenOK
<1>9. ASSUME NEW id \in Ids, NEW k \in Int
      PROVE  /\ JournalOK(AppendBranch(mem, id, Delete(k)), runs)
             /\ JournalOK(AppendBranch(mem, id, Push(k)), runs)
             /\ JournalOK(AppendBranch(mem, id, Unpush(k)), runs)
  <2> DEFINE d == Delete(k)
             p == Push(k)
             u == Unpush(k)
  <2>1. d \in Recorded /\ p \in Recorded /\ u \in Recorded /\ d.run = 0 /\ p.run = 0 /\ u.run = 0
    BY RecordedOps DEF Delete, Push, Unpush
  <2> HIDE DEF d, p, u
  <2>2. /\ JournalOK(AppendBranch(mem, id, d), runs)
        /\ JournalOK(AppendBranch(mem, id, p), runs)
        /\ JournalOK(AppendBranch(mem, id, u), runs)
    BY <1>0, <2>1, PlainAppendOK
  <2> QED BY <2>2 DEF d, p, u
<1>10. ASSUME NEW c \in Clients, NEW id \in Ids, NEW n, NEW k \in Int, NEW then,
              VersionDelete(c, id, n, k, then)
       PROVE  ReadInv'
  BY <1>1, <1>9, <1>10 DEF VersionDelete
<1>11. ASSUME NEW c \in Clients, NEW n \in Names, NameStep(c, n) PROVE ReadInv'
  <2>1. CASE RemoveStray(c, n)
    <3>1. JournalOK(RemoveLog(mem, n), runs)
      BY <1>0, OtherWritesOK
    <3> QED BY <1>1, <2>1, <3>1 DEF RemoveStray
  <2>2. CASE WriteDatasetInit(c, n)
    <3>1. used + 1 \in Ids
      BY <1>0, <2>2, DatasetsAssumption DEF WriteDatasetInit, Ids
    <3>2. JournalOK(NewDataset(mem, used + 1, n), runs)
      BY <1>0, <3>1, OtherWritesOK
    <3> QED BY <1>1, <2>2, <3>2 DEF WriteDatasetInit
  <2>3. CASE WriteDatasetDelete(c, n)
    <3> DEFINE op == [type |-> "remove", name |-> NoName]
    <3>1. PICK id \in HeadRef(mem, n) :
            Write(c, AppendDataset(mem, id, op), "idle", 0, NoName, NoEvent)
      BY <2>3 DEF WriteDatasetDelete
    <3>2. op \in DatasetOp
      BY DEF DatasetOp
    <3> HIDE DEF op
    <3>3. JournalOK(AppendDataset(mem, id, op), runs)
      BY <1>0, <3>2, HeadRefFacts, OtherWritesOK
    <3> QED BY <1>1, <2>3, <3>1, <3>3 DEF WriteDatasetDelete
  <2>4. CASE WriteVersionSave(c, n)
    <3>1. PICK b \in BOOLEAN :
            \/ \E id \in HeadRef(mem, n) : VersionSave(c, id, b)
            \/ At(c, "new") /\ VersionSave(c, req[c].id, b)
      BY <2>4 DEF WriteVersionSave
    <3>2. CASE \E id \in HeadRef(mem, n) : VersionSave(c, id, b)
      BY <1>7, <3>2, HeadRefFacts
    <3>3. CASE At(c, "new") /\ VersionSave(c, req[c].id, b)
      BY <1>7, <3>3, HeldLog
    <3> QED BY <3>1, <3>2, <3>3
  <2>5. CASE WriteTransformRun(c, n)
    BY <1>8, <2>5, HeadRefFacts, HeldLog DEF WriteTransformRun
  <2>6. CASE WriteVersionDelete(c, n)
    <3>1. PICK id \in HeadRef(mem, n) :
            \/ \E k \in 1 .. MaxOps : VersionDelete(c, id, n, k, "idle")
            \/ VersionDelete(c, id, n, -1, "drop")
      BY <2>6 DEF WriteVersionDelete
    <3>2. id \in Ids /\ -1 \in Int /\ \A k \in 1 .. MaxOps : k \in Int
      BY HeadRefFacts, BoundsAssumption
    <3>3. CASE \E k \in 1 .. MaxOps : VersionDelete(c, id, n, k, "idle")
      BY <1>10, <3>2, <3>3
    <3>4. CASE VersionDelete(c, id, n, -1, "drop")
      BY <1>10, <3>2, <3>4
    <3> QED BY <3>1, <3>3, <3>4
  <2>7. CASE WriteRemotePush(c, n)
    <3>1. PICK id \in HeadRef(mem, n) :
            Write(c, AppendBranch(mem, id, Push(1)), "put", id, NoName, NoEvent)
      BY <2>7 DEF WriteRemotePush
    <3>2. JournalOK(AppendBranch(mem, id, Push(1)), runs)
      BY <1>9, HeadRefFacts
    <3> QED BY <1>1, <2>7, <3>1, <3>2 DEF WriteRemotePush
  <2>8. CASE WriteRemoteDelete(c, n)
    <3>1. PICK id \in HeadRef(mem, n), k \in 0 .. MaxOps :
            Write(c, AppendBranch(mem, id, Unpush(k)), "idle", 0, NoName, NoEvent)
      BY <2>8 DEF WriteRemoteDelete
    <3>2. k \in Int
      BY BoundsAssumption
    <3>3. JournalOK(AppendBranch(mem, id, Unpush(k)), runs)
      BY <1>9, <3>2, HeadRefFacts
    <3> QED BY <1>1, <2>8, <3>1, <3>3 DEF WriteRemoteDelete
  <2>9. ASSUME NEW m \in Names, WriteDatasetRename(c, n, m) PROVE ReadInv'
    <3> DEFINE op == [type |-> "amend", name |-> m]
    <3>1. PICK id \in HeadRef(mem, n) :
            Write(c, AppendDataset(mem, id, op), "idle", 0, NoName, NoEvent)
      BY <2>9 DEF WriteDatasetRename
    <3>2. op \in DatasetOp
      BY DEF DatasetOp
    <3> HIDE DEF op
    <3>3. JournalOK(AppendDataset(mem, id, op), runs)
      BY <1>0, <3>2, HeadRefFacts, OtherWritesOK
    <3> QED BY <1>1, <2>9, <3>1, <3>3 DEF WriteDatasetRename
  <2> QED BY <1>11, <2>1, <2>2, <2>3, <2>4, <2>5, <2>6, <2>7, <2>8, <2>9 DEF NameStep
<1>12. ASSUME NEW c \in Clients, ClientStep(c) PROVE ReadInv'
  <2>1. CASE Save(c)
    BY <1>5, <2>1
  <2>2. CASE CleanupNew(c)
    <3>1. JournalOK(RemoveLog(mem, req[c].name), runs)
      BY <1>0, OtherWritesOK
    <3> QED BY <1>1, <2>2, <3>1 DEF CleanupNew
  <2>3. CASE DropNothing(c)
    BY <1>2, <2>3 DEF DropNothing
  <2>4. CASE PushAccepted(c)
    BY <1>2, <2>4 DEF PushAccepted
  <2>5. CASE PushRefused(c)
    BY <1>6, <2>5
  <2>6. CASE \E n \in Names : NameStep(c, n)
    BY <1>11, <2>6
  <2> QED BY <1>12, <2>1, <2>2, <2>3, <2>4, <2>5, <2>6 DEF ClientStep
<1> QED BY <1>3, <1>4, <1>12 DEF Next

\* Every branch stays one the readers agree about, on the whole run.
THEOREM ReadersInductive == Spec => []ReadInv
<1>1. Init => ReadInv
  <2> SUFFICES ASSUME Init PROVE ReadInv
    OBVIOUS
  <2>1. \A id \in Ids : EmptyJournal[id].branch = <<>>
    BY DEF EmptyJournal, NoLog
  <2>2. mem = EmptyJournal /\ disk = EmptyJournal /\ runs = 0 /\ 0 \in Nat
    BY DEF Init
  <2> HIDE DEF EmptyJournal
  <2> QED BY <2>1, <2>2, NewBranchOK DEF ReadInv, JournalOK
<1> QED BY <1>1, NextReads, Inductive, PTL DEF Spec

\* The readers agree: for any number of requests, in any order, with pushes
\* rolled back, faults of the filesystem and restarts, branchToVersionInfos
\* and addReferencedPaths read the versions saved and not deleted back from
\* the log, whenever the first stays within its slices and a commit followed
\* every run.
THEOREM ReadersDoAgree == Spec => []ReadersAgree
<1>1. ReadInv => ReadersAgree
  <2> SUFFICES ASSUME ReadInv, NEW id \in Ids,
                      ItemsDefined(mem[id].branch), ~BareRun(mem[id].branch)
               PROVE  LET b == mem[id].branch IN
                      /\ [i \in DOMAIN Items(b) |-> Items(b)[i].path] = Reverse(Versions(b))
                      /\ addReferencedPaths(b) = [paths |-> Versions(b), ok |-> TRUE]
    BY DEF ReadersAgree
  <2> DEFINE b == mem[id].branch
  <2>1. b \in Seq(Recorded) /\ RunsFirst(b) /\ ItemsDefined(b) /\ ~BareRun(b)
    BY DEF ReadInv, JournalOK, BranchOK
  <2> HIDE DEF b
  <2>2. /\ [i \in DOMAIN Items(b) |-> Items(b)[i].path] = Reverse(Versions(b))
        /\ addReferencedPaths(b) = [paths |-> Versions(b), ok |-> TRUE]
    BY <2>1, ReadsBack
  <2> QED BY <2>2 DEF b
<1> QED BY <1>1, ReadersInductive, PTL
-----------------------------------------------------------------------------
(***************************************************************************)
(* The logbook implements the stack of versions (VersionStack).  First what *)
(* each kind of operation does to the stack of the log it is recorded in,   *)
(* then which step of the stacks each action is.                            *)
(***************************************************************************)

\* The versions of a log with one operation more.
LEMMA VersionsAppend ==
  ASSUME NEW b \in Seq(Recorded), NEW op \in Recorded
  PROVE  /\ Versions(b) \in Seq(Nat) /\ Versions(Append(b, op)) \in Seq(Nat)
         /\ Versions(Append(b, op)) = VersionOp(Versions(b), op)
<1> DEFINE a == Append(b, op)
<1>1. /\ a \in Seq(Recorded) /\ Len(a) = Len(b) + 1 /\ Len(b) \in Nat
      /\ a[Len(b) + 1] = op
      /\ \A i \in 1 .. Len(b) : a[i] = b[i]
  BY Appended
<1> HIDE DEF a
<1>2. PICK f : /\ f[0] = <<>>
               /\ \A i \in 0 .. Len(b) : f[i] \in Seq(Nat)
               /\ \A i \in 1 .. Len(b) : f[i] = VersionOp(f[i - 1], b[i])
               /\ Versions(b) = f[Len(b)]
  BY VersionFolds
<1>3. PICK g : /\ g[0] = <<>>
               /\ \A i \in 0 .. Len(a) : g[i] \in Seq(Nat)
               /\ \A i \in 1 .. Len(a) : g[i] = VersionOp(g[i - 1], a[i])
               /\ Versions(a) = g[Len(a)]
  BY <1>1, VersionFolds
<1>4. \A j \in 0 .. Len(b) : f[j] = g[j]
  <2> DEFINE Bad == {j \in 0 .. Len(b) : f[j] # g[j]}
  <2> SUFFICES ASSUME Bad # {} PROVE FALSE
    OBVIOUS
  <2>1. PICK j \in Bad : \A i \in Nat : i < j => i \notin Bad
    <3>1. Bad \in SUBSET Nat
      OBVIOUS
    <3> HIDE DEF Bad
    <3> QED BY <3>1, LeastOne
  <2>2. j # 0
    BY <1>2, <1>3
  <2>3. j \in 1 .. Len(b) /\ j \in 1 .. Len(a) /\ j - 1 \in 0 .. Len(b) /\ f[j - 1] = g[j - 1]
    BY <1>1, <2>1, <2>2
  <2>4. f[j] = VersionOp(f[j - 1], b[j]) /\ g[j] = VersionOp(g[j - 1], a[j]) /\ a[j] = b[j]
    BY <1>1, <1>2, <1>3, <2>3
  <2> QED BY <2>1, <2>3, <2>4
<1>5. Versions(a) = VersionOp(g[Len(b)], op) /\ g[Len(b)] = Versions(b)
  <2>1. Len(b) \in 0 .. Len(b) /\ Len(a) \in 1 .. Len(a) /\ Len(a) - 1 = Len(b)
    BY <1>1
  <2> QED BY <1>1, <1>2, <1>3, <1>4, <2>1
<1>6. Len(b) \in 0 .. Len(b) /\ Len(a) \in 0 .. Len(a)
  BY <1>1
<1>7. Versions(b) \in Seq(Nat) /\ Versions(a) \in Seq(Nat)
  BY <1>2, <1>3, <1>6
<1> QED BY <1>5, <1>7 DEF a

\* A log without operations, and one with its init alone, have no versions.
LEMMA NoVersions == Versions(<<>>) = <<>> /\ Versions(<<BranchInit>>) = <<>>
<1>0. <<>> \in Seq(Recorded)
  OBVIOUS
<1>1. Versions(<<>>) = <<>>
  <2>1. PICK f : f[0] = <<>> /\ Versions(<<>>) = f[Len(<<>>)]
    BY <1>0, VersionFolds
  <2> QED BY <2>1
<1>2. BranchInit \in Recorded /\ BranchInit.model = "branch"
  BY RecordedOps DEF BranchInit
<1>3. VersionOp(<<>>, BranchInit) = <<>>
  <2> HIDE DEF BranchInit
  <2>1. <<>> \in Seq(Nat) /\ BranchInit.model # "commit"
    BY <1>2
  <2> QED BY <1>2, <2>1, VersionStep
<1>4. Append(<<>>, BranchInit) = <<BranchInit>>
  <2> HIDE DEF BranchInit
  <2> QED BY <1>2
<1>5. Versions(Append(<<>>, BranchInit)) = VersionOp(Versions(<<>>), BranchInit)
  BY <1>0, <1>2, VersionsAppend
<1> QED BY <1>1, <1>3, <1>4, <1>5

\* The deletes recorded in a branch.
Deletes(b) == {i \in DOMAIN b : IsCommit(b[i], "remove")}

\* Only a delete is counted.
LEMMA DeletesAppend ==
  ASSUME NEW b \in Seq(Recorded), NEW op \in Recorded
  PROVE  /\ Cardinality(Deletes(b)) \in Nat
         /\ Cardinality(Deletes(Append(b, op))) =
              Cardinality(Deletes(b)) + (IF IsCommit(op, "remove") THEN 1 ELSE 0)
<1> DEFINE a == Append(b, op)
<1>1. /\ a \in Seq(Recorded) /\ Len(a) = Len(b) + 1 /\ Len(b) \in Nat
      /\ a[Len(b) + 1] = op
      /\ \A i \in 1 .. Len(b) : a[i] = b[i]
  BY Appended
<1>2. DOMAIN a = 1 .. (Len(b) + 1) /\ DOMAIN b = 1 .. Len(b)
  BY <1>1
<1> HIDE DEF a
<1>3. IsFiniteSet(1 .. Len(b)) /\ Deletes(b) \subseteq 1 .. Len(b)
  BY <1>1, <1>2, FS_Interval DEF Deletes
<1>4. IsFiniteSet(Deletes(b)) /\ Cardinality(Deletes(b)) \in Nat
  BY <1>3, FS_Subset, FS_CardinalityType
<1>5. CASE IsCommit(op, "remove")
  <2>1. Deletes(a) = Deletes(b) \union {Len(b) + 1}
    BY <1>1, <1>2, <1>5 DEF Deletes
  <2>2. Len(b) + 1 \notin Deletes(b)
    BY <1>1, <1>2 DEF Deletes
  <2> QED BY <1>4, <1>5, <2>1, <2>2, FS_AddElement DEF a
<1>6. CASE ~IsCommit(op, "remove")
  <2>1. Deletes(a) = Deletes(b)
    BY <1>1, <1>2, <1>6 DEF Deletes
  <2> QED BY <1>4, <1>6, <2>1 DEF a
<1> QED BY <1>5, <1>6

\* A log without operations, and one with its init alone, record no delete.
LEMMA NoDeletes == Cardinality(Deletes(<<>>)) = 0 /\ Cardinality(Deletes(<<BranchInit>>)) = 0
<1>1. Deletes(<<>>) = {}
  BY DEF Deletes
<1>2. BranchInit.model = "branch"
  BY DEF BranchInit
<1> HIDE DEF BranchInit
<1>3. Deletes(<<BranchInit>>) = {}
  BY <1>2 DEF Deletes, IsCommit
<1> QED BY <1>1, <1>3, FS_EmptySet

\* The stack a single log stands for.
RemovedLog(l) == \E i \in DOMAIN l.ops : l.ops[i].type = "remove"
StackOf(l) == [live    |-> Versions(l.branch),
               deletes |-> Cardinality(Deletes(l.branch)),
               removed |-> RemovedLog(l)]

\* The stacks of a journal are the stacks of its logs, one by one.
LEMMA StacksAre ==
  ASSUME NEW j
  PROVE  Stacks(j) = [id \in Ids |-> StackOf(j[id])]
BY DEF Stacks, StackOf, Deletes, RemovedLog, Removed

\* Journals whose logs have the same stacks have the same stacks.
LEMMA StacksSame ==
  ASSUME NEW j, NEW i, \A id \in Ids : StackOf(i[id]) = StackOf(j[id])
  PROVE  Stacks(i) = Stacks(j)
BY StacksAre

(***************************************************************************)
(* What holds of the journal beyond ReadInv when one client at a time      *)
(* writes to it: a log that is not there has no branch, no version is      *)
(* newer than the last one saved, a client that may give a new dataset up  *)
(* holds a log without versions that goes by its name, and a client whose  *)
(* push may be rolled back finds the push last in the log.                 *)
(***************************************************************************)
OneClient == \A c, d \in Clients : c = d

Goes(r) == IF r.pc = "save" THEN r.then ELSE r.pc

Absent(j) == \A id \in Ids : ~Present(j, id) => j[id].branch = <<>>

Saved(j, p) ==
  \A id \in Ids : \A i \in DOMAIN Versions(j[id].branch) : Versions(j[id].branch)[i] <= p

\* The log r holds in the journal j.
Held(r, j) ==
  /\ Goes(r) \in {"new", "failed"} =>
       /\ r.id \in Ids /\ r.name \in Names
       /\ Live(j, r.id) /\ Named(j, r.id, r.name)
       /\ Versions(j[r.id].branch) = <<>>
  /\ Goes(r) = "put" =>
       /\ r.id \in Ids /\ j[r.id].branch # <<>>
       /\ j[r.id].branch[Len(j[r.id].branch)] = Push(1)

VInv ==
  /\ Absent(mem) /\ Absent(disk)
  /\ Saved(mem, paths) /\ Saved(disk, paths)
  /\ \A c \in Clients : Held(req[c], mem)

\* Two logs with the same operations, versions and deletes have the same stack.
LEMMA StackParts ==
  ASSUME NEW l, NEW m, l.ops = m.ops, Versions(l.branch) = Versions(m.branch),
         Cardinality(Deletes(l.branch)) = Cardinality(Deletes(m.branch))
  PROVE  StackOf(l) = StackOf(m)
BY DEF StackOf, RemovedLog

\* What changes with the branch alone.
LEMMA StackFrom ==
  ASSUME NEW l, NEW m, l.ops = m.ops
  PROVE  StackOf(l) = [StackOf(m) EXCEPT !.live = Versions(l.branch),
                                         !.deletes = Cardinality(Deletes(l.branch))]
<1> DEFINE s == StackOf(l)
           o == StackOf(m)
           v == Versions(l.branch)
           d == Cardinality(Deletes(l.branch))
<1>1. /\ s = [x \in {"live", "deletes", "removed"} |-> s[x]]
      /\ o = [x \in {"live", "deletes", "removed"} |-> o[x]]
      /\ s.live = v /\ s.deletes = d
  BY DEF StackOf
<1>2. s.removed = o.removed
  BY DEF StackOf, RemovedLog
<1> HIDE DEF s, o, v, d
<1>3. s = [o EXCEPT !.live = v, !.deletes = d]
  BY <1>1, <1>2
<1> QED BY <1>3 DEF s, o, v, d

\* Whether the versions are no newer than p depends on the stacks alone.
LEMMA SavedSame ==
  ASSUME NEW j, NEW i, NEW p, Saved(j, p),
         \A k \in Ids : Versions(i[k].branch) = Versions(j[k].branch)
  PROVE  Saved(i, p)
BY DEF Saved

\* Branches of a journal the readers agree about are sequences of what the Book
\* writes.
LEMMA BranchTypes ==
  ASSUME NEW j, NEW n, JournalOK(j, n), NEW id \in Ids
  PROVE  /\ j[id].branch \in Seq(Recorded)
         /\ Versions(j[id].branch) \in Seq(Nat)
<1>1. j[id].branch \in Seq(Recorded)
  BY DEF JournalOK, BranchOK
<1>2. BranchInit \in Recorded
  BY RecordedOps
<1> QED BY <1>1, <1>2, VersionsAppend

\* Appending an operation to the branch of a log that is there.
LEMMA AppendStack ==
  ASSUME NEW j \in Journal, NEW n, JournalOK(j, n), NEW id \in Ids, NEW op \in Recorded,
         Absent(j), Present(j, id)
  PROVE  LET i == AppendBranch(j, id, op)
             b == j[id].branch
         IN  /\ i \in Journal /\ Absent(i)
             /\ \A k \in Ids : i[k].ops = j[k].ops
             /\ \A k \in Ids \ {id} : i[k].branch = j[k].branch
             /\ i[id].branch = Append(b, op)
             /\ \A k \in Ids \ {id} : StackOf(i[k]) = StackOf(j[k])
             /\ Versions(b) \in Seq(Nat)
             /\ Versions(i[id].branch) = VersionOp(Versions(b), op)
             /\ Cardinality(Deletes(b)) \in Nat
             /\ Cardinality(Deletes(i[id].branch)) =
                  Cardinality(Deletes(b)) + (IF IsCommit(op, "remove") THEN 1 ELSE 0)
<1> DEFINE i == AppendBranch(j, id, op)
           b == j[id].branch
<1>1. op \in Op
  BY OpKinds
<1>2. /\ i \in Journal
      /\ \A k \in Ids : i[k].ops = j[k].ops
      /\ \A k \in Ids \ {id} : i[k].branch = j[k].branch
      /\ i[id].branch = Append(b, op)
  BY <1>1, AppendBranchFacts
<1>3. b \in Seq(Recorded)
  BY BranchTypes
<1> HIDE DEF i
<1>4. \A k \in Ids \ {id} : StackOf(i[k]) = StackOf(j[k])
  BY <1>2, StackParts
<1>5. Absent(i)
  BY <1>2 DEF Absent, Present
<1> HIDE DEF b
<1>6. Versions(b) \in Seq(Nat) /\ Versions(Append(b, op)) = VersionOp(Versions(b), op)
  BY <1>3, VersionsAppend
<1>7. /\ Cardinality(Deletes(b)) \in Nat
      /\ Cardinality(Deletes(Append(b, op))) =
           Cardinality(Deletes(b)) + (IF IsCommit(op, "remove") THEN 1 ELSE 0)
  BY <1>3, DeletesAppend
<1> QED BY <1>2, <1>4, <1>5, <1>6, <1>7 DEF i, b

\* An operation that is no commit leaves every stack as it was.
LEMMA PlainStack ==
  ASSUME NEW j \in Journal, NEW n, JournalOK(j, n), NEW id \in Ids, NEW op \in Recorded,
         Absent(j), Present(j, id), op.model # "commit"
  PROVE  LET i == AppendBranch(j, id, op)
         IN  /\ i \in Journal /\ Absent(i)
             /\ \A k \in Ids : i[k].ops = j[k].ops
             /\ \A k \in Ids : Versions(i[k].branch) = Versions(j[k].branch)
             /\ i[id].branch = Append(j[id].branch, op)
             /\ Stacks(i) = Stacks(j)
<1> DEFINE i == AppendBranch(j, id, op)
           b == j[id].branch
<1>1. /\ i \in Journal /\ Absent(i)
      /\ \A k \in Ids : i[k].ops = j[k].ops
      /\ \A k \in Ids \ {id} : i[k].branch = j[k].branch
      /\ i[id].branch = Append(b, op)
      /\ \A k \in Ids \ {id} : StackOf(i[k]) = StackOf(j[k])
      /\ Versions(b) \in Seq(Nat)
      /\ Versions(i[id].branch) = VersionOp(Versions(b), op)
      /\ Cardinality(Deletes(b)) \in Nat
      /\ Cardinality(Deletes(i[id].branch)) =
           Cardinality(Deletes(b)) + (IF IsCommit(op, "remove") THEN 1 ELSE 0)
  BY AppendStack
<1> HIDE DEF i
<1>2. Versions(i[id].branch) = Versions(b)
  BY <1>1, VersionStep
<1>3. Cardinality(Deletes(i[id].branch)) = Cardinality(Deletes(b))
  BY <1>1 DEF IsCommit
<1>4. StackOf(i[id]) = StackOf(j[id])
  BY <1>1, <1>2, <1>3, StackParts
<1>5. \A k \in Ids : StackOf(i[k]) = StackOf(j[k])
  BY <1>1, <1>4
<1>6. Stacks(i) = Stacks(j)
  BY <1>5, StacksSame
<1>7. \A k \in Ids : Versions(i[k].branch) = Versions(j[k].branch)
  BY <1>1, <1>2
<1> QED BY <1>1, <1>6, <1>7 DEF i

\* Taking the last operation off, when that is a push, leaves every stack.
LEMMA DropStack ==
  ASSUME NEW j \in Journal, NEW n, JournalOK(j, n), NEW id \in Ids, Absent(j),
         j[id].branch # <<>>, j[id].branch[Len(j[id].branch)] = Push(1)
  PROVE  LET i == DropLast(j, id)
         IN  /\ Absent(i) /\ Stacks(i) = Stacks(j)
             /\ \A k \in Ids : Versions(i[k].branch) = Versions(j[k].branch)
<1> DEFINE b == j[id].branch
           a == SubSeq(b, 1, Len(b) - 1)
           i == DropLast(j, id)
           op == Push(1)
<1>0. op \in Recorded /\ op.model # "commit"
  BY RecordedOps DEF Push
<1> HIDE DEF op
<1>1. b \in Seq(Recorded) /\ b # <<>> /\ b[Len(b)] = op
  BY BranchTypes DEF op
<1> HIDE DEF b
<1>2. Len(b) \in Nat /\ Len(b) >= 1
  BY <1>1
<1>3. a \in Seq(Recorded) /\ b = Append(a, op)
  <2>1. a \in Seq(Recorded) /\ Len(a) = Len(b) - 1 /\ \A k \in 1 .. (Len(b) - 1) : a[k] = b[k]
    <3> DEFINE m == Len(b) - 1
    <3>1. m \in 0 .. Len(b) /\ a = SubSeq(b, 1, m)
      BY <1>2
    <3> HIDE DEF m, a
    <3>2. a \in Seq(Recorded) /\ Len(a) = m /\ \A k \in 1 .. m : a[k] = b[k]
      BY <1>1, <3>1
    <3> QED BY <3>2 DEF m
  <2> HIDE DEF a
  <2>2. /\ Append(a, op) \in Seq(Recorded) /\ Len(Append(a, op)) = Len(b)
        /\ \A k \in 1 .. Len(b) : Append(a, op)[k] = b[k]
    BY <1>0, <1>1, <1>2, <2>1
  <2> QED BY <1>1, <2>1, <2>2, SeqEqual
<1> HIDE DEF a
<1>4. Versions(a) = Versions(b)
  BY <1>0, <1>3, VersionsAppend, VersionStep
<1>5. Cardinality(Deletes(a)) = Cardinality(Deletes(b))
  BY <1>0, <1>3, DeletesAppend DEF IsCommit
<1>6. i = [j EXCEPT ![id].branch = a]
  BY DEF DropLast, Upto, a, b
<1>7. \A o \in Recorded : o \in Op
  BY OpKinds
<1>8. a \in Seq(Op)
  BY <1>3, <1>7
<1>9. /\ \A k \in Ids : i[k].ops = j[k].ops
      /\ \A k \in Ids \ {id} : i[k].branch = j[k].branch
      /\ i[id].branch = a
  BY <1>6, <1>8, PutBranchFacts
<1>10. Absent(i)
  <2>1. Present(j, id)
    BY <1>1 DEF Absent, b
  <2> HIDE DEF i
  <2> QED BY <1>9, <2>1 DEF Absent, Present
<1> HIDE DEF i
<1>11. \A k \in Ids : /\ Versions(i[k].branch) = Versions(j[k].branch)
                      /\ Cardinality(Deletes(i[k].branch)) = Cardinality(Deletes(j[k].branch))
  BY <1>4, <1>5, <1>9 DEF b
<1>12. Stacks(i) = Stacks(j)
  BY <1>9, <1>11, StackParts, StacksSame
<1> QED BY <1>10, <1>11, <1>12 DEF i

\* Saving a version puts it on the stack.
LEMMA CommitStack ==
  ASSUME NEW j \in Journal, NEW n, JournalOK(j, n), NEW id \in Ids, Absent(j), Present(j, id),
         NEW p \in Nat, NEW r \in Nat, NEW q \in Nat, Saved(j, q), q < p
  PROVE  LET i == AppendBranch(j, id, Commit(p, r))
         IN  /\ Absent(i) /\ Saved(i, p)
             /\ Stacks(i) = [Stacks(j) EXCEPT ![id].live = Append(@, p)]
<1> DEFINE op == Commit(p, r)
           i == AppendBranch(j, id, op)
           b == j[id].branch
<1>0. op \in Recorded /\ IsCommit(op, "init") /\ op.ref = p
  BY RecordedOps DEF Commit, IsCommit
<1> HIDE DEF op
<1>1. /\ Absent(i)
      /\ \A k \in Ids \ {id} : i[k].branch = j[k].branch
      /\ \A k \in Ids \ {id} : StackOf(i[k]) = StackOf(j[k])
      /\ Versions(b) \in Seq(Nat)
      /\ Versions(i[id].branch) = VersionOp(Versions(b), op)
      /\ Cardinality(Deletes(b)) \in Nat
      /\ Cardinality(Deletes(i[id].branch)) =
           Cardinality(Deletes(b)) + (IF IsCommit(op, "remove") THEN 1 ELSE 0)
      /\ i[id].ops = j[id].ops
  BY <1>0, AppendStack
<1> HIDE DEF i
<1>2. Versions(i[id].branch) = Append(Versions(b), p)
  BY <1>0, <1>1, VersionStep
<1>3. Cardinality(Deletes(i[id].branch)) = Cardinality(Deletes(b))
  BY <1>0, <1>1 DEF IsCommit
<1>4. StackOf(i[id]) = [StackOf(j[id]) EXCEPT !.live = Append(@, p)]
  <2>1. StackOf(i[id]) = [StackOf(j[id]) EXCEPT !.live = Versions(i[id].branch),
                                                !.deletes = Cardinality(Deletes(i[id].branch))]
    BY <1>1, StackFrom
  <2>2. StackOf(j[id]).live = Versions(b) /\ StackOf(j[id]).deletes = Cardinality(Deletes(b))
    BY DEF StackOf
  <2>3. DOMAIN StackOf(j[id]) = {"live", "deletes", "removed"}
    BY DEF StackOf
  <2> QED BY <1>2, <1>3, <2>1, <2>2, <2>3 DEF StackOf
<1>5. Stacks(i) = [Stacks(j) EXCEPT ![id] = StackOf(i[id])]
  <2>1. \A x \in Ids \ {id} : StackOf(i[x]) = StackOf(j[x])
    BY <1>1
  <2> QED BY <2>1, StacksAre
<1>6. Stacks(i) = [Stacks(j) EXCEPT ![id].live = Append(@, p)]
  <2>1. Stacks(j)[id] = StackOf(j[id])
    BY StacksAre
  <2> QED BY <1>4, <1>5, <2>1
<1>7. Saved(i, p)
  <2> SUFFICES ASSUME NEW k \in Ids, NEW m \in DOMAIN Versions(i[k].branch)
               PROVE  Versions(i[k].branch)[m] <= p
    BY DEF Saved
  <2>1. Versions(j[k].branch) \in Seq(Nat)
    BY BranchTypes
  <2>2. \A x \in DOMAIN Versions(j[k].branch) :
           Versions(j[k].branch)[x] \in Nat /\ Versions(j[k].branch)[x] <= q
    <3>1. \A x \in DOMAIN Versions(j[k].branch) : Versions(j[k].branch)[x] \in Nat
      BY <2>1
    <3>2. \A x \in DOMAIN Versions(j[k].branch) : Versions(j[k].branch)[x] <= q
      BY DEF Saved
    <3> QED BY <3>1, <3>2
  <2>3. CASE k # id
    <3>1. Versions(i[k].branch) = Versions(j[k].branch)
      BY <1>1, <2>3
    <3> QED BY <2>2, <3>1
  <2>4. CASE k = id
    <3> DEFINE v == Versions(b)
    <3>1. Versions(i[k].branch) = Append(v, p) /\ v \in Seq(Nat)
      BY <1>1, <1>2, <2>4
    <3>2. \A x \in DOMAIN v : v[x] \in Nat /\ v[x] <= q
      BY <2>2, <2>4
    <3> HIDE DEF v
    <3>3. CASE m = Len(v) + 1
      BY <3>1, <3>3
    <3>4. CASE m # Len(v) + 1
      <4>1. m \in DOMAIN v /\ Append(v, p)[m] = v[m]
        BY <3>1, <3>4
      <4> QED BY <3>1, <3>2, <4>1
    <3> QED BY <3>3, <3>4
  <2> QED BY <2>3, <2>4
<1> QED BY <1>1, <1>6, <1>7 DEF i, op

\* A delete takes versions off the top of the stack, and is counted.
LEMMA DeleteStack ==
  ASSUME NEW j \in Journal, NEW n, JournalOK(j, n), NEW id \in Ids, Absent(j), Present(j, id),
         NEW k \in Int, NEW q \in Nat, Saved(j, q)
  PROVE  LET i == AppendBranch(j, id, Delete(k))
         IN  /\ Absent(i) /\ Saved(i, q)
             /\ \E m \in 0 .. Len(Stacks(j)[id].live) :
                  Stacks(i) = [Stacks(j) EXCEPT ![id].live = SubSeq(@, 1, m),
                                                ![id].deletes = @ + 1]
<1> DEFINE op == Delete(k)
           i == AppendBranch(j, id, op)
           b == j[id].branch
           v == Versions(b)
<1>0. op \in Recorded /\ IsCommit(op, "remove") /\ op.size = k
  BY RecordedOps DEF Delete, IsCommit
<1> HIDE DEF op
<1>1. /\ Absent(i)
      /\ \A x \in Ids \ {id} : i[x].branch = j[x].branch
      /\ \A x \in Ids \ {id} : StackOf(i[x]) = StackOf(j[x])
      /\ v \in Seq(Nat)
      /\ Versions(i[id].branch) = VersionOp(v, op)
      /\ Cardinality(Deletes(b)) \in Nat
      /\ Cardinality(Deletes(i[id].branch)) =
           Cardinality(Deletes(b)) + (IF IsCommit(op, "remove") THEN 1 ELSE 0)
      /\ i[id].ops = j[id].ops
  BY <1>0, AppendStack
<1> HIDE DEF i
<1>6. Stacks(i) = [Stacks(j) EXCEPT ![id] = StackOf(i[id])]
  <2>1. \A x \in Ids \ {id} : StackOf(i[x]) = StackOf(j[x])
    BY <1>1
  <2>2. Stacks(i) = [x \in Ids |-> StackOf(i[x])] /\ Stacks(j) = [x \in Ids |-> StackOf(j[x])]
    BY StacksAre
  <2> QED BY <2>1, <2>2
<1>2. \E m \in 0 .. Len(v) : Versions(i[id].branch) = SubSeq(v, 1, m)
  <2> HIDE DEF v
  <2>1. CASE k \in 0 .. Len(v)
    <3>1. VersionOp(v, op) = SubSeq(v, 1, Len(v) - k)
      BY <1>0, <1>1, <2>1 DEF VersionOp, IsCommit, DropTop, Upto
    <3>2. Len(v) - k \in 0 .. Len(v)
      BY <1>1, <2>1
    <3> QED BY <1>1, <3>1, <3>2
  <2>2. CASE k \notin 0 .. Len(v)
    <3>1. VersionOp(v, op) = <<>>
      BY <1>0, <1>1, <2>2 DEF VersionOp, IsCommit
    <3>2. SubSeq(v, 1, 0) = <<>> /\ 0 \in 0 .. Len(v)
      BY <1>1
    <3> QED BY <1>1, <3>1, <3>2
  <2> QED BY <2>1, <2>2
<1>3. PICK m \in 0 .. Len(v) : Versions(i[id].branch) = SubSeq(v, 1, m)
  BY <1>2
<1>4. Cardinality(Deletes(i[id].branch)) = Cardinality(Deletes(b)) + 1
  BY <1>0, <1>1
<1>5. StackOf(i[id]) = [StackOf(j[id]) EXCEPT !.live = SubSeq(@, 1, m), !.deletes = @ + 1]
  <2>1. StackOf(i[id]) = [StackOf(j[id]) EXCEPT !.live = Versions(i[id].branch),
                                                !.deletes = Cardinality(Deletes(i[id].branch))]
    BY <1>1, StackFrom
  <2>2. StackOf(j[id]).live = v /\ StackOf(j[id]).deletes = Cardinality(Deletes(b))
    BY DEF StackOf
  <2> QED BY <1>3, <1>4, <2>1, <2>2
<1>7. Stacks(j)[id] = StackOf(j[id]) /\ Stacks(j)[id].live = v
  BY StacksAre DEF StackOf
<1>8. Stacks(i) = [Stacks(j) EXCEPT ![id].live = SubSeq(@, 1, m), ![id].deletes = @ + 1]
  BY <1>5, <1>6, <1>7
<1>9. Saved(i, q)
  <2> SUFFICES ASSUME NEW x \in Ids, NEW y \in DOMAIN Versions(i[x].branch)
               PROVE  Versions(i[x].branch)[y] <= q
    BY DEF Saved
  <2>1. CASE x # id
    <3>1. Versions(i[x].branch) = Versions(j[x].branch)
      BY <1>1, <2>1
    <3> QED BY <3>1 DEF Saved
  <2>2. CASE x = id
    <3>1. \A z \in DOMAIN v : v[z] <= q
      BY DEF Saved
    <3>2. Versions(i[x].branch) = SubSeq(v, 1, m) /\ v \in Seq(Nat) /\ m \in 0 .. Len(v)
      BY <1>1, <1>3, <2>2
    <3> HIDE DEF v
    <3>3. y \in DOMAIN v /\ SubSeq(v, 1, m)[y] = v[y]
      BY <3>2
    <3> QED BY <3>1, <3>2, <3>3
  <2> QED BY <2>1, <2>2
<1> QED BY <1>1, <1>7, <1>8, <1>9 DEF i, op

NoStack == [live |-> <<>>, deletes |-> 0, removed |-> FALSE]

\* A log that is not there has no versions.
LEMMA NoLogStack ==
  ASSUME NEW l, l.ops = <<>>, l.branch = <<>>
  PROVE  StackOf(l) = NoStack
<1>1. RemovedLog(l) = FALSE
  BY DEF RemovedLog
<1>2. Versions(l.branch) = <<>> /\ Cardinality(Deletes(l.branch)) = 0
  BY NoVersions, NoDeletes
<1> QED BY <1>1, <1>2 DEF StackOf, NoStack

\* Journal.RemoveLog takes out the first log with the name, if there is one.
LEMMA RemoveStack ==
  ASSUME NEW j \in Journal, NEW n, Absent(j), NEW q \in Nat, Saved(j, q)
  PROVE  LET i == RemoveLog(j, n)
         IN  /\ Absent(i) /\ Saved(i, q)
             /\ \/ Stacks(i) = Stacks(j)
                \/ \E g \in Ids :
                     /\ Present(j, g) /\ Named(j, g, n)
                     /\ \A k \in Ids : Present(j, k) /\ Named(j, k, n) => g <= k
                     /\ Stacks(i) = [Stacks(j) EXCEPT ![g] = NoStack]
<1> DEFINE i == RemoveLog(j, n)
           S == {id \in Ids : Present(j, id) /\ Named(j, id, n)}
           gone == First(S)
<1>1. /\ \A k \in Ids : i[k] = IF k \in gone THEN NoLog ELSE j[k]
      /\ \A k \in Ids : i[k] = j[k] \/ i[k] = NoLog
  BY DEF RemoveLog
<1>2. NoLog.ops = <<>> /\ NoLog.branch = <<>>
  BY DEF NoLog
<1> HIDE DEF i, NoLog
<1>3. Absent(i)
  BY <1>1, <1>2 DEF Absent, Present
<1>4. Saved(i, q)
  <2> SUFFICES ASSUME NEW k \in Ids, NEW m \in DOMAIN Versions(i[k].branch)
               PROVE  Versions(i[k].branch)[m] <= q
    BY DEF Saved
  <2>1. CASE i[k] = j[k]
    BY <2>1 DEF Saved
  <2>2. CASE i[k] = NoLog
    BY <1>2, <2>2, NoVersions
  <2> QED BY <1>1, <2>1, <2>2
<1>5. CASE gone = {}
  <2>1. \A k \in Ids : StackOf(i[k]) = StackOf(j[k])
    BY <1>1, <1>5
  <2>2. Stacks(i) = Stacks(j)
    BY <2>1, StacksSame
  <2> QED BY <1>3, <1>4, <2>2 DEF i
<1>6. CASE gone # {}
  <2>1. PICK g \in gone : TRUE
    BY <1>6
  <2>2. g \in S /\ \A k \in S : g <= k
    BY <2>1 DEF First
  <2>3. \A k \in gone : k = g
    <3>1. \A k \in gone : k \in S /\ k <= g /\ g <= k
      BY <2>1, <2>2 DEF First
    <3>2. \A k \in S : k \in Int
      BY DatasetsAssumption DEF Ids
    <3> QED BY <2>2, <3>1, <3>2
  <2>4. StackOf(i[g]) = NoStack
    <3>1. i[g] = NoLog
      BY <1>1, <2>1, <2>2
    <3> QED BY <1>2, <3>1, NoLogStack
  <2>5. \A x \in Ids \ {g} : StackOf(i[x]) = StackOf(j[x])
    BY <1>1, <2>3
  <2>6. Stacks(i) = [x \in Ids |-> StackOf(i[x])] /\ Stacks(j) = [x \in Ids |-> StackOf(j[x])]
    BY StacksAre
  <2>7. Stacks(i) = [Stacks(j) EXCEPT ![g] = NoStack]
    <3> HIDE DEF NoStack
    <3> QED BY <2>4, <2>5, <2>6
  <2> QED BY <1>3, <1>4, <2>2, <2>7 DEF i
<1> QED BY <1>5, <1>6

\* A new log has no versions, goes by its name, and takes nothing away.
LEMMA NewStack ==
  ASSUME NEW j \in Journal, Absent(j), NEW q \in Nat, Saved(j, q), NEW id \in Ids,
         NEW n \in Names, ~Present(j, id)
  PROVE  LET i == NewDataset(j, id, n)
         IN  /\ Absent(i) /\ Saved(i, q) /\ Stacks(i) = Stacks(j)
             /\ Live(i, id) /\ Named(i, id, n) /\ Versions(i[id].branch) = <<>>
<1> DEFINE i == NewDataset(j, id, n)
           o == [type |-> "init", name |-> n]
<1>1. /\ \A k \in Ids \ {id} : i[k] = j[k]
      /\ i[id].branch = <<BranchInit>>
  BY NewDatasetFacts
<1>2. i[id].ops = <<o>>
  BY DEF NewDataset, Journal
<1>3. o.type = "init" /\ o.name = n /\ n # NoName
  BY NamesAssumption
<1> HIDE DEF i, o
<1>4. DOMAIN <<o>> = {1} /\ <<o>>[1] = o /\ <<o>> # <<>>
  OBVIOUS
<1>5. ~Removed(i, id) /\ Present(i, id) /\ Named(i, id, n)
  BY <1>2, <1>3, <1>4 DEF Removed, Present, Named
<1>6. StackOf(i[id]) = NoStack
  <2>1. RemovedLog(i[id]) = FALSE
    BY <1>2, <1>3, <1>4 DEF RemovedLog
  <2>2. Versions(i[id].branch) = <<>> /\ Cardinality(Deletes(i[id].branch)) = 0
    BY <1>1, NoVersions, NoDeletes
  <2> QED BY <2>1, <2>2 DEF StackOf, NoStack
<1>7. StackOf(j[id]) = NoStack
  <2>1. j[id].ops = <<>> /\ j[id].branch = <<>>
    BY DEF Absent, Present
  <2> QED BY <2>1, NoLogStack
<1>8. \A k \in Ids : StackOf(i[k]) = StackOf(j[k])
  BY <1>1, <1>6, <1>7
<1>9. Stacks(i) = Stacks(j)
  BY <1>8, StacksSame
<1>10. Absent(i)
  BY <1>1, <1>5 DEF Absent, Present
<1>11. \A k \in Ids : Versions(i[k].branch) = Versions(j[k].branch)
  <2>1. Versions(i[id].branch) = <<>> /\ Versions(j[id].branch) = <<>>
    BY <1>1, NoVersions DEF Absent
  <2> QED BY <1>1, <2>1
<1>12. Saved(i, q)
  BY <1>11, SavedSame
<1>13. Versions(i[id].branch) = <<>>
  BY <1>1, NoVersions
<1> QED BY <1>5, <1>9, <1>10, <1>12, <1>13 DEF i, Live

\* What is said of a dataset leaves its versions; a removal marks it removed.
LEMMA DatasetStack ==
  ASSUME NEW j \in Journal, Absent(j), NEW q \in Nat, Saved(j, q), NEW id \in Ids,
         NEW op \in DatasetOp, Present(j, id)
  PROVE  LET i == AppendDataset(j, id, op)
         IN  /\ Absent(i) /\ Saved(i, q)
             /\ op.type = "amend" => Stacks(i) = Stacks(j)
             /\ op.type = "remove" => Stacks(i) = [Stacks(j) EXCEPT ![id].removed = TRUE]
<1> DEFINE i == AppendDataset(j, id, op)
           o == j[id].ops
<1>1. /\ i \in Journal
      /\ \A k \in Ids : i[k].branch = j[k].branch
      /\ \A k \in Ids : Present(i, k) => Present(j, k)
      /\ \A k \in Ids \ {id} : i[k] = j[k]
  BY AppendDatasetFacts
<1>2. i[id].ops = Append(o, op)
  BY LogParts DEF AppendDataset, Journal, Log
<1>3. o \in Seq(DatasetOp) /\ o # <<>>
  BY LogParts DEF Present
<1> HIDE DEF i
<1>4. Absent(i)
  <2>1. Present(i, id)
    <3> HIDE DEF o
    <3> QED BY <1>2, <1>3 DEF Present
  <2> QED BY <1>1, <2>1 DEF Absent, Present
<1>5. Saved(i, q)
  BY <1>1, SavedSame
<1> HIDE DEF o
<1>6. DOMAIN Append(o, op) = 1 .. (Len(o) + 1) /\ DOMAIN o = 1 .. Len(o) /\ Len(o) \in Nat
  BY <1>3
<1>7. (\A x \in DOMAIN o : Append(o, op)[x] = o[x]) /\ Append(o, op)[Len(o) + 1] = op
  BY <1>3
<1>8. ASSUME op.type = "amend" PROVE Stacks(i) = Stacks(j)
  <2>1. RemovedLog(i[id]) = RemovedLog(j[id])
    <3>1. RemovedLog(j[id]) => RemovedLog(i[id])
      <4>1. \A x \in DOMAIN o : x \in DOMAIN Append(o, op)
        BY <1>6
      <4> QED BY <1>2, <1>7, <4>1 DEF RemovedLog, o
    <3>2. RemovedLog(i[id]) => RemovedLog(j[id])
      <4>1. ASSUME NEW x \in DOMAIN Append(o, op), Append(o, op)[x].type = "remove"
            PROVE  x \in DOMAIN o /\ o[x].type = "remove"
        <5>1. x # Len(o) + 1
          BY <1>7, <1>8, <4>1
        <5>2. x \in DOMAIN o
          BY <1>6, <4>1, <5>1
        <5> QED BY <1>7, <4>1, <5>2
      <4> QED BY <1>2, <4>1 DEF RemovedLog, o
    <3> QED BY <3>1, <3>2 DEF RemovedLog
  <2>2. StackOf(i[id]) = StackOf(j[id])
    BY <1>1, <2>1 DEF StackOf
  <2>3. \A k \in Ids : StackOf(i[k]) = StackOf(j[k])
    BY <1>1, <2>2
  <2> QED BY <2>3, StacksSame
<1>9. ASSUME op.type = "remove" PROVE Stacks(i) = [Stacks(j) EXCEPT ![id].removed = TRUE]
  <2>1. RemovedLog(i[id]) = TRUE
    <3>1. Len(o) + 1 \in DOMAIN Append(o, op)
      BY <1>6
    <3> QED BY <1>2, <1>7, <1>9, <3>1 DEF RemovedLog
  <2> DEFINE s == StackOf(i[id])
             t == StackOf(j[id])
  <2>2. /\ s = [x \in {"live", "deletes", "removed"} |-> s[x]]
        /\ t = [x \in {"live", "deletes", "removed"} |-> t[x]]
        /\ s.live = t.live /\ s.deletes = t.deletes
    BY <1>1 DEF StackOf
  <2>3. s.removed = TRUE
    BY <2>1 DEF StackOf
  <2>4. \A x \in Ids \ {id} : StackOf(i[x]) = StackOf(j[x])
    BY <1>1
  <2>5. Stacks(i) = [x \in Ids |-> StackOf(i[x])] /\ Stacks(j) = [x \in Ids |-> StackOf(j[x])]
    BY StacksAre
  <2>6. s = [t EXCEPT !.removed = TRUE]
    <3> HIDE DEF s, t
    <3> QED BY <2>2, <2>3
  <2>7. Stacks(i) = [Stacks(j) EXCEPT ![id] = s]
    BY <2>4, <2>5
  <2>8. Stacks(j)[id] = t
    BY <2>5
  <2> HIDE DEF s, t
  <2> QED BY <2>6, <2>7, <2>8
<1> QED BY <1>4, <1>5, <1>8, <1>9 DEF i

\* What a client that gives a name and holds nothing needs.
LEMMA HeldNothing ==
  ASSUME NEW r, NEW j, Goes(r) \notin {"new", "failed", "put"}
  PROVE  Held(r, j)
BY DEF Held

\* A step that writes the journal j to memory keeps VInv.
LEMMA WrittenHeld ==
  ASSUME IInv, ReadInv, VInv, OneClient, NEW c \in Clients, NEW j, NEW then, NEW id, NEW n, NEW e,
         Write(c, j, then, id, n, e), paths' \in Nat, paths <= paths',
         Absent(j), Saved(j, paths'),
         Held([pc |-> "save", then |-> then, id |-> id, name |-> n, evt |-> e], j)
  PROVE  VInv' /\ mem' = j /\ Stacks(disk') = Stacks(disk)
<1> DEFINE r == [pc |-> "save", then |-> then, id |-> id, name |-> n, evt |-> e]
<1>1. mem' = j /\ disk' = disk /\ req' = [req EXCEPT ![c] = r]
  BY DEF Write
<1>2. req \in [Clients -> Req] /\ paths \in Nat
  BY DEF IInv, TypeOK
<1> HIDE DEF r
<1>3. \A d \in Clients : req'[d] = r
  BY <1>1, <1>2 DEF OneClient
<1>4. Saved(disk, paths')
  <2> SUFFICES ASSUME NEW k \in Ids, NEW m \in DOMAIN Versions(disk[k].branch)
               PROVE  Versions(disk[k].branch)[m] <= paths'
    BY DEF Saved
  <2>1. Versions(disk[k].branch)[m] <= paths
    BY DEF VInv, Saved
  <2>2. Versions(disk[k].branch) \in Seq(Nat)
    BY BranchTypes DEF ReadInv
  <2>3. Versions(disk[k].branch)[m] \in Nat
    BY <2>2
  <2> QED BY <1>2, <2>1, <2>3
<1>5. Absent(j) /\ Absent(disk) /\ \A d \in Clients : Held(r, j)
  BY DEF VInv, r
<1> QED BY <1>1, <1>3, <1>4, <1>5 DEF VInv, Absent, Saved, Present

\* What a step of the logbook is for the stacks.
Stacked == [Abstract!Next]_<<Stacks(mem), Stacks(disk)>>

\* A step after which every stack is what it was.
LEMMA StackedSame ==
  ASSUME Stacks(mem') = Stacks(mem), Stacks(disk') = Stacks(disk)
  PROVE  Stacked
BY DEF Stacked

\* A step that puts a version nobody has on one stack.
LEMMA StackedGrow ==
  ASSUME NEW d \in Ids, NEW p \in 1 .. MaxVersions, Stacks(disk') = Stacks(disk),
         \A x \in Ids : \A i \in 1 .. Len(Stacks(mem)[x].live) : Stacks(mem)[x].live[i] # p,
         Stacks(mem') = [Stacks(mem) EXCEPT ![d].live = Append(@, p)]
  PROVE  Stacked
BY DEF Stacked, Abstract!Next, Abstract!Grow, Abstract!Fresh

\* A step that takes versions off the top of one stack, and counts a delete.
LEMMA StackedShrink ==
  ASSUME NEW d \in Ids, NEW k \in 0 .. Len(Stacks(mem)[d].live), Stacks(disk') = Stacks(disk),
         Stacks(mem') = [Stacks(mem) EXCEPT ![d].live = SubSeq(@, 1, k),
                                            ![d].deletes = @ + 1]
  PROVE  Stacked
BY DEF Stacked, Abstract!Next, Abstract!Shrink

\* A step that marks one dataset removed.
LEMMA StackedRemove ==
  ASSUME NEW d \in Ids, Stacks(disk') = Stacks(disk),
         Stacks(mem') = [Stacks(mem) EXCEPT ![d].removed = TRUE]
  PROVE  Stacked
BY DEF Stacked, Abstract!Next, Abstract!Remove

\* A step that empties a stack that had no versions, was removed or shares its
\* name.
LEMMA StackedForget ==
  ASSUME NEW d \in Ids, Stacks(disk') = Stacks(disk),
         Stacks(mem)[d].live = <<>> \/ Stacks(mem)[d].removed \/ d \in Shared(mem),
         Stacks(mem') = [Stacks(mem) EXCEPT ![d] = NoStack]
  PROVE  Stacked
BY DEF Stacked, Abstract!Next, Abstract!Forget, Abstract!None, NoStack

\* A step that makes the stacks of memory stable, or does not.
LEMMA StackedPersist ==
  ASSUME mem' = mem, disk' = mem \/ disk' = disk
  PROVE  Stacked
BY DEF Stacked, Abstract!Next, Abstract!Persist

\* A step back to the stable stacks.
LEMMA StackedRecover ==
  ASSUME mem' = disk, disk' = disk
  PROVE  Stacked
BY DEF Stacked, Abstract!Next, Abstract!Recover

\* What the steps below use of the state.
LEMMA StackState ==
  ASSUME IInv, ReadInv, VInv
  PROVE  /\ mem \in Journal /\ disk \in Journal /\ runs \in Nat /\ paths \in Nat /\ used \in Nat
         /\ JournalOK(mem, runs) /\ Absent(mem) /\ Saved(mem, paths) /\ paths <= paths
         /\ \A c \in Clients : Held(req[c], mem)
BY DEF IInv, TypeOK, ReadInv, VInv

\* Recording an operation that is no commit changes no stack.
LEMMA PlainWriteStacks ==
  ASSUME IInv, ReadInv, VInv, OneClient, NEW c \in Clients, NEW id \in Ids, Present(mem, id),
         NEW op \in Recorded, op.model # "commit", NEW then, NEW x, NEW n, NEW e,
         Write(c, AppendBranch(mem, id, op), then, x, n, e), paths' = paths,
         \/ then \notin {"new", "failed", "put"}
         \/ then = "put" /\ x = id /\ op = Push(1)
         \/ then = "failed" /\ x = id /\ Live(mem, id) /\ n \in Names /\ Named(mem, id, n)
              /\ Versions(mem[id].branch) = <<>>
  PROVE  VInv' /\ Stacked
<1> DEFINE j == AppendBranch(mem, id, op)
           r == [pc |-> "save", then |-> then, id |-> x, name |-> n, evt |-> e]
<1>1. /\ mem \in Journal /\ paths \in Nat /\ JournalOK(mem, runs)
      /\ Absent(mem) /\ Saved(mem, paths) /\ paths <= paths
  BY StackState
<1>2. /\ j \in Journal /\ Absent(j)
      /\ \A k \in Ids : j[k].ops = mem[k].ops
      /\ \A k \in Ids : Versions(j[k].branch) = Versions(mem[k].branch)
      /\ j[id].branch = Append(mem[id].branch, op)
      /\ Stacks(j) = Stacks(mem)
  BY <1>1, PlainStack
<1>3. Goes(r) = then /\ r.id = x /\ r.name = n
  BY DEF Goes
<1>4. mem[id].branch \in Seq(Recorded)
  BY <1>1, BranchTypes
<1>5. Write(c, j, then, x, n, e)
  OBVIOUS
<1> HIDE DEF j
<1>6. Saved(j, paths)
  BY <1>1, <1>2, SavedSame
<1>7. Held(r, j)
  <2> HIDE DEF r
  <2>1. CASE then \notin {"new", "failed", "put"}
    BY <1>3, <2>1, HeldNothing
  <2>2. CASE then = "put" /\ x = id /\ op = Push(1)
    <3>1. j[id].branch # <<>> /\ j[id].branch[Len(j[id].branch)] = op
      BY <1>2, <1>4
    <3> QED BY <1>3, <2>2, <3>1 DEF Held
  <2>3. CASE then = "failed" /\ x = id /\ Live(mem, id) /\ n \in Names /\ Named(mem, id, n)
              /\ Versions(mem[id].branch) = <<>>
    <3>1. Live(j, id) /\ Named(j, id, n)
      BY <1>2, <2>3 DEF Live, Present, Removed, Named
    <3> QED BY <1>2, <1>3, <2>3, <3>1 DEF Held
  <2> QED BY <2>1, <2>2, <2>3
<1>8. paths' \in Nat /\ paths <= paths' /\ Saved(j, paths')
  BY <1>1, <1>6
<1>9. VInv' /\ mem' = j /\ Stacks(disk') = Stacks(disk)
  BY <1>2, <1>5, <1>7, <1>8, WrittenHeld DEF r
<1> QED BY <1>2, <1>9, StackedSame

\* Recording something that leaves the client with no log to hold.
LEMMA FreeWrite ==
  ASSUME IInv, ReadInv, VInv, OneClient, NEW c \in Clients, NEW j, NEW then, NEW id, NEW n, NEW e,
         then \notin {"new", "failed", "put"}, Write(c, j, then, id, n, e),
         paths' \in Nat, paths <= paths', Absent(j), Saved(j, paths')
  PROVE  VInv' /\ mem' = j /\ Stacks(disk') = Stacks(disk)
<1> DEFINE r == [pc |-> "save", then |-> then, id |-> id, name |-> n, evt |-> e]
<1>1. Goes(r) = then
  BY DEF Goes
<1>2. Held(r, j)
  <2> HIDE DEF r
  <2> QED BY <1>1, HeldNothing
<1> QED BY <1>2, WrittenHeld DEF r

\* Saving a version, with the run before it or without.
LEMMA VersionSaveStacks ==
  ASSUME IInv, ReadInv, VInv, OneClient, NEW c \in Clients, NEW id \in Ids, Present(mem, id),
         NEW b \in BOOLEAN, VersionSave(c, id, b)
  PROVE  VInv' /\ Stacked
<1> DEFINE run == IF b THEN runs + 1 ELSE 0
           ran == IF b THEN AppendBranch(mem, id, Run(run)) ELSE mem
           p == paths + 1
           j == AppendBranch(ran, id, Commit(p, run))
<1>1. /\ mem \in Journal /\ paths \in Nat /\ runs \in Nat /\ JournalOK(mem, runs)
      /\ Absent(mem) /\ Saved(mem, paths)
  BY StackState
<1>2. /\ paths' = p /\ p \in Nat /\ paths < p /\ p <= MaxVersions /\ run \in Nat
      /\ \E e : Write(c, j, "idle", id, NoName, e)
  BY <1>1, BoundsAssumption DEF VersionSave
<1>3. /\ ran \in Journal /\ Absent(ran) /\ Saved(ran, paths) /\ Present(ran, id)
      /\ Stacks(ran) = Stacks(mem) /\ \E n : JournalOK(ran, n)
  <2>1. CASE b
    <3> DEFINE op == Run(runs + 1)
    <3>1. op \in Recorded /\ op.model # "commit"
      BY <1>1, RecordedOps DEF Run
    <3> HIDE DEF op
    <3>2. /\ AppendBranch(mem, id, op) \in Journal /\ Absent(AppendBranch(mem, id, op))
          /\ \A k \in Ids : AppendBranch(mem, id, op)[k].ops = mem[k].ops
          /\ \A k \in Ids : Versions(AppendBranch(mem, id, op)[k].branch) = Versions(mem[k].branch)
          /\ Stacks(AppendBranch(mem, id, op)) = Stacks(mem)
      BY <1>1, <3>1, PlainStack
    <3>3. ran = AppendBranch(mem, id, op)
      BY <2>1 DEF op
    <3>4. JournalOK(ran, runs + 1)
      BY <1>1, <2>1, RunAppendOK
    <3> HIDE DEF ran
    <3>5. Saved(ran, paths)
      BY <1>1, <3>2, <3>3, SavedSame
    <3>6. Present(ran, id)
      BY <3>2, <3>3 DEF Present
    <3> QED BY <3>2, <3>3, <3>4, <3>5, <3>6
  <2>2. CASE ~b
    BY <1>1, <2>2
  <2> QED BY <2>1, <2>2
<1>4. PICK e : Write(c, j, "idle", id, NoName, e)
  BY <1>2
<1>5. PICK n : JournalOK(ran, n)
  BY <1>3
<1> HIDE DEF ran, run, p
<1>6. /\ Absent(j) /\ Saved(j, p)
      /\ Stacks(j) = [Stacks(ran) EXCEPT ![id].live = Append(@, p)]
  BY <1>1, <1>2, <1>3, <1>5, CommitStack
<1> HIDE DEF j
<1>7. paths' \in Nat /\ paths <= paths' /\ Saved(j, paths')
  BY <1>1, <1>2, <1>6
<1>8. VInv' /\ mem' = j /\ Stacks(disk') = Stacks(disk)
  BY <1>4, <1>6, <1>7, FreeWrite
<1>9. p \in 1 .. MaxVersions
  BY <1>1, <1>2, BoundsAssumption
<1>10. ASSUME NEW x \in Ids, NEW i \in 1 .. Len(Stacks(mem)[x].live)
       PROVE  Stacks(mem)[x].live[i] # p
  <2> DEFINE v == Versions(mem[x].branch)
  <2>1. Stacks(mem)[x].live = v
    BY DEF Stacks
  <2>2. v \in Seq(Nat) /\ i \in DOMAIN v /\ v[i] \in Nat
    <3>1. v \in Seq(Nat)
      BY <1>1, BranchTypes
    <3> HIDE DEF v
    <3> QED BY <2>1, <3>1
  <2>3. v[i] <= paths
    BY <1>1, <2>2 DEF Saved
  <2> HIDE DEF v
  <2> QED BY <1>1, <1>2, <2>1, <2>2, <2>3
<1>11. Stacks(mem') = [Stacks(mem) EXCEPT ![id].live = Append(@, p)]
  BY <1>3, <1>6, <1>8
<1> QED BY <1>8, <1>9, <1>10, <1>11, StackedGrow

\* Journal.RemoveLog, where the first log with the name has no versions, is
\* marked removed, or shares the name.
LEMMA RemoveWriteStacks ==
  ASSUME IInv, ReadInv, VInv, OneClient, NEW c \in Clients, NEW n, NEW then, NEW m,
         then \notin {"new", "failed", "put"}, paths' = paths,
         Write(c, RemoveLog(mem, n), then, 0, m, NoEvent),
         \A g \in Ids :
            /\ Present(mem, g) /\ Named(mem, g, n)
            /\ \A k \in Ids : Present(mem, k) /\ Named(mem, k, n) => g <= k
            => Versions(mem[g].branch) = <<>> \/ Removed(mem, g) \/ g \in Shared(mem)
  PROVE  VInv' /\ Stacked
<1> DEFINE j == RemoveLog(mem, n)
<1>1. mem \in Journal /\ paths \in Nat /\ Absent(mem) /\ Saved(mem, paths) /\ paths <= paths
  BY StackState
<1>2. /\ Absent(j) /\ Saved(j, paths)
      /\ \/ Stacks(j) = Stacks(mem)
         \/ \E g \in Ids :
              /\ Present(mem, g) /\ Named(mem, g, n)
              /\ \A k \in Ids : Present(mem, k) /\ Named(mem, k, n) => g <= k
              /\ Stacks(j) = [Stacks(mem) EXCEPT ![g] = NoStack]
  BY <1>1, RemoveStack
<1> HIDE DEF j
<1>3. paths' \in Nat /\ paths <= paths' /\ Saved(j, paths')
  BY <1>1, <1>2
<1>4. Write(c, j, then, 0, m, NoEvent)
  BY DEF j
<1>5. VInv' /\ mem' = j /\ Stacks(disk') = Stacks(disk)
  BY <1>2, <1>3, <1>4, FreeWrite
<1>6. CASE Stacks(j) = Stacks(mem)
  BY <1>5, <1>6, StackedSame
<1>7. ASSUME NEW g \in Ids, Present(mem, g), Named(mem, g, n),
             \A k \in Ids : Present(mem, k) /\ Named(mem, k, n) => g <= k,
             Stacks(j) = [Stacks(mem) EXCEPT ![g] = NoStack]
      PROVE  Stacked
  <2>1. Versions(mem[g].branch) = <<>> \/ Removed(mem, g) \/ g \in Shared(mem)
    BY <1>7
  <2>2. Stacks(mem)[g].live = Versions(mem[g].branch) /\ Stacks(mem)[g].removed = Removed(mem, g)
    BY DEF Stacks
  <2>3. Stacks(mem)[g].live = <<>> \/ Stacks(mem)[g].removed \/ g \in Shared(mem)
    BY <2>1, <2>2
  <2> QED BY <1>5, <1>7, <2>3, StackedForget
<1> QED BY <1>2, <1>5, <1>6, <1>7

\* The removal of a stray log takes a log without versions, or a removed one.
LEMMA RemoveStrayStacks ==
  ASSUME IInv, ReadInv, VInv, OneClient, NEW c \in Clients, NEW n \in Names, RemoveStray(c, n)
  PROVE  VInv' /\ Stacked
<1>1. PICK h \in HeadRef(mem, n) : Blank(mem, h)
  BY DEF RemoveStray
<1>2. /\ h \in Ids /\ Present(mem, h) /\ Named(mem, h, n)
      /\ \A k \in Ids : Live(mem, k) /\ Named(mem, k, n) => h <= k
  BY <1>1 DEF HeadRef, First, Live
<1>3. Versions(mem[h].branch) = <<>>
  <2>1. mem[h].branch \in Seq(Op) /\ Len(mem[h].branch) = 1
    BY <1>1, <1>2, StackState, LogParts DEF Blank
  <2>2. mem[h].branch[1] = BranchInit
    BY <1>2 DEF IInv, InitKept
  <2>3. mem[h].branch = <<mem[h].branch[1]>>
    BY <2>1
  <2> HIDE DEF BranchInit
  <2> QED BY <2>2, <2>3, NoVersions
<1>4. ASSUME NEW g \in Ids, Present(mem, g), Named(mem, g, n),
             \A k \in Ids : Present(mem, k) /\ Named(mem, k, n) => g <= k
      PROVE  Versions(mem[g].branch) = <<>> \/ Removed(mem, g) \/ g \in Shared(mem)
  <2>1. CASE Removed(mem, g)
    BY <2>1
  <2>2. CASE ~Removed(mem, g)
    <3>1. h <= g /\ g <= h /\ g \in Int /\ h \in Int
      BY <1>2, <1>4, <2>2, DatasetsAssumption DEF Live, Ids
    <3>2. g = h
      BY <3>1
    <3> QED BY <1>3, <3>2
  <2> QED BY <2>1, <2>2
<1>5. Write(c, RemoveLog(mem, n), "init", 0, n, NoEvent) /\ paths' = paths
  BY DEF RemoveStray
<1> QED BY <1>4, <1>5, RemoveWriteStacks

\* Giving a new dataset up takes out its log, or one it shares the name with,
\* or a removed one.
LEMMA CleanupNewStacks ==
  ASSUME IInv, ReadInv, VInv, OneClient, NEW c \in Clients, CleanupNew(c)
  PROVE  VInv' /\ Stacked
<1> DEFINE n == req[c].name
           h == req[c].id
<1>1. Goes(req[c]) \in {"new", "failed"}
  BY DEF CleanupNew, Goes, At
<1>2. /\ h \in Ids /\ n \in Names /\ Live(mem, h) /\ Named(mem, h, n)
      /\ Versions(mem[h].branch) = <<>>
  BY <1>1, StackState DEF Held
<1>3. Write(c, RemoveLog(mem, n), "idle", 0, NoName, NoEvent) /\ paths' = paths
  BY DEF CleanupNew
<1> HIDE DEF n, h
<1>4. ASSUME NEW g \in Ids, Present(mem, g), Named(mem, g, n),
             \A k \in Ids : Present(mem, k) /\ Named(mem, k, n) => g <= k
      PROVE  Versions(mem[g].branch) = <<>> \/ Removed(mem, g) \/ g \in Shared(mem)
  <2>1. CASE Removed(mem, g)
    BY <2>1
  <2>2. CASE g = h
    BY <1>2, <2>2
  <2>3. CASE ~Removed(mem, g) /\ g # h
    <3>1. Live(mem, g)
      BY <1>4, <2>3 DEF Live
    <3>2. h \in Ids \ {g}
      BY <1>2, <2>3
    <3> QED BY <1>2, <1>4, <3>1, <3>2 DEF Shared
  <2> QED BY <2>1, <2>2, <2>3
<1> QED BY <1>3, <1>4, RemoveWriteStacks

\* A new dataset, and what the client that made it holds.
LEMMA WriteDatasetInitStacks ==
  ASSUME IInv, ReadInv, VInv, OneClient, NEW c \in Clients, NEW n \in Names, WriteDatasetInit(c, n)
  PROVE  VInv' /\ Stacked
<1>1. /\ mem \in Journal /\ paths \in Nat /\ used \in Nat /\ Absent(mem) /\ Saved(mem, paths)
      /\ paths <= paths
  BY StackState
<1>2. PICK then \in {"new", "idle"} :
        Write(c, NewDataset(mem, used + 1, n), then, used + 1, n, NoEvent)
  BY DEF WriteDatasetInit
<1>3. paths' = paths /\ used < MaxDatasets
  BY DEF WriteDatasetInit
<1> DEFINE id == used + 1
           j == NewDataset(mem, id, n)
           r == [pc |-> "save", then |-> then, id |-> id, name |-> n, evt |-> NoEvent]
<1>4. id \in Ids /\ ~Present(mem, id)
  <2>1. id \in Ids
    BY <1>1, <1>3, DatasetsAssumption DEF Ids
  <2>2. Present(mem, id) => id <= used
    BY <2>1 DEF IInv, Allotted
  <2> QED BY <1>1, <2>1, <2>2
<1>5. Write(c, j, then, id, n, NoEvent)
  BY <1>2
<1>6. Goes(r) = then /\ r.id = id /\ r.name = n
  BY DEF Goes
<1> HIDE DEF id
<1>7. /\ Absent(j) /\ Saved(j, paths) /\ Stacks(j) = Stacks(mem)
      /\ Live(j, id) /\ Named(j, id, n) /\ Versions(j[id].branch) = <<>>
  BY <1>1, <1>4, NewStack
<1> HIDE DEF j
<1>8. Held(r, j)
  <2> HIDE DEF r
  <2> QED BY <1>2, <1>4, <1>6, <1>7 DEF Held
<1>9. paths' \in Nat /\ paths <= paths' /\ Saved(j, paths')
  BY <1>1, <1>3, <1>7
<1>10. VInv' /\ mem' = j /\ Stacks(disk') = Stacks(disk)
  BY <1>5, <1>7, <1>8, <1>9, WrittenHeld DEF r
<1> QED BY <1>7, <1>10, StackedSame

\* Renaming a dataset, and marking it removed.
LEMMA DatasetWriteStacks ==
  ASSUME IInv, ReadInv, VInv, OneClient, NEW c \in Clients, NEW id \in Ids, Present(mem, id),
         NEW op \in DatasetOp, op.type \in {"amend", "remove"}, paths' = paths,
         Write(c, AppendDataset(mem, id, op), "idle", 0, NoName, NoEvent)
  PROVE  VInv' /\ Stacked
<1> DEFINE j == AppendDataset(mem, id, op)
<1>1. mem \in Journal /\ paths \in Nat /\ Absent(mem) /\ Saved(mem, paths) /\ paths <= paths
  BY StackState
<1>2. /\ Absent(j) /\ Saved(j, paths)
      /\ op.type = "amend" => Stacks(j) = Stacks(mem)
      /\ op.type = "remove" => Stacks(j) = [Stacks(mem) EXCEPT ![id].removed = TRUE]
  BY <1>1, DatasetStack
<1>3. Write(c, j, "idle", 0, NoName, NoEvent)
  OBVIOUS
<1> HIDE DEF j
<1>4. paths' \in Nat /\ paths <= paths' /\ Saved(j, paths')
  BY <1>1, <1>2
<1>5. VInv' /\ mem' = j /\ Stacks(disk') = Stacks(disk)
  BY <1>2, <1>3, <1>4, FreeWrite
<1>6. CASE op.type = "amend"
  BY <1>2, <1>5, <1>6, StackedSame
<1>7. CASE op.type = "remove"
  BY <1>2, <1>5, <1>7, StackedRemove
<1> QED BY <1>5, <1>6, <1>7

\* Deleting versions.
LEMMA VersionDeleteStacks ==
  ASSUME IInv, ReadInv, VInv, OneClient, NEW c \in Clients, NEW id \in Ids, Present(mem, id),
         NEW n, NEW k \in Int, NEW then \in {"idle", "drop"}, VersionDelete(c, id, n, k, then)
  PROVE  VInv' /\ Stacked
<1> DEFINE j == AppendBranch(mem, id, Delete(k))
<1>1. /\ mem \in Journal /\ paths \in Nat /\ JournalOK(mem, runs)
      /\ Absent(mem) /\ Saved(mem, paths) /\ paths <= paths
  BY StackState
<1>2. Write(c, j, then, id, n, NoEvent) /\ paths' = paths
  BY DEF VersionDelete
<1>3. /\ Absent(j) /\ Saved(j, paths)
      /\ \E m \in 0 .. Len(Stacks(mem)[id].live) :
           Stacks(j) = [Stacks(mem) EXCEPT ![id].live = SubSeq(@, 1, m), ![id].deletes = @ + 1]
  BY <1>1, DeleteStack
<1> HIDE DEF j
<1>4. paths' \in Nat /\ paths <= paths' /\ Saved(j, paths')
  BY <1>1, <1>2, <1>3
<1>5. then \notin {"new", "failed", "put"}
  OBVIOUS
<1>6. VInv' /\ mem' = j /\ Stacks(disk') = Stacks(disk)
  BY <1>2, <1>3, <1>4, <1>5, FreeWrite
<1> QED BY <1>3, <1>6, StackedShrink

\* A client that is done holds nothing.
LEMMA IdleHeld == \A j : Held(Idle, j)
<1>1. Goes(Idle) \notin {"new", "failed", "put"}
  BY DEF Goes, Idle
<1> HIDE DEF Idle
<1> QED BY <1>1, HeldNothing

\* A client that has nothing left to do leaves the journal as it is.
LEMMA DoneStacks ==
  ASSUME IInv, ReadInv, VInv, OneClient, NEW c \in Clients, req' = [req EXCEPT ![c] = Idle],
         mem' = mem, disk' = disk, paths' = paths
  PROVE  VInv' /\ Stacked
<1>1. req \in [Clients -> Req]
  BY DEF IInv, TypeOK
<1> HIDE DEF Idle
<1>2. \A d \in Clients : req'[d] = Idle
  BY <1>1 DEF OneClient
<1>3. \A d \in Clients : Held(req'[d], mem)
  BY <1>2, IdleHeld
<1>4. VInv'
  BY <1>3 DEF VInv
<1> QED BY <1>4, StackedSame

\* Book.save writes the journal of memory to the file, or does not.
LEMMA SaveStacks ==
  ASSUME IInv, ReadInv, VInv, OneClient, NEW c \in Clients, Save(c)
  PROVE  VInv' /\ Stacked
<1>1. req \in [Clients -> Req] /\ req[c].pc = "save"
  BY DEF IInv, TypeOK, Save, At
<1>2. /\ mem' = mem /\ paths' = paths /\ (disk' = mem \/ disk' = disk)
      /\ req' = [req EXCEPT ![c] = Resume(req[c])]
  BY DEF Save, FsPut
<1> DEFINE r == req[c]
<1>3. r \in Req /\ r.pc = "save" /\ Held(r, mem)
  BY <1>1 DEF VInv
<1> HIDE DEF r
<1>4. Held(Resume(r), mem)
  <2>1. CASE r.then = "idle"
    <3>1. Resume(r) = Idle
      BY <2>1 DEF Resume
    <3> HIDE DEF Idle
    <3> QED BY <3>1, IdleHeld
  <2>2. CASE r.then # "idle"
    <3> DEFINE s == [r EXCEPT !.pc = r.then, !.then = "idle", !.evt = NoEvent]
    <3>1. Resume(r) = s
      BY <2>2 DEF Resume
    <3>2. r.then \in PCs
      BY <1>3 DEF Req
    <3>3. s.pc = r.then /\ s.id = r.id /\ s.name = r.name
      BY <1>3 DEF Req
    <3>4. r.then # "save"
      BY <3>2 DEF PCs
    <3> HIDE DEF s
    <3>5. Goes(s) = r.then /\ Goes(r) = r.then
      BY <1>3, <3>3, <3>4 DEF Goes
    <3> QED BY <1>3, <3>1, <3>3, <3>5 DEF Held
  <2> QED BY <2>1, <2>2
<1>5. \A d \in Clients : req'[d] = Resume(r)
  BY <1>1, <1>2 DEF OneClient, r
<1>6. \A d \in Clients : Held(req'[d], mem)
  BY <1>4, <1>5
<1>7. VInv'
  BY <1>2, <1>6 DEF VInv
<1> QED BY <1>2, <1>7, StackedPersist

\* A restart goes back to the file, and no client holds anything.
LEMMA RestartStacks ==
  ASSUME IInv, ReadInv, VInv, Restart
  PROVE  VInv' /\ Stacked
<1>1. mem' = disk /\ disk' = disk /\ paths' = paths /\ \A d \in Clients : req'[d] = Idle
  BY DEF Restart
<1> HIDE DEF Idle
<1>2. \A d \in Clients : Held(req'[d], mem')
  BY <1>1, IdleHeld
<1>3. VInv'
  BY <1>1, <1>2 DEF VInv
<1> QED BY <1>1, <1>3, StackedRecover

\* The rollback of a push takes that push off, and no stack changes.
LEMMA PushRefusedStacks ==
  ASSUME IInv, ReadInv, VInv, OneClient, NEW c \in Clients, PushRefused(c)
  PROVE  VInv' /\ Stacked
<1>1. CASE Present(mem, req[c].id) /\ Write(c, DropLast(mem, req[c].id), "idle", 0, NoName, NoEvent)
  <2> DEFINE id == req[c].id
             j == DropLast(mem, id)
  <2>1. /\ mem \in Journal /\ paths \in Nat /\ JournalOK(mem, runs)
        /\ Absent(mem) /\ Saved(mem, paths) /\ paths <= paths
    BY StackState
  <2>2. Goes(req[c]) = "put" /\ Held(req[c], mem)
    BY StackState DEF PushRefused, At, Goes
  <2>3. id \in Ids /\ mem[id].branch # <<>> /\ mem[id].branch[Len(mem[id].branch)] = Push(1)
    BY <2>2 DEF Held
  <2>4. paths' = paths /\ Write(c, j, "idle", 0, NoName, NoEvent)
    BY <1>1 DEF PushRefused
  <2> HIDE DEF id
  <2>5. /\ Absent(j) /\ Stacks(j) = Stacks(mem)
        /\ \A k \in Ids : Versions(j[k].branch) = Versions(mem[k].branch)
    BY <2>1, <2>3, DropStack
  <2> HIDE DEF j
  <2>6. Saved(j, paths)
    BY <2>1, <2>5, SavedSame
  <2>7. paths' \in Nat /\ paths <= paths' /\ Saved(j, paths')
    BY <2>1, <2>4, <2>6
  <2>8. VInv' /\ mem' = j /\ Stacks(disk') = Stacks(disk)
    BY <2>4, <2>5, <2>7, FreeWrite
  <2> QED BY <2>5, <2>8, StackedSame
<1>2. CASE req' = [req EXCEPT ![c] = Idle] /\ UNCHANGED book
  BY <1>2, DoneStacks DEF PushRefused, book
<1> QED BY <1>1, <1>2 DEF PushRefused

\* A run, of an old dataset or of a new one, which its client may give up.
LEMMA WriteTransformRunStacks ==
  ASSUME IInv, ReadInv, VInv, OneClient, NEW c \in Clients, NEW n \in Names,
         WriteTransformRun(c, n)
  PROVE  VInv' /\ Stacked
<1> DEFINE op == Run(runs + 1)
<1>1. op \in Recorded /\ op.model # "commit"
  BY StackState, RecordedOps DEF Run
<1>2. ASSUME NEW id, NEW then, TransformRun(c, id, then)
      PROVE  /\ Write(c, AppendBranch(mem, id, op), then, id, req[c].name, NoEvent)
             /\ paths' = paths
  BY <1>2 DEF TransformRun
<1> HIDE DEF op
<1>3. CASE \E id \in HeadRef(mem, n) : TransformRun(c, id, "idle")
  <2>1. PICK id \in HeadRef(mem, n) : TransformRun(c, id, "idle")
    BY <1>3
  <2>2. id \in Ids /\ Present(mem, id)
    BY HeadRefFacts
  <2>3. /\ Write(c, AppendBranch(mem, id, op), "idle", id, req[c].name, NoEvent)
        /\ paths' = paths
    BY <1>2, <2>1
  <2>4. "idle" \notin {"new", "failed", "put"}
    OBVIOUS
  <2> QED BY <1>1, <2>2, <2>3, <2>4, PlainWriteStacks
<1>4. CASE At(c, "new") /\ Present(mem, req[c].id) /\ TransformRun(c, req[c].id, "failed")
  <2> DEFINE id == req[c].id
             m == req[c].name
  <2>1. Goes(req[c]) = "new" /\ Held(req[c], mem)
    BY <1>4, StackState DEF At, Goes
  <2>2. /\ id \in Ids /\ Present(mem, id) /\ Live(mem, id) /\ m \in Names /\ Named(mem, id, m)
        /\ Versions(mem[id].branch) = <<>>
    BY <1>4, <2>1 DEF Held
  <2>3. Write(c, AppendBranch(mem, id, op), "failed", id, m, NoEvent) /\ paths' = paths
    BY <1>2, <1>4
  <2> HIDE DEF id, m
  <2> QED BY <1>1, <2>2, <2>3, PlainWriteStacks
<1> QED BY <1>3, <1>4 DEF WriteTransformRun

\* A push and an unpublish are recorded without a change of the versions.
LEMMA RemoteWriteStacks ==
  ASSUME IInv, ReadInv, VInv, OneClient, NEW c \in Clients, NEW n \in Names,
         WriteRemotePush(c, n) \/ WriteRemoteDelete(c, n)
  PROVE  VInv' /\ Stacked
<1>1. CASE WriteRemotePush(c, n)
  <2>1. PICK id \in HeadRef(mem, n) :
          Write(c, AppendBranch(mem, id, Push(1)), "put", id, NoName, NoEvent)
    BY <1>1 DEF WriteRemotePush
  <2>2. id \in Ids /\ Present(mem, id) /\ paths' = paths
    BY <1>1, HeadRefFacts DEF WriteRemotePush
  <2>3. Push(1) \in Recorded /\ Push(1).model # "commit"
    BY RecordedOps DEF Push
  <2> DEFINE op == Push(1)
  <2>4. /\ op \in Recorded /\ op.model # "commit" /\ op = Push(1)
        /\ Write(c, AppendBranch(mem, id, op), "put", id, NoName, NoEvent)
    BY <2>1, <2>3
  <2> HIDE DEF op
  <2> QED BY <2>2, <2>4, PlainWriteStacks
<1>2. CASE WriteRemoteDelete(c, n)
  <2>1. PICK id \in HeadRef(mem, n), k \in 0 .. MaxOps :
          Write(c, AppendBranch(mem, id, Unpush(k)), "idle", 0, NoName, NoEvent)
    BY <1>2 DEF WriteRemoteDelete
  <2>2. id \in Ids /\ Present(mem, id) /\ paths' = paths /\ k \in Int
    BY <1>2, HeadRefFacts, BoundsAssumption DEF WriteRemoteDelete
  <2> DEFINE op == Unpush(k)
  <2>3. op \in Recorded /\ op.model # "commit"
    BY <2>2, RecordedOps DEF Unpush
  <2>4. /\ Write(c, AppendBranch(mem, id, op), "idle", 0, NoName, NoEvent)
        /\ "idle" \notin {"new", "failed", "put"}
    BY <2>1
  <2> HIDE DEF op
  <2> QED BY <2>2, <2>3, <2>4, PlainWriteStacks
<1> QED BY <1>1, <1>2

\* Every step on a name is a step of the stacks, or changes none of them.
LEMMA NameStacks ==
  ASSUME IInv, ReadInv, VInv, OneClient, NEW c \in Clients, NEW n \in Names, NameStep(c, n)
  PROVE  VInv' /\ Stacked
<1>1. CASE RemoveStray(c, n)
  BY <1>1, RemoveStrayStacks
<1>2. CASE WriteDatasetInit(c, n)
  BY <1>2, WriteDatasetInitStacks
<1>3. CASE WriteDatasetDelete(c, n)
  <2> DEFINE op == [type |-> "remove", name |-> NoName]
  <2>1. PICK id \in HeadRef(mem, n) :
          Write(c, AppendDataset(mem, id, op), "idle", 0, NoName, NoEvent)
    BY <1>3 DEF WriteDatasetDelete
  <2>2. op \in DatasetOp /\ op.type \in {"amend", "remove"}
    BY DEF DatasetOp
  <2>3. id \in Ids /\ Present(mem, id) /\ paths' = paths
    BY <1>3, HeadRefFacts DEF WriteDatasetDelete
  <2> HIDE DEF op
  <2> QED BY <2>1, <2>2, <2>3, DatasetWriteStacks
<1>4. CASE WriteVersionSave(c, n)
  <2>1. PICK b \in BOOLEAN :
          \/ \E id \in HeadRef(mem, n) : VersionSave(c, id, b)
          \/ At(c, "new") /\ Present(mem, req[c].id) /\ VersionSave(c, req[c].id, b)
    BY <1>4 DEF WriteVersionSave
  <2>2. CASE \E id \in HeadRef(mem, n) : VersionSave(c, id, b)
    BY <2>2, HeadRefFacts, VersionSaveStacks
  <2>3. CASE At(c, "new") /\ Present(mem, req[c].id) /\ VersionSave(c, req[c].id, b)
    BY <2>3, HeldLog, VersionSaveStacks
  <2> QED BY <2>1, <2>2, <2>3
<1>5. CASE WriteTransformRun(c, n)
  BY <1>5, WriteTransformRunStacks
<1>6. CASE WriteVersionDelete(c, n)
  <2>1. PICK id \in HeadRef(mem, n) :
          \/ \E k \in 1 .. MaxOps : VersionDelete(c, id, n, k, "idle")
          \/ VersionDelete(c, id, n, -1, "drop")
    BY <1>6 DEF WriteVersionDelete
  <2>2. /\ id \in Ids /\ Present(mem, id) /\ -1 \in Int /\ \A k \in 1 .. MaxOps : k \in Int
        /\ "idle" \in {"idle", "drop"} /\ "drop" \in {"idle", "drop"}
    BY HeadRefFacts, BoundsAssumption
  <2>3. CASE \E k \in 1 .. MaxOps : VersionDelete(c, id, n, k, "idle")
    BY <2>2, <2>3, VersionDeleteStacks
  <2>4. CASE VersionDelete(c, id, n, -1, "drop")
    BY <2>2, <2>4, VersionDeleteStacks
  <2> QED BY <2>1, <2>3, <2>4
<1>7. CASE WriteRemotePush(c, n) \/ WriteRemoteDelete(c, n)
  BY <1>7, RemoteWriteStacks
<1>8. ASSUME NEW m \in Names, WriteDatasetRename(c, n, m) PROVE VInv' /\ Stacked
  <2> DEFINE op == [type |-> "amend", name |-> m]
  <2>1. PICK id \in HeadRef(mem, n) :
          Write(c, AppendDataset(mem, id, op), "idle", 0, NoName, NoEvent)
    BY <1>8 DEF WriteDatasetRename
  <2>2. op \in DatasetOp /\ op.type \in {"amend", "remove"}
    BY DEF DatasetOp
  <2>3. id \in Ids /\ Present(mem, id) /\ paths' = paths
    BY <1>8, HeadRefFacts DEF WriteDatasetRename
  <2> HIDE DEF op
  <2> QED BY <2>1, <2>2, <2>3, DatasetWriteStacks
<1> QED BY <1>1, <1>2, <1>3, <1>4, <1>5, <1>6, <1>7, <1>8 DEF NameStep

\* Every step is a step of the stacks, or changes none of them.
LEMMA NextStacks ==
  ASSUME OneClient
  PROVE  IInv /\ ReadInv /\ VInv /\ [Next]_vars => VInv' /\ Stacked
<1> SUFFICES ASSUME IInv, ReadInv, VInv, [Next]_vars PROVE VInv' /\ Stacked
  OBVIOUS
<1>1. CASE UNCHANGED vars
  <2>1. mem' = mem /\ disk' = disk /\ paths' = paths /\ req' = req
    BY <1>1 DEF vars
  <2>2. VInv'
    BY <2>1 DEF VInv
  <2> QED BY <2>1, <2>2, StackedSame
<1>2. CASE Restart
  BY <1>2, RestartStacks
<1>3. ASSUME NEW c \in Clients, ClientStep(c) PROVE VInv' /\ Stacked
  <2>1. CASE Save(c)
    BY <2>1, SaveStacks
  <2>2. CASE CleanupNew(c)
    BY <2>2, CleanupNewStacks
  <2>3. CASE DropNothing(c)
    BY <2>3, DoneStacks DEF DropNothing
  <2>4. CASE PushAccepted(c)
    BY <2>4, DoneStacks DEF PushAccepted
  <2>5. CASE PushRefused(c)
    BY <2>5, PushRefusedStacks
  <2>6. CASE \E n \in Names : NameStep(c, n)
    BY <2>6, NameStacks
  <2> QED BY <1>3, <2>1, <2>2, <2>3, <2>4, <2>5, <2>6 DEF ClientStep
<1> QED BY <1>1, <1>2, <1>3 DEF Next

\* A logbook starts with empty stacks.
LEMMA InitStacks == Init => VInv /\ Abstract!Init
<1> SUFFICES ASSUME Init PROVE VInv /\ Abstract!Init
  OBVIOUS
<1>1. mem = EmptyJournal /\ disk = EmptyJournal /\ paths = 0 /\ \A c \in Clients : req[c] = Idle
  BY DEF Init
<1>2. \A id \in Ids : EmptyJournal[id].ops = <<>> /\ EmptyJournal[id].branch = <<>>
  BY DEF EmptyJournal, NoLog
<1> HIDE DEF EmptyJournal, Idle
<1>3. Absent(EmptyJournal)
  BY <1>2 DEF Absent
<1>4. Saved(EmptyJournal, 0)
  BY <1>2, NoVersions DEF Saved
<1>5. VInv
  BY <1>1, <1>3, <1>4, IdleHeld DEF VInv
<1>6. \A id \in Ids : StackOf(EmptyJournal[id]) = NoStack
  BY <1>2, NoLogStack
<1>7. Stacks(EmptyJournal) = [id \in Ids |-> NoStack]
  BY <1>6, StacksAre
<1>8. Stacks(mem) = [id \in Ids |-> NoStack] /\ Stacks(disk) = Stacks(mem)
  BY <1>1, <1>7
<1>9. Abstract!Init
  BY <1>8 DEF Abstract!Init, Abstract!None, NoStack
<1> QED BY <1>5, <1>9

\* One client at a time, as on the command line, the logbook implements the
\* stack of versions: whatever the filesystem refuses and wherever the process
\* ends, a version is lost to a recorded delete, or with the log of a dataset
\* that was removed or shares its name, and never to a push, a rollback, a
\* run, a rename or a save that failed.
THEOREM ImplementsStack == OneClient => (Spec => ImplementsVersionStack)
<1> SUFFICES ASSUME OneClient PROVE Spec => ImplementsVersionStack
  OBVIOUS
<1>1. Init => VInv /\ Abstract!Init
  BY InitStacks
<1>2. IInv /\ ReadInv /\ VInv /\ [Next]_vars => VInv' /\ Stacked
  BY NextStacks
<1>3. Spec => []IInv /\ []ReadInv
  BY Inductive, ReadersInductive
<1>4. Spec => []VInv /\ [][Abstract!Next]_<<Stacks(mem), Stacks(disk)>>
  BY <1>1, <1>2, <1>3, PTL DEF Spec, Stacked
<1> QED BY <1>1, <1>4, PTL DEF Spec, ImplementsVersionStack, Abstract!Spec
=============================================================================
