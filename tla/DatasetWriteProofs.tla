------------------------- MODULE DatasetWriteProofs -------------------------
(***************************************************************************)
(* Proofs about writing a version, for any calls of CreateDataset: bodies  *)
(* of any length, packages of any shape, any size of a batch.              *)
(***************************************************************************)
EXTENDS DatasetWrite, FiniteSetTheorems, TLAPS

-----------------------------------------------------------------------------
(* The inductive invariant. *)

\* The rows up to n that are of a kind.
UpTo(n, kind) == {i \in 1 .. n : Body[i] = kind}

\* handleRows has counted exactly the rows that the store has read; what it
\* counted as invalid is spread over finished batches and the open one.  Once it
\* has failed the counts are left as they were.
CountedAt(n, end, r) ==
  /\ end => n = Len(Body)
  /\ r.entries <= n /\ r.batch + r.invalid <= n
  /\ r.pc \in {"none", "setup"} =>
        n = 0 /\ r.entries = 0 /\ r.batch = 0 /\ r.invalid = 0
  /\ r.pc \in {"rows", "counted", "done"} =>
        /\ r.entries = n
        /\ r.batch + r.invalid = Cardinality(UpTo(n, "invalid"))
        /\ UpTo(n, "broken") = {}
        /\ job.strict => r.invalid = 0
  /\ r.pc \in {"counted", "done"} => end /\ r.batch = 0

Counted == CountedAt(read, eof, rows)

\* The structure was written with the counts at the end of the body.
StructureAtEnd ==
  "structure" \in added =>
     rows.pc = "done" /\ st = [entries |-> rows.entries, invalid |-> rows.invalid]

\* Each file came after the files it requires.
InOrder == \A f \in added : Requires(f) \subseteq added

\* The dataset file was given references to all there was.
RefsComplete ==
  "dataset" \in added => refs = WriteDataset \ {"dataset", "transform", "transformScript"}

\* A commit is only written where there is something to commit.
CommitMeant == "commit" \in added => confirmByteChangesExist /\ ensureCommitTitleAndMessage

\* What CreateDataset returned tells how far it came.
RetTells ==
  /\ ret = "noChanges" => ~(confirmByteChangesExist /\ ensureCommitTitleAndMessage)
  /\ ret \in {"ok", "pathAndError"} => added = WriteDataset

IInv == /\ TypeOK
        /\ Counted
        /\ StructureAtEnd
        /\ InOrder
        /\ RefsComplete
        /\ CommitMeant
        /\ RetTells
        /\ CompletedOnce

-----------------------------------------------------------------------------
(* Counting rows and events. *)

\* There are no more rows of a kind than rows.
LEMMA UpToFacts ==
  ASSUME NEW n \in Nat, NEW kind
  PROVE  IsFiniteSet(UpTo(n, kind)) /\ Cardinality(UpTo(n, kind)) \in 0 .. n
<1>1. IsFiniteSet(1 .. n) /\ Cardinality(1 .. n) = n
  BY FS_Interval
<1>2. UpTo(n, kind) \subseteq 1 .. n
  BY DEF UpTo
<1>3. IsFiniteSet(UpTo(n, kind)) /\ Cardinality(UpTo(n, kind)) <= n
  BY <1>1, <1>2, FS_Subset
<1>4. Cardinality(UpTo(n, kind)) \in Nat
  BY <1>3, FS_CardinalityType
<1> QED BY <1>3, <1>4

\* One row more is one of its kind more, and none of another.
LEMMA UpToNext ==
  ASSUME NEW n \in Nat, NEW kind
  PROVE  /\ Body[n + 1] = kind => /\ UpTo(n + 1, kind) = UpTo(n, kind) \union {n + 1}
                                  /\ Cardinality(UpTo(n + 1, kind)) = Cardinality(UpTo(n, kind)) + 1
         /\ Body[n + 1] # kind => UpTo(n + 1, kind) = UpTo(n, kind)
<1>1. IsFiniteSet(UpTo(n, kind))
  BY UpToFacts
<1>2. n + 1 \notin UpTo(n, kind)
  BY DEF UpTo
<1>3. Body[n + 1] = kind => UpTo(n + 1, kind) = UpTo(n, kind) \union {n + 1}
  BY DEF UpTo
<1>4. Body[n + 1] # kind => UpTo(n + 1, kind) = UpTo(n, kind)
  BY DEF UpTo
<1> QED BY <1>1, <1>2, <1>3, <1>4, FS_AddElement

Event == {"started", "progress", "completed"}
Ends(s) == {i \in 1 .. Len(s) : s[i] = "completed"}

\* An event more is an announced end more only if it announces one.
LEMMA EndsAppend ==
  ASSUME NEW s \in Seq(Event), NEW e \in Event
  PROVE  /\ Append(s, e) \in Seq(Event)
         /\ Cardinality(Ends(s)) \in Nat
         /\ Cardinality(Ends(Append(s, e))) =
              Cardinality(Ends(s)) + (IF e = "completed" THEN 1 ELSE 0)
<1>1. IsFiniteSet(1 .. Len(s))
  BY FS_Interval
<1>2. IsFiniteSet(Ends(s))
  BY <1>1, FS_Subset DEF Ends
<1>3. Len(s) + 1 \notin Ends(s)
  BY DEF Ends
<1>4. e = "completed" => Ends(Append(s, e)) = Ends(s) \union {Len(s) + 1}
  BY DEF Ends
<1>5. e # "completed" => Ends(Append(s, e)) = Ends(s)
  BY DEF Ends
<1> QED BY <1>2, <1>3, <1>4, <1>5, FS_AddElement, FS_CardinalityType

-----------------------------------------------------------------------------
(* What depends on the call alone. *)

Package == <<WriteDataset, BeforeCommit, Body, confirmByteChangesExist,
             ensureCommitTitleAndMessage>>

\* Which files there are, what they require and whether there is anything to
\* commit is settled by the arguments.
LEMMA SameJob ==
  ASSUME job' = job
  PROVE  /\ Package' = Package
         /\ \A f : Requires(f)' = Requires(f)
BY DEF Package, WriteDataset, BeforeCommit, BeforeViz, addMetaFile, addTransformFile,
       addReadmeFile, vizFilesAddFunc, Has, Requires, Body, confirmByteChangesExist,
       ensureCommitTitleAndMessage, generateCommitDescriptions, SamePaths, SameValues,
       SameComponents, SameBodies, ErrCount

\* The files of a package.
LEMMA Files ==
  /\ WriteDataset = BeforeCommit \union {"commit", "dataset"}
  /\ {"body", "structure", "stats"} \subseteq BeforeCommit
  /\ BeforeCommit \subseteq {"body", "structure", "stats", "meta", "transform", "transformScript",
                             "readmeScript", "vizScript", "vizRendered"}
  /\ Requires("commit") = BeforeCommit
  /\ Requires("dataset") = BeforeCommit \union {"commit"}
BY DEF WriteDataset, BeforeCommit, BeforeViz, addMetaFile, addTransformFile, addReadmeFile,
       vizFilesAddFunc, Requires


-----------------------------------------------------------------------------
(* The goroutine and the store, step by step. *)

\* The arguments of the call stay.
LEMMA JobFixed ==
  ASSUME [Next]_vars
  PROVE  job' = job
BY DEF vars, Next, Store, newComputeFieldsFile, CloseBody, AddFile, Hooks, StructureHook, StatsHook,
       CommitHook, addDatasetFile, CreateDataset, handleRows, Setup, TakeRow, FinishRows,
       PublishStarted, FsFault, Fail, Returned

\* So the next state is measured by the same body.
LEMMA CountedNext ==
  ASSUME job' = job, CountedAt(read', eof', rows')
  PROVE  Counted'
BY DEF Counted, CountedAt, UpTo, Body

Pcs == {"none", "setup", "rows", "error", "counted", "done"}
RowsType == [pc : Pcs, entries : Nat, batch : Nat, invalid : Nat]

\* The part of TypeOK that handleRows and the tee are about.
LEMMA CountTypes ==
  ASSUME TypeOK
  PROVE  /\ read \in Nat /\ Len(Body) \in Nat /\ read <= Len(Body)
         /\ eof \in BOOLEAN
         /\ rows \in RowsType
<1>1. Len(Body) \in Nat
  <2>1. Body \in Seq({"ok", "invalid", "broken"})
    BY JobsAssumption, Zenon DEF TypeOK, Body
  <2> QED BY <2>1
<1>2. /\ read \in 0 .. Len(Body) /\ eof \in BOOLEAN
      /\ rows \in [pc : Pcs, entries : 0 .. Len(Body), batch : 0 .. Len(Body), invalid : 0 .. Len(Body)]
  BY Zenon DEF TypeOK, Pcs
<1> QED BY <1>1, <1>2 DEF RowsType

\* A row that handleRows takes is counted, in the batch it belongs to.
LEMMA TakeRowCounts ==
  ASSUME TypeOK, Counted, TakeRow
  PROVE  CountedAt(read', eof', rows') /\ rows' \in RowsType
<1> DEFINE flush == read % BatchSize = 0 /\ read # 0
           r     == IF flush THEN flushBatch(rows) ELSE rows
           fails == Body[read + 1] = "broken" \/ (flush /\ FlushFails)
<1>1. /\ read' = read + 1 /\ rows.pc = "rows" /\ eof' = eof /\ ~eof
      /\ read < Len(Body)
      /\ rows' = IF fails THEN [rows EXCEPT !.pc = "error"]
                 ELSE [r EXCEPT !.entries = @ + 1, !.batch = @ + Invalid]
  BY DEF TakeRow
<1>2. /\ rows \in RowsType /\ read \in Nat /\ eof \in BOOLEAN
      /\ Cardinality(UpTo(read, "invalid")) \in Nat
      /\ Cardinality(UpTo(read, "invalid")) <= read
  <2>1. rows \in RowsType /\ read \in Nat /\ eof \in BOOLEAN
    BY CountTypes
  <2>2. Cardinality(UpTo(read, "invalid")) \in 0 .. read
    BY <2>1, UpToFacts
  <2> QED BY <2>1, <2>2
<1>3. CASE fails
  BY <1>1, <1>2, <1>3 DEF Counted, CountedAt, RowsType, Pcs
<1>4. CASE ~fails
  <2>1. /\ r \in RowsType /\ r.pc = "rows"
        /\ r.entries = read
        /\ r.batch + r.invalid = Cardinality(UpTo(read, "invalid"))
        /\ job.strict => r.invalid = 0
    <3>1. CASE flush
      <4>1. r = [pc |-> "rows", entries |-> rows.entries, batch |-> 0,
                 invalid |-> rows.invalid + rows.batch]
        BY <1>1, <1>2, <3>1 DEF flushBatch, RowsType
      <4>2. job.strict => rows.batch = 0
        BY <1>2, <1>4, <3>1 DEF FlushFails, RowsType
      <4> QED BY <1>1, <1>2, <4>1, <4>2 DEF Counted, CountedAt, RowsType, Pcs
    <3>2. CASE ~flush
      BY <1>1, <1>2, <3>2 DEF Counted, CountedAt
    <3> QED BY <3>1, <3>2
  <2> HIDE DEF r
  <2>2. UpTo(read + 1, "broken") = {}
    BY <1>1, <1>2, <1>4, UpToNext DEF Counted, CountedAt
  <2>3. /\ Invalid \in 0 .. 1
        /\ Cardinality(UpTo(read + 1, "invalid")) = Cardinality(UpTo(read, "invalid")) + Invalid
    BY <1>2, UpToNext DEF Invalid
  <2>4. rows' = [pc |-> "rows", entries |-> r.entries + 1, batch |-> r.batch + Invalid,
                 invalid |-> r.invalid]
    BY <1>1, <1>4, <2>1 DEF RowsType
  <2> QED BY <1>1, <1>2, <2>1, <2>2, <2>3, <2>4 DEF CountedAt, RowsType, Pcs
<1> QED BY <1>3, <1>4

\* Every step keeps the counts with the rows that were read.
LEMMA CountedStep ==
  ASSUME TypeOK, Counted, [Next]_vars
  PROVE  CountedAt(read', eof', rows') /\ rows' \in RowsType
<1> USE CountTypes
<1> USE DEF Counted, CountedAt, RowsType, Pcs
<1>1. CASE UNCHANGED <<read, eof, rows>>
  BY <1>1
<1>2. CASE newComputeFieldsFile
  BY <1>2 DEF newComputeFieldsFile
<1>3. CASE CloseBody
  BY <1>3 DEF CloseBody, Begun
<1>4. CASE StructureHook
  BY <1>4 DEF StructureHook, Fail
<1>5. CASE Setup
  <2>1. UpTo(0, "invalid") = {} /\ UpTo(0, "broken") = {}
    BY DEF UpTo
  <2>2. Cardinality(UpTo(0, "invalid")) = 0
    BY <2>1, FS_EmptySet
  <2>3. read = 0 /\ rows.entries = 0 /\ rows.batch = 0 /\ rows.invalid = 0
    BY <1>5 DEF Setup
  <2>4. \/ rows' = [pc |-> "rows", entries |-> 0, batch |-> 0, invalid |-> 0]
        \/ rows' = [pc |-> "error", entries |-> 0, batch |-> 0, invalid |-> 0]
    BY <1>5, <2>3 DEF Setup
  <2> QED BY <1>5, <2>1, <2>2, <2>3, <2>4 DEF Setup
<1>6. CASE TakeRow
  BY <1>6, TakeRowCounts
<1>7. CASE FinishRows
  <2>1. CASE FlushFails
    BY <1>7, <2>1 DEF FinishRows
  <2>2. CASE ~FlushFails
    <3>1. rows' = [pc |-> "counted", entries |-> rows.entries, batch |-> 0,
                   invalid |-> rows.invalid + rows.batch]
      BY <1>7, <2>2 DEF FinishRows, flushBatch
    <3>2. job.strict => rows.batch = 0
      BY <2>2 DEF FlushFails
    <3> QED BY <1>7, <3>1, <3>2 DEF FinishRows
  <2> QED BY <2>1, <2>2
<1>8. \/ UNCHANGED <<read, eof, rows>>
      \/ newComputeFieldsFile \/ CloseBody \/ StructureHook \/ Setup \/ TakeRow \/ FinishRows
  BY DEF vars, Next, Store, AddFile, Hooks, StatsHook, CommitHook, addDatasetFile, CreateDataset,
         handleRows, PublishStarted, FsFault, Fail, Returned
<1> QED BY <1>1, <1>2, <1>3, <1>4, <1>5, <1>6, <1>7, <1>8

-----------------------------------------------------------------------------
(* The package and its outcome. *)

\* What the steps that publish something do besides.
LEMMA Publishing ==
  /\ StructureHook => /\ Ready("structure")
                      /\ \/ ret' = "bodyError" /\ UNCHANGED <<added, rows, st, refs>>
                         \/ /\ rows.pc = "counted"
                            /\ rows' = [rows EXCEPT !.pc = "done"]
                            /\ st' = [entries |-> rows.entries, invalid |-> rows.invalid]
                            /\ added' = added \union {"structure"}
                            /\ UNCHANGED <<refs, ret>>
  /\ CommitHook => /\ Ready("commit")
                   /\ UNCHANGED <<rows, st>>
                   /\ IF confirmByteChangesExist /\ ensureCommitTitleAndMessage
                        THEN /\ added' = added \union {"commit"}
                             /\ refs' = updateScriptPaths \union replaceComponentsWithRefs
                             /\ ret' = ret
                        ELSE ret' = "noChanges" /\ UNCHANGED <<added, refs>>
  /\ CreateDataset => /\ ret = "running" /\ added = WriteDataset
                      /\ ret' \in {"ok", "pathAndError"}
                      /\ UNCHANGED <<added, rows, st, refs>>
  /\ FsFault => ret = "running" /\ ret' = "storeError" /\ UNCHANGED <<added, rows, st, refs>>
  /\ PublishStarted => UNCHANGED <<added, rows, st, refs, ret>>
<1>1. StructureHook => /\ Ready("structure")
                       /\ \/ ret' = "bodyError" /\ UNCHANGED <<added, rows, st, refs>>
                          \/ /\ rows.pc = "counted"
                             /\ rows' = [rows EXCEPT !.pc = "done"]
                             /\ st' = [entries |-> rows.entries, invalid |-> rows.invalid]
                             /\ added' = added \union {"structure"}
                             /\ UNCHANGED <<refs, ret>>
  BY Zenon DEF StructureHook, Fail
<1>2. CommitHook => /\ Ready("commit")
                    /\ UNCHANGED <<rows, st>>
                    /\ IF confirmByteChangesExist /\ ensureCommitTitleAndMessage
                         THEN /\ added' = added \union {"commit"}
                              /\ refs' = updateScriptPaths \union replaceComponentsWithRefs
                              /\ ret' = ret
                         ELSE ret' = "noChanges" /\ UNCHANGED <<added, refs>>
  BY Zenon DEF CommitHook
<1> QED BY <1>1, <1>2, Zenon DEF CreateDataset, FsFault, Fail, Begun, PublishStarted

\* The structure is written last of all by handleRows's count.
LEMMA StructureStep ==
  ASSUME TypeOK, StructureAtEnd, [Next]_vars
  PROVE  StructureAtEnd'
<1>1. CASE StructureHook
  BY <1>1, CountTypes, Publishing DEF Ready, StructureAtEnd, RowsType
<1>2. CASE newComputeFieldsFile \/ Setup \/ TakeRow \/ FinishRows
  BY <1>2 DEF newComputeFieldsFile, Setup, TakeRow, FinishRows, StructureAtEnd
<1>3. \/ UNCHANGED <<rows, st>> /\ ("structure" \in added' => "structure" \in added)
      \/ StructureHook \/ newComputeFieldsFile \/ Setup \/ TakeRow \/ FinishRows
  <2>1. CASE \E f \in WriteDataset : AddFile(f)
    BY <2>1 DEF AddFile
  <2>2. CASE Hooks
    BY <2>2, Publishing DEF Hooks, StatsHook, addDatasetFile
  <2> QED BY <2>1, <2>2, Publishing DEF vars, Next, Store, CloseBody, handleRows, Returned
<1> QED BY <1>1, <1>2, <1>3 DEF StructureAtEnd

\* What the store adds is of the package, and comes after what it requires.
LEMMA AddedStep ==
  ASSUME TypeOK, InOrder, [Next]_vars
  PROVE  /\ added \subseteq added'
         /\ InOrder'
         /\ added' \subseteq WriteDataset'
<1>1. job' = job /\ WriteDataset' = WriteDataset /\ \A f : Requires(f)' = Requires(f)
  BY JobFixed, SameJob DEF Package
<1>2. \/ added' = added
      \/ \E f \in WriteDataset : added' = added \union {f} /\ Requires(f) \subseteq added
  <2>1. CASE CloseBody
    <3>1. Requires("body") = {} /\ "body" \in WriteDataset
      BY Files DEF Requires
    <3> QED BY <2>1, <3>1 DEF CloseBody
  <2>2. CASE \E f \in WriteDataset : AddFile(f)
    BY <2>2 DEF AddFile, Ready
  <2>3. CASE Hooks
    BY <2>3 DEF Hooks, StructureHook, StatsHook, CommitHook, addDatasetFile, Ready, Fail
  <2> QED BY <2>1, <2>2, <2>3
    DEF vars, Next, Store, newComputeFieldsFile, CreateDataset, handleRows, Setup, TakeRow,
        FinishRows, PublishStarted, FsFault, Fail, Returned
<1> QED BY <1>1, <1>2 DEF InOrder, TypeOK

\* The references are complete when the dataset file is written, and stay.
LEMMA RefsStep ==
  ASSUME TypeOK, InOrder, RefsComplete, [Next]_vars
  PROVE  RefsComplete' /\ refs' \subseteq WriteDataset'
<1>0. WriteDataset' = WriteDataset
  BY JobFixed, SameJob DEF Package
<1>1. CASE CommitHook
  <2>1. "dataset" \notin added
    BY <1>1, Files, Publishing DEF Ready, InOrder
  <2> QED BY <1>0, <1>1, <2>1, Publishing
    DEF TypeOK, RefsComplete, updateScriptPaths, replaceComponentsWithRefs
<1>2. CASE addDatasetFile
  <2>1. added = BeforeCommit \union {"commit"}
    BY <1>2, Files DEF addDatasetFile, Ready, TypeOK
  <2>2. refs' = WriteDataset \ {"dataset", "transform", "transformScript"}
    BY <1>2, <2>1, Files DEF addDatasetFile, updateScriptPaths, replaceComponentsWithRefs
  <2> QED BY <1>0, <2>2 DEF RefsComplete
<1>3. \/ refs' = refs /\ ("dataset" \in added' => "dataset" \in added)
      \/ CommitHook \/ addDatasetFile
  <2>1. CASE \E f \in WriteDataset : AddFile(f)
    BY <2>1 DEF AddFile
  <2>2. CASE Hooks
    BY <2>2, Publishing DEF Hooks, StatsHook
  <2> QED BY <2>1, <2>2, Publishing
    DEF vars, Next, Store, newComputeFieldsFile, CloseBody, handleRows, Setup, TakeRow, FinishRows,
        Returned
<1> QED BY <1>0, <1>1, <1>2, <1>3 DEF RefsComplete, TypeOK

\* A commit, and a refusal, come from the same comparison.
LEMMA OutcomeStep ==
  ASSUME TypeOK, CommitMeant, RetTells, [Next]_vars
  PROVE  CommitMeant' /\ RetTells'
<1>0. /\ WriteDataset' = WriteDataset
      /\ confirmByteChangesExist' = confirmByteChangesExist
      /\ ensureCommitTitleAndMessage' = ensureCommitTitleAndMessage
  BY JobFixed, SameJob DEF Package
<1>1. CASE newComputeFieldsFile
  BY <1>0, <1>1 DEF newComputeFieldsFile, CommitMeant, RetTells
<1>2. CASE Hooks
  BY <1>0, <1>2, Publishing DEF Hooks, StatsHook, addDatasetFile, Ready, Begun, CommitMeant, RetTells
<1>3. CASE CreateDataset
  BY <1>0, <1>3, Publishing DEF CommitMeant, RetTells
<1>4. CASE FsFault
  BY <1>0, <1>4, Publishing DEF CommitMeant, RetTells
<1>5. CASE CloseBody \/ \E f \in WriteDataset : AddFile(f)
  BY <1>0, <1>5 DEF CloseBody, AddFile, Ready, Begun, CommitMeant, RetTells
<1>6. CASE UNCHANGED <<added, ret>>
  BY <1>0, <1>6 DEF CommitMeant, RetTells
<1>7. UNCHANGED <<added, ret>> \/ ~(handleRows \/ PublishStarted \/ Returned \/ UNCHANGED vars)
  BY DEF vars, handleRows, Setup, TakeRow, FinishRows, PublishStarted, Returned
<1> QED BY <1>1, <1>2, <1>3, <1>4, <1>5, <1>6, <1>7 DEF Next, Store

\* An end is announced by the step that returns, and by no other.
LEMMA CompletedStep ==
  ASSUME TypeOK, CompletedOnce, [Next]_vars
  PROVE  CompletedOnce' /\ published' \in Seq(Event)
<1> DEFINE n == Cardinality(Ends(published))
<1>1. /\ published \in Seq(Event)
      /\ n = IF ret \in {"running", "invalid"} THEN 0 ELSE 1
  BY DEF TypeOK, Event, CompletedOnce, Ends
<1>2. SUFFICES /\ published' \in Seq(Event)
               /\ Cardinality(Ends(published')) = IF ret' \in {"running", "invalid"} THEN 0 ELSE 1
  BY DEF CompletedOnce, Ends
<1>3. \A e \in Event : Append(published, e) \in Seq(Event)
  BY <1>1, EndsAppend
<1>4. /\ Cardinality(Ends(Append(published, "completed"))) = n + 1
      /\ Cardinality(Ends(Append(published, "started"))) = n
      /\ Cardinality(Ends(Append(published, "progress"))) = n
      /\ n \in Nat
  <2>1. \A e \in Event : /\ Cardinality(Ends(published)) \in Nat
                         /\ Cardinality(Ends(Append(published, e))) =
                              Cardinality(Ends(published)) + (IF e = "completed" THEN 1 ELSE 0)
    BY <1>1, EndsAppend
  <2> QED BY <2>1 DEF Event
<1>5. CASE ret = "running" /\ ret' \notin {"running", "invalid"} /\ published' = Append(published, "completed")
  <2>1. published' \in Seq(Event) /\ Cardinality(Ends(published')) = n + 1
    BY <1>3, <1>4, <1>5, Zenon DEF Event
  <2> QED BY <1>1, <1>5, <2>1
<1>6. CASE /\ ret = "running" /\ ret' = "noChanges"
           /\ published' = Append(Append(published, "progress"), "completed")
  <2> DEFINE p == Append(published, "progress")
  <2>1. published' = Append(p, "completed")
    BY <1>6
  <2>2. p \in Seq(Event) /\ Cardinality(Ends(p)) = n
    BY <1>3, <1>4 DEF Event
  <2> HIDE DEF p
  <2>3. "completed" \in Event
    BY DEF Event
  <2>4. /\ Append(p, "completed") \in Seq(Event)
        /\ Cardinality(Ends(Append(p, "completed"))) = Cardinality(Ends(p)) + 1
    BY <2>2, <2>3, EndsAppend
  <2>5. n = 0 /\ ret' = "noChanges"
    BY <1>1, <1>6, Zenon
  <2> HIDE DEF n
  <2>6. published' \in Seq(Event) /\ Cardinality(Ends(published')) = n + 1
    BY <2>1, <2>2, <2>4, Zenon
  <2> QED BY <2>5, <2>6
<1>7. CASE ret' = ret /\ published' \in {Append(published, "started"), Append(published, "progress")}
  BY <1>1, <1>3, <1>4, <1>7 DEF Event
<1>8. CASE UNCHANGED published /\ ({ret, ret'} \subseteq {"running", "invalid"} \/ ret' = ret)
  BY <1>1, <1>8
<1>9. \/ ret = "running" /\ ret' \notin {"running", "invalid"} /\ published' = Append(published, "completed")
      \/ ret = "running" /\ ret' = "noChanges" /\ published' = Append(Append(published, "progress"), "completed")
      \/ ret' = ret /\ published' \in {Append(published, "started"), Append(published, "progress")}
      \/ UNCHANGED published /\ ({ret, ret'} \subseteq {"running", "invalid"} \/ ret' = ret)
  <2>1. CASE newComputeFieldsFile \/ CreateDataset
    BY <2>1 DEF newComputeFieldsFile, CreateDataset
  <2>2. CASE Hooks
    BY <2>2 DEF Hooks, StatsHook, StructureHook, CommitHook, addDatasetFile, Ready, Begun, Fail
  <2>3. CASE FsFault
    BY <2>3 DEF FsFault, Begun, Fail
  <2>4. CASE \E f \in WriteDataset : AddFile(f)
    BY <2>4 DEF AddFile
  <2>5. CASE CloseBody \/ handleRows \/ PublishStarted \/ Returned \/ UNCHANGED vars
    BY <2>5 DEF vars, CloseBody, handleRows, Setup, TakeRow, FinishRows, PublishStarted, Returned
  <2> QED BY <2>1, <2>2, <2>3, <2>4, <2>5 DEF Next, Store
<1> QED BY <1>5, <1>6, <1>7, <1>8, <1>9

-----------------------------------------------------------------------------
(* The theorems. *)

\* Every step keeps the types.
LEMMA TypeStep ==
  ASSUME IInv, [Next]_vars
  PROVE  TypeOK'
<1>1. job' = job /\ Body' = Body /\ WriteDataset' = WriteDataset /\ job' \in Jobs
  BY JobFixed, SameJob DEF Package, IInv, TypeOK
<1>2. added' \subseteq WriteDataset' /\ refs' \subseteq WriteDataset'
  BY AddedStep, RefsStep DEF IInv
<1>3. Len(Body) \in Nat /\ read \in 0 .. Len(Body)
  BY CountTypes DEF IInv
<1>4. read' \in 0 .. Len(Body) /\ eof' \in BOOLEAN
  <2>1. /\ read' = read \/ (read < Len(Body) /\ read' = read + 1)
        /\ eof' = eof \/ eof' = TRUE
    BY Zenon
    DEF vars, Next, Store, newComputeFieldsFile, CloseBody, AddFile, Hooks, StructureHook, StatsHook,
        CommitHook, addDatasetFile, CreateDataset, handleRows, Setup, TakeRow, FinishRows,
        PublishStarted, FsFault, Fail, Returned
  <2>2. eof \in BOOLEAN
    BY DEF IInv, TypeOK
  <2>3. eof' \in BOOLEAN
    BY <2>1, <2>2, Zenon
  <2> QED BY <1>3, <2>1, <2>3
<1>5. rows' \in [pc : Pcs, entries : 0 .. Len(Body), batch : 0 .. Len(Body), invalid : 0 .. Len(Body)]
  <2>1. CountedAt(read', eof', rows') /\ rows' \in RowsType
    BY CountedStep DEF IInv
  <2>2. /\ rows'.entries <= Len(Body)
        /\ rows'.batch <= Len(Body)
        /\ rows'.invalid <= Len(Body)
    BY <1>3, <1>4, <2>1 DEF CountedAt, RowsType
  <2> QED BY <1>3, <2>1, <2>2 DEF RowsType
<1>6. st' \in [entries : {-1} \union 0 .. Len(Body), invalid : {-1} \union 0 .. Len(Body)]
  <2>1. /\ st \in [entries : {-1} \union 0 .. Len(Body), invalid : {-1} \union 0 .. Len(Body)]
        /\ rows.entries \in 0 .. Len(Body) /\ rows.invalid \in 0 .. Len(Body)
    BY DEF IInv, TypeOK
  <2>2. \/ st' = st
        \/ st' = [entries |-> rows.entries, invalid |-> rows.invalid]
    BY Zenon
    DEF vars, Next, Store, newComputeFieldsFile, CloseBody, AddFile, Hooks, StructureHook, StatsHook,
        CommitHook, addDatasetFile, CreateDataset, handleRows, Setup, TakeRow, FinishRows,
        PublishStarted, FsFault, Fail, Returned
  <2> QED BY <2>1, <2>2
<1>7. published' \in Seq(Event)
  BY CompletedStep DEF IInv
<1>8. ret' \in {"running", "ok", "pathAndError", "invalid", "noChanges", "storeError", "bodyError"}
  BY Zenon
  DEF IInv, TypeOK, vars, Next, Store, newComputeFieldsFile, CloseBody, AddFile, Hooks, StructureHook,
      StatsHook, CommitHook, addDatasetFile, CreateDataset, handleRows, Setup, TakeRow, FinishRows,
      PublishStarted, FsFault, Fail, Returned
<1> QED BY <1>1, <1>2, <1>4, <1>5, <1>6, <1>7, <1>8, Zenon DEF TypeOK, Pcs, Event

\* The counts follow the rows, the files come in order, the outcome follows
\* from the comparison.
THEOREM Inductive == Spec => []IInv
<1>1. Init => IInv
  <2> SUFFICES ASSUME Init PROVE IInv
    OBVIOUS
  <2>1. Len(Body) \in Nat /\ job \in Jobs
    <3>1. Body \in Seq({"ok", "invalid", "broken"})
      BY JobsAssumption, Zenon DEF Init, Body
    <3> QED BY <3>1 DEF Init
  <2>2. published \in Seq({"started", "progress", "completed"}) /\ published = <<>>
    BY DEF Init
  <2>3. TypeOK
    <3>1. /\ rows \in [pc : {"none", "setup", "rows", "error", "counted", "done"},
                       entries : 0 .. Len(Body), batch : 0 .. Len(Body), invalid : 0 .. Len(Body)]
          /\ st \in [entries : {-1} \union 0 .. Len(Body), invalid : {-1} \union 0 .. Len(Body)]
          /\ read \in 0 .. Len(Body)
      BY <2>1 DEF Init
    <3> QED BY <2>1, <2>2, <3>1, Zenon DEF Init, TypeOK
  <2>4. Counted
    BY <2>1 DEF Init, Counted, CountedAt
  <2>5. CompletedOnce
    <3>1. {i \in 1 .. Len(published) : published[i] = "completed"} = {}
      BY <2>2
    <3> QED BY <3>1, FS_EmptySet DEF CompletedOnce, Init
  <2> QED BY <2>3, <2>4, <2>5 DEF Init, IInv, StructureAtEnd, InOrder, RefsComplete, CommitMeant, RetTells
<1>2. IInv /\ [Next]_vars => IInv'
  <2> SUFFICES ASSUME IInv, [Next]_vars PROVE IInv'
    OBVIOUS
  <2>1. TypeOK'
    BY TypeStep
  <2>2. Counted'
    BY JobFixed, CountedStep, CountedNext DEF IInv
  <2>3. StructureAtEnd' /\ InOrder' /\ RefsComplete'
    BY StructureStep, AddedStep, RefsStep DEF IInv
  <2>4. CommitMeant' /\ RetTells' /\ CompletedOnce'
    BY OutcomeStep, CompletedStep DEF IInv
  <2> QED BY <2>1, <2>2, <2>3, <2>4 DEF IInv
<1> QED BY <1>1, <1>2, PTL DEF Spec

\* Every variable holds what its comment says.
THEOREM TypeCorrect == Spec => []TypeOK
<1>1. IInv => TypeOK
  BY DEF IInv
<1> QED BY <1>1, Inductive, PTL

\* The structure that CreateDataset stores counts every row and every invalid
\* row of a body of any length, however its batches fall.
THEOREM StructureCounts == Spec => []StructureCountsBody
<1>1. IInv => StructureCountsBody
  <2> SUFFICES ASSUME IInv, "structure" \in added
               PROVE  /\ st = [entries |-> Len(Body), invalid |-> Count("invalid")]
                      /\ Count("broken") = 0
                      /\ job.strict => Count("invalid") = 0
    BY DEF StructureCountsBody
  <2>1. /\ rows.pc = "done"
        /\ st = [entries |-> rows.entries, invalid |-> rows.invalid]
    BY DEF IInv, StructureAtEnd
  <2>2. read \in Nat /\ rows \in RowsType
    BY CountTypes DEF IInv
  <2>3. /\ read = Len(Body) /\ rows.entries = read /\ rows.batch = 0
        /\ rows.batch + rows.invalid = Cardinality(UpTo(read, "invalid"))
        /\ UpTo(read, "broken") = {}
        /\ job.strict => rows.invalid = 0
    BY <2>1 DEF IInv, Counted, CountedAt
  <2>4. /\ Count("invalid") = Cardinality(UpTo(read, "invalid"))
        /\ Count("broken") = Cardinality(UpTo(read, "broken"))
    BY <2>3 DEF Count, UpTo
  <2>5. Count("broken") = 0
    BY <2>3, <2>4, FS_EmptySet
  <2>6. rows.invalid = Count("invalid")
    BY <2>2, <2>3, <2>4 DEF RowsType
  <2> QED BY <2>1, <2>3, <2>5, <2>6
<1> QED BY <1>1, Inductive, PTL

\* A stored dataset file comes after every file of its package and refers to
\* all that a reader finds through it, whatever the shape of the package.
THEOREM PackageIsComplete == Spec => []PackageComplete
<1>1. IInv => PackageComplete
  <2> SUFFICES ASSUME IInv, "dataset" \in added
               PROVE  added = WriteDataset
    BY DEF PackageComplete, IInv, RefsComplete
  <2>1. added \subseteq WriteDataset /\ Requires("dataset") \subseteq added
    BY DEF IInv, TypeOK, InOrder
  <2> QED BY <2>1, Files
<1> QED BY <1>1, Inductive, PTL

\* A save is refused for want of changes where there are none, or where the
\* body came down from over the limit, and stored where there are some; its
\* end is announced exactly once, whichever step it failed at.
THEOREM OutcomeIsReported == Spec => []OutcomeReported
<1>1. IInv => OutcomeReported
  <2> SUFFICES ASSUME IInv
               PROVE  RefusedIffUnchanged
    BY DEF OutcomeReported, IInv
  <2>1. ret = "noChanges" => job.hasPrev /\ ~job.force
                             /\ (SamePaths \/ (~job.titled /\ SameValues))
    BY DEF IInv, RetTells, confirmByteChangesExist, ensureCommitTitleAndMessage, SamePaths,
           generateCommitDescriptions
  <2>3. SamePaths => SameComponents /\ job.ds.body = job.prev.body
    BY DEF SamePaths, SameComponents
  <2>4. SameValues => SameComponents /\ (job.ds.body = job.prev.body \/ Shrunk)
    BY DEF SameValues, SameBodies, Shrunk
  <2>5. SameComponents /\ job.ds.body = job.prev.body /\ ~job.big => SameValues
    BY DEF SameValues, SameBodies
  <2>2. ret = "ok" => confirmByteChangesExist /\ ensureCommitTitleAndMessage
    BY Files DEF IInv, RetTells, CommitMeant
  <2> QED BY <2>1, <2>2, <2>3, <2>4, <2>5
    DEF RefusedIffUnchanged, confirmByteChangesExist, ensureCommitTitleAndMessage,
        generateCommitDescriptions
<1> QED BY <1>1, Inductive, PTL

=============================================================================
