---------------------------- MODULE DatasetWrite ----------------------------
(***************************************************************************)
(* dsfs.CreateDataset: one version of a dataset is written to the store.   *)
(*                                                                         *)
(* A version is a package of files.  Some are only known while others are  *)
(* being written: qfs.WriteWithHooks (external) adds a file when the files *)
(* it requires have been added, and runs the file's hook to get its        *)
(* content.  The body is read once, by the store; a tee hands what is read *)
(* to a goroutine (handleRows) through a pipe without a buffer, and the    *)
(* structure's hook waits for that goroutine on a channel without one.     *)
(*                                                                         *)
(* The content of a component is a number, 0 where it is absent; equal     *)
(* numbers have equal paths in a content-addressed store.  A row of the    *)
(* body is "ok", "invalid" (against the schema) or "broken" (unreadable).  *)
(* A row stands for what one read of the body carries.                     *)
(***************************************************************************)
EXTENDS Integers, Sequences, FiniteSets

CONSTANTS Jobs,       \* the calls of CreateDataset that are looked at
          BatchSize,  \* dsfs.batchSize: rows validated together
          FsFaults    \* whether the store may refuse a file

ASSUME BatchAssumption == BatchSize \in Nat \ {0}

ASSUME JobsAssumption == \A j \in Jobs : j.ds.body \in Seq({"ok", "invalid", "broken"})

VARIABLES job,      \* the arguments of the call
          added,    \* files the store has added
          read,     \* rows the store has read from the tee
          eof,      \* whether the pipe is closed
          rows,     \* the goroutine of handleRows: where it is and what it counted
          st,       \* what the structure file says of the body
          refs,     \* the files the dataset file refers to
          published,\* the save events, in order (not the progress of handleRows)
          ret       \* "running", or what CreateDataset returned

vars == <<job, added, read, eof, rows, st, refs, published, ret>>

Components == {"meta", "transform", "readme", "viz"}

(***************************************************************************)
(* The files of the package, and for each the files it requires.  The      *)
(* add functions run in one order, and "everything added so far" depends   *)
(* on it.                                                                  *)
(***************************************************************************)
Has(c) == job.ds[c] # 0

\* addTransformFile writes the script, if there is one, before the component.
addTransformFile == IF Has("transform") THEN {"transformScript", "transform"} ELSE {}
addMetaFile      == IF Has("meta") THEN {"meta"} ELSE {}
addReadmeFile    == IF Has("readme") THEN {"readmeScript"} ELSE {}
vizFilesAddFunc  == IF Has("viz") THEN {"vizScript"} \union
                                       (IF job.render THEN {"vizRendered"} ELSE {})
                    ELSE {}

BeforeViz    == {"body", "structure", "stats"} \union addMetaFile
                  \union addTransformFile \union addReadmeFile
BeforeCommit == BeforeViz \union vizFilesAddFunc
WriteDataset == BeforeCommit \union {"commit", "dataset"}

\* MUTANT: the last two files do not wait for the visualisation.
RequiresNoViz(f) ==
  CASE f = "transform"   -> {"transformScript"}
    [] f = "structure"   -> {"body"}
    [] f = "stats"       -> {"structure"}
    [] f = "vizRendered" -> {"vizScript"} \union BeforeViz
    [] f = "commit"      -> BeforeViz
    [] f = "dataset"     -> BeforeViz \union {"commit"}
    [] OTHER             -> {}

Requires(f) ==
  CASE f = "transform"   -> {"transformScript"}
    [] f = "structure"   -> {"body"}
    [] f = "stats"       -> {"structure"}
    [] f = "vizRendered" -> {"vizScript"} \union BeforeViz
    [] f = "commit"      -> BeforeCommit
    [] f = "dataset"     -> BeforeCommit \union {"commit"}
    [] OTHER             -> {}

-----------------------------------------------------------------------------
Init ==
  /\ job \in Jobs
  /\ added = {}
  /\ read = 0
  /\ eof = FALSE
  /\ rows = [pc |-> "none", entries |-> 0, batch |-> 0, invalid |-> 0]
  /\ st = [entries |-> -1, invalid |-> -1]
  /\ refs = {}
  /\ published = <<>>
  /\ ret = "running"

Body  == job.ds.body
Begun == ret = "running" /\ rows.pc # "none"
Ready(f) == Begun /\ f \in WriteDataset \ added /\ Requires(f) \subseteq added

\* CreateDataset checks its arguments (a key, components that can be loaded,
\* a valid dataset, a body) and starts handleRows.
newComputeFieldsFile ==
  /\ ret = "running" /\ rows.pc = "none"
  /\ IF job.valid THEN rows' = [rows EXCEPT !.pc = "setup"] /\ ret' = ret
                  ELSE rows' = rows /\ ret' = "invalid"
  /\ UNCHANGED <<job, added, read, eof, st, refs, published>>

\* CreateDataset fails, and says so to whoever listens.
Fail(why) ==
  /\ ret' = why
  /\ published' = Append(published, "completed")
  /\ UNCHANGED <<job, added, read, eof, rows, st, refs>>

(***************************************************************************)
(* The store reads the body.  The read of the tee only returns when the    *)
(* other end of the pipe has taken the row.                                *)
(***************************************************************************)
Invalid == IF Body[read + 1] = "invalid" THEN 1 ELSE 0

\* Strict mode turns the first batch with an invalid row into an error.
FlushFails == job.strict /\ rows.batch > 0

\* flushBatch adds the errors of a batch to the count and begins a new one.
flushBatch(r) == [r EXCEPT !.invalid = @ + r.batch, !.batch = 0]

\* handleRows takes the next row: every BatchSize rows it validates the rows
\* before it, and a row that cannot be read ends it.
TakeRow ==
  /\ ret = "running" /\ ~eof /\ rows.pc = "rows" /\ read < Len(Body)
  /\ read' = read + 1
  /\ LET flush == read % BatchSize = 0 /\ read # 0
         r     == IF flush THEN flushBatch(rows) ELSE rows
     IN  rows' = IF Body[read + 1] = "broken" \/ (flush /\ FlushFails)
                 THEN [rows EXCEPT !.pc = "error"]
                 ELSE [r EXCEPT !.entries = @ + 1, !.batch = @ + Invalid]
  /\ UNCHANGED <<job, added, eof, st, refs, published, ret>>

\* MUTANT: the end of the body leaves the pipe open.
CloseBodyOpen ==
  /\ Begun /\ ~eof /\ read = Len(Body)
  /\ added' = added \union {"body"}
  /\ "body" \notin added
  /\ UNCHANGED <<job, read, eof, rows, st, refs, published, ret>>

\* computeFieldsFile.Read: the end of the body closes the pipe.
CloseBody ==
  /\ Begun /\ ~eof /\ read = Len(Body)
  /\ eof' = TRUE
  /\ added' = added \union {"body"}
  /\ UNCHANGED <<job, read, rows, st, refs, published, ret>>

\* The set up of handleRows: a reader for the format, the schema, the buffers.
Setup ==
  /\ rows.pc = "setup"
  /\ \/ /\ rows' = [rows EXCEPT !.pc = "rows"]
        /\ job.readable
     \/ rows' = [rows EXCEPT !.pc = "error"] /\ ~job.readable
  /\ UNCHANGED <<job, added, read, eof, st, refs, published, ret>>

\* handleRows after the last row: the last batch, then the counts are put
\* into the structure of the dataset that is being saved.
FinishRows ==
  /\ rows.pc = "rows" /\ eof
  /\ rows' = IF FlushFails THEN [rows EXCEPT !.pc = "error"]
             ELSE [flushBatch(rows) EXCEPT !.pc = "counted"]
  /\ UNCHANGED <<job, added, read, eof, st, refs, published, ret>>

handleRows == Setup \/ TakeRow \/ FinishRows

-----------------------------------------------------------------------------
\* A file that is there from the start.
AddFile(f) ==
  /\ Ready(f)
  /\ f \in {"meta", "transformScript", "transform", "readmeScript", "vizScript", "vizRendered"}
  /\ added' = added \union {f}
  /\ UNCHANGED <<job, read, eof, rows, st, refs, published, ret>>

\* MUTANT: the hook does not wait for handleRows.
StructureHookNoWait ==
  /\ Ready("structure")
  /\ rows' = [rows EXCEPT !.pc = "done"]
  /\ st' = [entries |-> rows.entries, invalid |-> rows.invalid]
  /\ added' = added \union {"structure"}
  /\ UNCHANGED <<job, read, eof, refs, published, ret>>

\* The structure's hook meets handleRows on the channel done; then the
\* structure is written with the counts it finds in the dataset.
StructureHook ==
  /\ Ready("structure")
  /\ rows.pc \in {"counted", "error"}
  /\ IF rows.pc = "error"
     THEN Fail("bodyError")
     ELSE /\ rows' = [rows EXCEPT !.pc = "done"]
          /\ st' = [entries |-> rows.entries, invalid |-> rows.invalid]
          /\ added' = added \union {"structure"}
          /\ UNCHANGED <<job, read, eof, refs, published, ret>>

\* The hook of the stats file reads the accumulator of handleRows.
StatsHook ==
  /\ Ready("stats")
  /\ added' = added \union {"stats"}
  /\ UNCHANGED <<job, read, eof, rows, st, refs, published, ret>>

(***************************************************************************)
(* Whether anything changed.  confirmByteChangesExist compares paths and,  *)
(* for what is inlined, fields; then, unless the commit has its title, the *)
(* values are compared to describe the change.  form tells encodings of    *)
(* one body apart.  Two limits decide how bodies are compared: job.big says *)
(* that the new body was found longer than the limit while it was read,    *)
(* job.prevBig that the length in the previous structure reaches it.       *)
(***************************************************************************)
\* MUTANT: dropped components are overlooked.
SamePathsOfNext ==
  /\ job.hasPrev
  /\ \A c \in Components : job.ds[c] # 0 => job.ds[c] = job.prev[c]
  /\ job.ds.body = job.prev.body /\ job.ds.form = job.prev.form

SamePaths ==
  /\ job.hasPrev
  /\ \A c \in Components : job.ds[c] = job.prev[c]
  /\ job.ds.body = job.prev.body /\ job.ds.form = job.prev.form

confirmByteChangesExist == job.force \/ ~SamePaths

SameComponents == \A c \in Components : job.ds[c] = job.prev[c]

\* What is left of a structure that derives from its body: the invalid rows.
ErrCount(b) == Cardinality({i \in 1 .. Len(b) : b[i] = "invalid"})

\* A new body over the limit is compared by its checksum; any other by its
\* rows, if the previous body was short enough to be inlined.
SameBodies ==
  IF job.big THEN job.ds.body = job.prev.body /\ job.ds.form = job.prev.form
  ELSE job.prevBig \/ job.ds.body = job.prev.body

SameValues ==
  SameComponents /\ ErrCount(job.ds.body) = ErrCount(job.prev.body) /\ SameBodies

generateCommitDescriptions == job.force \/ ~job.hasPrev \/ ~SameValues

\* A title is not looked for where there is one.
ensureCommitTitleAndMessage == job.titled \/ generateCommitDescriptions

\* The files that scripts and components of the dataset are made to refer to.
updateScriptPaths         == added \intersect {"vizScript", "vizRendered", "readmeScript"}
replaceComponentsWithRefs == added \intersect {"structure", "meta", "stats", "body"}

\* The commit's hook: publishes progress, refuses a version without changes,
\* finds a title, points at the components and signs.
CommitHook ==
  /\ Ready("commit")
  /\ IF confirmByteChangesExist /\ ensureCommitTitleAndMessage
     THEN /\ added' = added \union {"commit"}
          /\ refs' = updateScriptPaths \union replaceComponentsWithRefs
          /\ published' = Append(published, "progress")
          /\ UNCHANGED <<job, read, eof, rows, st, ret>>
     ELSE /\ ret' = "noChanges"
          /\ published' = Append(Append(published, "progress"), "completed")
          /\ UNCHANGED <<job, added, read, eof, rows, st, refs>>

\* The hook of dataset.json replaces the components by references to the
\* files added so far.  The transform stays inline.
addDatasetFile ==
  /\ Ready("dataset")
  /\ added' = added \union {"dataset"}
  /\ refs' = updateScriptPaths \union replaceComponentsWithRefs
               \union (added \intersect {"commit"})
  /\ UNCHANGED <<job, read, eof, rows, st, published, ret>>

\* The store refuses a file (external).
FsFault ==
  /\ FsFaults /\ Begun /\ added # WriteDataset
  /\ Fail("storeError")

\* The event that a save began is published by a goroutine of its own.
PublishStarted ==
  /\ rows.pc # "none"
  /\ \A i \in 1 .. Len(published) : published[i] # "started"
  /\ published' = Append(published, "started")
  /\ UNCHANGED <<job, added, read, eof, rows, st, refs, ret>>

\* CreateDataset loads what was written, tells the listeners and returns the
\* path, with the error of a listener if there is one.
CreateDataset ==
  /\ ret = "running" /\ added = WriteDataset
  /\ ret' \in {"ok", "pathAndError"}
  /\ published' = Append(published, "completed")
  /\ UNCHANGED <<job, added, read, eof, rows, st, refs>>

Returned == ret # "running" /\ UNCHANGED vars

Hooks == StructureHook \/ StatsHook \/ CommitHook \/ addDatasetFile

Store == \/ newComputeFieldsFile
         \/ CloseBody
         \/ \E f \in WriteDataset : AddFile(f)
         \/ Hooks
         \/ CreateDataset

Next == Store \/ handleRows \/ PublishStarted \/ FsFault \/ Returned

\* The goroutines run, and the store goes on while it can.
Fairness == WF_vars(Store) /\ WF_vars(handleRows) /\ WF_vars(PublishStarted)

Spec == Init /\ [][Next]_vars /\ Fairness

-----------------------------------------------------------------------------
\* Every variable holds what its comment says.
TypeOK ==
  /\ job \in Jobs
  /\ added \subseteq WriteDataset
  /\ read \in 0 .. Len(Body) /\ eof \in BOOLEAN
  /\ rows \in [pc : {"none", "setup", "rows", "error", "counted", "done"},
               entries : 0 .. Len(Body), batch : 0 .. Len(Body), invalid : 0 .. Len(Body)]
  /\ st \in [entries : {-1} \union 0 .. Len(Body), invalid : {-1} \union 0 .. Len(Body)]
  /\ refs \subseteq WriteDataset
  /\ published \in Seq({"started", "progress", "completed"})
  /\ ret \in {"running", "ok", "pathAndError", "invalid", "noChanges",
              "storeError", "bodyError"}

Count(kind) == Cardinality({i \in 1 .. Len(Body) : Body[i] = kind})

\* The structure that is stored counts all rows of the stored body and all
\* the invalid ones, however the batches fell, and a body with an unreadable
\* row, or an invalid one in strict mode, has no structure.
StructureCountsBody ==
  "structure" \in added =>
     /\ st = [entries |-> Len(Body), invalid |-> Count("invalid")]
     /\ Count("broken") = 0
     /\ job.strict => Count("invalid") = 0

\* A stored dataset file refers to every file of its package that a reader
\* finds through it, and comes after all of them.
PackageComplete ==
  "dataset" \in added =>
     /\ added = WriteDataset
     /\ refs = WriteDataset \ {"dataset", "transform", "transformScript"}

\* The one change of rows that goes unseen: from a body that was too long to
\* be inlined to one that is not too long to be compared.
Shrunk == job.prevBig /\ ~job.big

\* A version is refused for want of changes only if nobody forced it, every
\* component is that of the version before and so are the rows, unless the
\* body came down from over the limit (commit.go:225 and 411): that change
\* is refused too, though dsfs.go:12 says "no values changed".  A version
\* that is stored differs in its bytes, and one that differs in its bytes
\* alone has a title of its own or a body over the limit.
RefusedIffUnchanged ==
  /\ ret = "noChanges" =>
       /\ job.hasPrev /\ ~job.force /\ SameComponents
       /\ job.ds.body = job.prev.body \/ (Shrunk /\ ~job.titled)
  /\ ret = "ok" /\ ~job.force /\ job.hasPrev =>
       /\ ~SamePaths
       /\ SameComponents /\ job.ds.body = job.prev.body => job.titled \/ job.big

\* Listeners hear of the end of a save exactly once, when it returns; of one
\* whose arguments were refused they hear nothing.
CompletedOnce ==
  Cardinality({i \in 1 .. Len(published) : published[i] = "completed"}) =
    (IF ret \in {"running", "invalid"} THEN 0 ELSE 1)

\* A save is refused exactly for want of changes (RefusedIffUnchanged), and
\* however it ends, its end is announced once (CompletedOnce).
OutcomeReported == RefusedIffUnchanged /\ CompletedOnce

\* handleRows gave up with rows left: the store waits on the pipe, and the
\* error waits for the structure's hook, which waits for the store.
Abandoned == rows.pc = "error" /\ ~eof /\ read < Len(Body)

\* A save returns, unless handleRows gave up while rows were left to read.
SaveReturns == <>(ret # "running" \/ Abandoned)

=============================================================================
