------------------------------ MODULE Changes ------------------------------
(***************************************************************************)
(* Comparing two datasets: the change report, which matches the columns of *)
(* two tables by title and subtracts their stats, and diff, which decides  *)
(* what to compare from its parameters.                                    *)
(*                                                                         *)
(* A column is its title, its type and two of its stats; a component is a  *)
(* number: 0 when it is nil, 1 when it is empty, else its content.         *)
(***************************************************************************)
EXTENDS Integers, Sequences, SequencesExt

CONSTANTS Titles, MaxColumns   \* BOUND: columns of a table

ASSUME ChangesAssumption == MaxColumns \in Nat

VARIABLE pair     \* the two sides under test

\* Of the stats only numbers have a maximum; "other" is an array, an object or null.
Column == {c \in [title : Titles, type : {"number", "string", "boolean", "other"}, count : {0, 1}, max : {0, 1}] :
             /\ c.type # "number" => c.max = 0
             /\ c.type = "boolean" => c.count = 1
             /\ c.type = "other" => c.count = 0}
Tables == UNION {[1 .. n -> Column] : n \in 0 .. MaxColumns}

\* A version: csv is whether the structure says so; structure 0 is no structure, and
\* then there are no columns.
Version(part, structure, csv, cols, prev) ==
  [part |-> part, structure |-> structure, csv |-> csv, cols |-> IF structure = 0 THEN <<>> ELSE cols, prev |-> prev]

-----------------------------------------------------------------------------
\* The status of a component that is there on the left, on the right; same: equal.
Status(left, right, same) ==
  CASE left /\ ~right -> "removed" [] ~left /\ right -> "add"
    [] left /\ right -> IF same THEN "unmodified" ELSE "modified"
    [] OTHER -> "missing"

\* Commit and structure count when they are not nil; meta, readme and transform when
\* they are not empty either.  No entry when both are nil.
CommitStatus(l, r)    == IF l = 0 /\ r = 0 THEN "none" ELSE Status(l # 0, r # 0, l = r)
MetaStatus(l, r)      == IF l = 0 /\ r = 0 THEN "none" ELSE Status(l > 1, r > 1, l = r)
ReadmeStatus(l, r)    == IF l = 0 /\ r = 0 THEN "none" ELSE Status(l > 1, r > 1, l = r)
TransformStatus(l, r) == IF l = 0 /\ r = 0 THEN "none" ELSE Status(l > 1, r > 1, l = r)

\* Only csv can be compared.
StructureStatus(l, r) ==
  [ok     |-> (l.structure # 0 => l.csv) /\ (r.structure # 0 => r.csv),
   status |-> IF l.structure = 0 /\ r.structure = 0 THEN "none"
              ELSE Status(l.structure # 0, r.structure # 0, l.structure = r.structure)]

\* The last column with the title, 0 when there is none (colIndex).
Pos(cols, t) == LET at == {i \in DOMAIN cols : cols[i].title = t} IN
                IF at = {} THEN 0 ELSE CHOOSE i \in at : \A j \in at : i >= j

\* The stats of column c (or of none, <<>>) as a column of the type.
Stat(c, type, f) == IF c = <<>> \/ (type # "number" /\ f = "max") THEN 0 ELSE c[1][f]

\* MUTANT: what is on both sides is compared by the left type.
columnStatsDeltaLeft(cl, cr) ==
  LET type == IF cl # <<>> THEN cl[1].type ELSE cr[1].type
      count == Stat(cr, type, "count") - Stat(cl, type, "count")
      max   == Stat(cr, type, "max") - Stat(cl, type, "max") IN
  [res |-> "ok", count |-> count, max |-> max, status |-> Status(cl # <<>>, cr # <<>>, count + max = 0)]

\* columnStatsDelta: cl and cr are a column or <<>>.  The two sides are numbers,
\* strings or booleans, or else incompatible, and the line that logs it reads the type
\* of both sides, the one that is missing too; a column whose deltas add up to 0 counts
\* as unmodified.
columnStatsDelta(cl, cr) ==
  LET both == cl # <<>> /\ cr # <<>>
      type == IF cl # <<>> THEN cl[1].type ELSE cr[1].type
      fits == type # "other" /\ (both => cl[1].type = cr[1].type)
      count == Stat(cr, type, "count") - Stat(cl, type, "count")
      max   == Stat(cr, type, "max") - Stat(cl, type, "max") IN
  [res |-> IF fits THEN "ok" ELSE IF both THEN "error" ELSE "panics", count |-> count, max |-> max,
   status |-> Status(cl # <<>>, cr # <<>>, count + max = 0)]

\* matchColumns: by title; a pair that cannot be compared fails them all, and of several
\* the one the map gives first decides how.
matchColumns(lc, rc) ==
  LET titles == {lc[i].title : i \in DOMAIN lc} \union {rc[i].title : i \in DOMAIN rc}
      col(cols, t) == IF Pos(cols, t) = 0 THEN <<>> ELSE <<cols[Pos(cols, t)]>> IN
  [t \in titles |-> columnStatsDelta(col(lc, t), col(rc, t))]

\* statsDiff: the summary and the columns.
statsDiff(l, r) == [columns |-> matchColumns(l.cols, r.cols), width |-> Len(r.cols) - Len(l.cols)]

\* How a report fails: any of the ways in the set.
NoReport(ways) == [ok |-> FALSE, ways |-> ways]

\* The body of Report, of two versions that are loaded.
Report(l, r) ==
  LET stats == statsDiff(l, r)  structure == StructureStatus(l, r)
      ways  == {stats.columns[t].res : t \in DOMAIN stats.columns} \ {"ok"} IN
  IF ~structure.ok THEN NoReport({"error"})
  ELSE IF ways # {} THEN NoReport(ways)
  ELSE [ok |-> TRUE, commit |-> CommitStatus(l.part, r.part), meta |-> MetaStatus(l.part, r.part),
        readme |-> ReadmeStatus(l.part, r.part), transform |-> TransformStatus(l.part, r.part),
        structure |-> structure.status, stats |-> stats]

\* The head of Report: the left side is loaded first, and a right side without a path
\* is the version before it.
LoadAndReport(versions, left, right) ==
  IF left = 0 THEN NoReport({"error"})
  ELSE LET r == IF right = 0 THEN versions[left].prev ELSE right IN
       IF r = 0 THEN NoReport({"error"}) ELSE Report(versions[left], versions[r])

\* A reference as it is typed: nothing, a name, or a name with a version.  A name
\* becomes the head of the dataset, 0 when it has no version yet.
NotGiven == -1
Named   == 0
ResolveSide(head, s) ==
  [ok |-> s # NotGiven, path |-> IF s = Named THEN head ELSE s]

\* lib.ChangeReport: the right side is resolved first and must be given; a left side
\* that is not given is the name of the right one, without a path.
ChangeReport(versions, head, left, right) ==
  LET r == ResolveSide(head, right)
      l == IF left = NotGiven THEN [ok |-> TRUE, path |-> 0] ELSE ResolveSide(head, left) IN
  IF ~r.ok \/ ~l.ok THEN NoReport({"error"}) ELSE LoadAndReport(versions, l.path, r.path)

-----------------------------------------------------------------------------
(***************************************************************************)
(* Diff.  A side is "", "ref" or "file".                                   *)
(***************************************************************************)
\* MUTANT: the two flags are not looked at when there are two sides.
diffModeUnchecked(p) ==
  IF p.left = "" /\ p.right = "" THEN "invalid"
  ELSE IF p.left # "" /\ p.right # "" THEN IF p.left # p.right THEN "invalid" ELSE IF p.left = "ref" THEN "refs" ELSE "files"
  ELSE IF p.left = "ref" /\ p.dir THEN IF p.prev THEN "invalid" ELSE "workdir"
  ELSE IF p.left = "ref" /\ p.prev THEN "previous"
  ELSE "invalid"

diffMode(p) ==
  IF p.left = "" /\ p.right = "" THEN "invalid"
  ELSE IF p.left # "" /\ p.right # "" THEN
         IF p.left # p.right \/ p.dir \/ p.prev THEN "invalid" ELSE IF p.left = "ref" THEN "refs" ELSE "files"
  ELSE IF p.left = "ref" /\ p.dir THEN IF p.prev THEN "invalid" ELSE "workdir"
  ELSE IF p.left = "ref" /\ p.prev THEN "previous"
  ELSE "invalid"

\* A dataset as it is compared: the stored head has a commit, a viz, a path before it
\* and derived values; a directory has what the user wrote.
Stored(p) == [commit |-> 1, viz |-> p.viz, prev |-> p.older, derived |-> 1, parts |-> p.parts, body |-> "path"]
Checked(p, edit) == [commit |-> 0, viz |-> p.viz, prev |-> 0, derived |-> 0, parts |-> p.parts \union edit, body |-> "path"]

\* With a working directory both sides lose what a directory does not hold, and both
\* bodies are read.
DropForDir(c) == [c EXCEPT !.commit = 0, !.viz = 0, !.prev = 0, !.derived = 0, !.body = "inline"]

\* Diff: the two sides that are compared, the older first.
Diff(p, edit) ==
  LET mode == diffMode(p) IN
  CASE mode = "invalid" -> [ok |-> FALSE]
    [] mode \in {"refs", "files"} -> [ok |-> TRUE, left |-> "left", right |-> "right", same |-> FALSE]
    [] mode = "previous" -> IF p.older = 0 THEN [ok |-> FALSE] ELSE [ok |-> TRUE, left |-> "previous", right |-> "head", same |-> FALSE]
    [] mode = "workdir"  -> [ok |-> TRUE, left |-> "head", right |-> "directory",
                             same |-> DropForDir(Stored(p)) = DropForDir(Checked(p, edit))]

-----------------------------------------------------------------------------
ChangesInit ==
  \/ \E l, r \in Tables : pair = [kind |-> "report", l |-> Version(2, 1, TRUE, l, 0), r |-> Version(2, 2, TRUE, r, 0)]
  \/ \E a, b \in 0 .. 3, s, u \in 0 .. 2, csv \in BOOLEAN :
       pair = [kind |-> "report", l |-> Version(a, s, csv, <<>>, 1), r |-> Version(b, u, TRUE, <<>>, 0)]
  \/ \E left, right \in {"", "ref", "file"}, dir, prev \in BOOLEAN, older \in 0 .. 1, parts \in SUBSET {"meta", "readme"}, viz \in 0 .. 1 :
       pair = [kind |-> "diff", left |-> left, right |-> right, dir |-> dir, prev |-> prev,
               older |-> older, parts |-> parts, viz |-> viz]

-----------------------------------------------------------------------------
Mirror(s) == CASE s = "add" -> "removed" [] s = "removed" -> "add" [] OTHER -> s

\* The report of two versions the other way round says the same the other way round:
\* it fails for both or for neither and in the same ways, added is removed, every delta
\* has the other sign; a version has no changes to itself, and is reported on unless it
\* is no csv or has a column that is no number, string or boolean.  Of a dataset with
\* two versions, a side that names one is that one and a side that names none is the
\* head, and a right side must be given; where the right dataset has no version yet it
\* is the one before the left (lib.ChangeReport, changes.Report, matchColumns,
\* columnStatsDelta).
ReportMirrors ==
  pair.kind = "report" =>
    LET a == Report(pair.l, pair.r)  b == Report(pair.r, pair.l)  self == Report(pair.l, pair.l)
        ds == <<pair.r, pair.l>> IN
    /\ a.ok = b.ok
    /\ ~a.ok => a.ways = b.ways
    /\ a.ok => /\ \A f \in {"commit", "meta", "readme", "transform", "structure"} : b[f] = Mirror(a[f])
               /\ DOMAIN a.stats.columns = DOMAIN b.stats.columns /\ a.stats.width = 0 - b.stats.width
               /\ \A t \in DOMAIN a.stats.columns :
                    LET x == a.stats.columns[t]  y == b.stats.columns[t] IN
                    y.status = Mirror(x.status) /\ y.count = 0 - x.count /\ y.max = 0 - x.max
    /\ self.ok => \A t \in DOMAIN self.stats.columns : self.stats.columns[t].status = "unmodified"
    /\ self.ok <=> (pair.l.structure # 0 => pair.l.csv) /\
                   \A t \in DOMAIN statsDiff(pair.l, pair.l).columns : pair.l.cols[Pos(pair.l.cols, t)].type # "other"
    /\ pair.l.prev = 1 =>
         /\ ChangeReport(ds, 2, 2, 1) = a /\ ChangeReport(ds, 2, Named, 1) = a
         /\ ChangeReport(ds, 2, 1, Named) = b
         /\ ChangeReport(ds, 0, 2, Named) = a
         /\ \A left \in NotGiven .. 2 : ~ChangeReport(ds, 2, left, NotGiven).ok

\* Diff takes its parameters in the three ways its comment lists and in no other, and
\* a directory that holds what the head holds has no difference to it, whether or
\* not the head has a viz or a version before it (lib.diffMode, lib.Diff).
DiffDocumented ==
  pair.kind = "diff" =>
    LET ways == <<pair.left # "" /\ pair.right = pair.left /\ ~pair.dir /\ ~pair.prev,
                  pair.left = "ref" /\ pair.right = "" /\ pair.dir /\ ~pair.prev,
                  pair.left = "ref" /\ pair.right = "" /\ pair.prev /\ ~pair.dir /\ pair.older # 0>> IN
    /\ Diff(pair, {}).ok <=> \E i \in DOMAIN ways : ways[i]
    /\ (Diff(pair, {}).ok /\ ways[2]) => Diff(pair, {}).same
    /\ (Diff(pair, {}).ok /\ ways[2]) => \A c \in {"meta", "readme"} \ pair.parts : ~Diff(pair, {c}).same

\* Two datasets are compared as the parameters say, and alike from both sides: change reports
\* (ReportMirrors) and diffs (DiffDocumented).
ComparedFairly == ReportMirrors /\ DiffDocumented
=============================================================================
