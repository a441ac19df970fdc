--------------------------- MODULE WorkdirProofs ---------------------------
(***************************************************************************)
(* What status says of a working directory, and what a command that nobody *)
(* disturbed leaves behind, for any number of clients and any contents.    *)
(***************************************************************************)
EXTENDS Workdir, FiniteSetTheorems, WellFoundedInduction, TLAPS

-----------------------------------------------------------------------------
(* Constants. *)

\* There is a least value.
LEMMA LeastValue == Min(Values) \in Values
<1> DEFINE R == {ss \in Nat \X Nat : ss[1] < ss[2]}
<1>1. IsWellFoundedOn(R, Nat)
  BY NatLessThanWellFounded DEF OpToRel
<1>2. \E x \in Values : \A y \in Values : ~(<<y, x>> \in R)
  <2> HIDE DEF R
  <2> QED BY <1>1, ValuesAssumption, WFMin
<1>3. PICK x \in Values : \A y \in Values : ~(<<y, x>> \in R)
  BY <1>2
<1>4. \A y \in Values : x =< y
  <2> SUFFICES ASSUME NEW y \in Values, ~(x =< y) PROVE FALSE
    OBVIOUS
  <2>1. x \in Nat /\ y \in Nat
    BY ValuesAssumption
  <2>2. y < x
    BY <2>1
  <2> DEFINE z == <<y, x>>
  <2>3. z \in Nat \X Nat /\ z[1] = y /\ z[2] = x
    BY <2>1
  <2>4. z \in R
    <3> HIDE DEF z
    <3> QED BY <2>2, <2>3
  <2> QED BY <1>3, <2>4
<1> QED BY <1>4 DEF Min

LEMMA KindNames == Kinds = {"commit", "meta", "structure", "readme", "transform", "body"}
<1>1. DOMAIN AllSubcomponentNames = 1..6
  BY DEF AllSubcomponentNames
<1>2. /\ AllSubcomponentNames[1] = "commit" /\ AllSubcomponentNames[2] = "meta" /\ AllSubcomponentNames[3] = "structure"
      /\ AllSubcomponentNames[4] = "readme" /\ AllSubcomponentNames[5] = "transform" /\ AllSubcomponentNames[6] = "body"
  BY DEF AllSubcomponentNames
<1>3. 1..6 = {1, 2, 3, 4, 5, 6}
  OBVIOUS
<1> QED BY <1>1, <1>2, <1>3 DEF Kinds

\* The file a kind is written to.
FileOf(k) == SetSubcomponent(k).file

LEMMA KindFiles ==
  /\ FileOf("commit") = "commit.json" /\ FileOf("meta") = "meta.json" /\ FileOf("structure") = "structure.json"
  /\ FileOf("readme") = "readme.md" /\ FileOf("transform") = "transform.star" /\ FileOf("body") = "body.csv"
BY DEF FileOf, SetSubcomponent, MetaComponent, StructureComponent, CommitComponent, ReadmeComponent,
       TransformComponent, BodyComponent

LEMMA KindKnown ==
  /\ GetKnownFilenames["commit"] = {"commit.json"} /\ GetKnownFilenames["meta"] = {"meta.json", "meta.yaml"}
  /\ GetKnownFilenames["structure"] = {"structure.json"} /\ GetKnownFilenames["readme"] = {"readme.md", "readme.html"}
  /\ GetKnownFilenames["transform"] = {"transform.star"} /\ GetKnownFilenames["body"] = {"body.csv"}
BY KindNames, KindFiles DEF FileOf, GetKnownFilenames

LEMMA FileNames == Files = {"commit.json", "meta.json", "meta.yaml", "structure.json", "readme.md", "readme.html",
                            "transform.star", "body.csv"}
BY KindNames, KindKnown DEF Files

LEMMA FilesFinite == IsFiniteSet(Files)
<1>1. \A S : \A x : IsFiniteSet(S) => IsFiniteSet(S \union {x})
  BY FS_AddElement
<1> DEFINE A == {} \union {"commit.json"} \union {"meta.json"}
           B == A \union {"meta.yaml"} \union {"structure.json"}
           C == B \union {"readme.md"} \union {"readme.html"}
           D == C \union {"transform.star"} \union {"body.csv"}
<1>2. IsFiniteSet(A)
  BY <1>1, FS_EmptySet
<1>3. IsFiniteSet(B)
  <2> HIDE DEF A
  <2> QED BY <1>1, <1>2
<1>4. IsFiniteSet(C)
  <2> HIDE DEF B
  <2> QED BY <1>1, <1>3
<1>5. IsFiniteSet(D)
  <2> HIDE DEF C
  <2> QED BY <1>1, <1>4
<1>6. Files = D
  BY FileNames
<1> QED BY <1>5, <1>6

\* A file belongs to one kind.
LEMMA OneKind ==
  /\ \A k \in Kinds : FileOf(k) \in GetKnownFilenames[k] /\ GetKnownFilenames[k] \subseteq Files
  /\ \A k, l \in Kinds : k # l => GetKnownFilenames[k] \intersect GetKnownFilenames[l] = {}
  /\ \A k, l \in Kinds : FileOf(l) \in GetKnownFilenames[k] => k = l
BY KindNames, KindFiles, KindKnown, FileNames

-----------------------------------------------------------------------------
(* Fields and files. *)

\* The script of a component is one of its own making, and is its own script.
LEMMA Scripts ==
  ASSUME NEW v \in Values
  PROVE  /\ Script[v] \in Values /\ FieldsOf[Script[v]] = ScriptField(FieldsOf[v])
         /\ Script[Script[v]] = Script[v]
<1> DEFINE S(x) == CHOOSE w \in Values : FieldsOf[w] = ScriptField(FieldsOf[x])
<1>1. \A x \in Values : Script[x] = S(x)
  BY DEF Script
<1>2. \A x \in Values : S(x) \in Values /\ FieldsOf[S(x)] = ScriptField(FieldsOf[x])
  BY FieldsAssumption
<1>3. ScriptField(ScriptField(FieldsOf[v])) = ScriptField(FieldsOf[v])
  BY DEF ScriptField
<1>4. ScriptField(FieldsOf[S(v)]) = ScriptField(FieldsOf[v])
  BY <1>2, <1>3
<1>5. S(S(v)) = S(v)
  BY <1>4
<1> HIDE DEF S
<1>6. Script[v] = S(v) /\ Script[S(v)] = S(S(v))
  BY <1>1, <1>2
<1> QED BY <1>2, <1>5, <1>6

\* What is not in a file is in no component, and the other way round.
LEMMA FileValues ==
  ASSUME NEW k, NEW v \in Contents
  PROVE  /\ InFile(k, v) \in Contents /\ InFile(k, InFile(k, v)) = InFile(k, v)
         /\ InFile(k, v) = Absent <=> v = Absent
         /\ InFile(k, v) = Empty <=> v = Empty
         /\ InFile(k, v) = Bad <=> v = Bad
         /\ k # "transform" => InFile(k, v) = v
<1>1. \A x \in Values : x \notin {Absent, Empty, Bad} /\ x \in Contents
  BY ValuesAssumption DEF Contents, Absent, Empty, Bad
<1>2. CASE k = "transform" /\ v \in Values
  <2>1. InFile(k, v) = Script[v] /\ Script[v] \in Values /\ Script[Script[v]] = Script[v]
    BY <1>2, Scripts DEF InFile
  <2>2. InFile(k, Script[v]) = Script[v]
    BY <1>2, <2>1 DEF InFile
  <2> QED BY <1>1, <1>2, <2>1, <2>2
<1>3. CASE ~(k = "transform" /\ v \in Values)
  <2>1. InFile(k, v) = v
    BY <1>3 DEF InFile
  <2> QED BY <2>1
<1> QED BY <1>2, <1>3

\* A merged component has every field of the second one, and of the first one no script
\* where the second one has one.
LEMMA MergedFields ==
  ASSUME NEW a \in Values, NEW b \in Values
  PROVE  /\ Merge[a][b] \in Values /\ FieldsOf[Merge[a][b]] = Patched(FieldsOf[a], FieldsOf[b])
         /\ FieldsOf[b] \subseteq FieldsOf[Merge[a][b]]
<1> DEFINE M == CHOOSE v \in Values : FieldsOf[v] = Patched(FieldsOf[a], FieldsOf[b])
<1>1. Merge[a][b] = M
  BY DEF Merge
<1>2. M \in Values /\ FieldsOf[M] = Patched(FieldsOf[a], FieldsOf[b])
  BY FieldsAssumption
<1> HIDE DEF M
<1>3. FieldsOf[b] \subseteq Patched(FieldsOf[a], FieldsOf[b])
  BY DEF Patched
<1> QED BY <1>1, <1>2, <1>3

\* What is merged parses, and is neither absent nor empty unless the second one is.
LEMMA MergedOK ==
  ASSUME NEW k \in Kinds, NEW a \in Contents, NEW b \in Contents
  PROVE  /\ Merged(k, a, b) \in Contents /\ (Merged(k, a, b) = b \/ Merged(k, a, b) \in Values)
         /\ b \notin {Absent, Empty} => Merged(k, a, b) \notin {Absent, Empty}
         /\ b # Absent => Merged(k, a, b) # Absent
         /\ b \in Values => Merged(k, a, b) \in Values /\ FieldsOf[b] \subseteq FieldsOf[Merged(k, a, b)]
<1>1. \A x \in Values : x \notin {Absent, Empty} /\ x \in Contents
  BY ValuesAssumption DEF Contents, Absent, Empty
<1>2. CASE SetSubcomponent(k).merged /\ a \in Values /\ b \in Values
  <2>1. Merged(k, a, b) = Merge[a][b]
    BY <1>2 DEF Merged
  <2> QED BY <1>1, <1>2, <2>1, MergedFields
<1>3. CASE ~(SetSubcomponent(k).merged /\ a \in Values /\ b \in Values)
  <2>1. Merged(k, a, b) = b
    BY <1>3 DEF Merged
  <2> QED BY <2>1
<1> QED BY <1>2, <1>3

-----------------------------------------------------------------------------
(* Reading a directory and comparing it. *)

\* A component whose status is none or unmodified is read as it is stored, of a transform
\* the script.
LEMMA CleanComponent ==
  ASSUME NEW d, NEW v, NEW k \in Kinds, Status(d, v)[k] \in {"none", "unmodified"}
  PROVE  LET c == ExpandListedComponents(d)[k] IN
         /\ ~c.problem /\ InFile(k, c.val) = InFile(k, ConvertDatasetToComponents(v)[k]) /\ LoadFile(k, c.val)
         /\ k # "transform" => c.val = ConvertDatasetToComponents(v)[k]
<1> DEFINE c == ExpandListedComponents(d)[k]
           p == ConvertDatasetToComponents(v)[k]
<1>1. Status(d, v)[k] = CASE c.problem -> "conflict"
                          [] p = Absent /\ c.val = Absent /\ ~c.problem -> "none"
                          [] p = Absent /\ c.val # Absent /\ ~c.problem -> "add"
                          [] p # Absent /\ c.val = Absent /\ ~c.problem -> "removed"
                          [] OTHER -> Compare(k, p, c.val)
  BY DEF Status, CalculateStateTransition
<1> HIDE DEF c, p
<1>2. ~c.problem
  BY <1>1
<1>3. CASE p = Absent /\ c.val = Absent
  BY <1>2, <1>3 DEF LoadFile, Absent, Bad, c, p
<1>4. CASE p = Absent /\ c.val # Absent
  BY <1>1, <1>2, <1>4
<1>5. CASE p # Absent /\ c.val = Absent
  BY <1>1, <1>2, <1>5
<1>6. CASE p # Absent /\ c.val # Absent
  <2>1. Compare(k, p, c.val) \in {"none", "unmodified"}
    BY <1>1, <1>2, <1>6
  <2>2. LoadFile(k, c.val) /\ InFile(k, p) = InFile(k, c.val)
    <3>1. CASE ~LoadFile(k, c.val)
      BY <2>1, <3>1 DEF Compare
    <3>2. CASE LoadFile(k, c.val) /\ InFile(k, p) # InFile(k, c.val)
      BY <2>1, <3>2 DEF Compare
    <3> QED BY <3>1, <3>2
  <2>3. k # "transform" => p = c.val
    BY <2>2 DEF InFile
  <2> QED BY <1>2, <2>2, <2>3 DEF c, p
<1> QED BY <1>3, <1>4, <1>5, <1>6

\* Status and the reading of the directory agree on a clean one.
LEMMA CleanReads ==
  ASSUME NEW d, NEW v, IsWorkingDirectoryClean(d, v), NEW k \in Kinds
  PROVE  /\ ReadDir(d).ok
         /\ InFile(k, ReadDir(d).ds[k]) = InFile(k, ConvertDatasetToComponents(v)[k])
         /\ k # "transform" => ReadDir(d).ds[k] = ConvertDatasetToComponents(v)[k]
<1> DEFINE comps == ExpandListedComponents(d)
           p == ConvertDatasetToComponents(v)
<1>1. ~Unreadable(d) /\ \A l \in Kinds : Status(d, v)[l] \in {"none", "unmodified"}
  BY DEF IsWorkingDirectoryClean
<1>2. \A l \in Kinds : /\ ~comps[l].problem /\ InFile(l, comps[l].val) = InFile(l, p[l]) /\ LoadFile(l, comps[l].val)
                       /\ l # "transform" => comps[l].val = p[l]
  BY <1>1, CleanComponent
<1> HIDE DEF comps, p
<1>3. GetProblems(comps) = {}
  BY <1>2 DEF GetProblems
<1>4. ReadDir(d) = ToDataset(comps)
  BY <1>1, <1>3 DEF ReadDir, comps
<1>5. ToDataset(comps).ok
  BY <1>2 DEF ToDataset
<1>6. ToDataset(comps).ds[k] = comps[k].val
  BY DEF ToDataset
<1> QED BY <1>2, <1>4, <1>5, <1>6 DEF p

\* Of a directory of the files qri writes one file is listed for a kind, or none.
LEMMA PlainLists ==
  ASSUME NEW d, Plain(d), NEW k \in Kinds
  PROVE  ListDirectoryComponents(d)[k] = IF d.files[FileOf(k)] = Absent THEN {} ELSE {FileOf(k)}
<1> DEFINE f == FileOf(k)
           listed == ListDirectoryComponents(d)[k]
<1>1. \A g \in Files : d.files[g] # Absent => \E l \in Kinds : g = FileOf(l)
  BY DEF Plain, FileOf
<1>2. listed = {g \in GetKnownFilenames[k] : d.files[g] # Absent}
  BY DEF ListDirectoryComponents
<1>3. \A g \in listed : g = f
  BY <1>1, <1>2, OneKind
<1> QED BY <1>2, <1>3, OneKind

\* It is read from them.
LEMMA PlainReads ==
  ASSUME NEW d, Plain(d), NEW k \in Kinds
  PROVE  LET c == ExpandListedComponents(d)[k] IN c.problem = FALSE /\ c.val = d.files[FileOf(k)]
<1> DEFINE f == FileOf(k)
           listed == ListDirectoryComponents(d)[k]
<1>1. d.ds[k] = Absent
  BY DEF Plain, NoDataset
<1>2. listed = IF d.files[f] = Absent THEN {} ELSE {f}
  BY PlainLists
<1> HIDE DEF listed, f
<1>3. Cardinality(listed) = IF d.files[f] = Absent THEN 0 ELSE 1
  BY <1>2, FS_EmptySet, FS_Singleton
<1>4. ~assignField(d, k)
  BY <1>1, <1>3 DEF assignField, listed
<1>5. ExpandListedComponents(d)[k] =
        IF listed # {} THEN LET g == CHOOSE g \in listed : TRUE IN [problem |-> FALSE, val |-> d.files[g], file |-> g]
        ELSE [problem |-> FALSE, val |-> d.ds[k], file |-> IF d.ds[k] = Absent THEN "none" ELSE "dataset.json"]
  BY <1>4 DEF ExpandListedComponents, listed
<1>6. CASE d.files[f] = Absent
  BY <1>1, <1>2, <1>5, <1>6 DEF f
<1>7. CASE d.files[f] # Absent
  <2> DEFINE g == CHOOSE g \in listed : TRUE
  <2>1. g = f /\ listed # {}
    BY <1>2, <1>7
  <2>2. ExpandListedComponents(d)[k] = [problem |-> FALSE, val |-> d.files[g], file |-> g]
    BY <1>5, <2>1
  <2> HIDE DEF g
  <2> QED BY <2>1, <2>2 DEF f
<1> QED BY <1>6, <1>7

\* Where the file of a kind holds what is written there of the version, there is no change.
LEMMA SameIsClean ==
  ASSUME NEW d, Plain(d), NEW v, NEW k \in Kinds, ConvertDatasetToComponents(v)[k] \in Contents,
         d.files[FileOf(k)] = InFile(k, ConvertDatasetToComponents(v)[k]), LoadFile(k, d.files[FileOf(k)])
  PROVE  Status(d, v)[k] \in {"none", "unmodified"}
<1> DEFINE c == ExpandListedComponents(d)[k]
           p == ConvertDatasetToComponents(v)[k]
<1>1. Status(d, v)[k] = CASE c.problem -> "conflict"
                          [] p = Absent /\ c.val = Absent /\ ~c.problem -> "none"
                          [] p = Absent /\ c.val # Absent /\ ~c.problem -> "add"
                          [] p # Absent /\ c.val = Absent /\ ~c.problem -> "removed"
                          [] OTHER -> Compare(k, p, c.val)
  BY DEF Status, CalculateStateTransition
<1>2. c.problem = FALSE /\ c.val = InFile(k, p) /\ LoadFile(k, c.val) /\ p \in Contents
  BY PlainReads
<1> HIDE DEF c, p
<1>3. InFile(k, p) = InFile(k, c.val) /\ (c.val = Absent <=> p = Absent)
  BY <1>2, FileValues
<1>4. Compare(k, p, c.val) = "unmodified"
  BY <1>2, <1>3 DEF Compare
<1> QED BY <1>1, <1>2, <1>3, <1>4

-----------------------------------------------------------------------------
(* Writing a directory. *)

\* What is to be written to a file that has the kind: an empty script is never.
Writable(k, v) == v # Empty \/ k \in {"meta", "body"}

\* A component is written, or restoring it removes its file; the other files stay.
LEMMA Written ==
  ASSUME NEW d, Plain(d), d = [files |-> d.files, ds |-> d.ds], d.files \in [Files -> Contents],
         NEW k \in Kinds, NEW v \in Contents, NEW op, v # Absent \/ op = "restore", Writable(k, v)
  PROVE  LET e == WriteOrDelete(d, k, v, op) IN
         /\ e.files = [d.files EXCEPT ![FileOf(k)] = InFile(k, v)] /\ e.ds = d.ds
         /\ e = [files |-> e.files, ds |-> e.ds] /\ e.files \in [Files -> Contents] /\ Plain(e)
<1> DEFINE f == FileOf(k)
           w == InFile(k, v)
           fs == [d.files EXCEPT ![f] = w]
           e == WriteOrDelete(d, k, v, op)
<1>1. f \in Files /\ w \in Contents /\ (v = Absent => w = Absent)
  BY OneKind, FileValues
<1> HIDE DEF w
<1>2. e = [files |-> fs, ds |-> d.ds]
  <2>1. CASE v # Absent
    <3>1. e = [d EXCEPT !.files[f] = w]
      BY <2>1, KindNames DEF w, WriteOrDelete, WriteTo, Writable, FileOf, SetSubcomponent, MetaComponent, StructureComponent,
            CommitComponent, ReadmeComponent, TransformComponent, BodyComponent
    <3> QED BY <3>1
  <2>2. CASE v = Absent
    <3>1. e = RemoveFrom(d, k)
      BY <2>2 DEF WriteOrDelete
    <3> DEFINE g == IF SetSubcomponent(k).byFormat THEN FormatFile(d, k) ELSE f
    <3>2. RemoveFrom(d, k) = IF g \in Files THEN [d EXCEPT !.files[g] = Absent] ELSE d
      BY DEF RemoveFrom, FileOf
    <3>3. g = f \/ (g = "none" /\ d.files[f] = Absent)
      <4>1. ListDirectoryComponents(d)[k] = IF d.files[f] = Absent THEN {} ELSE {f}
        BY PlainLists
      <4>2. f # "readme.html"
        BY KindNames, KindFiles
      <4>3. FormatFile(d, k) = f \/ (FormatFile(d, k) = "none" /\ d.files[f] = Absent)
        BY <4>1, <4>2 DEF FormatFile, FileOf
      <4> QED BY <4>3
    <3> HIDE DEF g
    <3>4. CASE g = f
      BY <1>1, <2>2, <3>1, <3>2, <3>4
    <3>5. CASE g = "none" /\ d.files[f] = Absent
      <4>1. g \notin Files
        BY <3>5, FileNames
      <4>2. fs = d.files
        BY <1>1, <2>2, <3>5
      <4> QED BY <3>1, <3>2, <4>1, <4>2
    <3> QED BY <3>3, <3>4, <3>5
  <2> QED BY <2>1, <2>2
<1> HIDE DEF e
<1>3. e.files = fs /\ e.ds = d.ds /\ e = [files |-> e.files, ds |-> e.ds]
  BY <1>2
<1>4. fs \in [Files -> Contents]
  BY <1>1
<1>5. Plain(e)
  BY <1>1, <1>3 DEF Plain, FileOf
<1> QED BY <1>3, <1>4, <1>5 DEF e, w

\* Deleting the files of a directory where no component has two leaves none.
LEMMA Deleted ==
  ASSUME NEW d, d.ds = NoDataset, \A k \in Kinds : ~assignField(d, k), d = [files |-> d.files, ds |-> d.ds],
         d.files \in [Files -> Contents], NEW e \in DeleteComponentFiles(d)
  PROVE  e = EmptyDir
<1>1. CASE NoDatasetFiles(d)
  <2>1. e = d
    BY <1>1 DEF DeleteComponentFiles
  <2>2. \A k \in Kinds : \A f \in GetKnownFilenames[k] : d.files[f] = Absent
    BY <1>1 DEF NoDatasetFiles, ListDirectoryComponents
  <2>3. \A f \in Files : d.files[f] = Absent
    BY <2>2 DEF Files
  <2>4. d.files = [f \in Files |-> Absent]
    BY <2>3
  <2> QED BY <2>1, <2>4 DEF EmptyDir
<1>2. CASE ~NoDatasetFiles(d)
  <2>1. PICK gone \in SUBSET Files :
          /\ \A k \in Kinds : LET here == ListDirectoryComponents(d)[k] IN
                              Cardinality(gone \intersect GetKnownFilenames[k]) = (IF here = {} THEN 0 ELSE 1)
                              /\ gone \intersect GetKnownFilenames[k] \subseteq here
          /\ e = [d EXCEPT !.files = [f \in Files |-> IF f \in gone THEN Absent ELSE d.files[f]]]
    BY <1>2 DEF DeleteComponentFiles
  <2>2. \A k \in Kinds : \A f \in GetKnownFilenames[k] : d.files[f] # Absent => f \in gone
    <3> SUFFICES ASSUME NEW k \in Kinds, NEW f \in GetKnownFilenames[k], d.files[f] # Absent PROVE f \in gone
      OBVIOUS
    <3> DEFINE here == ListDirectoryComponents(d)[k]
               g == gone \intersect GetKnownFilenames[k]
    <3>1. f \in here /\ here \subseteq GetKnownFilenames[k]
      BY DEF ListDirectoryComponents
    <3>2. Cardinality(here) \in Nat /\ IsFiniteSet(here)
      <4>1. here \subseteq Files
        BY <3>1, OneKind
      <4> QED BY <4>1, FilesFinite, FS_Subset, FS_CardinalityType
    <3>3. ~(Cardinality(here) > 1)
      BY DEF assignField
    <3>4. Cardinality(g) = 1 /\ g \subseteq here
      BY <2>1, <3>1
    <3> HIDE DEF here, g
    <3>5. g = here
      BY <3>2, <3>3, <3>4, FS_Subset
    <3> QED BY <3>1, <3>5 DEF g
  <2>3. \A f \in Files : (IF f \in gone THEN Absent ELSE d.files[f]) = Absent
    BY <2>2 DEF Files
  <2>4. [f \in Files |-> IF f \in gone THEN Absent ELSE d.files[f]] = [f \in Files |-> Absent]
    BY <2>3
  <2> DEFINE fs == [f \in Files |-> IF f \in gone THEN Absent ELSE d.files[f]]
  <2>5. e = [d EXCEPT !.files = fs]
    BY <2>1
  <2>6. fs = [f \in Files |-> Absent]
    BY <2>4
  <2> HIDE DEF fs
  <2> QED BY <2>5, <2>6 DEF EmptyDir
<1> QED BY <1>1, <1>2


-----------------------------------------------------------------------------
(***************************************************************************)
(* The inductive invariant.                                                *)
(***************************************************************************)
\* What a version, or none, holds.
Holds(vs, v) == IF v = 0 THEN NoDataset ELSE vs[v].ds

\* Nothing in a version fails to parse, has no file to go to, or is a commit.
StoredOK(vs) ==
  \A v \in DOMAIN vs : /\ vs[v].ds["commit"] = Absent
                       /\ \A k \in Kinds : LoadFile(k, vs[v].ds[k]) /\ Writable(k, vs[v].ds[k])

\* No script is empty, and the file of a transform holds a script alone.
DirOK(d) ==
  /\ d.files["transform.star"] = InFile("transform", d.files["transform.star"])
  /\ d.files["readme.md"] # Empty /\ d.files["readme.html"] # Empty /\ d.files["transform.star"] # Empty
  /\ d.ds["readme"] # Empty /\ d.ds["transform"] # Empty

\* The file of the j-th kind: written, or not yet; one that will not be is not there.
Settled(r, d, j) ==
  LET k == AllSubcomponentNames[j]
      v == d.files[FileOf(k)]
  IN  r.scope \in {All, k} => /\ j <= r.i => v = InFile(k, r.ds[k])
                              /\ j > r.i /\ r.ds[k] = Absent /\ r.op # "restore" => v = Absent

\* What a call relies on that nobody has disturbed.
Undisturbed(r, d) ==
  /\ r.pc = "link" => d = EmptyDir
  /\ r.pc \in {"apply", "commit"} =>
                        /\ Plain(d) /\ d.files["commit.json"] = Absent /\ ReadDir(d).ok
                        /\ \A k \in Kinds : d.files[FileOf(k)] # Absent => r.ds[k] # Absent
  /\ r.pc = "files" => Plain(d) /\ \A j \in 1..6 : Settled(r, d, j)

\* What a call does where, and with what: it writes the files of a version, unless
\* it is a write.
CallOK(r, vs, h) ==
  /\ r \in Calls /\ r.at \in 0..Len(vs)
  /\ r.op = "none" <=> r.pc = "idle"
  /\ r.ds["readme"] # Empty /\ r.ds["transform"] # Empty
  /\ r.pc \in {"read", "apply", "commit"} => r.op = "save" /\ \A k \in Kinds \ {"body"} : LoadFile(k, r.ds[k])
  /\ r.pc = "rewind" => r.op = "remove" /\ h # 0
  /\ r.pc = "delete" => r.op = "remove"
  /\ r.pc = "link" => r.op = "checkout"
  /\ r.pc # "files" => r.i = 0 /\ r.scope = All
  /\ r.op = "write" => r.quiet = FALSE
  /\ r.pc \in {"link", "delete"} \/ (r.pc = "files" /\ r.op # "write") => r.ds = Holds(vs, r.at)

ClientOK(r, d, vs, h) == CallOK(r, vs, h) /\ (r.quiet => Undisturbed(r, d))

WInv ==
  /\ TypeOK /\ StoredOK(versions) /\ DirOK(dir)
  /\ \A c \in Clients : ClientOK(me[c], dir, versions, head)


-----------------------------------------------------------------------------
(* A step of one client, seen by the others. *)

LEMMA NamesAt ==
  /\ DOMAIN AllSubcomponentNames = 1..6
  /\ \A j \in 1..6 : AllSubcomponentNames[j] \in Kinds
  /\ \A k \in Kinds : \E j \in 1..6 : k = AllSubcomponentNames[j]
  /\ \A i, j \in 1..6 : AllSubcomponentNames[i] = AllSubcomponentNames[j] => i = j
<1>1. DOMAIN AllSubcomponentNames = 1..6
  BY DEF AllSubcomponentNames
<1>2. /\ AllSubcomponentNames[1] = "commit" /\ AllSubcomponentNames[2] = "meta" /\ AllSubcomponentNames[3] = "structure"
      /\ AllSubcomponentNames[4] = "readme" /\ AllSubcomponentNames[5] = "transform" /\ AllSubcomponentNames[6] = "body"
  BY DEF AllSubcomponentNames
<1>3. \A j \in 1..6 : j \in {1, 2, 3, 4, 5, 6}
  OBVIOUS
<1>4. \A i, j \in 1..6 : AllSubcomponentNames[i] = AllSubcomponentNames[j] => i = j
  BY <1>2, <1>3
<1> QED BY <1>1, <1>2, <1>4 DEF Kinds

VersionType == [ds : [Kinds -> Contents], prev : Nat]
VersionsOK(vs) == vs \in Seq(VersionType) /\ \A v \in DOMAIN vs : vs[v].prev \in 0..Len(vs)
\* Versions are only added.
Grows(vs, ws) == Len(vs) <= Len(ws) /\ \A v \in 1..Len(vs) : ws[v] = vs[v]

LEMMA GrowsNot == ASSUME NEW vs, VersionsOK(vs) PROVE Grows(vs, vs)
BY DEF VersionsOK, Grows

\* What a call has, but whether it is quiet.
LEMMA CallFields ==
  ASSUME NEW r \in Calls, NEW q \in BOOLEAN, NEW s, s = [r EXCEPT !.quiet = q]
  PROVE  /\ s \in Calls /\ s.quiet = q
         /\ s.op = r.op /\ s.pc = r.pc /\ s.at = r.at /\ s.ds = r.ds /\ s.scope = r.scope /\ s.i = r.i
BY DEF Calls

\* A call that another client's step leaves alone, or that learns that it did not.
LEMMA OtherOK ==
  ASSUME NEW r, NEW d, NEW vs, NEW h, ClientOK(r, d, vs, h), VersionsOK(vs),
         NEW e, NEW ws, NEW g, VersionsOK(ws), Grows(vs, ws), h # 0 => g # 0,
         NEW q \in BOOLEAN, q => r.quiet /\ e = d, NEW s, s = [r EXCEPT !.quiet = q]
  PROVE  ClientOK(s, e, ws, g)
<1>1. CallOK(r, vs, h) /\ r \in Calls /\ r.at \in 0..Len(vs)
  BY DEF ClientOK, CallOK
<1>2. /\ s \in Calls /\ s.quiet = q
      /\ s.op = r.op /\ s.pc = r.pc /\ s.at = r.at /\ s.ds = r.ds /\ s.scope = r.scope /\ s.i = r.i
  BY <1>1, CallFields
<1>3. Len(vs) \in Nat /\ Len(ws) \in Nat
  BY DEF VersionsOK
<1>4. s.at \in 0..Len(ws) /\ Holds(ws, s.at) = Holds(vs, r.at)
  BY <1>1, <1>2, <1>3 DEF Holds, Grows
<1>5. s.op = "write" => s.quiet = FALSE
  BY <1>1, <1>2 DEF CallOK
<1>6. CallOK(s, ws, g)
  BY <1>1, <1>2, <1>4, <1>5 DEF CallOK
<1>7. ASSUME s.quiet PROVE Undisturbed(s, e)
  <2>1. Undisturbed(r, d) /\ e = d
    BY <1>2, <1>7 DEF ClientOK
  <2>2. \A j \in 1..6 : Settled(r, d, j) => Settled(s, e, j)
    BY <1>2, <2>1 DEF Settled
  <2> QED BY <1>2, <2>1, <2>2 DEF Undisturbed
<1> QED BY <1>6, <1>7 DEF ClientOK

\* Goes: one client goes on, the others learn whether something changed.
LEMMA GoesOn ==
  ASSUME me \in [Clients -> Calls], NEW c \in Clients, NEW rec, Goes(c, rec)
  PROVE  /\ me' = [x \in Clients |-> me'[x]] /\ me'[c] = rec
         /\ \A x \in Clients \ {c} : \E q \in BOOLEAN :
              (q => me[x].quiet /\ dir' = dir) /\ me'[x] = [me[x] EXCEPT !.quiet = q]
<1>1. me' = [x \in Clients |-> IF x = c THEN rec ELSE [me[x] EXCEPT !.quiet = @ /\ UNCHANGED <<dir, head, linked>>]]
  BY DEF Goes
<1>2. me' = [x \in Clients |-> me'[x]] /\ me'[c] = rec
  BY <1>1
<1>3. ASSUME NEW x \in Clients \ {c}
      PROVE  \E q \in BOOLEAN : (q => me[x].quiet /\ dir' = dir) /\ me'[x] = [me[x] EXCEPT !.quiet = q]
  <2> DEFINE q == me[x].quiet /\ UNCHANGED <<dir, head, linked>>
  <2>1. me'[x] = [me[x] EXCEPT !.quiet = q]
    BY <1>1
  <2>2. q \in BOOLEAN /\ (q => me[x].quiet /\ dir' = dir)
    OBVIOUS
  <2> HIDE DEF q
  <2> QED BY <2>1, <2>2
<1> QED BY <1>2, <1>3

LEMMA StepOK ==
  ASSUME WInv, NEW c \in Clients, NEW rec, Goes(c, rec), ClientOK(rec, dir', versions', head'),
         dir' \in [files : [Files -> Contents], ds : [Kinds -> Contents]], DirOK(dir'),
         VersionsOK(versions'), StoredOK(versions'), Grows(versions, versions'),
         head' \in 0..Len(versions'), head # 0 => head' # 0, linked' \in BOOLEAN,
         calls' \in Nat, edits' \in Nat, faults' \in Nat
  PROVE  WInv'
<1>1. me \in [Clients -> Calls] /\ VersionsOK(versions) /\ \A x \in Clients : ClientOK(me[x], dir, versions, head)
  BY DEF WInv, TypeOK, VersionsOK, VersionType
<1>2. /\ me' = [x \in Clients |-> me'[x]] /\ me'[c] = rec
      /\ \A x \in Clients \ {c} : \E q \in BOOLEAN :
           (q => me[x].quiet /\ dir' = dir) /\ me'[x] = [me[x] EXCEPT !.quiet = q]
  BY <1>1, GoesOn
<1>3. ASSUME NEW x \in Clients PROVE ClientOK(me'[x], dir', versions', head')
  <2>1. CASE x = c
    BY <1>2, <2>1
  <2>2. CASE x # c
    <3>1. PICK q \in BOOLEAN : (q => me[x].quiet /\ dir' = dir) /\ me'[x] = [me[x] EXCEPT !.quiet = q]
      BY <1>2, <2>2
    <3>2. ClientOK(me[x], dir, versions, head)
      BY <1>1
    <3> QED BY <1>1, <3>1, <3>2, OtherOK
  <2> QED BY <2>1, <2>2
<1>4. \A x \in Clients : me'[x] \in Calls /\ me'[x].at \in 0..Len(versions')
  BY <1>3 DEF ClientOK, CallOK
<1>5. TypeOK'
  BY <1>2, <1>4 DEF TypeOK, VersionsOK, VersionType
<1>6. StoredOK(versions)' /\ DirOK(dir)'
  BY DEF StoredOK, DirOK
<1>7. \A x \in Clients : ClientOK(me[x], dir, versions, head)'
  BY <1>3
<1> QED BY <1>5, <1>6, <1>7 DEF WInv


\* The same, where the versions and the head stay.
LEMMA StepSame ==
  ASSUME WInv, NEW c \in Clients, NEW rec, Goes(c, rec), UNCHANGED <<versions, head>>,
         ClientOK(rec, dir', versions, head),
         dir' \in [files : [Files -> Contents], ds : [Kinds -> Contents]], DirOK(dir'),
         linked' \in BOOLEAN, calls' \in Nat, edits' \in Nat, faults' \in Nat
  PROVE  WInv'
<1>1. VersionsOK(versions) /\ StoredOK(versions) /\ head \in 0..Len(versions)
  BY DEF WInv, TypeOK, VersionsOK, VersionType
<1>2. Grows(versions, versions)
  BY <1>1, GrowsNot
<1>3. /\ VersionsOK(versions') /\ StoredOK(versions') /\ Grows(versions, versions') /\ head' \in 0..Len(versions')
      /\ (head # 0 => head' # 0) /\ ClientOK(rec, dir', versions', head')
  BY <1>1, <1>2
<1> QED BY <1>3, StepOK

LEMMA IdleOK == ASSUME NEW d, NEW vs, VersionsOK(vs), NEW h PROVE ClientOK(Idle, d, vs, h)
<1>1. NoDataset \in [Kinds -> Contents] /\ \A k \in Kinds : NoDataset[k] = Absent
  BY DEF NoDataset, Contents
<1>2. /\ Idle.op = "none" /\ Idle.pc = "idle" /\ Idle.at = 0 /\ Idle.ds = NoDataset /\ Idle.scope = All
      /\ Idle.i = 0 /\ Idle.sw = {} /\ Idle.quiet = FALSE /\ Idle \in Calls
  BY <1>1 DEF Idle, Calls
<1>3. Idle.ds["readme"] # Empty /\ Idle.ds["transform"] # Empty
  BY <1>1, <1>2, KindNames DEF Absent, Empty
<1>4. Idle.at \in 0..Len(vs)
  BY <1>2 DEF VersionsOK
<1> QED BY <1>2, <1>3, <1>4 DEF ClientOK, CallOK

\* What a version holds can be written to a directory and read from it.
LEMMA HoldsOK ==
  ASSUME NEW vs, VersionsOK(vs), StoredOK(vs), NEW v \in 0..Len(vs)
  PROVE  /\ Holds(vs, v) \in [Kinds -> Contents]
         /\ Holds(vs, v)["commit"] = Absent
         /\ \A k \in Kinds : LoadFile(k, Holds(vs, v)[k]) /\ Writable(k, Holds(vs, v)[k])
         /\ Holds(vs, v)["readme"] # Empty /\ Holds(vs, v)["transform"] # Empty
<1>1. CASE v = 0
  <2>1. Holds(vs, v) = NoDataset
    BY <1>1 DEF Holds
  <2>2. NoDataset \in [Kinds -> Contents] /\ \A k \in Kinds : NoDataset[k] = Absent
    BY DEF NoDataset, Contents
  <2> QED BY <2>1, <2>2, KindNames DEF LoadFile, Writable, Absent, Bad, Empty
<1>2. CASE v # 0
  <2>1. v \in DOMAIN vs /\ Holds(vs, v) = vs[v].ds /\ vs[v] \in VersionType
    BY <1>2 DEF Holds, VersionsOK
  <2>2. vs[v].ds \in [Kinds -> Contents]
    BY <2>1 DEF VersionType
  <2>3. /\ vs[v].ds["commit"] = Absent
        /\ \A k \in Kinds : LoadFile(k, vs[v].ds[k]) /\ Writable(k, vs[v].ds[k])
    BY <2>1 DEF StoredOK
  <2>4. vs[v].ds["readme"] # Empty /\ vs[v].ds["transform"] # Empty
    BY <2>3, KindNames DEF Writable
  <2> QED BY <2>1, <2>2, <2>3, <2>4
<1> QED BY <1>1, <1>2

LEMMA Converts ==
  ASSUME WInv, NEW v \in 0..Len(versions)
  PROVE  ConvertDatasetToComponents(v) = Holds(versions, v)
<1>1. VersionsOK(versions) /\ StoredOK(versions)
  BY DEF WInv, TypeOK, VersionsOK, VersionType
<1>2. Holds(versions, v) \in [Kinds -> Contents] /\ Holds(versions, v)["commit"] = Absent
  BY <1>1, HoldsOK
<1>3. CASE v = 0
  BY <1>3 DEF ConvertDatasetToComponents, Holds
<1>4. CASE v # 0
  <2>1. /\ ConvertDatasetToComponents(v) = [versions[v].ds EXCEPT !["commit"] = Absent]
        /\ Holds(versions, v) = versions[v].ds
    BY <1>4 DEF ConvertDatasetToComponents, Holds
  <2> QED BY <1>2, <2>1
<1> QED BY <1>3, <1>4

\* What the parameters of a save and the API's write may hold.
LEMMA PatchOK ==
  ASSUME NEW p \in Patches
  PROVE  /\ p \in [Kinds -> Contents] /\ p["readme"] # Empty /\ p["transform"] # Empty
         /\ \A k \in Kinds : LoadFile(k, p[k])
<1>1. NoDataset \in [Kinds -> Contents] /\ \A k \in Kinds : NoDataset[k] = Absent
  BY DEF NoDataset, Contents
<1>2. \A v \in Values : v \in Contents /\ v # Empty /\ v # Bad
  BY ValuesAssumption DEF Contents, Empty, Bad
<1>3. p = NoDataset \/ \E l \in {"meta", "readme"}, v \in Values : p = [NoDataset EXCEPT ![l] = v]
  BY LeastValue, Scripts DEF Patches, Bytes
<1>4. Absent # Empty /\ Absent # Bad
  BY DEF Absent, Empty, Bad
<1>5. /\ p \in [Kinds -> Contents]
      /\ \A k \in Kinds : p[k] = Absent \/ p[k] \in Values
  BY <1>1, <1>2, <1>3, KindNames
<1> QED BY <1>2, <1>4, <1>5, KindNames DEF LoadFile

\* A command or a request begins.
LEMMA BeginOK ==
  ASSUME WInv, NEW c \in Clients, NEW rec, Begin(c, rec), ClientOK(rec, dir, versions, head)
  PROVE  WInv'
<1>1. /\ Goes(c, rec) /\ UNCHANGED <<versions, head, linked, dir, edits, faults>> /\ calls' = calls + 1
  BY DEF Begin
<1>2. /\ dir \in [files : [Files -> Contents], ds : [Kinds -> Contents]] /\ DirOK(dir) /\ linked \in BOOLEAN
      /\ calls \in Nat /\ edits \in Nat /\ faults \in Nat
  BY DEF WInv, TypeOK
<1>3. /\ ClientOK(rec, dir', versions, head) /\ DirOK(dir')
      /\ dir' \in [files : [Files -> Contents], ds : [Kinds -> Contents]]
      /\ linked' \in BOOLEAN /\ calls' \in Nat /\ edits' \in Nat /\ faults' \in Nat
  BY <1>1, <1>2
<1> QED BY <1>1, <1>3, StepSame

LEMMA CheckoutOK == ASSUME WInv, NEW c \in Clients, Checkout(c) PROVE WInv'
<1> DEFINE ds == ConvertDatasetToComponents(head)
           rec == [Idle EXCEPT !.op = "checkout", !.pc = "link", !.at = head, !.ds = ds, !.quiet = TRUE]
<1>1. Begin(c, rec) /\ dir = EmptyDir
  BY DEF Checkout
<1>2. VersionsOK(versions) /\ StoredOK(versions) /\ head \in 0..Len(versions) /\ head \in Nat
  BY DEF WInv, TypeOK, VersionsOK, VersionType
<1>3. ds = Holds(versions, head) /\ ds \in [Kinds -> Contents] /\ ds["readme"] # Empty /\ ds["transform"] # Empty
  BY <1>2, Converts, HoldsOK
<1> HIDE DEF ds
<1>4. rec = [op |-> "checkout", pc |-> "link", at |-> head, ds |-> ds, scope |-> All, i |-> 0, sw |-> {}, quiet |-> TRUE]
  <2>1. rec = [Idle EXCEPT !.op = "checkout", !.pc = "link", !.at = head, !.ds = ds, !.quiet = TRUE]
    OBVIOUS
  <2> HIDE DEF rec
  <2> QED BY <2>1 DEF Idle
<1> HIDE DEF rec
<1>5. /\ rec.op = "checkout" /\ rec.pc = "link" /\ rec.at = head /\ rec.ds = ds /\ rec.scope = All /\ rec.i = 0
      /\ rec \in Calls
  BY <1>2, <1>3, <1>4 DEF Calls
<1>6. ClientOK(rec, dir, versions, head)
  BY <1>1, <1>2, <1>3, <1>5 DEF ClientOK, CallOK, Undisturbed
<1> QED BY <1>1, <1>6, BeginOK

LEMMA SaveOK == ASSUME WInv, NEW c \in Clients, NEW p \in Patches, NEW sw \in Switches, Save(c, p, sw) PROVE WInv'
<1> DEFINE rec == [Idle EXCEPT !.op = "save", !.pc = "read", !.at = head, !.ds = p, !.sw = sw, !.quiet = TRUE]
<1>1. Begin(c, rec)
  BY DEF Save
<1>2. VersionsOK(versions) /\ head \in 0..Len(versions) /\ head \in Nat
  BY DEF WInv, TypeOK, VersionsOK, VersionType
<1>3. /\ p \in [Kinds -> Contents] /\ p["readme"] # Empty /\ p["transform"] # Empty
      /\ \A k \in Kinds : LoadFile(k, p[k])
  BY PatchOK
<1>4. rec = [op |-> "save", pc |-> "read", at |-> head, ds |-> p, scope |-> All, i |-> 0, sw |-> sw, quiet |-> TRUE]
  <2>1. rec = [Idle EXCEPT !.op = "save", !.pc = "read", !.at = head, !.ds = p, !.sw = sw, !.quiet = TRUE]
    OBVIOUS
  <2> HIDE DEF rec
  <2> QED BY <2>1 DEF Idle
<1> HIDE DEF rec
<1>5. /\ rec.op = "save" /\ rec.pc = "read" /\ rec.at = head /\ rec.ds = p /\ rec.scope = All /\ rec.i = 0
      /\ rec \in Calls
  BY <1>2, <1>3, <1>4, SwitchesAssumption DEF Calls
<1>6. ClientOK(rec, dir, versions, head)
  BY <1>2, <1>3, <1>5 DEF ClientOK, CallOK, Undisturbed
<1> QED BY <1>1, <1>6, BeginOK

LEMMA RestoreOK ==
  ASSUME WInv, NEW c \in Clients, NEW v \in 0..Len(versions), NEW scope \in Kinds \union {All, Field}, Restore(c, v, scope)
  PROVE  WInv'
<1> DEFINE ds == ConvertDatasetToComponents(v)
           q == Tidy("restore", dir)
           rec == [Idle EXCEPT !.op = "restore", !.pc = "files", !.at = v, !.scope = scope, !.ds = ds, !.quiet = q]
<1>1. Begin(c, rec)
  BY DEF Restore
<1>2. VersionsOK(versions) /\ StoredOK(versions) /\ v \in Nat
  BY DEF WInv, TypeOK, VersionsOK, VersionType
<1>3. ds = Holds(versions, v) /\ ds \in [Kinds -> Contents] /\ ds["readme"] # Empty /\ ds["transform"] # Empty
  BY <1>2, Converts, HoldsOK
<1>4. q \in BOOLEAN /\ (q => Plain(dir))
  BY DEF Tidy, Plain
<1> HIDE DEF ds, q
<1>5. rec = [op |-> "restore", pc |-> "files", at |-> v, ds |-> ds, scope |-> scope, i |-> 0, sw |-> {}, quiet |-> q]
  <2>1. rec = [Idle EXCEPT !.op = "restore", !.pc = "files", !.at = v, !.scope = scope, !.ds = ds, !.quiet = q]
    OBVIOUS
  <2> HIDE DEF rec
  <2> QED BY <2>1 DEF Idle
<1> HIDE DEF rec
<1>6. /\ rec.op = "restore" /\ rec.pc = "files" /\ rec.at = v /\ rec.ds = ds /\ rec.scope = scope /\ rec.i = 0
      /\ rec.quiet = q
  BY <1>5
<1>7. rec \in Calls
  BY <1>2, <1>3, <1>4, <1>5 DEF Calls
<1>8. CallOK(rec, versions, head)
  BY <1>2, <1>3, <1>6, <1>7 DEF CallOK
<1>9. rec.quiet => Undisturbed(rec, dir)
  BY <1>4, <1>6 DEF Undisturbed, Settled
<1> QED BY <1>1, <1>8, <1>9, BeginOK DEF ClientOK

LEMMA WriteOK == ASSUME WInv, NEW c \in Clients, NEW p \in Patches, Write(c, p) PROVE WInv'
<1> DEFINE rec == [Idle EXCEPT !.op = "write", !.pc = "files", !.ds = p]
<1>1. Begin(c, rec)
  BY DEF Write
<1>2. VersionsOK(versions)
  BY DEF WInv, TypeOK, VersionsOK, VersionType
<1>3. /\ p \in [Kinds -> Contents] /\ p["readme"] # Empty /\ p["transform"] # Empty
  BY PatchOK
<1>4. rec = [op |-> "write", pc |-> "files", at |-> 0, ds |-> p, scope |-> All, i |-> 0, sw |-> {}, quiet |-> FALSE]
  <2>1. rec = [Idle EXCEPT !.op = "write", !.pc = "files", !.ds = p]
    OBVIOUS
  <2> HIDE DEF rec
  <2> QED BY <2>1 DEF Idle
<1> HIDE DEF rec
<1>5. /\ rec.op = "write" /\ rec.pc = "files" /\ rec.at = 0 /\ rec.ds = p /\ rec.scope = All /\ rec.i = 0
      /\ rec.quiet = FALSE /\ rec \in Calls
  BY <1>3, <1>4 DEF Calls
<1>6. rec.at \in 0..Len(versions)
  BY <1>2, <1>5 DEF VersionsOK
<1>7. ClientOK(rec, dir, versions, head)
  BY <1>3, <1>5, <1>6 DEF ClientOK, CallOK
<1> QED BY <1>1, <1>7, BeginOK

LEMMA RemoveOK == ASSUME WInv, NEW c \in Clients, NEW force, Remove(c, force) PROVE WInv'
<1> DEFINE q == Tidy("remove", dir)
           rec == [Idle EXCEPT !.op = "remove", !.pc = "rewind", !.at = head, !.quiet = q]
<1>1. Begin(c, rec) /\ head # 0
  BY DEF Remove
<1>2. head \in 0..Len(versions) /\ head \in Nat
  BY DEF WInv, TypeOK
<1>3. NoDataset \in [Kinds -> Contents] /\ NoDataset["readme"] # Empty /\ NoDataset["transform"] # Empty
  BY KindNames DEF NoDataset, Contents, Absent, Empty
<1>4. q \in BOOLEAN
  BY DEF Tidy
<1> HIDE DEF q
<1>5. rec = [op |-> "remove", pc |-> "rewind", at |-> head, ds |-> NoDataset, scope |-> All, i |-> 0, sw |-> {}, quiet |-> q]
  <2>1. rec = [Idle EXCEPT !.op = "remove", !.pc = "rewind", !.at = head, !.quiet = q]
    OBVIOUS
  <2> HIDE DEF rec
  <2> QED BY <2>1 DEF Idle
<1> HIDE DEF rec
<1>6. /\ rec.op = "remove" /\ rec.pc = "rewind" /\ rec.at = head /\ rec.ds = NoDataset /\ rec.scope = All /\ rec.i = 0
  BY <1>5
<1>7. rec \in Calls
  BY <1>2, <1>3, <1>4, <1>5 DEF Calls
<1>8. ClientOK(rec, dir, versions, head)
  BY <1>1, <1>2, <1>3, <1>6, <1>7 DEF ClientOK, CallOK, Undisturbed
<1> QED BY <1>1, <1>8, BeginOK


-----------------------------------------------------------------------------
(* The steps of a call. *)

\* A call that is given other values of the fields that change.
LEMMA CallSame ==
  ASSUME NEW r \in Calls
  PROVE  /\ \A pc : [r EXCEPT !.pc = pc] = [r EXCEPT !.pc = pc, !.at = r.at, !.ds = r.ds, !.quiet = r.quiet]
         /\ \A pc, q : [r EXCEPT !.pc = pc, !.quiet = q] = [r EXCEPT !.pc = pc, !.at = r.at, !.ds = r.ds, !.quiet = q]
         /\ \A pc, ds, q : [r EXCEPT !.pc = pc, !.ds = ds, !.quiet = q] = [r EXCEPT !.pc = pc, !.at = r.at, !.ds = ds, !.quiet = q]
         /\ \A pc, at, ds : [r EXCEPT !.pc = pc, !.at = at, !.ds = ds] = [r EXCEPT !.pc = pc, !.at = at, !.ds = ds, !.quiet = r.quiet]
BY DEF Calls

LEMMA EmptyDirOK ==
  /\ EmptyDir \in [files : [Files -> Contents], ds : [Kinds -> Contents]] /\ DirOK(EmptyDir) /\ Plain(EmptyDir)
  /\ \A f \in Files : EmptyDir.files[f] = Absent
<1>1. EmptyDir.files = [f \in Files |-> Absent] /\ EmptyDir.ds = NoDataset
  BY DEF EmptyDir
<1>2. EmptyDir \in [files : [Files -> Contents], ds : [Kinds -> Contents]]
  BY DEF EmptyDir, NoDataset, Contents
<1>3. \A f \in Files : EmptyDir.files[f] = Absent
  BY <1>1
<1>4. \A k \in Kinds : EmptyDir.ds[k] = Absent
  BY <1>1 DEF NoDataset
<1>5. DirOK(EmptyDir)
  <2>1. InFile("transform", Absent) = Absent
    BY FileValues DEF Contents
  <2> QED BY <1>3, <1>4, <2>1, FileNames, KindNames DEF DirOK, Absent, Empty
<1> QED BY <1>1, <1>2, <1>3, <1>5 DEF Plain

\* Facts every step of a client starts from.
LEMMA Facts ==
  ASSUME WInv
  PROVE  /\ VersionsOK(versions) /\ StoredOK(versions) /\ head \in 0..Len(versions) /\ head \in Nat /\ Len(versions) \in Nat
         /\ dir \in [files : [Files -> Contents], ds : [Kinds -> Contents]] /\ DirOK(dir)
         /\ dir = [files |-> dir.files, ds |-> dir.ds] /\ dir.files \in [Files -> Contents] /\ dir.ds \in [Kinds -> Contents]
         /\ linked \in BOOLEAN /\ calls \in Nat /\ edits \in Nat /\ faults \in Nat
         /\ me \in [Clients -> Calls]
         /\ \A c \in Clients : me[c] \in Calls /\ ClientOK(me[c], dir, versions, head) /\ CallOK(me[c], versions, head)
<1>1. \A c \in Clients : ClientOK(me[c], dir, versions, head) /\ CallOK(me[c], versions, head)
  BY DEF WInv, ClientOK
<1>2. \A c \in Clients : me[c] \in Calls
  BY DEF WInv, TypeOK
<1> QED BY <1>1, <1>2 DEF WInv, TypeOK, VersionsOK, VersionType

LEMMA LinksOK == ASSUME WInv, NEW c \in Clients, CheckoutLinks(c) PROVE WInv'
<1> DEFINE r == me[c]
           s == [r EXCEPT !.pc = "files"]
<1>1. /\ r.pc = "link" /\ UNCHANGED <<versions, head, dir, calls, edits, faults>> /\ linked' = TRUE
      /\ Goes(c, IF linked THEN Idle ELSE s)
  BY DEF CheckoutLinks
<1>2. /\ r \in Calls /\ r.op = "checkout" /\ r.i = 0 /\ r.scope = All /\ r.at \in 0..Len(versions) /\ r.quiet \in BOOLEAN
      /\ r.ds = Holds(versions, r.at) /\ r.ds["readme"] # Empty /\ r.ds["transform"] # Empty
      /\ r.quiet => dir = EmptyDir
  BY <1>1, Facts DEF ClientOK, CallOK, Undisturbed, Calls
<1>3. CASE linked
  BY <1>1, <1>3, Facts, IdleOK, StepSame
<1>4. CASE ~linked
  <2>1. s = [r EXCEPT !.pc = "files", !.at = r.at, !.ds = r.ds, !.quiet = r.quiet]
    BY <1>2, CallSame
  <2>2. r.at \in Nat /\ r.ds \in [Kinds -> Contents]
    BY <1>2 DEF Calls
  <2> HIDE DEF s, r
  <2>3. /\ s \in Calls /\ s.pc = "files" /\ s.at = r.at /\ s.ds = r.ds /\ s.quiet = r.quiet
        /\ s.op = "checkout" /\ s.scope = All /\ s.i = 0
    <3>1. "files" \in {"idle", "link", "read", "apply", "commit", "files", "rewind", "delete"}
      OBVIOUS
    <3> QED BY <3>1, <1>2, <2>1, <2>2 DEF Calls
  <2>4. CallOK(s, versions, head)
    BY <1>2, <2>3 DEF CallOK
  <2>5. s.quiet => Undisturbed(s, dir)
    <3> SUFFICES ASSUME s.quiet PROVE Undisturbed(s, dir)
      OBVIOUS
    <3>1. dir = EmptyDir
      BY <1>2, <2>3
    <3>2. \A j \in 1..6 : dir.files[FileOf(AllSubcomponentNames[j])] = Absent
      BY <3>1, EmptyDirOK, NamesAt, OneKind
    <3>3. \A j \in 1..6 : Settled(s, dir, j)
      BY <2>3, <3>2 DEF Settled
    <3> QED BY <2>3, <3>1, <3>3, EmptyDirOK DEF Undisturbed
  <2>6. ClientOK(s, dir', versions, head) /\ Goes(c, s)
    BY <1>1, <1>4, <2>4, <2>5 DEF ClientOK
  <2> QED BY <1>1, <2>6, Facts, StepSame
<1> QED BY <1>3, <1>4

\* What a directory gives for a component.
LEMMA ReadValues ==
  ASSUME NEW d, d.files \in [Files -> Contents], d.ds \in [Kinds -> Contents], DirOK(d)
  PROVE  LET comps == ExpandListedComponents(d) IN
         /\ \A k \in Kinds : comps[k].val \in Contents
         /\ comps["readme"].val # Empty /\ comps["transform"].val # Empty
<1> DEFINE comps == ExpandListedComponents(d)
           L(k) == ListDirectoryComponents(d)[k]
<1>1. ASSUME NEW k \in Kinds
      PROVE  comps[k].val = Absent \/ comps[k].val = d.ds[k] \/ \E f \in GetKnownFilenames[k] : comps[k].val = d.files[f]
  <2>1. L(k) \subseteq GetKnownFilenames[k]
    BY DEF ListDirectoryComponents
  <2>2. CASE assignField(d, k)
    BY <2>2 DEF ExpandListedComponents
  <2>3. CASE ~assignField(d, k) /\ L(k) # {}
    <3> DEFINE f == CHOOSE f \in L(k) : TRUE
    <3>1. f \in L(k)
      BY <2>3
    <3>2. comps[k] = [problem |-> FALSE, val |-> d.files[f], file |-> f]
      BY <2>3 DEF ExpandListedComponents
    <3> HIDE DEF f
    <3>3. comps[k].val = d.files[f]
      BY <3>2
    <3> QED BY <2>1, <3>1, <3>3
  <2>4. CASE ~assignField(d, k) /\ L(k) = {}
    BY <2>4 DEF ExpandListedComponents
  <2> QED BY <2>2, <2>3, <2>4
<1> HIDE DEF comps
<1>2. Absent \in Contents /\ Absent # Empty
  BY DEF Contents, Absent, Empty
<1>3. \A k \in Kinds : comps[k].val \in Contents
  BY <1>1, <1>2, OneKind
<1>4. comps["readme"].val # Empty /\ comps["transform"].val # Empty
  BY <1>1, <1>2, KindNames, KindKnown DEF DirOK
<1> QED BY <1>3, <1>4 DEF comps

\* What ReadDir gives when it does not fail.
LEMMA ReadDirOK ==
  ASSUME NEW d, d.files \in [Files -> Contents], d.ds \in [Kinds -> Contents], DirOK(d), ReadDir(d).ok
  PROVE  /\ ReadDir(d).ds \in [Kinds -> Contents]
         /\ \A k \in Kinds : ReadDir(d).ds[k] = ExpandListedComponents(d)[k].val
         /\ \A k \in Kinds \ {"body"} : LoadFile(k, ReadDir(d).ds[k])
         /\ ReadDir(d).ds["readme"] # Empty /\ ReadDir(d).ds["transform"] # Empty
<1> DEFINE comps == ExpandListedComponents(d)
<1>1. ReadDir(d) = ToDataset(comps)
  <2>1. CASE Unreadable(d) \/ GetProblems(comps) # {}
    BY <2>1 DEF ReadDir
  <2>2. CASE ~(Unreadable(d) \/ GetProblems(comps) # {})
    BY <2>2 DEF ReadDir
  <2> QED BY <2>1, <2>2
<1>2. /\ \A k \in Kinds : comps[k].val \in Contents
      /\ comps["readme"].val # Empty /\ comps["transform"].val # Empty
  BY ReadValues
<1> HIDE DEF comps
<1>3. /\ ToDataset(comps).ds = [k \in Kinds |-> comps[k].val]
      /\ ToDataset(comps).ok = \A k \in Kinds \ {"body"} : LoadFile(k, comps[k].val)
  BY DEF ToDataset
<1>4. ReadDir(d).ds = [k \in Kinds |-> comps[k].val] /\ \A k \in Kinds \ {"body"} : LoadFile(k, comps[k].val)
  BY <1>1, <1>3
<1> QED BY <1>2, <1>4, KindNames DEF comps

\* What comes of two datasets when one is laid over the other.
LEMMA Assigned ==
  ASSUME NEW a \in [Kinds -> Contents], NEW b \in [Kinds -> Contents]
  PROVE  /\ Assign(a, b) \in [Kinds -> Contents]
         /\ \A k \in Kinds : Assign(a, b)[k] = a[k] \/ Assign(a, b)[k] = b[k] \/ Assign(a, b)[k] \in Values
         /\ \A k \in Kinds : a[k] # Absent \/ b[k] # Absent => Assign(a, b)[k] # Absent
         /\ \A k \in Kinds : b[k] # Absent /\ b[k] # Empty => Assign(a, b)[k] = Merged(k, a[k], b[k])
<1> DEFINE v(k) == IF b[k] = Absent \/ (b[k] = Empty /\ a[k] # Absent) THEN a[k] ELSE Merged(k, a[k], b[k])
<1>1. Assign(a, b) = [k \in Kinds |-> v(k)]
  BY DEF Assign
<1>2. ASSUME NEW k \in Kinds
      PROVE  /\ v(k) \in Contents /\ (v(k) = a[k] \/ v(k) = b[k] \/ v(k) \in Values)
             /\ (a[k] # Absent \/ b[k] # Absent) => v(k) # Absent
             /\ b[k] # Absent /\ b[k] # Empty => v(k) = Merged(k, a[k], b[k])
  <2>1. a[k] \in Contents /\ b[k] \in Contents
    OBVIOUS
  <2>2. CASE b[k] = Absent \/ (b[k] = Empty /\ a[k] # Absent)
    BY <2>1, <2>2
  <2>3. CASE ~(b[k] = Absent \/ (b[k] = Empty /\ a[k] # Absent))
    <3>1. v(k) = Merged(k, a[k], b[k])
      BY <2>3
    <3> HIDE DEF v
    <3> QED BY <2>1, <2>3, <3>1, MergedOK
  <2> QED BY <2>2, <2>3
<1> HIDE DEF v
<1> QED BY <1>1, <1>2

LEMMA ReadsOK == ASSUME WInv, NEW c \in Clients, SaveReads(c) PROVE WInv'
<1> DEFINE r == me[c]
           got == ReadDir(dir).ds
           ds == Assign(got, r.ds)
           q == r.quiet /\ Tidy("save", dir)
           to == IF "Apply" \in r.sw THEN "apply" ELSE "commit"
           s == [r EXCEPT !.pc = to, !.ds = ds, !.quiet = q]
<1>1. /\ r.pc = "read" /\ UNCHANGED <<versions, head, linked, dir, calls, edits, faults>>
      /\ (ReadDir(dir).ok /\ Goes(c, s)) \/ Goes(c, Idle)
  BY DEF SaveReads, Return
<1>2. /\ r \in Calls /\ r.op = "save" /\ r.i = 0 /\ r.scope = All /\ r.at \in 0..Len(versions) /\ r.at \in Nat
      /\ r.ds \in [Kinds -> Contents] /\ r.ds["readme"] # Empty /\ r.ds["transform"] # Empty
      /\ \A k \in Kinds \ {"body"} : LoadFile(k, r.ds[k])
  BY <1>1, Facts DEF CallOK, Calls
<1>3. CASE Goes(c, Idle)
  BY <1>1, <1>3, Facts, IdleOK, StepSame
<1>4. CASE ReadDir(dir).ok /\ Goes(c, s)
  <2>1. /\ got \in [Kinds -> Contents]
        /\ \A k \in Kinds : got[k] = ExpandListedComponents(dir)[k].val
        /\ \A k \in Kinds \ {"body"} : LoadFile(k, got[k])
        /\ got["readme"] # Empty /\ got["transform"] # Empty
    BY <1>4, Facts, ReadDirOK
  <2> HIDE DEF got
  <2>2. /\ ds \in [Kinds -> Contents]
        /\ \A k \in Kinds : ds[k] = got[k] \/ ds[k] = r.ds[k] \/ ds[k] \in Values
        /\ \A k \in Kinds : got[k] # Absent \/ r.ds[k] # Absent => ds[k] # Absent
    BY <1>2, <2>1, Assigned
  <2>3. q \in BOOLEAN /\ (q => Tidy("save", dir))
    OBVIOUS
  <2>4. s = [r EXCEPT !.pc = to, !.at = r.at, !.ds = ds, !.quiet = q]
    BY <1>2, CallSame
  <2> HIDE DEF s, r, ds, q
  <2>5. /\ s \in Calls /\ s.pc \in {"apply", "commit"} /\ s.at = r.at /\ s.ds = ds /\ s.quiet = q
        /\ s.op = "save" /\ s.scope = All /\ s.i = 0
    <3>1. to \in {"apply", "commit"} /\ to \in {"idle", "link", "read", "apply", "commit", "files", "rewind", "delete"}
      OBVIOUS
    <3> HIDE DEF to
    <3> QED BY <3>1, <1>2, <2>2, <2>3, <2>4 DEF Calls
  <2>6. \A v \in Values : v # Bad /\ v # Empty
    BY ValuesAssumption DEF Bad, Empty
  <2>7. \A k \in Kinds \ {"body"} : LoadFile(k, ds[k])
    <3> SUFFICES ASSUME NEW k \in Kinds \ {"body"} PROVE LoadFile(k, ds[k])
      OBVIOUS
    <3>1. CASE ds[k] = got[k]
      BY <2>1, <3>1
    <3>2. CASE ds[k] = r.ds[k]
      BY <1>2, <3>2
    <3>3. CASE ds[k] \in Values
      BY <2>6, <3>3 DEF LoadFile
    <3> QED BY <2>2, <3>1, <3>2, <3>3
  <2>8. ds["readme"] # Empty /\ ds["transform"] # Empty
    BY <1>2, <2>1, <2>2, <2>6, KindNames
  <2>9. CallOK(s, versions, head)
    BY <1>2, <2>5, <2>7, <2>8 DEF CallOK
  <2>10. s.quiet => Undisturbed(s, dir)
    <3> SUFFICES ASSUME q PROVE Undisturbed(s, dir)
      BY <2>5
    <3>1. Plain(dir) /\ dir.files["commit.json"] = Absent
      BY <2>3 DEF Tidy
    <3>2. \A k \in Kinds : got[k] = dir.files[FileOf(k)]
      BY <2>1, <3>1, PlainReads
    <3>3. \A k \in Kinds : dir.files[FileOf(k)] # Absent => ds[k] # Absent
      BY <2>2, <3>2
    <3> QED BY <1>4, <2>5, <3>1, <3>3 DEF Undisturbed
  <2>11. ClientOK(s, dir', versions, head) /\ Goes(c, s)
    BY <1>1, <1>4, <2>9, <2>10 DEF ClientOK
  <2> QED BY <1>1, <2>11, Facts, StepSame
<1> QED BY <1>1, <1>3, <1>4

LEMMA AppliesOK == ASSUME WInv, NEW c \in Clients, SaveApplies(c) PROVE WInv'
<1> DEFINE r == me[c]
           n(t, set) == [k \in Kinds |-> IF k \in set THEN Min(Values) ELSE IF k = "transform" THEN t ELSE r.ds[k]]
<1>1. /\ r.pc = "apply" /\ UNCHANGED <<versions, head, linked, dir, calls, edits, faults>>
      /\ \/ Goes(c, Idle)
         \/ \E t \in Transforms(r), set \in SUBSET {"meta", "structure", "body"} :
              Goes(c, [r EXCEPT !.pc = "commit", !.ds = n(t, set)])
  BY DEF SaveApplies, Return
<1>2. /\ r \in Calls /\ r.op = "save" /\ r.i = 0 /\ r.scope = All /\ r.at \in 0..Len(versions) /\ r.at \in Nat
      /\ r.ds \in [Kinds -> Contents] /\ r.ds["readme"] # Empty /\ r.ds["transform"] # Empty
      /\ \A k \in Kinds \ {"body"} : LoadFile(k, r.ds[k])
      /\ (r.quiet => Undisturbed(r, dir)) /\ r.quiet \in BOOLEAN
  BY <1>1, Facts DEF ClientOK, CallOK, Calls
<1>3. CASE Goes(c, Idle)
  BY <1>1, <1>3, Facts, IdleOK, StepSame
<1>4. ASSUME NEW t \in Transforms(r), NEW set \in SUBSET {"meta", "structure", "body"},
             Goes(c, [r EXCEPT !.pc = "commit", !.ds = n(t, set)])
      PROVE  WInv'
  <2> DEFINE ds == n(t, set)
             s == [r EXCEPT !.pc = "commit", !.ds = ds]
  <2>1. t \in Contents /\ t # Absent /\ t # Empty
    <3>1. t # Absent /\ (t = r.ds["transform"] \/ \E v \in 1..r.at : t = versions[v].ds["transform"])
      BY DEF Transforms
    <3>2. ASSUME NEW v \in 1..r.at PROVE versions[v].ds["transform"] \in Contents \ {Empty}
      <4>1. v \in 0..Len(versions) /\ v # 0
        BY <1>2, Facts
      <4>2. Holds(versions, v) \in [Kinds -> Contents] /\ Holds(versions, v)["transform"] # Empty
        BY <4>1, Facts, HoldsOK
      <4> QED BY <4>1, <4>2, KindNames DEF Holds
    <3> QED BY <1>2, <3>1, <3>2, KindNames
  <2>2. Min(Values) \in Contents /\ Min(Values) \notin {Absent, Empty, Bad}
    BY LeastValue, ValuesAssumption DEF Contents, Absent, Empty, Bad
  <2>3. ds \in [Kinds -> Contents]
    BY <1>2, <2>1, <2>2
  <2>4. \A k \in Kinds : ds[k] = Min(Values) \/ (k = "transform" /\ ds[k] = t) \/ ds[k] = r.ds[k]
    OBVIOUS
  <2>5. s = [r EXCEPT !.pc = "commit", !.at = r.at, !.ds = ds, !.quiet = r.quiet]
    BY <1>2, CallSame
  <2>6. Goes(c, s)
    BY <1>4
  <2> HIDE DEF s, r, ds
  <2>7. /\ s \in Calls /\ s.pc = "commit" /\ s.at = r.at /\ s.ds = ds /\ s.quiet = r.quiet
        /\ s.op = "save" /\ s.scope = All /\ s.i = 0
    <3>1. "commit" \in {"idle", "link", "read", "apply", "commit", "files", "rewind", "delete"}
      OBVIOUS
    <3> QED BY <3>1, <1>2, <2>3, <2>5 DEF Calls
  <2>8. \A k \in Kinds \ {"body"} : LoadFile(k, ds[k])
    <3> SUFFICES ASSUME NEW k \in Kinds \ {"body"} PROVE LoadFile(k, ds[k])
      OBVIOUS
    <3>1. CASE ds[k] = Min(Values)
      BY <2>2, <3>1 DEF LoadFile
    <3>2. CASE k = "transform"
      BY <3>2 DEF LoadFile, SetSubcomponent, TransformComponent
    <3>3. CASE ds[k] = r.ds[k]
      BY <1>2, <3>3
    <3> QED BY <2>4, <3>1, <3>2, <3>3
  <2>9. ds["readme"] # Empty /\ ds["transform"] # Empty
    BY <1>2, <2>1, <2>2, <2>4, KindNames
  <2>10. CallOK(s, versions, head)
    BY <1>2, <2>7, <2>8, <2>9 DEF CallOK
  <2>11. \A k \in Kinds : r.ds[k] # Absent => ds[k] # Absent
    BY <2>1, <2>2, <2>4
  <2>12. s.quiet => Undisturbed(s, dir)
    BY <1>1, <1>2, <2>7, <2>11 DEF Undisturbed
  <2>13. ClientOK(s, dir', versions, head)
    BY <1>1, <2>10, <2>12 DEF ClientOK
  <2> QED BY <1>1, <2>6, <2>13, Facts, StepSame
<1> QED BY <1>1, <1>3, <1>4

\* InferValues leaves a structure that says something, and no commit.
LEMMA InferredOK ==
  ASSUME NEW ds \in [Kinds -> Contents]
  PROVE  /\ InferValues(ds) \in [Kinds -> Contents] /\ InferValues(ds)["commit"] = Absent
         /\ InferValues(ds)["structure"] = ds["structure"] \/ InferValues(ds)["structure"] \in Values
         /\ ds["structure"] \notin {Absent, Empty} => InferValues(ds)["structure"] = ds["structure"]
         /\ \A k \in Kinds \ {"commit", "structure"} : InferValues(ds)[k] = ds[k]
<1> DEFINE st == IF ds["structure"] \in {Absent, Empty} /\ ds["body"] # Absent THEN Inferred ELSE ds["structure"]
           n == InferValues(ds)
<1>1. n = [ds EXCEPT !["structure"] = st, !["commit"] = Absent]
  BY DEF InferValues
<1>2. Inferred \in Values /\ Inferred \in Contents /\ Absent \in Contents
  BY LeastValue DEF Inferred, Contents
<1>3. st \in Contents /\ (st = ds["structure"] \/ st \in Values)
      /\ (ds["structure"] \notin {Absent, Empty} => st = ds["structure"])
  BY <1>2, KindNames
<1> HIDE DEF st, n
<1>4. "commit" \in Kinds /\ "structure" \in Kinds
  BY KindNames
<1>5. /\ n \in [Kinds -> Contents] /\ n["commit"] = Absent /\ n["structure"] = st
      /\ \A k \in Kinds \ {"commit", "structure"} : n[k] = ds[k]
  BY <1>1, <1>2, <1>3, <1>4
<1> QED BY <1>3, <1>5 DEF n

\* The version a save makes: of each component the one before, the one that was read, or
\* both merged.
LEMMA NextOf ==
  ASSUME NEW prev \in [Kinds -> Contents], NEW r \in Calls
  PROVE  LET n == NextVersion(prev, r) IN
         /\ n \in [Kinds -> Contents] /\ n["commit"] = Absent
         /\ \A k \in Kinds \ {"commit"} : n[k] = prev[k] \/ n[k] = r.ds[k] \/ n[k] \in Values
         /\ \A k \in Kinds \ {"commit", "structure"} : r.ds[k] # Absent => n[k] # Absent
         /\ \A k \in Kinds \ {"commit"} : r.ds[k] \notin {Absent, Empty} =>
              n[k] = IF "Replace" \in r.sw THEN r.ds[k] ELSE Merged(k, prev[k], r.ds[k])
         /\ "Replace" \in r.sw => \A k \in Kinds \ {"commit", "structure", "body"} : n[k] = r.ds[k]
<1> DEFINE as == Assign(prev, r.ds)
           a == IF "Replace" \in r.sw THEN r.ds ELSE as
           b == InferValues(a)
           bd == IF b["body"] = Absent THEN prev["body"] ELSE b["body"]
           n == NextVersion(prev, r)
<1>1. n = [b EXCEPT !["body"] = bd]
  BY DEF NextVersion
<1>2. r.ds \in [Kinds -> Contents]
  BY DEF Calls
<1>3. /\ as \in [Kinds -> Contents]
      /\ \A k \in Kinds : as[k] = prev[k] \/ as[k] = r.ds[k] \/ as[k] \in Values
      /\ \A k \in Kinds : r.ds[k] # Absent => as[k] # Absent
      /\ \A k \in Kinds : r.ds[k] # Absent /\ r.ds[k] # Empty => as[k] = Merged(k, prev[k], r.ds[k])
  BY <1>2, Assigned
<1> HIDE DEF as
<1>4. /\ a \in [Kinds -> Contents]
      /\ \A k \in Kinds : a[k] = prev[k] \/ a[k] = r.ds[k] \/ a[k] \in Values
      /\ \A k \in Kinds : r.ds[k] # Absent => a[k] # Absent
      /\ \A k \in Kinds : r.ds[k] \notin {Absent, Empty} =>
           a[k] = IF "Replace" \in r.sw THEN r.ds[k] ELSE Merged(k, prev[k], r.ds[k])
      /\ "Replace" \in r.sw => a = r.ds
  BY <1>2, <1>3
<1>5. \A k \in Kinds : r.ds[k] \notin {Absent, Empty} => a[k] \notin {Absent, Empty}
  <2> SUFFICES ASSUME NEW k \in Kinds, r.ds[k] \notin {Absent, Empty} PROVE a[k] \notin {Absent, Empty}
    OBVIOUS
  <2>1. Merged(k, prev[k], r.ds[k]) \notin {Absent, Empty}
    BY <1>2, MergedOK
  <2> QED BY <1>4, <2>1
<1> HIDE DEF a
<1>6. /\ b \in [Kinds -> Contents] /\ b["commit"] = Absent
      /\ b["structure"] = a["structure"] \/ b["structure"] \in Values
      /\ a["structure"] \notin {Absent, Empty} => b["structure"] = a["structure"]
      /\ \A k \in Kinds \ {"commit", "structure"} : b[k] = a[k]
  BY <1>4, InferredOK
<1> HIDE DEF b
<1>7. bd \in Contents /\ (bd = prev["body"] \/ bd = b["body"]) /\ (b["body"] # Absent => bd = b["body"])
  BY <1>6, KindNames
<1> HIDE DEF bd, n
<1>8. n \in [Kinds -> Contents] /\ n["body"] = bd /\ \A k \in Kinds \ {"body"} : n[k] = b[k]
  BY <1>1, <1>6, <1>7, KindNames
<1>9. n["commit"] = Absent
  BY <1>6, <1>8, KindNames
<1>10. ASSUME NEW k \in Kinds \ {"commit"}
       PROVE  /\ n[k] = prev[k] \/ n[k] = r.ds[k] \/ n[k] \in Values
              /\ k # "structure" /\ r.ds[k] # Absent => n[k] # Absent
              /\ r.ds[k] \notin {Absent, Empty} =>
                   n[k] = IF "Replace" \in r.sw THEN r.ds[k] ELSE Merged(k, prev[k], r.ds[k])
              /\ "Replace" \in r.sw /\ k \notin {"structure", "body"} => n[k] = r.ds[k]
  <2>1. CASE k = "body"
    <3>1. b[k] = a[k] /\ (n[k] = prev[k] \/ n[k] = b[k]) /\ (b[k] # Absent => n[k] = b[k])
      BY <1>6, <1>7, <1>8, <2>1
    <3> QED BY <1>4, <1>5, <2>1, <3>1
  <2>2. CASE k = "structure"
    <3>1. n[k] = b[k] /\ (b[k] = a[k] \/ b[k] \in Values) /\ (a[k] \notin {Absent, Empty} => b[k] = a[k])
      BY <1>6, <1>8, <2>2
    <3> QED BY <1>4, <1>5, <2>2, <3>1
  <2>3. CASE k \notin {"body", "structure"}
    <3>1. n[k] = a[k]
      BY <1>6, <1>8, <2>3
    <3> QED BY <1>4, <1>5, <3>1
  <2> QED BY <2>1, <2>2, <2>3
<1> QED BY <1>8, <1>9, <1>10 DEF n

\* The dataset a save makes of the version before it and of what it read.
SavedDataset(r) == NextVersion(ConvertDatasetToComponents(r.at), r)

\* A save that is not refused has a body and a structure.
Savable(ds) == ds["body"] \notin {Absent, Bad} /\ ds["structure"] \notin {Absent, Empty}

\* It can be stored: nothing in it fails to parse or is an empty script.
LEMMA SavedOK ==
  ASSUME WInv, NEW c \in Clients, me[c].pc = "commit", Savable(SavedDataset(me[c]))
  PROVE  LET next == SavedDataset(me[c]) IN
         /\ next \in [Kinds -> Contents] /\ next["commit"] = Absent /\ next["structure"] # Absent
         /\ \A k \in Kinds : LoadFile(k, next[k]) /\ Writable(k, next[k])
         /\ \A k \in Kinds \ {"commit", "structure"} : next[k] = Absent => me[c].ds[k] = Absent
<1> DEFINE r == me[c]
           prev == ConvertDatasetToComponents(r.at)
           next == SavedDataset(r)
<1>1. /\ r \in Calls /\ r.ds \in [Kinds -> Contents] /\ r.ds["readme"] # Empty /\ r.ds["transform"] # Empty
      /\ r.at \in 0..Len(versions) /\ \A k \in Kinds \ {"body"} : LoadFile(k, r.ds[k])
  BY Facts DEF CallOK, Calls
<1>2. /\ prev \in [Kinds -> Contents] /\ \A k \in Kinds : LoadFile(k, prev[k])
      /\ prev["readme"] # Empty /\ prev["transform"] # Empty
  BY <1>1, Facts, Converts, HoldsOK
<1> HIDE DEF r, prev
<1>3. next = NextVersion(prev, r) /\ next["body"] \notin {Absent, Bad} /\ next["structure"] \notin {Absent, Empty}
  BY DEF SavedDataset, Savable, r, prev
<1> HIDE DEF next
<1>4. /\ next \in [Kinds -> Contents] /\ next["commit"] = Absent
      /\ \A k \in Kinds \ {"commit"} : next[k] = prev[k] \/ next[k] = r.ds[k] \/ next[k] \in Values
      /\ \A k \in Kinds \ {"commit", "structure"} : r.ds[k] # Absent => next[k] # Absent
  BY <1>1, <1>2, <1>3, NextOf
<1>5. \A v \in Values \union {Absent} : v # Bad /\ v # Empty
  BY ValuesAssumption DEF Absent, Bad, Empty
<1>6. ASSUME NEW k \in Kinds PROVE LoadFile(k, next[k])
  <2>1. CASE k = "commit" \/ next[k] \in Values
    BY <1>4, <1>5, <2>1 DEF LoadFile
  <2>2. CASE k = "body"
    BY <1>3, <2>2 DEF LoadFile
  <2>3. CASE k # "body" /\ next[k] = prev[k]
    BY <1>2, <2>3
  <2>4. CASE k # "body" /\ next[k] = r.ds[k]
    BY <1>1, <2>4
  <2> QED BY <1>4, <2>1, <2>2, <2>3, <2>4
<1>7. \A k \in Kinds : Writable(k, next[k])
  <2>1. next["commit"] # Empty /\ next["structure"] # Empty /\ next["readme"] # Empty /\ next["transform"] # Empty
    BY <1>1, <1>2, <1>3, <1>4, <1>5, KindNames
  <2> QED BY <2>1, KindNames DEF Writable
<1> QED BY <1>3, <1>4, <1>6, <1>7 DEF r, next

\* A version is added.
LEMMA AppendOK ==
  ASSUME NEW vs, VersionsOK(vs), StoredOK(vs), NEW v \in VersionType, v.prev \in 0..Len(vs),
         v.ds["commit"] = Absent, \A k \in Kinds : LoadFile(k, v.ds[k]) /\ Writable(k, v.ds[k]),
         NEW ws, ws = Append(vs, v)
  PROVE  /\ VersionsOK(ws) /\ StoredOK(ws) /\ Grows(vs, ws) /\ Len(ws) = Len(vs) + 1 /\ ws[Len(vs) + 1] = v
<1>1. vs \in Seq(VersionType) /\ Len(vs) \in Nat
  BY DEF VersionsOK
<1>2. /\ ws \in Seq(VersionType) /\ Len(ws) = Len(vs) + 1 /\ ws[Len(vs) + 1] = v
      /\ \A x \in 1..Len(vs) : ws[x] = vs[x]
  BY <1>1
<1>3. DOMAIN ws = 1..Len(vs) + 1 /\ DOMAIN vs = 1..Len(vs)
  BY <1>1, <1>2
<1>4. \A x \in DOMAIN ws : x = Len(vs) + 1 \/ x \in 1..Len(vs)
  BY <1>1, <1>3
<1>5. \A x \in DOMAIN ws : ws[x] = v \/ (x \in DOMAIN vs /\ ws[x] = vs[x])
  BY <1>2, <1>3, <1>4
<1>6. StoredOK(ws)
  BY <1>5 DEF StoredOK
<1>7. \A x \in DOMAIN ws : ws[x].prev \in 0..Len(vs)
  BY <1>5 DEF VersionsOK
<1>8. \A x \in DOMAIN ws : ws[x].prev \in 0..Len(ws)
  BY <1>1, <1>2, <1>7
<1> QED BY <1>1, <1>2, <1>6, <1>8 DEF VersionsOK, Grows

LEMMA CommitsOK == ASSUME WInv, NEW c \in Clients, SaveDataset(c) PROVE WInv'
<1> DEFINE r == me[c]
           prev == ConvertDatasetToComponents(r.at)
           next == SavedDataset(r)
           n == Len(versions) + 1
           v == [ds |-> next, prev |-> r.at]
           s == [r EXCEPT !.pc = "files", !.ds = next, !.at = n]
<1>1. /\ r.pc = "commit" /\ UNCHANGED <<linked, dir, calls, edits, faults>>
      /\ \/ UNCHANGED <<versions, head>> /\ Goes(c, Idle)
         \/ /\ Savable(next)
            /\ versions' = Append(versions, v) /\ head' = n /\ Goes(c, s)
  BY DEF SaveDataset, SavedDataset, Refused, Savable, Return
<1>2. CASE UNCHANGED <<versions, head>> /\ Goes(c, Idle)
  BY <1>1, <1>2, Facts, IdleOK, StepSame
<1>3. CASE /\ Savable(next)
           /\ versions' = Append(versions, v) /\ head' = n /\ Goes(c, s)
  <2>1. /\ r \in Calls /\ r.op = "save" /\ r.i = 0 /\ r.scope = All /\ r.at \in 0..Len(versions) /\ r.at \in Nat
        /\ r.quiet \in BOOLEAN /\ r.quiet => Undisturbed(r, dir)
    BY <1>1, Facts DEF ClientOK, CallOK, Calls
  <2>2. /\ next \in [Kinds -> Contents] /\ next["commit"] = Absent /\ next["structure"] # Absent
        /\ \A k \in Kinds : LoadFile(k, next[k]) /\ Writable(k, next[k])
        /\ \A k \in Kinds \ {"commit", "structure"} : next[k] = Absent => r.ds[k] = Absent
    BY <1>1, <1>3, SavedOK
  <2>3. n \in Nat
    BY Facts
  <2>4. v \in VersionType /\ v.ds = next /\ v.prev = r.at
    BY <2>1, <2>2 DEF VersionType
  <2>5. s = [r EXCEPT !.pc = "files", !.at = n, !.ds = next]
    BY <2>1 DEF Calls
  <2> HIDE DEF v, next, s, r
  <2>6. /\ VersionsOK(versions') /\ StoredOK(versions') /\ Grows(versions, versions') /\ Len(versions') = n
        /\ versions'[n] = v
    <3>1. v.prev \in 0..Len(versions)
      BY <2>1, <2>4
    <3>2. v.ds["commit"] = Absent /\ \A k \in Kinds : LoadFile(k, v.ds[k]) /\ Writable(k, v.ds[k])
      BY <2>2, <2>4
    <3>3. versions' = Append(versions, v)
      BY <1>3
    <3>4. VersionsOK(versions) /\ StoredOK(versions) /\ v \in VersionType
      BY <2>4, Facts
    <3>5. /\ VersionsOK(versions') /\ StoredOK(versions') /\ Grows(versions, versions')
          /\ Len(versions') = Len(versions) + 1 /\ versions'[Len(versions) + 1] = v
      BY <3>1, <3>2, <3>3, <3>4, AppendOK
    <3> QED BY <3>5
  <2> HIDE DEF n
  <2>7. /\ s \in Calls /\ s.pc = "files" /\ s.at = n /\ s.ds = next /\ s.quiet = r.quiet
        /\ s.op = "save" /\ s.scope = All /\ s.i = 0
    <3>1. "files" \in {"idle", "link", "read", "apply", "commit", "files", "rewind", "delete"}
      OBVIOUS
    <3> QED BY <3>1, <2>1, <2>2, <2>3, <2>5 DEF Calls
  <2>8. n \in 0..Len(versions') /\ n # 0
    BY <2>3, <2>6, Facts DEF n
  <2>9. Holds(versions', n) = next
    BY <2>4, <2>6, <2>8 DEF Holds
  <2>10. next["readme"] # Empty /\ next["transform"] # Empty
    BY <2>2, KindNames DEF Writable
  <2>11. CallOK(s, versions', head')
    BY <2>7, <2>8, <2>9, <2>10 DEF CallOK
  <2>12. ASSUME s.quiet PROVE Undisturbed(s, dir)
    <3>1. Undisturbed(r, dir) /\ r.pc = "commit"
      BY <1>1, <2>1, <2>7, <2>12
    <3>2. /\ Plain(dir) /\ dir.files["commit.json"] = Absent
          /\ \A k \in Kinds : dir.files[FileOf(k)] # Absent => r.ds[k] # Absent
      BY <3>1 DEF Undisturbed
    <3>3. \A k \in Kinds : next[k] = Absent => dir.files[FileOf(k)] = Absent
      BY <2>2, <3>2, KindFiles
    <3>4. \A j \in 1..6 : Settled(s, dir, j)
      BY <2>7, <3>3, NamesAt DEF Settled
    <3> QED BY <2>7, <3>2, <3>4 DEF Undisturbed
  <2>13. ClientOK(s, dir', versions', head') /\ Goes(c, s)
    BY <1>1, <1>3, <2>11, <2>12 DEF ClientOK
  <2>14. head' \in 0..Len(versions') /\ head' # 0
    BY <1>3, <2>8
  <2> QED BY <1>1, <2>6, <2>13, <2>14, Facts, StepOK
<1> QED BY <1>1, <1>2, <1>3

LEMMA RewindsOK == ASSUME WInv, NEW c \in Clients, RemoveRewinds(c) PROVE WInv'
<1> DEFINE r == me[c]
           v == versions[head].prev
           ds == ConvertDatasetToComponents(v)
           s == [r EXCEPT !.pc = "delete", !.at = v, !.ds = ds]
<1>1. /\ r.pc = "rewind" /\ UNCHANGED <<versions, linked, dir, calls, edits, faults>>
      /\ head' = IF v = 0 THEN head ELSE v
      /\ IF v = 0 THEN Goes(c, Idle) ELSE Goes(c, s)
  BY DEF RemoveRewinds, Return
<1>2. /\ r \in Calls /\ r.op = "remove" /\ r.i = 0 /\ r.scope = All /\ head # 0 /\ r.quiet \in BOOLEAN
  BY <1>1, Facts DEF CallOK, Calls
<1>3. v \in 0..Len(versions) /\ v \in Nat
  BY <1>2, Facts DEF VersionsOK
<1>4. CASE v = 0
  <2>1. UNCHANGED <<versions, head>> /\ Goes(c, Idle)
    BY <1>1, <1>4
  <2> QED BY <1>1, <2>1, Facts, IdleOK, StepSame
<1>5. CASE v # 0
  <2>1. ds = Holds(versions, v) /\ ds \in [Kinds -> Contents] /\ ds["readme"] # Empty /\ ds["transform"] # Empty
    BY <1>3, Facts, Converts, HoldsOK
  <2>2. s = [r EXCEPT !.pc = "delete", !.at = v, !.ds = ds]
    OBVIOUS
  <2> HIDE DEF s, r, ds, v
  <2>3. /\ s \in Calls /\ s.pc = "delete" /\ s.at = v /\ s.ds = ds /\ s.quiet = r.quiet
        /\ s.op = "remove" /\ s.scope = All /\ s.i = 0
    <3>1. "delete" \in {"idle", "link", "read", "apply", "commit", "files", "rewind", "delete"}
      OBVIOUS
    <3> QED BY <3>1, <1>2, <1>3, <2>1, <2>2 DEF Calls
  <2>4. head' = v /\ v # 0 /\ versions' = versions /\ dir' = dir
    BY <1>1, <1>5
  <2>5. CallOK(s, versions, v)
    BY <1>3, <2>1, <2>3 DEF CallOK
  <2>6. Undisturbed(s, dir)
    BY <2>3 DEF Undisturbed
  <2>7. ClientOK(s, dir', versions', head') /\ Goes(c, s)
    BY <1>1, <1>5, <2>4, <2>5, <2>6 DEF ClientOK
  <2>8. Grows(versions, versions')
    BY <2>4, Facts, GrowsNot
  <2>9. head' \in 0..Len(versions') /\ head' # 0
    BY <1>3, <2>4
  <2>10. VersionsOK(versions') /\ StoredOK(versions')
    BY <2>4, Facts
  <2> QED BY <1>1, <2>7, <2>8, <2>9, <2>10, Facts, StepOK
<1> QED BY <1>4, <1>5

\* Deleting files leaves a directory.
LEMMA DeletedDir ==
  ASSUME NEW d, d = [files |-> d.files, ds |-> d.ds], d.files \in [Files -> Contents], d.ds \in [Kinds -> Contents], DirOK(d),
         NEW e \in DeleteComponentFiles(d)
  PROVE  e \in [files : [Files -> Contents], ds : [Kinds -> Contents]] /\ DirOK(e)
<1>1. CASE NoDatasetFiles(d)
  BY <1>1 DEF DeleteComponentFiles
<1>2. CASE ~NoDatasetFiles(d)
  <2>1. PICK gone \in SUBSET Files : e = [d EXCEPT !.files = [f \in Files |-> IF f \in gone THEN Absent ELSE d.files[f]]]
    BY <1>2 DEF DeleteComponentFiles
  <2> DEFINE fs == [f \in Files |-> IF f \in gone THEN Absent ELSE d.files[f]]
  <2>2. e = [files |-> fs, ds |-> d.ds]
    BY <2>1
  <2>3. fs \in [Files -> Contents] /\ \A f \in Files : fs[f] = Absent \/ fs[f] = d.files[f]
    BY DEF Contents
  <2> HIDE DEF fs
  <2>4. e.files = fs /\ e.ds = d.ds /\ e \in [files : [Files -> Contents], ds : [Kinds -> Contents]]
    BY <2>2, <2>3
  <2>5. InFile("transform", Absent) = Absent
    BY FileValues DEF Contents
  <2> QED BY <2>3, <2>4, <2>5, FileNames DEF DirOK, Absent, Empty
<1> QED BY <1>1, <1>2

LEMMA DeletesOK == ASSUME WInv, NEW c \in Clients, RemoveDeletes(c) PROVE WInv'
<1> DEFINE r == me[c]
           q == r.quiet /\ Tidy("remove", dir)
           s == [r EXCEPT !.pc = "files", !.quiet = q]
<1>1. /\ r.pc = "delete" /\ dir' \in DeleteComponentFiles(dir)
      /\ UNCHANGED <<versions, head, linked, calls, edits, faults>> /\ Goes(c, s)
  BY DEF RemoveDeletes
<1>2. /\ r \in Calls /\ r.op = "remove" /\ r.i = 0 /\ r.scope = All /\ r.at \in 0..Len(versions)
      /\ r.ds = Holds(versions, r.at) /\ r.ds["readme"] # Empty /\ r.ds["transform"] # Empty
  BY <1>1, Facts DEF CallOK
<1>3. q \in BOOLEAN /\ (q => Tidy("remove", dir))
  OBVIOUS
<1>4. s = [r EXCEPT !.pc = "files", !.quiet = q]
  OBVIOUS
<1> HIDE DEF s, r, q
<1>5. /\ s \in Calls /\ s.pc = "files" /\ s.at = r.at /\ s.ds = r.ds /\ s.quiet = q
      /\ s.op = "remove" /\ s.scope = All /\ s.i = 0
  <2>1. "files" \in {"idle", "link", "read", "apply", "commit", "files", "rewind", "delete"}
    OBVIOUS
  <2> QED BY <2>1, <1>2, <1>3, <1>4 DEF Calls
<1>6. dir' \in [files : [Files -> Contents], ds : [Kinds -> Contents]] /\ DirOK(dir')
  BY <1>1, Facts, DeletedDir
<1>7. CallOK(s, versions, head)
  BY <1>2, <1>5 DEF CallOK
<1>8. ASSUME s.quiet PROVE Undisturbed(s, dir')
  <2>1. dir.ds = NoDataset /\ \A k \in Kinds : ~assignField(dir, k)
    BY <1>3, <1>5, <1>8 DEF Tidy
  <2>2. dir' = EmptyDir
    BY <1>1, <2>1, Facts, Deleted
  <2>3. \A j \in 1..6 : dir'.files[FileOf(AllSubcomponentNames[j])] = Absent
    BY <2>2, EmptyDirOK, NamesAt, OneKind
  <2>4. \A j \in 1..6 : Settled(s, dir', j)
    BY <1>5, <2>3 DEF Settled
  <2> QED BY <1>5, <2>2, <2>4, EmptyDirOK DEF Undisturbed
<1>9. ClientOK(s, dir', versions, head)
  BY <1>7, <1>8 DEF ClientOK
<1> QED BY <1>1, <1>6, <1>9, Facts, StepSame

LEMMA UnlinkOK == ASSUME WInv, NEW c \in Clients, Unlink(c) PROVE WInv'
<1>1. /\ linked' = FALSE /\ calls' = calls + 1 /\ UNCHANGED <<versions, head, dir, edits, faults>> /\ Goes(c, Idle)
  BY DEF Unlink
<1>2. calls' \in Nat
  BY <1>1, Facts
<1>3. ClientOK(Idle, dir', versions, head)
  BY Facts, IdleOK
<1> QED BY <1>1, <1>2, <1>3, Facts, StepSame

\* A write that does not finish leaves a directory.
LEMMA TornOK ==
  ASSUME NEW d, d = [files |-> d.files, ds |-> d.ds], d.files \in [Files -> Contents], d.ds \in [Kinds -> Contents], DirOK(d),
         NEW k \in Kinds, NEW e \in Torn(d, k)
  PROVE  e \in [files : [Files -> Contents], ds : [Kinds -> Contents]] /\ DirOK(e)
<1> DEFINE f == FileOf(k)
           fs == [d.files EXCEPT ![f] = Bad]
<1>1. e = d \/ e = [d EXCEPT !.files[f] = Bad]
  BY DEF Torn, FileOf
<1>2. CASE e = d
  BY <1>2
<1>3. CASE e = [d EXCEPT !.files[f] = Bad]
  <2>1. f \in Files /\ Bad \in Contents /\ Bad # Empty
    BY OneKind DEF Contents, Bad, Empty
  <2>2. e = [files |-> fs, ds |-> d.ds]
    BY <1>3
  <2>3. fs \in [Files -> Contents] /\ \A g \in Files : fs[g] = Bad \/ fs[g] = d.files[g]
    BY <2>1
  <2> HIDE DEF fs
  <2>4. e.files = fs /\ e.ds = d.ds /\ e \in [files : [Files -> Contents], ds : [Kinds -> Contents]]
    BY <2>2, <2>3
  <2>5. InFile("transform", Bad) = Bad
    BY <2>1, FileValues
  <2> QED BY <2>1, <2>3, <2>4, <2>5, FileNames DEF DirOK
<1> QED BY <1>1, <1>2, <1>3

\* So does one that does.
LEMMA WrittenDir ==
  ASSUME NEW d, d = [files |-> d.files, ds |-> d.ds], d.files \in [Files -> Contents], d.ds \in [Kinds -> Contents], DirOK(d),
         NEW k \in Kinds, NEW v \in Contents, k \in {"readme", "transform"} => v # Empty, NEW op,
         NEW e, e = WriteOrDelete(d, k, v, op)
  PROVE  e \in [files : [Files -> Contents], ds : [Kinds -> Contents]] /\ DirOK(e)
<1>1. e = d \/ e = [d EXCEPT !.files[FileOf(k)] = InFile(k, v)] \/ \E f \in Files : e = [d EXCEPT !.files[f] = Absent]
  BY DEF WriteOrDelete, WriteTo, RemoveFrom, FileOf
<1>2. ASSUME NEW f \in Files, NEW x \in Contents, e = [d EXCEPT !.files[f] = x],
             x = Empty => f \notin {"readme.md", "readme.html", "transform.star"},
             f = "transform.star" => x = InFile("transform", x)
      PROVE  e \in [files : [Files -> Contents], ds : [Kinds -> Contents]] /\ DirOK(e)
  <2> DEFINE fs == [d.files EXCEPT ![f] = x]
  <2>1. e = [files |-> fs, ds |-> d.ds]
    BY <1>2
  <2>2. fs \in [Files -> Contents] /\ \A g \in Files : fs[g] = IF g = f THEN x ELSE d.files[g]
    OBVIOUS
  <2> HIDE DEF fs
  <2>3. e.files = fs /\ e.ds = d.ds /\ e \in [files : [Files -> Contents], ds : [Kinds -> Contents]]
    BY <2>1, <2>2
  <2> QED BY <1>2, <2>2, <2>3, FileNames DEF DirOK
<1>3. CASE e = d
  BY <1>3
<1>4. CASE e = [d EXCEPT !.files[FileOf(k)] = InFile(k, v)]
  <2> DEFINE x == InFile(k, v)
  <2>1. x \in Contents /\ (x = Empty <=> v = Empty) /\ x = InFile(k, x)
    BY FileValues
  <2>2. e = [d EXCEPT !.files[FileOf(k)] = x]
    BY <1>4
  <2> HIDE DEF x
  <2>3. x = Empty => FileOf(k) \notin {"readme.md", "readme.html", "transform.star"}
    BY <2>1, KindNames, KindFiles
  <2>4. FileOf(k) \in Files /\ (FileOf(k) = "transform.star" => k = "transform")
    BY OneKind, KindNames, KindFiles
  <2> QED BY <1>2, <2>1, <2>2, <2>3, <2>4
<1>5. CASE \E f \in Files : e = [d EXCEPT !.files[f] = Absent]
  <2>1. Absent \in Contents /\ Absent # Empty /\ InFile("transform", Absent) = Absent
    BY FileValues DEF Absent, Empty, Contents
  <2> QED BY <1>2, <1>5, <2>1
<1> QED BY <1>1, <1>3, <1>4, <1>5

-----------------------------------------------------------------------------
(* Writing the components one by one. *)

\* The component to be written is the first of those that are ahead.
LEMMA AheadFirst ==
  ASSUME NEW r, Ahead(r) # {}
  PROVE  Min(Ahead(r)) \in 1..6 /\ Min(Ahead(r)) \in Ahead(r) /\ \A j \in Ahead(r) : Min(Ahead(r)) <= j
<1> DEFINE A == Ahead(r)
<1>1. A \subseteq 1..6 /\ A # {}
  BY NamesAt DEF Ahead
<1> HIDE DEF A
<1>2. \E m \in A : \A j \in A : m <= j
  <2>1. A \subseteq {1, 2, 3, 4, 5, 6}
    BY <1>1
  <2>2. CASE 1 \in A
    BY <2>1, <2>2
  <2>3. CASE 1 \notin A /\ 2 \in A
    BY <2>1, <2>3
  <2>4. CASE 1 \notin A /\ 2 \notin A /\ 3 \in A
    BY <2>1, <2>4
  <2>5. CASE 1 \notin A /\ 2 \notin A /\ 3 \notin A /\ 4 \in A
    BY <2>1, <2>5
  <2>6. CASE A \subseteq {5, 6} /\ 5 \in A
    BY <2>6
  <2>7. CASE A \subseteq {6}
    <3>1. 6 \in A
      BY <1>1, <2>7
    <3> QED BY <2>7, <3>1
  <2> QED BY <2>1, <2>2, <2>3, <2>4, <2>5, <2>6, <2>7
<1>3. Min(A) \in A /\ \A j \in A : Min(A) <= j
  BY <1>2 DEF Min
<1> QED BY <1>1, <1>3 DEF A

\* The call after it has written the m-th component.
LEMMA CallMoves ==
  ASSUME NEW r \in Calls, NEW m \in 1..6, NEW s, s = [r EXCEPT !.i = m]
  PROVE  /\ s \in Calls /\ s.i = m
         /\ s.op = r.op /\ s.pc = r.pc /\ s.at = r.at /\ s.ds = r.ds /\ s.scope = r.scope /\ s.quiet = r.quiet
BY DEF Calls

\* What one write leaves to a call that nobody disturbed.
LEMMA WriteKeeps ==
  ASSUME NEW d, d = [files |-> d.files, ds |-> d.ds], d.files \in [Files -> Contents], NEW r \in Calls, r.pc = "files",
         Undisturbed(r, d), \A k \in Kinds : Writable(k, r.ds[k]), Ahead(r) # {},
         NEW s, s = [r EXCEPT !.i = Min(Ahead(r))],
         NEW k, k = AllSubcomponentNames[Min(Ahead(r))], NEW e, e = WriteOrDelete(d, k, r.ds[k], r.op)
  PROVE  Undisturbed(s, e)
<1> DEFINE m == Min(Ahead(r))
           K(j) == AllSubcomponentNames[j]
<1>1. m \in 1..6 /\ m \in Ahead(r) /\ \A j \in Ahead(r) : m <= j
  BY AheadFirst
<1>2. k = K(m) /\ k \in Kinds
  BY <1>1, NamesAt
<1> HIDE DEF m
<1>3. s = [r EXCEPT !.i = m]
  BY DEF m
<1>4. /\ s \in Calls /\ s.i = m /\ s.op = r.op /\ s.pc = r.pc /\ s.ds = r.ds /\ s.scope = r.scope
  BY <1>1, <1>3, CallMoves
<1>5. r.ds \in [Kinds -> Contents] /\ r.i \in 0..6
  BY DEF Calls
<1>6. r.ds[k] # Absent \/ r.op = "restore"
  BY <1>1, <1>2 DEF Ahead
<1>7. Plain(d) /\ \A j \in 1..6 : Settled(r, d, j)
  BY DEF Undisturbed
<1>8. e.files = [d.files EXCEPT ![FileOf(k)] = InFile(k, r.ds[k])] /\ Plain(e)
  BY <1>2, <1>5, <1>6, <1>7, Written
<1>9. ASSUME NEW j \in 1..6 PROVE Settled(s, e, j)
  <2>1. CASE r.scope \notin {All, K(j)}
    BY <1>4, <2>1 DEF Settled
  <2>2. CASE r.scope \in {All, K(j)}
    <3>1. K(j) \in Kinds /\ FileOf(K(j)) \in Files /\ FileOf(k) \in Files
      BY <1>2, NamesAt, OneKind
    <3>2. CASE j = m
      <4>1. e.files[FileOf(K(j))] = InFile(K(j), r.ds[K(j)])
        BY <1>2, <1>8, <3>1, <3>2
      <4> QED BY <1>4, <3>2, <4>1 DEF Settled
    <3>3. CASE j # m
      <4>1. FileOf(K(j)) # FileOf(k)
        BY <1>1, <1>2, <3>1, <3>3, NamesAt, OneKind
      <4>2. e.files[FileOf(K(j))] = d.files[FileOf(K(j))]
        BY <1>8, <3>1, <4>1
      <4>3. /\ j <= r.i => d.files[FileOf(K(j))] = InFile(K(j), r.ds[K(j)])
            /\ j > r.i /\ r.ds[K(j)] = Absent /\ r.op # "restore" => d.files[FileOf(K(j))] = Absent
        BY <1>7, <2>2 DEF Settled
      <4>4. j > r.i /\ j < m => r.ds[K(j)] = Absent /\ r.op # "restore"
        <5>1. j < m => j \notin Ahead(r)
          BY <1>1, <1>5
        <5> QED BY <2>2, <5>1, NamesAt DEF Ahead
      <4>5. m > r.i
        BY <1>1 DEF Ahead
      <4>6. j <= m => d.files[FileOf(K(j))] = InFile(K(j), r.ds[K(j)])
        <5>1. InFile(K(j), Absent) = Absent
          BY FileValues DEF Contents
        <5> QED BY <1>1, <1>5, <3>3, <4>3, <4>4, <5>1
      <4>7. j > m /\ r.ds[K(j)] = Absent /\ r.op # "restore" => d.files[FileOf(K(j))] = Absent
        BY <1>1, <1>5, <4>3, <4>5
      <4> QED BY <1>4, <4>2, <4>6, <4>7 DEF Settled
    <3> QED BY <3>2, <3>3
  <2> QED BY <2>1, <2>2
<1> QED BY <1>4, <1>8, <1>9 DEF Undisturbed

\* Once nothing is ahead, every file of the scope is what it is to be.
LEMMA AllSettled ==
  ASSUME NEW d, NEW r \in Calls, r.pc = "files", Undisturbed(r, d), Ahead(r) = {}, NEW k \in Kinds, r.scope \in {All, k}
  PROVE  Plain(d) /\ d.files[FileOf(k)] = InFile(k, r.ds[k])
<1>1. Plain(d) /\ \A j \in 1..6 : Settled(r, d, j)
  BY DEF Undisturbed
<1>2. PICK j \in 1..6 : k = AllSubcomponentNames[j]
  BY NamesAt
<1>3. /\ j <= r.i => d.files[FileOf(k)] = InFile(k, r.ds[k])
      /\ j > r.i /\ r.ds[k] = Absent /\ r.op # "restore" => d.files[FileOf(k)] = Absent
  BY <1>1, <1>2 DEF Settled
<1>4. j > r.i => r.ds[k] = Absent /\ r.op # "restore"
  BY <1>2, NamesAt DEF Ahead
<1>5. r.i \in 0..6
  BY DEF Calls
<1>6. InFile(k, Absent) = Absent
  BY FileValues DEF Contents
<1> QED BY <1>1, <1>3, <1>4, <1>5, <1>6

\* Facts of a call that is writing.
LEMMA Writing ==
  ASSUME WInv, NEW c \in Clients, me[c].pc = "files"
  PROVE  LET r == me[c] IN
         /\ r \in Calls /\ r.op # "none" /\ r.at \in 0..Len(versions) /\ r.ds \in [Kinds -> Contents]
         /\ r.ds["readme"] # Empty /\ r.ds["transform"] # Empty
         /\ r.op = "write" => r.quiet = FALSE
         /\ r.op # "write" => /\ r.ds = Holds(versions, r.at)
                              /\ \A k \in Kinds : LoadFile(k, r.ds[k]) /\ Writable(k, r.ds[k])
         /\ r.quiet => Undisturbed(r, dir)
<1> DEFINE r == me[c]
<1>1. ClientOK(r, dir, versions, head) /\ r \in Calls /\ CallOK(r, versions, head)
  BY Facts
<1> HIDE DEF r
<1>2. /\ r.op # "none" /\ r.at \in 0..Len(versions) /\ r.ds \in [Kinds -> Contents]
      /\ r.ds["readme"] # Empty /\ r.ds["transform"] # Empty
      /\ r.op = "write" => r.quiet = FALSE
      /\ r.op # "write" => r.ds = Holds(versions, r.at)
  BY <1>1 DEF CallOK, Calls, r
<1>3. r.op # "write" => \A k \in Kinds : LoadFile(k, r.ds[k]) /\ Writable(k, r.ds[k])
  BY <1>2, Facts, HoldsOK
<1>4. r.quiet => Undisturbed(r, dir)
  BY <1>1 DEF ClientOK
<1> QED BY <1>1, <1>2, <1>3, <1>4 DEF r

\* The call of client c after the component it is about to write.
Moved(c) == [me[c] EXCEPT !.i = Min(Ahead(me[c]))]

\* What a step of writing is, with its parts named.
LEMMA WriteCases ==
  ASSUME NEW c \in Clients, WriteComponent(c)
  PROVE  /\ me[c].pc = "files" /\ UNCHANGED <<versions, head, linked, calls, edits>>
         /\ \/ Ahead(me[c]) = {} /\ UNCHANGED <<dir, faults>> /\ Goes(c, Idle)
            \/ /\ Ahead(me[c]) # {} /\ dir' = WriteOrDelete(dir, Component(c), me[c].ds[Component(c)], me[c].op)
               /\ faults' = faults
               /\ Goes(c, IF Ahead(Moved(c)) = {} THEN Idle ELSE Moved(c))
            \/ /\ Ahead(me[c]) # {} /\ Fault /\ dir' \in Torn(dir, Component(c))
               /\ Goes(c, IF Ahead(Moved(c)) = {} THEN Idle ELSE [Moved(c) EXCEPT !.quiet = FALSE])
BY DEF WriteComponent, Moved, Return

LEMMA ComponentOK ==
  ASSUME WInv, NEW c \in Clients, me[c].pc = "files", Ahead(me[c]) # {}
  PROVE  /\ Component(c) \in Kinds /\ me[c].ds[Component(c)] \in Contents
         /\ Component(c) \in {"readme", "transform"} => me[c].ds[Component(c)] # Empty
         /\ Moved(c) \in Calls /\ CallOK(Moved(c), versions, head) /\ Moved(c).quiet = me[c].quiet
         /\ CallOK(me[c], versions, head)
         /\ Moved(c).ds = me[c].ds /\ Moved(c).scope = me[c].scope /\ Moved(c).pc = "files"
<1> DEFINE r == me[c]
           m == Min(Ahead(r))
<1>1. m \in 1..6
  BY AheadFirst
<1>2. Component(c) \in Kinds
  BY <1>1, NamesAt DEF Component
<1>3. /\ r \in Calls /\ r.ds \in [Kinds -> Contents] /\ r.ds["readme"] # Empty /\ r.ds["transform"] # Empty
      /\ CallOK(r, versions, head)
  BY Writing, Facts
<1>4. Moved(c) = [r EXCEPT !.i = m]
  BY DEF Moved
<1>5. r.pc = "files"
  OBVIOUS
<1> HIDE DEF r, m
<1> DEFINE s == Moved(c)
<1> HIDE DEF s
<1>6. /\ s \in Calls /\ s.i = m
      /\ s.op = r.op /\ s.pc = r.pc /\ s.at = r.at /\ s.ds = r.ds /\ s.scope = r.scope /\ s.quiet = r.quiet
  BY <1>1, <1>3, <1>4, CallMoves DEF s
<1>7. CallOK(s, versions, head)
  BY <1>3, <1>5, <1>6 DEF CallOK
<1> QED BY <1>2, <1>3, <1>5, <1>6, <1>7 DEF r, s

LEMMA WriteComponentOK == ASSUME WInv, NEW c \in Clients, WriteComponent(c) PROVE WInv'
<1> DEFINE r == me[c]
           k == Component(c)
           s == Moved(c)
<1>1. /\ r.pc = "files" /\ UNCHANGED <<versions, head, linked, calls, edits>>
      /\ \/ Ahead(r) = {} /\ UNCHANGED <<dir, faults>> /\ Goes(c, Idle)
         \/ /\ Ahead(r) # {} /\ dir' = WriteOrDelete(dir, k, r.ds[k], r.op) /\ faults' = faults
            /\ Goes(c, IF Ahead(s) = {} THEN Idle ELSE s)
         \/ /\ Ahead(r) # {} /\ Fault /\ dir' \in Torn(dir, k)
            /\ Goes(c, IF Ahead(s) = {} THEN Idle ELSE [s EXCEPT !.quiet = FALSE])
  BY WriteCases
<1>2. CASE Ahead(r) = {} /\ UNCHANGED <<dir, faults>> /\ Goes(c, Idle)
  BY <1>1, <1>2, Facts, IdleOK, StepSame
<1>3. CASE /\ Ahead(r) # {} /\ dir' = WriteOrDelete(dir, k, r.ds[k], r.op) /\ faults' = faults
           /\ Goes(c, IF Ahead(s) = {} THEN Idle ELSE s)
  <2>1. /\ k \in Kinds /\ r.ds[k] \in Contents /\ (k \in {"readme", "transform"} => r.ds[k] # Empty)
        /\ CallOK(s, versions, head) /\ s.quiet = r.quiet
    BY <1>1, <1>3, ComponentOK
  <2>2. dir' \in [files : [Files -> Contents], ds : [Kinds -> Contents]] /\ DirOK(dir')
    BY <1>3, <2>1, Facts, WrittenDir
  <2>3. ASSUME s.quiet PROVE Undisturbed(s, dir')
    <3>1. /\ r \in Calls /\ r.pc = "files" /\ Undisturbed(r, dir) /\ \A l \in Kinds : Writable(l, r.ds[l])
      BY <1>1, <2>1, <2>3, Writing
    <3>2. s = [r EXCEPT !.i = Min(Ahead(r))] /\ k = AllSubcomponentNames[Min(Ahead(r))]
      BY DEF Moved, Component
    <3>3. dir = [files |-> dir.files, ds |-> dir.ds] /\ dir.files \in [Files -> Contents]
      BY Facts
    <3> HIDE DEF r, s, k
    <3> QED BY <1>3, <3>1, <3>2, <3>3, WriteKeeps
  <2>4. ClientOK(s, dir', versions, head)
    BY <2>1, <2>3 DEF ClientOK
  <2>5. ClientOK(Idle, dir', versions, head)
    BY Facts, IdleOK
  <2>6. CASE Ahead(s) = {}
    <3>1. Goes(c, Idle)
      BY <1>3, <2>6
    <3> QED BY <1>1, <1>3, <2>2, <2>5, <3>1, Facts, StepSame
  <2>7. CASE Ahead(s) # {}
    <3>1. Goes(c, s)
      BY <1>3, <2>7
    <3> QED BY <1>1, <1>3, <2>2, <2>4, <3>1, Facts, StepSame
  <2> QED BY <2>6, <2>7
<1>4. CASE /\ Ahead(r) # {} /\ Fault /\ dir' \in Torn(dir, k)
           /\ Goes(c, IF Ahead(s) = {} THEN Idle ELSE [s EXCEPT !.quiet = FALSE])
  <2> DEFINE t == [s EXCEPT !.quiet = FALSE]
  <2>1. k \in Kinds /\ s \in Calls /\ CallOK(s, versions, head)
    BY <1>1, <1>4, ComponentOK
  <2>2. dir' \in [files : [Files -> Contents], ds : [Kinds -> Contents]] /\ DirOK(dir')
    BY <1>4, <2>1, Facts, TornOK
  <2>3. faults' \in Nat
    BY <1>4, Facts DEF Fault
  <2>4. t = [s EXCEPT !.quiet = FALSE]
    OBVIOUS
  <2> HIDE DEF r, s, k, t
  <2>5. /\ t \in Calls /\ t.quiet = FALSE
        /\ t.op = s.op /\ t.pc = s.pc /\ t.at = s.at /\ t.ds = s.ds /\ t.scope = s.scope /\ t.i = s.i
    <3>1. FALSE \in BOOLEAN
      OBVIOUS
    <3> QED BY <2>1, <2>4, <3>1, CallFields
  <2>6. ClientOK(t, dir', versions, head)
    BY <2>1, <2>5 DEF ClientOK, CallOK
  <2>7. ClientOK(Idle, dir', versions, head)
    BY Facts, IdleOK
  <2>8. CASE Ahead(s) = {}
    <3>1. Goes(c, Idle)
      BY <1>4, <2>8
    <3> QED BY <1>1, <2>2, <2>3, <2>7, <3>1, Facts, StepSame
  <2>9. CASE Ahead(s) # {}
    <3>1. Goes(c, t)
      BY <1>4, <2>9 DEF t
    <3> QED BY <1>1, <2>2, <2>3, <2>6, <3>1, Facts, StepSame
  <2> QED BY <2>8, <2>9
<1> QED BY <1>1, <1>2, <1>3, <1>4

LEMMA CrashOK == ASSUME WInv, NEW c \in Clients, Crash(c) PROVE WInv'
<1>1. /\ Fault /\ UNCHANGED <<versions, head, linked, calls, edits>> /\ Goes(c, Idle)
      /\ dir' \in IF me[c].pc = "files" /\ Ahead(me[c]) # {} /\ me[c].ds[Component(c)] # Absent
                  THEN Torn(dir, Component(c)) ELSE {dir}
  BY DEF Crash
<1>2. dir' \in [files : [Files -> Contents], ds : [Kinds -> Contents]] /\ DirOK(dir')
  <2>1. CASE dir' = dir
    BY <2>1, Facts
  <2>2. CASE me[c].pc = "files" /\ Ahead(me[c]) # {} /\ dir' \in Torn(dir, Component(c))
    <3>1. Component(c) \in Kinds
      BY <2>2, ComponentOK
    <3> QED BY <2>2, <3>1, Facts, TornOK
  <2> QED BY <1>1, <2>1, <2>2
<1>3. faults' \in Nat
  BY <1>1, Facts DEF Fault
<1>4. ClientOK(Idle, dir', versions, head)
  BY Facts, IdleOK
<1> QED BY <1>1, <1>2, <1>3, <1>4, Facts, StepSame

-----------------------------------------------------------------------------
(* The user. *)

LEMMA EditOK ==
  ASSUME WInv, NEW d \in [files : [Files -> Contents], ds : [Kinds -> Contents]], DirOK(d), Edit(d)
  PROVE  WInv'
<1>1. /\ edits' = edits + 1 /\ dir' = d /\ me' = [c \in Clients |-> [me[c] EXCEPT !.quiet = FALSE]]
      /\ UNCHANGED <<versions, head, linked, calls, faults>>
  BY DEF Edit
<1>2. \A x \in Clients : ClientOK(me'[x], dir', versions, head)
  <2> SUFFICES ASSUME NEW x \in Clients PROVE ClientOK(me'[x], dir', versions, head)
    OBVIOUS
  <2>1. me'[x] = [me[x] EXCEPT !.quiet = FALSE]
    BY <1>1
  <2>2. ClientOK(me[x], dir, versions, head) /\ VersionsOK(versions) /\ Grows(versions, versions)
    BY Facts, GrowsNot
  <2>3. FALSE \in BOOLEAN
    OBVIOUS
  <2> QED BY <2>1, <2>2, <2>3, OtherOK
<1>3. \A x \in Clients : me'[x] \in Calls /\ me'[x].at \in 0..Len(versions)
  BY <1>2 DEF ClientOK, CallOK
<1>4. TypeOK'
  BY <1>1, <1>3 DEF WInv, TypeOK
<1>5. StoredOK(versions)' /\ DirOK(dir)'
  BY <1>1, Facts DEF StoredOK, DirOK
<1>6. \A x \in Clients : ClientOK(me[x], dir, versions, head)'
  BY <1>1, <1>2
<1> QED BY <1>4, <1>5, <1>6 DEF WInv

LEMMA EditFileOK == ASSUME WInv, NEW f \in Files, NEW v \in MayHold(f), EditFile(f, v) PROVE WInv'
<1> DEFINE d == [dir EXCEPT !.files[f] = v]
           fs == [dir.files EXCEPT ![f] = v]
<1>1. Min(Values) \in Contents /\ Min(Values) # Empty /\ Absent \in Contents /\ Absent # Empty
  BY LeastValue, ValuesAssumption DEF Contents, Absent, Empty
<1>2. \A x \in Values : x \in Contents /\ x # Empty
  BY ValuesAssumption DEF Contents, Empty
<1>3. /\ v \in Contents /\ (v = Empty => f \notin {"readme.md", "readme.html", "transform.star"})
      /\ f = "transform.star" => v = InFile("transform", v)
  <2>1. \A x \in Bytes : x \in Values /\ InFile("transform", x) = x
    BY Scripts DEF Bytes, InFile
  <2>2. CASE f = "meta.json"
    BY <2>2 DEF MayHold
  <2>3. CASE f = "structure.json"
    BY <1>2, <2>1, <2>3 DEF MayHold, Contents
  <2>4. CASE f = "body.csv"
    BY <1>2, <2>1, <2>4 DEF MayHold, Contents
  <2>5. CASE f \in {"readme.md", "transform.star"}
    <3>1. v \in Bytes \union {Absent}
      BY <2>5 DEF MayHold
    <3>2. InFile("transform", Absent) = Absent
      BY <1>1, FileValues
    <3> QED BY <1>1, <1>2, <2>1, <3>1, <3>2
  <2>6. CASE f \notin {"meta.json", "structure.json", "body.csv", "readme.md", "transform.star"}
    <3>1. v \in {Absent, Min(Values)}
      BY <2>6 DEF MayHold
    <3> QED BY <1>1, <2>6, <3>1
  <2> QED BY <2>2, <2>3, <2>4, <2>5, <2>6
<1>4. d = [files |-> fs, ds |-> dir.ds]
  BY Facts
<1>5. fs \in [Files -> Contents] /\ \A g \in Files : fs[g] = IF g = f THEN v ELSE dir.files[g]
  BY <1>3, Facts
<1>6. Edit(d)
  BY DEF EditFile
<1> HIDE DEF fs, d
<1>7. d.files = fs /\ d.ds = dir.ds /\ d \in [files : [Files -> Contents], ds : [Kinds -> Contents]]
  BY <1>4, <1>5, Facts
<1>8. DirOK(d)
  BY <1>3, <1>5, <1>7, Facts, FileNames DEF DirOK
<1> QED BY <1>6, <1>7, <1>8, EditOK

LEMMA EditDatasetFileOK ==
  ASSUME WInv, NEW ds \in DatasetFiles \union {NoDataset, Broken}, EditDatasetFile(ds)
  PROVE  WInv'
<1> DEFINE d == [dir EXCEPT !.ds = ds]
<1>1. ds \in [Kinds -> Contents] /\ ds["readme"] # Empty /\ ds["transform"] # Empty
  <2>1. CASE ds \in DatasetFiles
    <3>1. ds \in [Kinds -> Values \union {Absent, Empty}] /\ ds["readme"] # Empty /\ ds["transform"] # Empty
      BY <2>1, DatasetFilesAssumption
    <3> QED BY <3>1 DEF Contents
  <2>2. CASE ds = NoDataset
    BY <2>2, KindNames DEF NoDataset, Contents, Absent, Empty
  <2>3. CASE ds = Broken
    BY <2>3, KindNames DEF Broken, Contents, Bad, Empty
  <2> QED BY <2>1, <2>2, <2>3
<1>2. Edit(d)
  BY DEF EditDatasetFile
<1>3. d = [files |-> dir.files, ds |-> ds]
  BY Facts
<1> HIDE DEF d
<1>4. d.files = dir.files /\ d.ds = ds /\ d \in [files : [Files -> Contents], ds : [Kinds -> Contents]]
  BY <1>1, <1>3, Facts
<1>5. DirOK(d)
  BY <1>1, <1>4, Facts DEF DirOK
<1> QED BY <1>2, <1>4, <1>5, EditOK

-----------------------------------------------------------------------------
(* The beginning. *)

LEMMA InitFilesOK ==
  ASSUME NEW ds \in [Kinds -> Contents], ds["readme"] # Empty, ds["transform"] # Empty
  PROVE  InitFiles(ds) \in [files : [Files -> Contents], ds : [Kinds -> Contents]] /\ DirOK(InitFiles(ds))
<1> DEFINE ks(f) == {k \in Kinds : SetSubcomponent(k).file = f}
           fs == [f \in Files |-> IF ks(f) = {} THEN Absent
                               ELSE LET k == CHOOSE k \in ks(f) : TRUE IN InFile(k, ds[k])]
           d == InitFiles(ds)
<1>1. d = [EmptyDir EXCEPT !.files = fs]
  BY DEF InitFiles
<1>2. \A f \in Files : fs[f] = Absent \/ \E k \in Kinds : FileOf(k) = f /\ fs[f] = InFile(k, ds[k])
  <2> SUFFICES ASSUME NEW f \in Files PROVE fs[f] = Absent \/ \E k \in Kinds : FileOf(k) = f /\ fs[f] = InFile(k, ds[k])
    OBVIOUS
  <2>1. CASE ks(f) = {}
    BY <2>1
  <2>2. CASE ks(f) # {}
    <3> DEFINE x == CHOOSE k \in ks(f) : TRUE
    <3>1. x \in ks(f)
      BY <2>2
    <3>2. fs[f] = InFile(x, ds[x])
      BY <2>2
    <3> HIDE DEF x, fs
    <3>3. x \in Kinds /\ FileOf(x) = f
      BY <3>1 DEF FileOf
    <3> QED BY <3>2, <3>3
  <2> QED BY <2>1, <2>2
<1>3. DOMAIN fs = Files /\ fs = [f \in Files |-> fs[f]]
  OBVIOUS
<1> HIDE DEF fs, d
<1>4. Absent \in Contents /\ Absent # Empty
  BY DEF Contents, Absent, Empty
<1>5. fs \in [Files -> Contents]
  <2>1. \A k \in Kinds : InFile(k, ds[k]) \in Contents
    BY FileValues
  <2> QED BY <1>2, <1>3, <1>4, <2>1
<1>6. d = [files |-> fs, ds |-> NoDataset]
  BY <1>1 DEF EmptyDir
<1>7. NoDataset \in [Kinds -> Contents] /\ NoDataset["readme"] = Absent /\ NoDataset["transform"] = Absent
  BY <1>4, KindNames DEF NoDataset
<1>8. d.files = fs /\ d.ds = NoDataset /\ d \in [files : [Files -> Contents], ds : [Kinds -> Contents]]
  BY <1>5, <1>6, <1>7
<1>9. /\ fs["readme.md"] # Empty /\ fs["readme.html"] # Empty /\ fs["transform.star"] # Empty
      /\ fs["transform.star"] = InFile("transform", fs["transform.star"])
  <2>1. InFile("readme", ds["readme"]) # Empty /\ InFile("transform", ds["transform"]) # Empty
    BY FileValues, KindNames
  <2>2. /\ InFile("transform", InFile("transform", ds["transform"])) = InFile("transform", ds["transform"])
        /\ InFile("transform", Absent) = Absent
    BY <1>4, FileValues, KindNames
  <2> QED BY <1>2, <1>4, <2>1, <2>2, FileNames, KindNames, KindFiles
<1>10. DirOK(d)
  BY <1>4, <1>7, <1>8, <1>9 DEF DirOK
<1> QED BY <1>8, <1>10 DEF d

\* The datasets the model begins with.
LEMMA FirstOK ==
  \A ds \in {initDs, Bare, Dressed} :
    /\ ds \in [Kinds -> Contents] /\ ds["commit"] = Absent /\ ds["readme"] # Empty /\ ds["transform"] # Empty
    /\ \A k \in Kinds : LoadFile(k, ds[k]) /\ Writable(k, ds[k])
<1> DEFINE m == Min(Values)
<1>1. m \in Contents /\ m # Bad /\ m # Empty
  BY LeastValue, ValuesAssumption DEF Contents, Bad, Empty
<1>2. initDs = [NoDataset EXCEPT !["meta"] = Empty, !["structure"] = m, !["body"] = m]
  BY DEF initDs, Inferred
<1> HIDE DEF m
<1>3. NoDataset = [k \in Kinds |-> Absent] /\ Absent \in Contents /\ Empty \in Contents /\ Absent # Empty /\ Absent # Bad /\ Empty # Bad
  BY DEF NoDataset, Contents, Absent, Empty, Bad
<1>4. /\ initDs \in [Kinds -> Contents] /\ initDs["commit"] = Absent /\ initDs["readme"] = Absent /\ initDs["transform"] = Absent
      /\ initDs["meta"] = Empty /\ initDs["structure"] = m /\ initDs["body"] = m
  BY <1>1, <1>2, <1>3, KindNames
<1>5. Bare = [initDs EXCEPT !["meta"] = Absent] /\ Dressed = [initDs EXCEPT !["readme"] = m, !["transform"] = m]
  BY DEF Bare, Dressed, m
<1>6. ASSUME NEW ds \in {initDs, Bare, Dressed}
      PROVE  /\ ds \in [Kinds -> Contents] /\ ds["commit"] = Absent
             /\ ds["readme"] \in {Absent, m} /\ ds["transform"] \in {Absent, m} /\ ds["structure"] = m /\ ds["body"] = m
             /\ ds["meta"] \in {Absent, Empty}
  BY <1>1, <1>3, <1>4, <1>5, KindNames
<1>7. ASSUME NEW ds \in {initDs, Bare, Dressed}, NEW k \in Kinds PROVE LoadFile(k, ds[k]) /\ Writable(k, ds[k])
  <2>1. ds[k] # Bad
    BY <1>1, <1>3, <1>6, KindNames
  <2>2. k \in {"meta", "body"} \/ ds[k] # Empty
    BY <1>1, <1>3, <1>6, KindNames
  <2> QED BY <2>1, <2>2 DEF LoadFile, Writable
<1> QED BY <1>1, <1>3, <1>6, <1>7

LEMMA HistoryOK ==
  ASSUME NEW a \in {Bare, Dressed}, NEW b \in {Bare, Dressed}, History(a, b)
  PROVE  VersionsOK(versions) /\ StoredOK(versions) /\ head \in 0..Len(versions)
<1> DEFINE v == [ds |-> a, prev |-> 0]
           w == [ds |-> b, prev |-> 1]
<1>1. versions = <<v, w>> /\ head = 2
  BY DEF History
<1>2. v \in VersionType /\ w \in VersionType /\ v.ds = a /\ w.ds = b /\ v.prev = 0 /\ w.prev = 1
  BY FirstOK DEF VersionType
<1>3. \A ds \in {a, b} : ds["commit"] = Absent /\ \A k \in Kinds : LoadFile(k, ds[k]) /\ Writable(k, ds[k])
  BY FirstOK
<1> HIDE DEF v, w
<1>4. /\ versions \in Seq(VersionType) /\ Len(versions) = 2 /\ DOMAIN versions = 1..2
      /\ versions[1] = v /\ versions[2] = w
  BY <1>1, <1>2
<1>5. \A x \in DOMAIN versions : versions[x] = v \/ versions[x] = w
  <2>1. \A x \in 1..2 : x = 1 \/ x = 2
    OBVIOUS
  <2> QED BY <1>4, <2>1
<1>6. StoredOK(versions)
  BY <1>2, <1>3, <1>5 DEF StoredOK
<1>7. \A x \in DOMAIN versions : versions[x].prev \in 0..2
  BY <1>2, <1>5
<1> QED BY <1>1, <1>4, <1>6, <1>7 DEF VersionsOK

LEMMA InitOK == Init => WInv
<1> SUFFICES ASSUME Init PROVE WInv
  OBVIOUS
<1>1. me = [c \in Clients |-> Idle] /\ calls = 0 /\ edits = 0 /\ faults = 0
  BY DEF Init
<1>2. /\ VersionsOK(versions) /\ StoredOK(versions) /\ head \in 0..Len(versions) /\ linked \in BOOLEAN
      /\ dir \in [files : [Files -> Contents], ds : [Kinds -> Contents]] /\ DirOK(dir)
  <2>1. CASE versions = <<>> /\ head = 0 /\ linked = TRUE /\ dir = InitFiles(initDs)
    <3>1. dir \in [files : [Files -> Contents], ds : [Kinds -> Contents]] /\ DirOK(dir)
      BY <2>1, FirstOK, InitFilesOK
    <3>2. VersionsOK(versions) /\ StoredOK(versions)
      BY <2>1 DEF VersionsOK, StoredOK
    <3> QED BY <2>1, <3>1, <3>2
  <2>2. CASE History(Bare, Dressed) /\ linked = TRUE /\ dir = InitFiles(Dressed)
    <3>1. dir \in [files : [Files -> Contents], ds : [Kinds -> Contents]] /\ DirOK(dir)
      BY <2>2, FirstOK, InitFilesOK
    <3> QED BY <2>2, <3>1, HistoryOK
  <2>3. CASE History(Dressed, Bare) /\ linked = FALSE /\ dir = EmptyDir
    BY <2>3, HistoryOK, EmptyDirOK
  <2> QED BY <2>1, <2>2, <2>3 DEF Init
<1>3. \A c \in Clients : ClientOK(me[c], dir, versions, head)
  BY <1>1, <1>2, IdleOK
<1>4. \A c \in Clients : me[c] \in Calls /\ me[c].at \in 0..Len(versions)
  BY <1>3 DEF ClientOK, CallOK
<1>5. TypeOK
  BY <1>1, <1>2, <1>4 DEF TypeOK, VersionsOK, VersionType
<1> QED BY <1>2, <1>3, <1>5 DEF WInv

\* Every step, and whose it is.
LEMMA NextOK == WInv /\ [Next]_vars => WInv'
<1> SUFFICES ASSUME WInv, [Next]_vars PROVE WInv'
  OBVIOUS
<1>1. ASSUME NEW c \in Clients, CheckoutHandler(c) \/ CheckoutCommand(c) PROVE WInv'
  BY <1>1, CheckoutOK DEF CheckoutHandler, CheckoutCommand
<1>2. ASSUME NEW c \in Clients, RestoreHandler(c) \/ RestoreCommand(c) PROVE WInv'
  <2>1. /\ DOMAIN versions \subseteq 0..Len(versions) /\ head \in 0..Len(versions)
        /\ All \in Kinds \union {All, Field}
    BY Facts DEF VersionsOK
  <2>2. PICK v \in 0..Len(versions), k \in Kinds \union {All, Field} : Restore(c, v, k)
    BY <1>2, <2>1 DEF RestoreHandler, RestoreCommand
  <2> QED BY <2>2, RestoreOK
<1>3. ASSUME NEW c \in Clients, WriteHandler(c) PROVE WInv'
  BY <1>3, WriteOK DEF WriteHandler
<1>4. ASSUME NEW c \in Clients, NEW p \in Patches, NEW sw \in Switches, Save(c, p, sw) PROVE WInv'
  BY <1>4, SaveOK
<1>5. ASSUME NEW c \in Clients, NEW force \in BOOLEAN, Remove(c, force) PROVE WInv'
  BY <1>5, RemoveOK
<1>6. ASSUME NEW c \in Clients, Unlink(c) PROVE WInv'
  BY <1>6, UnlinkOK
<1>7. ASSUME NEW c \in Clients, CheckoutLinks(c) PROVE WInv'
  BY <1>7, LinksOK
<1>8. ASSUME NEW c \in Clients, SaveReads(c) PROVE WInv'
  BY <1>8, ReadsOK
<1>9. ASSUME NEW c \in Clients, SaveDataset(c) PROVE WInv'
  BY <1>9, CommitsOK
<1>10. ASSUME NEW c \in Clients, RemoveRewinds(c) PROVE WInv'
  BY <1>10, RewindsOK
<1>11. ASSUME NEW c \in Clients, RemoveDeletes(c) PROVE WInv'
  BY <1>11, DeletesOK
<1>12. ASSUME NEW c \in Clients, WriteComponent(c) PROVE WInv'
  BY <1>12, WriteComponentOK
<1>13. ASSUME NEW c \in Clients, Crash(c) PROVE WInv'
  BY <1>13, CrashOK
<1>14. ASSUME NEW f \in Files, NEW v \in MayHold(f), EditFile(f, v) PROVE WInv'
  BY <1>14, EditFileOK
<1>15. ASSUME NEW ds \in DatasetFiles \union {NoDataset, Broken}, EditDatasetFile(ds) PROVE WInv'
  BY <1>15, EditDatasetFileOK
<1>16. ASSUME NEW c \in Clients, SaveApplies(c) PROVE WInv'
  BY <1>16, AppliesOK
<1>17. CASE UNCHANGED vars
  <2>1. UNCHANGED <<versions, head, linked, dir, me, calls, edits, faults>>
    BY <1>17 DEF vars
  <2>2. TypeOK'
    BY <2>1 DEF WInv, TypeOK
  <2>3. StoredOK(versions)' /\ DirOK(dir)'
    BY <2>1, Facts DEF StoredOK, DirOK
  <2>4. \A x \in Clients : ClientOK(me[x], dir, versions, head)'
    BY <2>1, Facts
  <2> QED BY <2>2, <2>3, <2>4 DEF WInv
<1> QED BY <1>1, <1>2, <1>3, <1>4, <1>5, <1>6, <1>7, <1>8, <1>9, <1>10, <1>11, <1>12, <1>13, <1>14, <1>15, <1>16, <1>17 DEF Next

-----------------------------------------------------------------------------
(* The theorems. *)

\* The invariant above holds of every behaviour: of any number of commands and requests
\* that write one working directory while its user edits the files.
THEOREM Inductive == Spec => []WInv
BY InitOK, NextOK, PTL DEF Spec

\* Every variable keeps its type.
THEOREM TypeCorrect == Spec => []TypeOK
<1>1. WInv => TypeOK
  BY DEF WInv
<1> QED BY <1>1, Inductive, PTL

\* A working directory that IsWorkingDirectoryClean calls clean (fsi/status.go) is read
\* by ReadDir (fsi/mapping.go) as the newest version, component by component; of a
\* transform the script is, and its configuration is not compared
\* (base/component/kinds.go:678).
THEOREM CleanIsHead == Spec => []CleanMeansHead
<1>1. CleanMeansHead
  <2> SUFFICES ASSUME IsWorkingDirectoryClean(dir, head)
               PROVE  /\ ReadDir(dir).ok
                      /\ \A k \in Kinds :
                           /\ k # "transform" => ReadDir(dir).ds[k] = ConvertDatasetToComponents(head)[k]
                           /\ InFile(k, ReadDir(dir).ds[k]) = InFile(k, ConvertDatasetToComponents(head)[k])
    BY DEF CleanMeansHead
  <2>1. "meta" \in Kinds
    BY KindNames
  <2> QED BY <2>1, CleanReads
<1> QED BY <1>1, Inductive, PTL

\* Every step is one of a client, that begins, goes on or dies, or an edit.
LEMMA NextCases ==
  ASSUME Next
  PROVE  \/ \E y \in Clients : \E rec :
              /\ Goes(y, rec)
              /\ \/ me[y].op = "none" \/ me[y].pc \in {"link", "read", "apply", "rewind", "delete"}
                 \/ SaveDataset(y) \/ WriteComponent(y) \/ Crash(y)
         \/ \E d : Edit(d)
<1> DEFINE Q(y) == \E rec : /\ Goes(y, rec)
                            /\ \/ me[y].op = "none" \/ me[y].pc \in {"link", "read", "apply", "rewind", "delete"}
                               \/ SaveDataset(y) \/ WriteComponent(y) \/ Crash(y)
<1>1. \A y : (\E rec : Begin(y, rec)) => Q(y)
  BY DEF Begin
<1>2. ASSUME NEW y, \/ CheckoutHandler(y) \/ RestoreHandler(y) \/ WriteHandler(y) \/ RestoreCommand(y) \/ CheckoutCommand(y)
                    \/ (\E p \in Patches, sw \in Switches : Save(y, p, sw)) \/ (\E force \in BOOLEAN : Remove(y, force))
      PROVE Q(y)
  <2>1. \E rec : Begin(y, rec)
    BY <1>2 DEF CheckoutHandler, RestoreHandler, WriteHandler, RestoreCommand, CheckoutCommand, Save, Remove, Checkout,
                Restore, Write
  <2> QED BY <1>1, <2>1
<1>3. ASSUME NEW y, Unlink(y) PROVE Q(y)
  BY <1>3 DEF Unlink
<1>4. ASSUME NEW y, CheckoutLinks(y) PROVE Q(y)
  BY <1>4 DEF CheckoutLinks
<1>5. ASSUME NEW y, SaveReads(y) PROVE Q(y)
  BY <1>5 DEF SaveReads, Return
<1>6. ASSUME NEW y, SaveApplies(y) PROVE Q(y)
  BY <1>6 DEF SaveApplies, Return
<1>7. ASSUME NEW y, SaveDataset(y) PROVE Q(y)
  <2>1. \E rec : Goes(y, rec)
    BY <1>7 DEF SaveDataset, Return
  <2> QED BY <1>7, <2>1
<1>8. ASSUME NEW y, RemoveRewinds(y) PROVE Q(y)
  BY <1>8 DEF RemoveRewinds, Return
<1>9. ASSUME NEW y, RemoveDeletes(y) PROVE Q(y)
  BY <1>9 DEF RemoveDeletes
<1>10. ASSUME NEW y \in Clients, WriteComponent(y) PROVE Q(y)
  <2>1. \E rec : Goes(y, rec)
    BY <1>10, WriteCases
  <2> QED BY <1>10, <2>1
<1>11. ASSUME NEW y, Crash(y) PROVE Q(y)
  BY <1>11 DEF Crash
<1>12. (\E f \in Files : \E v \in MayHold(f) : EditFile(f, v)) => \E d : Edit(d)
  BY DEF EditFile
<1>13. (\E ds \in DatasetFiles \union {NoDataset, Broken} : EditDatasetFile(ds)) => \E d : Edit(d)
  BY DEF EditDatasetFile
<1>14. (\E y \in Clients : Q(y)) \/ \E d : Edit(d)
  <2> HIDE DEF Q
  <2> QED BY <1>2, <1>3, <1>4, <1>5, <1>6, <1>7, <1>8, <1>9, <1>10, <1>11, <1>12, <1>13 DEF Next
<1> QED BY <1>14

\* A step of another, or an edit, leaves a call where it is.
LEMMA Stays ==
  ASSUME WInv, NEW c \in Clients, (\E d : Edit(d)) \/ \E y \in Clients \ {c} : \E rec : Goes(y, rec)
  PROVE  me'[c].pc = me[c].pc
<1>1. PICK q \in BOOLEAN : me'[c] = [me[c] EXCEPT !.quiet = q]
  <2>1. CASE \E d : Edit(d)
    BY <2>1 DEF Edit
  <2>2. CASE \E y \in Clients \ {c} : \E rec : Goes(y, rec)
    BY <2>2, Facts, GoesOn
  <2> QED BY <2>1, <2>2
<1> QED BY <1>1, Facts, CallFields

\* A call that was writing and is done wrote its last component, or failed.
LEMMA WhoFinishes ==
  ASSUME WInv, Next, NEW c \in Clients, me[c].pc = "files", me'[c].pc = "idle"
  PROVE  WriteComponent(c) \/ faults' # faults
<1>1. me'[c].pc # me[c].pc
  OBVIOUS
<1>2. me[c].op # "none"
  BY Writing
<1>3. PICK rec : /\ Goes(c, rec)
                 /\ \/ me[c].op = "none" \/ me[c].pc \in {"link", "read", "apply", "rewind", "delete"}
                    \/ SaveDataset(c) \/ WriteComponent(c) \/ Crash(c)
  BY <1>1, NextCases, Stays
<1>4. ~SaveDataset(c)
  BY DEF SaveDataset
<1>5. Crash(c) => faults' # faults
  BY Facts DEF Crash, Fault
<1> QED BY <1>2, <1>3, <1>4, <1>5

\* When a checkout, save, restore or remove has written its last file in a directory
\* nobody disturbed, `qri status` shows no change against the version it wrote
\* (WriteComponents, fsi/mapping.go; FSIMethods.Restore, lib/fsi.go).
THEOREM Settles == Spec => SettledIsClean
<1> DEFINE P == \A c \in Clients :
                  (me[c].pc = "files" /\ me[c].op # "write" /\ me[c].quiet /\ me'[c].pc = "idle" /\ faults' = faults)
                  => \A x \in Kinds : me[c].scope \in {All, x} => Status(dir', me[c].at)[x] \in {"none", "unmodified"}
<1>1. WInv /\ [Next]_vars => [P]_vars
  <2> SUFFICES ASSUME WInv, Next, NEW c \in Clients, me[c].pc = "files", me[c].op # "write", me[c].quiet,
                      me'[c].pc = "idle", faults' = faults, NEW x \in Kinds, me[c].scope \in {All, x}
               PROVE  Status(dir', me[c].at)[x] \in {"none", "unmodified"}
    BY Zenon
  <2> DEFINE r == me[c]
             s == Moved(c)
             k == Component(c)
  <2>1. WriteComponent(c)
    BY WhoFinishes
  <2>2. /\ r \in Calls /\ r.at \in 0..Len(versions) /\ r.ds = Holds(versions, r.at) /\ Undisturbed(r, dir)
        /\ \A l \in Kinds : LoadFile(l, r.ds[l]) /\ Writable(l, r.ds[l])
    BY Writing
  <2>3. r.ds = ConvertDatasetToComponents(r.at)
    BY <2>2, Converts
  <2>4. Plain(dir') /\ dir'.files[FileOf(x)] = InFile(x, r.ds[x])
    <3>1. CASE Ahead(r) = {} /\ dir' = dir
      BY <2>2, <3>1, AllSettled
    <3>2. CASE /\ Ahead(r) # {} /\ dir' = WriteOrDelete(dir, k, r.ds[k], r.op)
               /\ Goes(c, IF Ahead(s) = {} THEN Idle ELSE s)
      <4>1. s \in Calls /\ s.ds = r.ds /\ s.scope = r.scope /\ s.pc = "files"
        BY <3>2, ComponentOK
      <4>2. Ahead(s) = {}
        <5>1. me'[c] = IF Ahead(s) = {} THEN Idle ELSE s
          BY <3>2, Facts, GoesOn
        <5> QED BY <4>1, <5>1
      <4>3. s = [r EXCEPT !.i = Min(Ahead(r))] /\ k = AllSubcomponentNames[Min(Ahead(r))]
        BY DEF Moved, Component
      <4>4. dir = [files |-> dir.files, ds |-> dir.ds] /\ dir.files \in [Files -> Contents]
        BY Facts
      <4>5. r.pc = "files" /\ r.scope \in {All, x}
        OBVIOUS
      <4> HIDE DEF r, s, k
      <4>6. Undisturbed(s, dir')
        BY <2>2, <3>2, <4>3, <4>4, <4>5, WriteKeeps
      <4>7. Plain(dir') /\ dir'.files[FileOf(x)] = InFile(x, s.ds[x])
        BY <4>1, <4>2, <4>5, <4>6, AllSettled
      <4> QED BY <4>1, <4>7
    <3>3. ~Fault
      BY Facts DEF Fault
    <3> QED BY <2>1, <3>1, <3>2, <3>3, WriteCases
  <2>5. r.ds[x] \in Contents
    BY <2>2 DEF Calls
  <2>6. LoadFile(x, InFile(x, r.ds[x]))
    BY <2>2, <2>5, FileValues DEF LoadFile
  <2>7. /\ LoadFile(x, dir'.files[FileOf(x)]) /\ dir'.files[FileOf(x)] = InFile(x, ConvertDatasetToComponents(r.at)[x])
        /\ ConvertDatasetToComponents(r.at)[x] \in Contents
    BY <2>3, <2>4, <2>5, <2>6
  <2> QED BY <2>4, <2>7, SameIsClean
<1>2. Spec => [][P]_vars
  BY <1>1, Inductive, PTL DEF Spec
<1> QED BY <1>2 DEF SettledIsClean

\* What status says of a component that has one source.
LEMMA StatusNone ==
  ASSUME NEW p, NEW a, NEW k \in Kinds, a[k].problem = FALSE, p[k] = Absent /\ a[k].val = Absent
  PROVE  CalculateStateTransition(p, a)[k] = "none"
BY DEF CalculateStateTransition

LEMMA StatusAdd ==
  ASSUME NEW p, NEW a, NEW k \in Kinds, a[k].problem = FALSE, p[k] = Absent /\ a[k].val # Absent
  PROVE  CalculateStateTransition(p, a)[k] = "add"
BY DEF CalculateStateTransition

LEMMA StatusRemoved ==
  ASSUME NEW p, NEW a, NEW k \in Kinds, a[k].problem = FALSE, p[k] # Absent /\ a[k].val = Absent
  PROVE  CalculateStateTransition(p, a)[k] = "removed"
BY DEF CalculateStateTransition

LEMMA StatusCompares ==
  ASSUME NEW p, NEW a, NEW k \in Kinds, a[k].problem = FALSE
  PROVE  p[k] # Absent /\ a[k].val # Absent => CalculateStateTransition(p, a)[k] = Compare(k, p[k], a[k].val)
BY DEF CalculateStateTransition

\* What sets something anew changes a component that it is merged into.
LEMMA SetAnew ==
  ASSUME NEW k \in Kinds, NEW a \in Values, NEW b \in Values, k = "transform" => b = InFile(k, b),
         ~(FieldsOf[b] \subseteq FieldsOf[a])
  PROVE  InFile(k, Merge[a][b]) # InFile(k, a)
<1> DEFINE m == Merge[a][b]
<1>1. m \in Values /\ FieldsOf[b] \subseteq FieldsOf[m]
  BY MergedFields
<1> HIDE DEF m
<1>2. PICK f \in FieldsOf[b] : f \notin FieldsOf[a]
  OBVIOUS
<1>3. CASE k # "transform"
  <2>1. InFile(k, m) = m /\ InFile(k, a) = a
    BY <1>3 DEF InFile
  <2> QED BY <1>1, <1>2, <2>1 DEF m
<1>4. CASE k = "transform"
  <2>1. InFile(k, m) = Script[m] /\ InFile(k, a) = Script[a] /\ Script[b] = b
    BY <1>1, <1>4 DEF InFile
  <2>2. f \in ScriptField(FieldsOf[b])
    BY <1>2, <2>1, Scripts
  <2>3. f \in ScriptField(FieldsOf[m]) /\ f \notin ScriptField(FieldsOf[a])
    BY <1>1, <1>2, <2>2 DEF ScriptField
  <2>4. FieldsOf[Script[m]] # FieldsOf[Script[a]]
    BY <1>1, <2>3, Scripts
  <2> QED BY <2>1, <2>4 DEF m
<1> QED BY <1>3, <1>4

LEMMA WhoCommits ==
  ASSUME WInv, Next, NEW c \in Clients, me[c].pc = "commit", me'[c].pc = "files"
  PROVE  SaveDataset(c)
<1>1. me'[c].pc # me[c].pc
  OBVIOUS
<1>2. me[c].op # "none"
  BY Facts DEF CallOK
<1>3. PICK rec : /\ Goes(c, rec)
                 /\ \/ me[c].op = "none" \/ me[c].pc \in {"link", "read", "apply", "rewind", "delete"}
                    \/ SaveDataset(c) \/ WriteComponent(c) \/ Crash(c)
  BY <1>1, NextCases, Stays
<1>4. ~WriteComponent(c)
  BY WriteCases
<1>5. Crash(c) => me'[c] = Idle
  BY Facts, GoesOn DEF Crash
<1>6. Idle.pc # "files"
  BY DEF Idle
<1> QED BY <1>2, <1>3, <1>4, <1>5, <1>6

\* Of what a directory that nobody touches has, every field is in the version that
\* SaveDataset commits (base/save.go), and what status shows as added or modified, or by a
\* save that replaces as removed, is shown at that version (FSI.StatusAtVersion,
\* fsi/status.go), unless a save that patches had nothing set anew to commit.
THEOREM SaveCommits == Spec => SaveCommitsStatus
<1> DEFINE P == \A c \in Clients :
                  (me[c].op = "save" /\ me[c].pc = "commit" /\ me[c].quiet /\ me'[c].pc = "files")
                  => \A k \in Kinds :
                       LET here == ReadDir(dir).ds[k]
                           was  == ConvertDatasetToComponents(me[c].at)[k]
                       IN  here = me[c].ds[k] =>
                             /\ here \in Values => FieldsOf[here] \subseteq FieldsOf[ConvertDatasetToComponents(head)'[k]]
                             /\ \/ Status(dir, me[c].at)[k] \in {"add", "modified"} /\ here # Empty
                                   /\ ("Replace" \in me[c].sw \/ SetsAnew(k, was, here))
                                \/ Status(dir, me[c].at)[k] = "removed" /\ "Replace" \in me[c].sw
                                   /\ k \notin {"structure", "body"}
                                => StatusAtVersion(head)'[k] = Status(dir, me[c].at)[k]
<1>1. WInv /\ [Next]_vars => [P]_vars
  <2> SUFFICES ASSUME WInv, Next, NEW c \in Clients, me[c].pc = "commit", me[c].quiet, me'[c].pc = "files", NEW k \in Kinds,
                      ReadDir(dir).ds[k] = me[c].ds[k]
               PROVE  LET here == ReadDir(dir).ds[k]
                          was  == ConvertDatasetToComponents(me[c].at)[k]
                      IN  /\ here \in Values => FieldsOf[here] \subseteq FieldsOf[ConvertDatasetToComponents(head)'[k]]
                          /\ \/ Status(dir, me[c].at)[k] \in {"add", "modified"} /\ here # Empty
                                /\ ("Replace" \in me[c].sw \/ SetsAnew(k, was, here))
                             \/ Status(dir, me[c].at)[k] = "removed" /\ "Replace" \in me[c].sw
                                /\ k \notin {"structure", "body"}
                             => StatusAtVersion(head)'[k] = Status(dir, me[c].at)[k]
    BY Zenon
  <2> DEFINE r == me[c]
             here == r.ds[k]
             comps == ExpandListedComponents(dir)
             prev == ConvertDatasetToComponents(r.at)
             next == SavedDataset(r)
             n == Len(versions) + 1
             v == [ds |-> next, prev |-> r.at]
  <2>1. SaveDataset(c)
    BY WhoCommits
  <2>2. /\ Savable(next) /\ versions' = Append(versions, v) /\ head' = n
    <3>1. \/ Goes(c, Idle)
          \/ /\ Savable(next) /\ versions' = Append(versions, v) /\ head' = n
      BY <2>1 DEF SaveDataset, SavedDataset, Refused, Savable, Return
    <3>2. Goes(c, Idle) => me'[c] = Idle
      BY Facts, GoesOn
    <3>3. Idle.pc # "files"
      BY DEF Idle
    <3> QED BY <3>1, <3>2, <3>3
  <2>3. /\ r \in Calls /\ r.ds \in [Kinds -> Contents] /\ r.at \in 0..Len(versions) /\ r.at \in Nat /\ Undisturbed(r, dir)
    BY Facts DEF ClientOK, CallOK, Calls
  <2>4. Plain(dir) /\ dir.files["commit.json"] = Absent /\ ReadDir(dir).ok
    BY <2>3 DEF Undisturbed
  <2>5. comps[k].problem = FALSE /\ comps[k].val = dir.files[FileOf(k)]
    BY <2>4, PlainReads
  <2>6. comps[k].val = here
    BY <2>4, Facts, ReadDirOK
  <2>7. k = "transform" => here = InFile(k, here)
    BY <2>5, <2>6, Facts, KindFiles DEF DirOK
  <2>8. Status(dir, r.at) = CalculateStateTransition(prev, comps)
    BY DEF Status
  <2>9. k = "commit" => here = Absent
    BY <2>4, <2>5, <2>6, KindFiles
  <2>10. prev = Holds(versions, r.at) /\ prev \in [Kinds -> Contents] /\ prev["commit"] = Absent
    BY <2>3, Facts, Converts, HoldsOK
  <2>11. /\ next \in [Kinds -> Contents] /\ LoadFile(k, next[k]) /\ next["commit"] = Absent
    BY <2>2, SavedOK
  <2>12. /\ k # "commit" /\ here \notin {Absent, Empty} =>
              next[k] = IF "Replace" \in r.sw THEN here ELSE Merged(k, prev[k], here)
         /\ "Replace" \in r.sw /\ k \notin {"commit", "structure", "body"} => next[k] = here
    <3>1. next = NextVersion(prev, r)
      BY DEF SavedDataset
    <3> HIDE DEF r, prev, next
    <3> QED BY <2>3, <2>10, <3>1, NextOf
  <2>13. v.ds = next /\ v.prev = r.at /\ v \in VersionType
    BY <2>3, <2>11 DEF VersionType
  <2>14. /\ versions'[n] = v /\ (r.at # 0 => versions'[r.at] = versions[r.at]) /\ n # 0
    <3> HIDE DEF v, r
    <3> QED BY <2>2, <2>3, <2>13, Facts DEF VersionsOK
  <2> DEFINE a == [l \in Kinds |-> [problem |-> FALSE, val |-> ConvertDatasetToComponents(head)'[l]]]
             q == ConvertDatasetToComponents(versions[head].prev)'
  <2>15. StatusAtVersion(head)' = CalculateStateTransition(q, a)
    BY DEF StatusAtVersion, CalculateStateTransition, Compare
  <2>16. q[k] = prev[k]
    <3>1. versions'[head'].prev = r.at
      BY <2>2, <2>13, <2>14
    <3>2. q = IF r.at = 0 THEN NoDataset ELSE [versions'[r.at].ds EXCEPT !["commit"] = Absent]
      BY <3>1 DEF ConvertDatasetToComponents
    <3>3. prev = IF r.at = 0 THEN NoDataset ELSE [versions[r.at].ds EXCEPT !["commit"] = Absent]
      BY DEF ConvertDatasetToComponents
    <3> QED BY <2>14, <3>2, <3>3
  <2>17. a[k].val = next[k] /\ a[k].problem = FALSE /\ ConvertDatasetToComponents(head)'[k] = next[k]
    <3>1. ConvertDatasetToComponents(head)' = [versions'[n].ds EXCEPT !["commit"] = Absent]
      BY <2>2, <2>14 DEF ConvertDatasetToComponents
    <3>2. ConvertDatasetToComponents(head)'[k] = next[k]
      <4> HIDE DEF next, v
      <4> QED BY <2>11, <2>13, <2>14, <3>1
    <3> QED BY <3>2
  <2>18. /\ here \in Contents /\ prev[k] \in Contents /\ Absent \notin Values /\ Empty \notin Values
    BY <2>3, <2>10, ValuesAssumption DEF Absent, Empty
  <2>19. here \in Values => FieldsOf[here] \subseteq FieldsOf[next[k]]
    <3> SUFFICES ASSUME here \in Values PROVE FieldsOf[here] \subseteq FieldsOf[next[k]]
      OBVIOUS
    <3> HIDE DEF here, next, prev, r
    <3>1. k # "commit" /\ here \notin {Absent, Empty}
      BY <2>9, <2>18
    <3>2. FieldsOf[here] \subseteq FieldsOf[Merged(k, prev[k], here)]
      BY <2>18, MergedOK
    <3> QED BY <2>12, <3>1, <3>2
  <2> DEFINE st == CalculateStateTransition(prev, comps)[k]
             st2 == CalculateStateTransition(q, a)[k]
  <2>20. ASSUME \/ st \in {"add", "modified"} /\ here # Empty /\ ("Replace" \in r.sw \/ SetsAnew(k, prev[k], here))
                \/ st = "removed" /\ "Replace" \in r.sw /\ k \notin {"structure", "body"}
         PROVE  st2 = st
    <3>1. \/ st \in {"add", "modified"} /\ here # Empty /\ ("Replace" \in r.sw \/ SetsAnew(k, prev[k], here))
          \/ st = "removed" /\ "Replace" \in r.sw /\ k \notin {"structure", "body"}
      BY <2>20
    <3> HIDE DEF here, next, prev, r, q, a, comps
    <3>2. /\ prev[k] = Absent /\ here = Absent => st = "none"
          /\ prev[k] = Absent /\ here # Absent => st = "add"
          /\ prev[k] # Absent /\ here = Absent => st = "removed"
          /\ prev[k] # Absent /\ here # Absent => st = Compare(k, prev[k], here)
      <4>1. comps[k].problem = FALSE
        BY <2>5
      <4>2. prev[k] = Absent /\ comps[k].val = Absent => st = "none"
        BY <4>1, StatusNone
      <4>3. prev[k] = Absent /\ comps[k].val # Absent => st = "add"
        BY <4>1, StatusAdd
      <4>4. prev[k] # Absent /\ comps[k].val = Absent => st = "removed"
        BY <4>1, StatusRemoved
      <4>5. prev[k] # Absent /\ comps[k].val # Absent => st = Compare(k, prev[k], comps[k].val)
        BY <4>1, StatusCompares
      <4> HIDE DEF st
      <4> QED BY <2>6, <4>2, <4>3, <4>4, <4>5
    <3>3. /\ prev[k] = Absent /\ next[k] # Absent => st2 = "add"
          /\ prev[k] # Absent /\ next[k] = Absent => st2 = "removed"
          /\ prev[k] # Absent /\ next[k] # Absent => st2 = Compare(k, prev[k], next[k])
      <4>1. a[k].problem = FALSE
        BY <2>17
      <4>2. q[k] = Absent /\ a[k].val # Absent => st2 = "add"
        BY <4>1, StatusAdd
      <4>3. q[k] # Absent /\ a[k].val = Absent => st2 = "removed"
        BY <4>1, StatusRemoved
      <4>4. q[k] # Absent /\ a[k].val # Absent => st2 = Compare(k, q[k], a[k].val)
        BY <4>1, StatusCompares
      <4> HIDE DEF st2
      <4> QED BY <2>16, <2>17, <4>2, <4>3, <4>4
    <3> HIDE DEF st, st2
    <3>4. Compare(k, prev[k], here) \notin {"none", "add", "removed"}
      BY DEF Compare
    <3>5. CASE st = "removed"
      <4>1. prev[k] # Absent /\ here = Absent
        BY <3>2, <3>4, <3>5
      <4>2. next[k] = Absent
        BY <2>10, <2>11, <2>12, <3>1, <3>5, <4>1
      <4> QED BY <3>3, <3>5, <4>1, <4>2 DEF st, st2
    <3>6. CASE st \in {"add", "modified"}
      <4>1. here # Absent /\ here # Empty /\ k # "commit" /\ ("Replace" \in r.sw \/ SetsAnew(k, prev[k], here))
        BY <2>9, <3>1, <3>2, <3>6
      <4>2. next[k] = IF "Replace" \in r.sw THEN here ELSE Merged(k, prev[k], here)
        BY <2>12, <4>1
      <4>3. Merged(k, prev[k], here) # Absent
        BY <2>18, <4>1, MergedOK
      <4>4. next[k] # Absent
        BY <4>1, <4>2, <4>3
      <4>5. CASE prev[k] = Absent
        BY <3>2, <3>3, <4>1, <4>4, <4>5 DEF st, st2
      <4>6. CASE prev[k] # Absent
        <5>1. LoadFile(k, here) /\ InFile(k, prev[k]) # InFile(k, here) /\ st = "modified"
          BY <3>2, <3>6, <4>1, <4>6 DEF Compare
        <5>2. InFile(k, prev[k]) # InFile(k, next[k])
          <6>1. CASE next[k] = here
            BY <5>1, <6>1
          <6>2. CASE next[k] # here
            <7>1. "Replace" \notin r.sw /\ SetSubcomponent(k).merged /\ prev[k] \in Values /\ here \in Values
              BY <4>2, <6>2 DEF Merged
            <7>2. next[k] = Merge[prev[k]][here]
              BY <4>2, <7>1 DEF Merged
            <7>3. ~(FieldsOf[here] \subseteq FieldsOf[prev[k]])
              BY <4>1, <7>1 DEF SetsAnew
            <7> QED BY <2>7, <7>1, <7>2, <7>3, SetAnew
          <6> QED BY <6>1, <6>2
        <5>3. Compare(k, prev[k], next[k]) = "modified"
          BY <2>11, <5>2 DEF Compare
        <5> QED BY <3>3, <4>4, <4>6, <5>1, <5>3 DEF st, st2
      <4> QED BY <4>5, <4>6
    <3> QED BY <3>1, <3>5, <3>6
  <2>21. Status(dir, me[c].at)[k] = st /\ StatusAtVersion(head)'[k] = st2
    BY <2>8, <2>15
  <2>22. ReadDir(dir).ds[k] = here
    OBVIOUS
  <2> QED BY <2>17, <2>19, <2>20, <2>21, <2>22
<1>2. Spec => [][P]_vars
  BY <1>1, Inductive, PTL DEF Spec
<1> QED BY <1>2 DEF SaveCommitsStatus

=============================================================================
