--------------------------- MODULE RequestsProofs ---------------------------
(***************************************************************************)
(* Proofs about components that answer a request: the cache of stats, for  *)
(* any number of requests, dataset paths and edits, and any room; the      *)
(* stores of profiles and keys, for any number of processes and threads;   *)
(* reading a history back, for a history of any length, any number of      *)
(* listings, any page of it and any two generations; and resolving a       *)
(* reference and waiting for a profile, for any peers and whatever         *)
(* connects and disconnects.                                               *)
(***************************************************************************)
EXTENDS StatsCache, Profiles, HistoryWalk, Instance, FiniteSetTheorems, NaturalsInduction, TLAPS

-----------------------------------------------------------------------------
(* The cache of stats. *)

\* A request for stats, by where it is.
Bodies == 1 .. MaxEdits + 1
Puts == {"props", "write", "fill", "add", "save"}
Stages == {"stat", "open", "decode", "compute", "answer"} \union Puts
Request == [at : Stages, key : Keys, from : Nat, noted : Nat, of : Nat]
StatsRequest == [at : {"idle"}] \union Request
InfoFile == [is : {"none", "info"}, of : [Keys -> Nat]]

StatsType ==
  /\ body \in [Keys -> Bodies] /\ files \in [Keys -> Nat] /\ info \in [Keys -> Nat]
  /\ infoFile \in InfoFile
  /\ stats \in [Readers -> StatsRequest] /\ crossed \in BOOLEAN

\* Stats x that are of no body before the n-th and of none after b.
Since(n, x, b) == x = Torn \/ (n <= x /\ x <= b)

\* A stats file that holds such, or is not there.
FileSince(n, x, b) == x = Absent \/ Since(n, x, b)

\* Properties that were noted are of a body there was, and the stats file is not
\* of one before it: for noted properties f, bodies b and files fs.
Noted(f, b, fs) == \A k \in Keys : f[k] <= b[k] /\ FileSince(f[k], fs[k], b[k])

\* A request that puts stats has those of the body there is, and what it has
\* written is still there, or gone; one that reads them reads none from before
\* it began.
Serves(s, b, fs) ==
  /\ s.at # "idle" => s.from >= 1 /\ s.from <= b[s.key]
  /\ s.at \in Puts => s.of = b[s.key]
  /\ s.at \in Puts \ {"props"} => s.noted = b[s.key]
  /\ s.at = "add" => FileSince(s.of, fs[s.key], b[s.key])
  /\ s.at = "stat" => s.noted >= 1 /\ s.noted <= b[s.key] /\ FileSince(s.noted, fs[s.key], b[s.key])
  /\ s.at \in {"open", "decode"} => FileSince(s.from, fs[s.key], b[s.key])
  /\ s.at = "decode" => Since(s.from, s.of, b[s.key])
  /\ s.at = "answer" => s.from <= s.of /\ s.of <= b[s.key]

StatsInv ==
  /\ StatsType
  /\ \A k \in Keys : k # Linked => body[k] = 1
  /\ crossed \/ /\ Noted(info, body, files) /\ Noted(infoFile.of, body, files)
                /\ \A r \in Readers : Serves(stats[r], body, files)

\* A request that is not under way.
LEMMA IdleServes ==
  /\ NoRequest \in StatsRequest /\ NoRequest.at = "idle"
  /\ \A b, fs : Serves(NoRequest, b, fs)
BY DEF NoRequest, StatsRequest, Serves, Puts

\* Nothing is noted of any body.
LEMMA NoneNoted ==
  ASSUME NEW b \in [Keys -> Nat]
  PROVE  NoInfo \in [Keys -> Nat] /\ Noted(NoInfo, b, NoInfo)
BY DEF NoInfo, Noted, Absent, FileSince

LEMMA StatsStarts == StatsInit => StatsInv
<1> SUFFICES ASSUME StatsInit PROVE StatsInv
  OBVIOUS
<1>1. body \in [Keys -> Bodies] /\ body \in [Keys -> Nat] /\ \A k \in Keys : body[k] = 1
  BY StatsAssumption DEF StatsInit, Bodies
<1>2. NoInfo \in [Keys -> Nat] /\ Noted(NoInfo, body, NoInfo)
  BY <1>1, NoneNoted
<1>3. infoFile \in InfoFile /\ infoFile.of = NoInfo
  BY <1>2 DEF StatsInit, InfoFile
<1>4. StatsType
  BY <1>1, <1>2, <1>3, IdleServes DEF StatsInit, StatsType
<1>5. \A r \in Readers : stats[r] = NoRequest
  BY DEF StatsInit
<1> QED BY <1>1, <1>2, <1>3, <1>4, <1>5, IdleServes DEF StatsInv, StatsInit

\* Numbers of bodies, and of what is none.
LEMMA BodyFacts ==
  ASSUME StatsType
  PROVE  /\ \A k \in Keys : body[k] \in Nat /\ body[k] >= 1 /\ body[k] < Torn /\ files[k] \in Nat
         /\ Torn \in Nat /\ Absent \in Nat /\ Absent = 0 /\ body \in [Keys -> Nat]
BY StatsAssumption DEF StatsType, Bodies, Torn, Absent

\* A file that is put, purged, begun or left is still of no body before the n-th.
LEMMA FileKept ==
  ASSUME NEW n \in Nat, NEW x, NEW b \in Nat, NEW y, NEW c \in Nat,
         n <= b, b <= c, FileSince(n, x, b), y \in {x, Absent, Torn, b}, x \in Nat
  PROVE  FileSince(n, y, c)
BY DEF FileSince, Since

\* That leaves a request as it was, if it puts nothing or the body is the same.
LEMMA OtherKept ==
  ASSUME NEW s \in StatsRequest, NEW b \in [Keys -> Nat], NEW fs \in [Keys -> Nat],
         NEW c \in [Keys -> Nat], NEW gs \in [Keys -> Nat], Serves(s, b, fs),
         \A k \in Keys : b[k] <= c[k] /\ gs[k] \in {fs[k], Absent, Torn, b[k]},
         s.at \in Puts => c[s.key] = b[s.key]
  PROVE  Serves(s, c, gs)
<1>1. CASE s.at = "idle"
  BY <1>1 DEF Puts, Serves
<1>2. CASE s.at # "idle"
  <2>1. s.key \in Keys /\ s.from \in Nat /\ s.noted \in Nat /\ s.of \in Nat
    BY <1>2 DEF StatsRequest, Request
  <2> DEFINE x == fs[s.key]
             y == gs[s.key]
             p == b[s.key]
             q == c[s.key]
  <2>2. x \in Nat /\ y \in Nat /\ p \in Nat /\ q \in Nat /\ p <= q /\ y \in {x, Absent, Torn, p}
    BY <2>1
  <2>3. ASSUME NEW n \in Nat, n <= p, FileSince(n, x, p) PROVE FileSince(n, y, q)
    <3> HIDE DEF x, y, p, q
    <3> QED BY <2>2, <2>3, FileKept
  <2>4. s.at = "add" => FileSince(s.of, y, q)
    <3>1. s.at = "add" => s.of = p /\ FileSince(s.of, x, p)
      BY DEF Serves, Puts
    <3> HIDE DEF x, y, p, q
    <3> QED BY <2>1, <2>2, <2>3, <3>1
  <2>5. s.at = "stat" => FileSince(s.noted, y, q)
    <3>1. s.at = "stat" => s.noted <= p /\ FileSince(s.noted, x, p)
      BY DEF Serves
    <3> HIDE DEF x, y, p, q
    <3> QED BY <2>1, <2>3, <3>1
  <2>6. s.at \in {"open", "decode"} => FileSince(s.from, y, q)
    <3>1. s.at \in {"open", "decode"} => s.from <= p /\ FileSince(s.from, x, p)
      BY DEF Serves
    <3> HIDE DEF x, y, p, q
    <3> QED BY <2>1, <2>3, <3>1
  <2>7. s.at = "decode" => Since(s.from, s.of, q)
    BY <2>1, <2>2 DEF Serves, Since
  <2>8. s.at \in Puts => q = p
    OBVIOUS
  <2> QED BY <1>2, <2>1, <2>2, <2>4, <2>5, <2>6, <2>7, <2>8 DEF Serves
<1> QED BY <1>1, <1>2

\* It leaves what was noted as it was.
LEMMA NotedKept ==
  ASSUME NEW f \in [Keys -> Nat], NEW b \in [Keys -> Nat], NEW fs \in [Keys -> Nat],
         NEW c \in [Keys -> Nat], NEW gs \in [Keys -> Nat], Noted(f, b, fs),
         \A k \in Keys : b[k] <= c[k] /\ gs[k] \in {fs[k], Absent, Torn, b[k]}
  PROVE  Noted(f, c, gs)
<1> SUFFICES ASSUME NEW k \in Keys PROVE f[k] <= c[k] /\ FileSince(f[k], gs[k], c[k])
  BY DEF Noted
<1> DEFINE n == f[k]
           x == fs[k]
           y == gs[k]
           p == b[k]
           q == c[k]
<1>1. n \in Nat /\ x \in Nat /\ p \in Nat /\ q \in Nat /\ p <= q /\ y \in {x, Absent, Torn, p}
      /\ n <= p /\ FileSince(n, x, p)
  BY DEF Noted
<1> HIDE DEF n, x, y, p, q
<1>2. n <= q /\ FileSince(n, y, q)
  BY <1>1, FileKept
<1> QED BY <1>2 DEF n, y, q

\* A step of one request.
LEMMA StatsStep ==
  ASSUME StatsInv, NEW r \in Readers, NEW s \in StatsRequest,
         stats' = [stats EXCEPT ![r] = s], UNCHANGED <<body, crossed>>,
         files' \in [Keys -> Nat], info' \in [Keys -> Nat], infoFile' \in InfoFile,
         ~crossed => /\ \A k \in Keys : files'[k] \in {files[k], Absent, Torn, body[k]}
                     /\ \A k \in Keys : info'[k] = info[k] \/ info'[k] = Absent
                                        \/ (info'[k] = body[k] /\ FileSince(body[k], files'[k], body[k]))
                     /\ infoFile'.of \in {infoFile.of, info}
                     /\ Serves(s, body, files')
  PROVE  StatsInv'
<1>1. StatsType'
  BY DEF StatsInv, StatsType
<1>2. \A k \in Keys : k # Linked => body'[k] = 1
  BY DEF StatsInv
<1>3. CASE crossed
  BY <1>1, <1>2, <1>3 DEF StatsInv
<1>4. CASE ~crossed
  <2>1. /\ Noted(info, body, files) /\ Noted(infoFile.of, body, files)
        /\ \A q \in Readers : Serves(stats[q], body, files)
    BY <1>4 DEF StatsInv
  <2>2. StatsType
    BY DEF StatsInv
  <2>3. /\ \A k \in Keys : body[k] \in Nat /\ body[k] >= 1 /\ body[k] <= body[k]
        /\ Absent = 0 /\ body \in [Keys -> Nat] /\ files \in [Keys -> Nat]
        /\ info \in [Keys -> Nat] /\ infoFile.of \in [Keys -> Nat]
    BY <2>2, BodyFacts DEF StatsType, InfoFile
  <2>4. Noted(info, body, files') /\ Noted(infoFile.of, body, files')
    BY <1>4, <2>1, <2>3, NotedKept
  <2>5. Noted(info', body', files')
    <3> SUFFICES ASSUME NEW k \in Keys PROVE info'[k] <= body[k] /\ FileSince(info'[k], files'[k], body[k])
      BY DEF Noted
    <3>1. info[k] <= body[k] /\ FileSince(info[k], files'[k], body[k]) /\ info[k] \in Nat /\ files'[k] \in Nat
      BY <2>3, <2>4 DEF Noted
    <3>2. FileSince(0, files'[k], body[k])
      BY <2>3, <3>1 DEF FileSince, Since
    <3>3. info'[k] = info[k] \/ info'[k] = 0 \/ (info'[k] = body[k] /\ FileSince(body[k], files'[k], body[k]))
      BY <1>4, <2>3
    <3> QED BY <2>3, <3>1, <3>2, <3>3
  <2>6. Noted(infoFile'.of, body', files')
    BY <1>4, <2>4
  <2>7. \A q \in Readers \ {r} : Serves(stats'[q], body', files')
    <3> SUFFICES ASSUME NEW q \in Readers \ {r} PROVE Serves(stats'[q], body', files')
      OBVIOUS
    <3> DEFINE t == stats[q]
    <3>1. stats'[q] = t /\ Serves(t, body, files) /\ t \in StatsRequest
      BY <2>1, <2>2 DEF StatsType
    <3> HIDE DEF t
    <3>2. Serves(t, body, files')
      BY <1>4, <2>3, <3>1, OtherKept
    <3> QED BY <3>1, <3>2
  <2>8. stats'[r] = s
    BY <2>2 DEF StatsType
  <2> QED BY <1>1, <1>2, <1>4, <2>5, <2>6, <2>7, <2>8 DEF StatsInv
<1> QED BY <1>3, <1>4

\* A step of one request that leaves the cache as it is.
LEMMA ReadStepKeeps ==
  ASSUME StatsInv, NEW r \in Readers, NEW s \in StatsRequest,
         stats' = [stats EXCEPT ![r] = s], UNCHANGED <<body, files, info, infoFile, crossed>>,
         ~crossed => Serves(s, body, files)
  PROVE  StatsInv'
<1>1. files \in [Keys -> Nat] /\ info \in [Keys -> Nat] /\ infoFile \in InfoFile
  BY DEF StatsInv, StatsType
<1> QED BY <1>1, StatsStep

\* The requests.
LEMMA RequestKeeps ==
  ASSUME StatsInv, NEW r \in Readers,
         \/ \E k \in Keys : GetStats(r, k)
         \/ StatTarget(r) \/ OpenStats(r) \/ DecodeStats(r)
         \/ Compute(r) \/ PutProps(r) \/ PutOpens(r) \/ PutFills(r)
         \/ addAndPurgeExpired(r) \/ writeCacheInfo(r) \/ Answered(r)
  PROVE  StatsInv'
<1> DEFINE s == stats[r]
           q == s.key
<1>1. /\ s \in StatsRequest /\ body \in [Keys -> Bodies] /\ files \in [Keys -> Nat] /\ info \in [Keys -> Nat]
      /\ infoFile \in InfoFile /\ StatsType
  BY DEF StatsInv, StatsType
<1>3. \A k \in Keys : body[k] \in Nat /\ body[k] >= 1 /\ body[k] # Absent /\ body[k] # Torn /\ files[k] \in Nat
  BY <1>1, BodyFacts
<1>4. Absent \in Nat /\ Torn \in Nat /\ Absent = 0
  BY <1>1, BodyFacts
<1>5. ~crossed => Serves(s, body, files) /\ Noted(info, body, files) /\ Noted(infoFile.of, body, files)
  BY DEF StatsInv
<1>6. \A k \in Keys : k # Linked => body[k] = 1
  BY DEF StatsInv
<1>0. ASSUME s.at # "idle"
      PROVE  s \in Request /\ q \in Keys /\ s.from \in Nat /\ s.noted \in Nat /\ s.of \in Nat /\ s.at \in Stages
  BY <1>0, <1>1 DEF StatsRequest, Request
<1>20. ASSUME s.at # "idle", NEW a \in Stages, NEW n \in Nat, NEW o \in Nat,
              NEW x, x = [s EXCEPT !.at = a, !.noted = n, !.of = o]
       PROVE  x \in StatsRequest /\ x.at = a /\ x.key = q /\ x.from = s.from /\ x.noted = n /\ x.of = o
  BY <1>0, <1>20 DEF StatsRequest, Request
<1>21. ASSUME s.at # "idle", NEW a \in Stages, NEW x, x = [s EXCEPT !.at = a]
       PROVE  x \in StatsRequest /\ x.at = a /\ x.key = q /\ x.from = s.from /\ x.noted = s.noted /\ x.of = s.of
  BY <1>0, <1>21 DEF StatsRequest, Request
<1>22. ASSUME s.at # "idle", NEW a \in Stages, NEW o \in Nat, NEW x, x = [s EXCEPT !.at = a, !.of = o]
       PROVE  x \in StatsRequest /\ x.at = a /\ x.key = q /\ x.from = s.from /\ x.noted = s.noted /\ x.of = o
  BY <1>0, <1>22 DEF StatsRequest, Request
<1>7. CASE \E k \in Keys : GetStats(r, k)
  <2>1. PICK k \in Keys : GetStats(r, k)
    BY <1>7
  <2> DEFINE a == IF info[k] = Absent THEN "compute" ELSE "stat"
             x == [at |-> a, key |-> k, from |-> body[k], noted |-> info[k], of |-> Absent]
  <2>2. stats' = [stats EXCEPT ![r] = x] /\ UNCHANGED <<body, files, info, infoFile, root, crossed>>
    BY <2>1 DEF GetStats, At
  <2>3. a \in {"compute", "stat"} /\ a \in Stages /\ a \notin Puts
    BY DEF Stages, Puts
  <2>4. info[k] \in Nat /\ body[k] \in Nat /\ (a = "stat" => info[k] >= 1)
    BY <1>1, <1>3, <1>4
  <2>5. x \in Request
    BY <1>4, <2>3, <2>4 DEF Request
  <2>6. x.at = a /\ x.key = k /\ x.from = body[k] /\ x.noted = info[k]
    OBVIOUS
  <2> HIDE DEF x, a
  <2>7. ~crossed => Serves(x, body, files)
    BY <1>3, <1>5, <2>3, <2>4, <2>6 DEF Serves, Noted
  <2> QED BY <2>2, <2>5, <2>7, ReadStepKeeps DEF StatsRequest
<1>30. CASE StatTarget(r)
  <2> DEFINE a == IF s.key = Linked /\ s.noted # body[s.key] THEN "compute" ELSE "open"
             x == [s EXCEPT !.at = a]
  <2>1. s.at = "stat" /\ stats' = [stats EXCEPT ![r] = x]
        /\ UNCHANGED <<body, files, info, infoFile, root, crossed>>
    BY <1>30 DEF StatTarget, At
  <2>2. a \in {"compute", "open"} /\ a \in Stages /\ a \notin Puts
    BY DEF Stages, Puts
  <2>3. x \in StatsRequest /\ x.at = a /\ x.key = q /\ x.from = s.from
    BY <1>21, <2>1, <2>2
  <2>4. q \in Keys /\ s.from \in Nat /\ s.noted \in Nat /\ body[q] \in Nat
    BY <1>0, <1>3, <2>1
  <2>5. a = "open" => (q = Linked => s.noted = body[q])
    OBVIOUS
  <2> HIDE DEF x, a
  <2>6. ~crossed => /\ s.from >= 1 /\ s.from <= body[q]
                    /\ s.noted >= 1 /\ s.noted <= body[q] /\ FileSince(s.noted, files[q], body[q])
    BY <1>5, <2>1 DEF Serves
  <2>7. ~crossed /\ a = "open" => s.noted = body[q]
    BY <1>6, <2>4, <2>5, <2>6
  <2>8. ~crossed /\ a = "open" => FileSince(s.from, files[q], body[q])
    <3> DEFINE f == files[q]
               b == body[q]
    <3>1. f \in Nat
      BY <1>3, <2>4
    <3> HIDE DEF f, b
    <3> QED BY <2>4, <2>6, <2>7, <3>1 DEF FileSince, Since, f, b
  <2>9. ~crossed => Serves(x, body, files)
    BY <2>2, <2>3, <2>6, <2>8 DEF Serves
  <2> QED BY <2>1, <2>3, <2>9, ReadStepKeeps
<1>31. CASE OpenStats(r)
  <2> DEFINE y == [s EXCEPT !.at = "compute"]
             z == [s EXCEPT !.at = "decode", !.of = files[s.key]]
             x == IF files[s.key] = Absent THEN y ELSE z
  <2>1. s.at = "open" /\ stats' = [stats EXCEPT ![r] = x]
        /\ UNCHANGED <<body, files, info, infoFile, root, crossed>>
    BY <1>31 DEF OpenStats, At
  <2>2. s \in Request /\ q \in Keys /\ files[q] \in Nat
    BY <1>0, <1>3, <2>1
  <2>3. {"compute", "decode"} \subseteq Stages /\ "compute" \notin Puts /\ "decode" \notin Puts
    BY DEF Stages, Puts
  <2>4. y \in StatsRequest /\ y.at = "compute" /\ y.key = q /\ y.from = s.from
    BY <1>21, <2>1, <2>3
  <2>5. z \in StatsRequest /\ z.at = "decode" /\ z.key = q /\ z.from = s.from /\ z.of = files[q]
    BY <2>2, <2>3 DEF StatsRequest, Request
  <2>6. ~crossed => s.from >= 1 /\ s.from <= body[q] /\ FileSince(s.from, files[q], body[q])
    BY <1>5, <2>1 DEF Serves
  <2> HIDE DEF y, z
  <2>7. x \in StatsRequest
    BY <2>4, <2>5
  <2>8. ~crossed => Serves(y, body, files)
    BY <2>3, <2>4, <2>6 DEF Serves
  <2>9. ~crossed /\ files[q] # Absent => Serves(z, body, files)
    BY <2>3, <2>5, <2>6 DEF Serves, FileSince
  <2>10. ~crossed => Serves(x, body, files)
    BY <2>8, <2>9
  <2> HIDE DEF x
  <2> QED BY <2>1, <2>7, <2>10, ReadStepKeeps
<1>32. CASE DecodeStats(r)
  <2>1. s.at = "decode" /\ UNCHANGED <<body, files, info, infoFile, root, crossed>>
    <3> HIDE DEF s
    <3> QED BY <1>32, Zenon DEF DecodeStats, s
  <2>2. PICK got \in {s.of, files[q]} \ {Absent} :
          stats' = [stats EXCEPT ![r] = IF got = Torn THEN [s EXCEPT !.at = "compute"]
                                        ELSE [s EXCEPT !.at = "answer", !.of = got]]
    BY <1>32 DEF DecodeStats, At
  <2> DEFINE y == [s EXCEPT !.at = "compute"]
             z == [s EXCEPT !.at = "answer", !.of = got]
             x == IF got = Torn THEN y ELSE z
  <2>3. s \in Request /\ q \in Keys /\ files[q] \in Nat /\ got \in Nat
    BY <1>0, <1>3, <2>1, <2>2
  <2>4. {"compute", "answer"} \subseteq Stages /\ "compute" \notin Puts /\ "answer" \notin Puts
    BY DEF Stages, Puts
  <2>5. y \in StatsRequest /\ y.at = "compute" /\ y.key = q /\ y.from = s.from
    BY <1>21, <2>1, <2>4
  <2>6. z \in StatsRequest /\ z.at = "answer" /\ z.key = q /\ z.from = s.from /\ z.of = got
    BY <2>3, <2>4 DEF StatsRequest, Request
  <2>7. ~crossed => /\ s.from >= 1 /\ s.from <= body[q] /\ FileSince(s.from, files[q], body[q])
                    /\ Since(s.from, s.of, body[q])
    BY <1>5, <2>1 DEF Serves
  <2>8. ~crossed /\ got # Torn => s.from <= got /\ got <= body[q]
    BY <2>2, <2>7 DEF FileSince, Since
  <2>9. stats' = [stats EXCEPT ![r] = x]
    BY <2>2
  <2> HIDE DEF y, z
  <2>10. x \in StatsRequest
    BY <2>5, <2>6
  <2>11. ~crossed => Serves(y, body, files)
    BY <2>4, <2>5, <2>7 DEF Serves
  <2>12. ~crossed /\ got # Torn => Serves(z, body, files)
    BY <2>4, <2>6, <2>7, <2>8 DEF Serves
  <2>13. ~crossed => Serves(x, body, files)
    BY <2>11, <2>12
  <2> HIDE DEF x
  <2> QED BY <2>1, <2>9, <2>10, <2>13, ReadStepKeeps
<1>8. CASE Compute(r) /\ stats' = [stats EXCEPT ![r] = NoRequest]
  BY <1>8, IdleServes, ReadStepKeeps DEF Compute
<1>9. CASE Compute(r) /\ stats' # [stats EXCEPT ![r] = NoRequest]
  <2> DEFINE x == [s EXCEPT !.at = "props", !.of = body[s.key]]
  <2>1. s.at = "compute" /\ stats' = [stats EXCEPT ![r] = x]
        /\ UNCHANGED <<body, files, info, infoFile, root, crossed>>
    BY <1>9 DEF Compute, At
  <2>2. s \in Request /\ q \in Keys /\ body[q] \in Nat
    BY <1>0, <1>3, <2>1
  <2>3. "props" \in Stages
    BY DEF Stages, Puts
  <2>4. x \in StatsRequest /\ x.at = "props" /\ x.key = q /\ x.from = s.from /\ x.of = body[q]
    BY <2>2, <2>3 DEF StatsRequest, Request
  <2> HIDE DEF x
  <2>5. ~crossed => Serves(x, body, files)
    BY <1>5, <2>1, <2>4 DEF Serves
  <2> QED BY <2>1, <2>4, <2>5, ReadStepKeeps
<1>10. CASE PutProps(r)
  <2> DEFINE x == [s EXCEPT !.at = "write", !.noted = body[s.key]]
  <2>1. s.at = "props" /\ stats' = [stats EXCEPT ![r] = x]
        /\ UNCHANGED <<body, files, info, infoFile, root, crossed>>
    BY <1>10 DEF PutProps, At
  <2>2. q \in Keys /\ body[q] \in Nat /\ s \in Request
    BY <1>0, <1>3, <2>1
  <2>3. "write" \in Stages /\ "write" \in Puts /\ "props" \in Puts
    BY DEF Stages, Puts
  <2>4. x \in StatsRequest /\ x.at = "write" /\ x.key = q /\ x.from = s.from /\ x.of = s.of /\ x.noted = body[q]
    BY <2>2, <2>3 DEF StatsRequest, Request
  <2> HIDE DEF x
  <2>5. ~crossed => Serves(x, body, files)
    BY <1>5, <2>1, <2>3, <2>4 DEF Serves
  <2> QED BY <2>1, <2>4, <2>5, ReadStepKeeps
<1>11. CASE PutOpens(r) /\ root
  <2> DEFINE x == [s EXCEPT !.at = "fill"]
  <2>1. s.at = "write" /\ stats' = [stats EXCEPT ![r] = x] /\ files' = [files EXCEPT ![s.key] = Torn]
        /\ UNCHANGED <<body, info, infoFile, root, crossed>>
    BY <1>11 DEF PutOpens, At
  <2>2. "fill" \in Stages /\ "fill" \in Puts /\ "write" \in Puts
    BY DEF Stages, Puts
  <2>3. x \in StatsRequest /\ x.at = "fill" /\ x.of = s.of /\ x.key = q /\ x.noted = s.noted /\ x.from = s.from
    BY <1>21, <2>1, <2>2
  <2>4. files' \in [Keys -> Nat] /\ \A k \in Keys : files'[k] \in {files[k], Torn}
    BY <1>1, <1>4, <2>1
  <2> HIDE DEF x
  <2>5. ~crossed => Serves(x, body, files')
    BY <1>5, <2>1, <2>2, <2>3 DEF Serves
  <2> QED BY <1>1, <2>1, <2>3, <2>4, <2>5, StatsStep
<1>12. CASE PutOpens(r) /\ ~root
  <2> DEFINE x == [s EXCEPT !.at = "answer"]
  <2>1. s.at = "write" /\ stats' = [stats EXCEPT ![r] = x]
        /\ UNCHANGED <<body, files, info, infoFile, root, crossed>>
    BY <1>12 DEF PutOpens, At
  <2>2. "answer" \in Stages /\ "answer" \notin Puts /\ "write" \in Puts
    BY DEF Stages, Puts
  <2>3. x \in StatsRequest /\ x.at = "answer" /\ x.of = s.of /\ x.key = q /\ x.from = s.from
    BY <1>21, <2>1, <2>2
  <2>4. q \in Keys /\ body[q] \in Nat
    BY <1>0, <1>3, <2>1
  <2> HIDE DEF x
  <2>5. ~crossed => Serves(x, body, files)
    BY <1>5, <2>1, <2>2, <2>3, <2>4 DEF Serves
  <2> QED BY <2>1, <2>3, <2>5, ReadStepKeeps
<1>13. CASE PutFills(r)
  <2> DEFINE x == [s EXCEPT !.at = "add"]
  <2>1. s.at = "fill" /\ stats' = [stats EXCEPT ![r] = x] /\ files' = [files EXCEPT ![s.key] = s.of]
        /\ UNCHANGED <<body, info, infoFile, root, crossed>>
    BY <1>13 DEF PutFills, At
  <2>2. "add" \in Stages /\ "add" \in Puts /\ "fill" \in Puts
    BY DEF Stages, Puts
  <2>3. x \in StatsRequest /\ x.at = "add" /\ x.of = s.of /\ x.key = q /\ x.noted = s.noted /\ x.from = s.from
    BY <1>21, <2>1, <2>2
  <2>4. q \in Keys /\ s.of \in Nat
    BY <1>0, <2>1
  <2>5. files' \in [Keys -> Nat] /\ files'[q] = s.of /\ \A k \in Keys \ {q} : files'[k] = files[k]
    BY <1>1, <2>1, <2>4
  <2>6. ~crossed => s.of = body[q] /\ s.noted = body[q] /\ s.from >= 1 /\ s.from <= body[q]
    BY <1>5, <2>1, <2>2 DEF Serves
  <2>7. ~crossed => FileSince(s.of, files'[q], body[q])
    BY <2>4, <2>5, <2>6 DEF FileSince, Since
  <2> HIDE DEF x
  <2>8. ~crossed => Serves(x, body, files')
    BY <2>2, <2>3, <2>6, <2>7 DEF Serves
  <2>9. ~crossed => \A k \in Keys : files'[k] \in {files[k], Absent, Torn, body[k]}
    BY <2>5, <2>6
  <2> QED BY <1>1, <2>1, <2>3, <2>5, <2>8, <2>9, StatsStep
<1>14. CASE addAndPurgeExpired(r)
  <2> DEFINE x == [s EXCEPT !.at = "save"]
  <2>1. s.at = "add" /\ stats' = [stats EXCEPT ![r] = x] /\ UNCHANGED <<body, infoFile, root, crossed>>
    BY <1>14 DEF addAndPurgeExpired, At
  <2>2. "save" \in Stages /\ "save" \in Puts /\ "add" \in Puts
    BY DEF Stages, Puts
  <2>3. x \in StatsRequest /\ x.at = "save" /\ x.of = s.of /\ x.key = q /\ x.noted = s.noted /\ x.from = s.from
    BY <1>21, <2>1, <2>2
  <2>6. q \in Keys /\ s.noted \in Nat /\ s.of \in Nat
    BY <1>0, <2>1
  <2>4. /\ files' \in [Keys -> Nat] /\ \A k \in Keys : files'[k] \in {files[k], Absent}
        /\ info' \in [Keys -> Nat]
        /\ \A k \in Keys : info'[k] \in {info[k], Absent} \/ (k = q /\ info'[k] = s.noted)
    <3> DEFINE added == [info EXCEPT ![s.key] = s.noted]
    <3>1. added \in [Keys -> Nat] /\ \A k \in Keys : added[k] = info[k] \/ (k = q /\ added[k] = s.noted)
      BY <1>1, <2>6
    <3>2. \/ info' = added /\ UNCHANGED files
          \/ \E out \in SUBSET Keys : /\ files' = [k \in Keys |-> IF k \in out THEN Absent ELSE files[k]]
                                      /\ info' = [k \in Keys |-> IF k \in out THEN Absent ELSE added[k]]
      BY <1>14 DEF addAndPurgeExpired
    <3> HIDE DEF added
    <3>3. CASE info' = added /\ UNCHANGED files
      BY <1>1, <3>1, <3>3
    <3>4. ASSUME NEW out \in SUBSET Keys,
                 files' = [k \in Keys |-> IF k \in out THEN Absent ELSE files[k]],
                 info' = [k \in Keys |-> IF k \in out THEN Absent ELSE added[k]]
          PROVE  /\ files' \in [Keys -> Nat] /\ \A k \in Keys : files'[k] \in {files[k], Absent}
                 /\ info' \in [Keys -> Nat]
                 /\ \A k \in Keys : info'[k] \in {info[k], Absent} \/ (k = q /\ info'[k] = s.noted)
      BY <1>1, <1>4, <3>1, <3>4
    <3> QED BY <3>2, <3>3, <3>4
  <2>5. ~crossed => /\ s.of = body[q] /\ s.noted = body[q] /\ s.from >= 1 /\ s.from <= body[q]
                    /\ FileSince(s.of, files[q], body[q])
    BY <1>5, <2>1, <2>2 DEF Serves
  <2> HIDE DEF x
  <2>7. ~crossed => Serves(x, body, files')
    BY <2>2, <2>3, <2>5 DEF Serves
  <2>8. ~crossed => FileSince(body[q], files'[q], body[q])
    <3>1. files'[q] \in {files[q], Absent}
      BY <2>4, <2>6
    <3> QED BY <2>5, <3>1 DEF FileSince, Since
  <2>9. ~crossed => \A k \in Keys : info'[k] = info[k] \/ info'[k] = Absent
                                   \/ (info'[k] = body[k] /\ FileSince(body[k], files'[k], body[k]))
    <3> DEFINE nf == files'
               ni == info'
    <3>1. ~crossed => FileSince(body[q], nf[q], body[q])
      BY <2>8
    <3>2. \A k \in Keys : ni[k] \in {info[k], Absent} \/ (k = q /\ ni[k] = s.noted)
      BY <2>4
    <3> HIDE DEF nf, ni
    <3>3. ~crossed => \A k \in Keys : ni[k] = info[k] \/ ni[k] = Absent
                                   \/ (ni[k] = body[k] /\ FileSince(body[k], nf[k], body[k]))
      BY <2>5, <3>1, <3>2
    <3> QED BY <3>3 DEF nf, ni
  <2> QED BY <1>1, <2>1, <2>3, <2>4, <2>7, <2>9, StatsStep
<1>15. CASE writeCacheInfo(r)
  <2> DEFINE x == [s EXCEPT !.at = "answer"]
  <2>1. s.at = "save" /\ stats' = [stats EXCEPT ![r] = x]
        /\ UNCHANGED <<body, files, info, root, crossed>>
    BY <1>15 DEF writeCacheInfo, At
  <2>2. "answer" \in Stages /\ "answer" \notin Puts /\ "save" \in Puts
    BY DEF Stages, Puts
  <2>3. x \in StatsRequest /\ x.at = "answer" /\ x.of = s.of /\ x.key = q /\ x.from = s.from
    BY <1>21, <2>1, <2>2
  <2>4. infoFile' \in InfoFile /\ infoFile'.of \in {infoFile.of, info}
    BY <1>1, <1>15 DEF writeCacheInfo, InfoFile
  <2>5. q \in Keys /\ body[q] \in Nat
    BY <1>0, <1>3, <2>1
  <2> HIDE DEF x
  <2>6. ~crossed => Serves(x, body, files')
    BY <1>5, <2>1, <2>2, <2>3, <2>5 DEF Serves
  <2> QED BY <1>1, <2>1, <2>3, <2>4, <2>6, StatsStep
<1>16. CASE Answered(r)
  BY <1>16, IdleServes, ReadStepKeeps DEF Answered, At
<1> QED BY <1>7, <1>8, <1>9, <1>10, <1>11, <1>12, <1>13, <1>14, <1>15, <1>16, <1>30, <1>31, <1>32

\* An edit of the body makes what was noted of it old.
LEMMA EditKeeps ==
  ASSUME StatsInv, EditBody
  PROVE  StatsInv'
<1>1. /\ body' = [body EXCEPT ![Linked] = @ + 1] /\ UNCHANGED <<files, info, infoFile, root, stats>>
      /\ body[Linked] <= MaxEdits
  BY DEF EditBody
<1>2. /\ body \in [Keys -> Bodies] /\ info \in [Keys -> Nat] /\ infoFile.of \in [Keys -> Nat]
      /\ files \in [Keys -> Nat] /\ \A r \in Readers : stats[r] \in StatsRequest
  BY DEF StatsInv, StatsType, InfoFile
<1>3. /\ body' \in [Keys -> Bodies] /\ body'[Linked] = body[Linked] + 1
      /\ \A k \in Keys : k # Linked => body'[k] = body[k]
  BY <1>1, <1>2, StatsAssumption DEF Bodies
<1>4. crossed' \in BOOLEAN /\ (crossed => crossed')
  BY Zenon DEF StatsInv, StatsType, EditBody
<1>5. StatsType'
  BY <1>1, <1>3, <1>4 DEF StatsInv, StatsType
<1>6. \A k \in Keys : k # Linked => body'[k] = 1
  BY <1>3 DEF StatsInv
<1>7. ASSUME ~crossed'
      PROVE  /\ Noted(info, body', files) /\ Noted(infoFile.of, body', files)
             /\ \A r \in Readers : Serves(stats[r], body', files)
  <2>1. /\ Noted(info, body, files) /\ Noted(infoFile.of, body, files)
        /\ \A r \in Readers : Serves(stats[r], body, files)
        /\ \A r \in Readers : ~(stats[r].at \in Puts /\ stats[r].key = Linked)
    BY <1>7 DEF StatsInv, EditBody, Puts
  <2>2. /\ body \in [Keys -> Nat] /\ body' \in [Keys -> Nat]
        /\ \A k \in Keys : body[k] <= body'[k] /\ files[k] \in {files[k], Absent, Torn, body[k]}
    BY <1>2, <1>3, StatsAssumption DEF Bodies
  <2> DEFINE c == body'
  <2>3. c \in [Keys -> Nat] /\ \A k \in Keys : body[k] <= c[k] /\ files[k] \in {files[k], Absent, Torn, body[k]}
    BY <2>2
  <2>4. \A r \in Readers : stats[r].at \in Puts => c[stats[r].key] = body[stats[r].key]
    <3> SUFFICES ASSUME NEW r \in Readers, stats[r].at \in Puts PROVE c[stats[r].key] = body[stats[r].key]
      OBVIOUS
    <3>1. stats[r].key \in Keys /\ stats[r].key # Linked
      BY <1>2, <2>1 DEF StatsRequest, Request, Puts
    <3> QED BY <1>3, <3>1
  <2> HIDE DEF c
  <2>5. Noted(info, c, files) /\ Noted(infoFile.of, c, files)
    BY <1>2, <2>1, <2>2, <2>3, NotedKept
  <2>6. \A r \in Readers : Serves(stats[r], c, files)
    BY <1>2, <2>1, <2>2, <2>3, <2>4, OtherKept
  <2> QED BY <2>5, <2>6 DEF c
<1> QED BY <1>1, <1>5, <1>6, <1>7 DEF StatsInv

\* A new process starts from what is on disk.
LEMMA RestartKeeps ==
  ASSUME StatsInv, NEW torn \in BOOLEAN, NewLocalCache(torn)
  PROVE  StatsInv'
<1>1. UNCHANGED <<body, crossed>> /\ stats' = [r \in Readers |-> NoRequest]
  BY DEF NewLocalCache
<1>2. body \in [Keys -> Nat] /\ body \in [Keys -> Bodies] /\ files \in [Keys -> Nat] /\ infoFile \in InfoFile
      /\ crossed \in BOOLEAN /\ infoFile.of \in [Keys -> Nat]
  BY BodyFacts DEF StatsInv, StatsType, InfoFile
<1>3. NoInfo \in [Keys -> Nat] /\ Noted(NoInfo, body, NoInfo)
  BY <1>2, NoneNoted
<1>4. \A r \in Readers : stats'[r] = NoRequest
  BY <1>1
<1>5. CASE torn
  <2>1. files' = NoInfo /\ info' = NoInfo /\ infoFile' = [is |-> "none", of |-> NoInfo]
    BY <1>5 DEF NewLocalCache
  <2>2. infoFile' \in InfoFile /\ infoFile'.of = NoInfo
    BY <1>3, <2>1 DEF InfoFile
  <2>3. StatsType'
    BY <1>1, <1>2, <1>3, <2>1, <2>2, IdleServes DEF StatsType
  <2> QED BY <1>1, <1>3, <1>4, <2>1, <2>2, <2>3, IdleServes DEF StatsInv
<1>6. CASE ~torn
  <2>1. info' = infoFile.of /\ UNCHANGED <<files, infoFile>>
    BY <1>6 DEF NewLocalCache
  <2>2. StatsType'
    BY <1>1, <1>2, <2>1, IdleServes DEF StatsType
  <2>3. crossed \/ Noted(infoFile.of, body, files)
    BY DEF StatsInv
  <2> QED BY <1>1, <1>4, <2>1, <2>2, <2>3, IdleServes DEF StatsInv
<1> QED BY <1>5, <1>6

\* Stats are those of a body there was while the request was under way, whatever
\* requests run at once and come between its look into the map, its check and its
\* reading, whatever was purged, and however processes ended (localCache).
THEOREM StatsAreOfBody == StatsSpec => []StatsOfBody
<1>1. StatsInv /\ [StatsNext]_statsVars => StatsInv'
  <2> SUFFICES ASSUME StatsInv, [StatsNext]_statsVars PROVE StatsInv'
    OBVIOUS
  <2>1. CASE EditBody
    BY <2>1, EditKeeps
  <2>2. CASE \E torn \in BOOLEAN : NewLocalCache(torn)
    BY <2>2, RestartKeeps
  <2>3. ASSUME NEW r \in Readers,
               \/ \E k \in Keys : GetStats(r, k)
               \/ StatTarget(r) \/ OpenStats(r) \/ DecodeStats(r)
               \/ Compute(r) \/ PutProps(r) \/ PutOpens(r) \/ PutFills(r)
               \/ addAndPurgeExpired(r) \/ writeCacheInfo(r) \/ Answered(r)
        PROVE  StatsInv'
    BY <2>3, RequestKeeps
  <2>4. CASE UNCHANGED statsVars
    BY <2>4 DEF statsVars, StatsInv, StatsType
  <2> QED BY <2>1, <2>2, <2>3, <2>4 DEF StatsNext
<1>2. StatsInv => StatsOfBody
  <2> SUFFICES ASSUME StatsInv, ~crossed, NEW r \in Readers, stats[r].at = "answer"
               PROVE  stats[r].of \in stats[r].from .. body[stats[r].key]
    BY DEF StatsOfBody
  <2>1. stats[r] \in StatsRequest /\ Serves(stats[r], body, files) /\ StatsType
    BY DEF StatsInv, StatsType
  <2>2. stats[r].key \in Keys /\ stats[r].from \in Nat /\ stats[r].of \in Nat
    BY <2>1 DEF StatsRequest, Request
  <2> QED BY <2>1, <2>2, BodyFacts DEF Serves
<1> QED BY <1>1, <1>2, StatsStarts, PTL DEF StatsSpec

-----------------------------------------------------------------------------
(* The stores of profiles and keys. *)

\* What the file holds of a map of profiles.
Stored(store) == [i \in DOMAIN store |-> Encode([store[i] EXCEPT !.online = FALSE])]

\* A map from IDs to the profiles that have them.
StoreOK(store) ==
  /\ store = [i \in DOMAIN store |-> store[i]] /\ DOMAIN store \subseteq Users
  /\ \A i \in DOMAIN store : store[i] \in Profile /\ store[i].id = i

KeysAt == {"pubFile", "privFile"}

\* Where a thread's call can be, and with what.
ThreadOK(s) ==
  \/ s = Resting
  \/ /\ \/ s = [op |-> s.op, pro |-> s.pro, at |-> s.at]
        \/ s = [op |-> s.op, pro |-> s.pro, at |-> s.at, buf |-> s.buf]
     /\ s.pro \in Profile /\ s.op \in {"put", "delete", "open"}
     /\ s.at \in {"pub", "pubFile", "priv", "privFile", "look", "peers", "peersFile"}
     /\ s.op = "delete" => s.at \in {"peers", "peersFile"} /\ ~s.pro.key
     /\ s.op = "open" => s.at \in {"priv", "privFile", "look"} /\ s.pro.id = Own
     /\ s.at \notin {"peers", "peersFile"} => s.pro.key

\* A thread between reading a file and writing it holds the mutex, and has in
\* hand what the file holds.
HoldsPeers(t) ==
  th[t].at = "peersFile" =>
    /\ lock[Proc(t)].peers = TRUE /\ th[t].buf = peersFile.has
    /\ \A u \in Threads \ {t} : Proc(u) = Proc(t) => th[u].at # "peersFile"
HoldsKeys(t) ==
  th[t].at \in KeysAt =>
    /\ lock[Proc(t)].keys = TRUE /\ th[t].buf = keysFile.has
    /\ \A u \in Threads \ {t} : Proc(u) = Proc(t) => th[u].at \notin KeysAt

\* A profile is put after its keys.
PubAdded(s, i)  == s.op = "put" /\ s.pro.key /\ s.pro.id = i /\ s.at \in {"priv", "privFile", "peers", "peersFile"}
PrivAdded(s, i) == s.op = "put" /\ s.pro.key /\ s.pro.id = i /\ s.at \in {"peers", "peersFile"}

KeyFirst ==
  /\ \A i \in DOMAIN mem.store : mem.store[i].key => i \in keysFile.has.pks /\ i \in keysFile.has.sks
  /\ \A t \in Threads, i \in Users :
       /\ th[t] # Resting /\ PubAdded(th[t], i) => i \in keysFile.has.pks
       /\ th[t] # Resting /\ PrivAdded(th[t], i) => i \in keysFile.has.sks

\* A key is there for a profile that was put, or that is about to be.
KeyMeant ==
  killed \/ \A i \in Users \ {Own} :
    /\ i \in keysFile.has.pks => i \in mem.pks \/ \E t \in Threads : th[t] # Resting /\ PubAdded(th[t], i)
    /\ i \in keysFile.has.sks => i \in mem.sks \/ \E t \in Threads : th[t] # Resting /\ PrivAdded(th[t], i)
    /\ i \in mem.pks => i \in keysFile.has.pks
    /\ i \in mem.sks => i \in keysFile.has.sks

ProfilesOK ==
  /\ StoreOK(mem.store) /\ mem = [store |-> mem.store, pks |-> mem.pks, sks |-> mem.sks]
  /\ peersFile = File(Stored(mem.store))
  /\ keysFile = File([pks |-> keysFile.has.pks, sks |-> keysFile.has.sks])
  /\ lock \in [Procs -> [peers : BOOLEAN, keys : BOOLEAN]]
  /\ th = [t \in Threads |-> th[t]]
  /\ \A t \in Threads : ThreadOK(th[t]) /\ HoldsPeers(t) /\ HoldsKeys(t)
  /\ KeyFirst /\ KeyMeant

ProfilesInv == mixed \in BOOLEAN /\ killed \in BOOLEAN /\ (mixed \/ ProfilesOK)

\* The fields of a profile, and of the one that is stored for it.
LEMMA ProfileFacts ==
  ASSUME NEW p \in Profile
  PROVE  LET e == Encode([p EXCEPT !.online = FALSE])
         IN  /\ p.id \in Users /\ p.key \in BOOLEAN
             /\ e.id = p.id /\ e.name = p.name /\ e.key = p.key
             /\ e.pids = {<<"ipfs", q>> : q \in p.pids}
<1>1. PICK i \in Users, n \in Usernames :
        p = [id |-> i, name |-> n, pids |-> IF n = "a" THEN {Peer} ELSE {}, key |-> n = "a", online |-> n = "a"]
  BY DEF Profile
<1>2. p.id \in Users /\ p.key \in BOOLEAN
  BY <1>1
<1> DEFINE x == [p EXCEPT !.online = FALSE]
<1>3. x.id = p.id /\ x.name = p.name /\ x.key = p.key /\ x.pids = p.pids
  BY <1>1
<1> HIDE DEF x
<1>4. /\ Encode(x).id = p.id /\ Encode(x).name = p.name /\ Encode(x).key = p.key
      /\ Encode(x).pids = {<<"ipfs", q>> : q \in p.pids}
  BY <1>3 DEF Encode
<1> QED BY <1>2, <1>4 DEF x

\* Putting a profile in the map is putting the stored one in the file.
LEMMA StoredPut ==
  ASSUME NEW s, StoreOK(s), NEW p \in Profile
  PROVE  /\ StoreOK(With(s, p.id, p))
         /\ Stored(With(s, p.id, p)) = With(Stored(s), p.id, Encode([p EXCEPT !.online = FALSE]))
<1>1. p.id \in Users
  BY ProfileFacts
<1> DEFINE w == With(s, p.id, p)
<1>2. w = [i \in DOMAIN s \union {p.id} |-> IF i = p.id THEN p ELSE s[i]]
  BY DEF With
<1> HIDE DEF w
<1>3. StoreOK(w)
  BY <1>1, <1>2 DEF StoreOK
<1>4. DOMAIN w = DOMAIN s \union {p.id} /\ \A i \in DOMAIN w : w[i] = IF i = p.id THEN p ELSE s[i]
  BY <1>2
<1>5. Stored(w) = With(Stored(s), p.id, Encode([p EXCEPT !.online = FALSE]))
  BY <1>4 DEF Stored, With
<1> QED BY <1>3, <1>5 DEF w

\* The same for deleting it.
LEMMA StoredDelete ==
  ASSUME NEW s, StoreOK(s), NEW i
  PROVE  StoreOK(Without(s, i)) /\ Stored(Without(s, i)) = Without(Stored(s), i)
<1> DEFINE w == Without(s, i)
<1>1. w = [j \in DOMAIN s \ {i} |-> s[j]]
  BY DEF Without, Restrict
<1> HIDE DEF w
<1>2. StoreOK(w)
  BY <1>1 DEF StoreOK
<1>3. DOMAIN w = DOMAIN s \ {i} /\ \A j \in DOMAIN w : w[j] = s[j]
  BY <1>1
<1>4. Stored(w) = Without(Stored(s), i)
  BY <1>3 DEF Stored, Without, Restrict
<1> QED BY <1>2, <1>4 DEF w

\* A file that holds what a MemStore would hold answers as it does.
LEMMA StoredAnswers ==
  ASSUME NEW m, StoreOK(m.store), NEW file, file = File(Stored(m.store))
  PROVE  /\ profilesOf(file) = Stored(m.store) /\ DOMAIN profilesOf(file) = DOMAIN m.store
         /\ \A i \in DOMAIN m.store : profilesOf(file)[i].key = m.store[i].key
         /\ \A i \in DOMAIN m.store : /\ Decode(profilesOf(file)[i]).name = m.store[i].name
                                      /\ Decode(profilesOf(file)[i]).pids = m.store[i].pids
         /\ \A name : PeernameID(file, name) = MemPeernameID(m, name)
         /\ \A name : ProfilesForUsername(file, name) = MemProfilesForUsername(m, name)
         /\ \A pid : PeerProfile(file, pid) = MemPeerProfile(m, pid)
         /\ List(file) = MemList(m)
         /\ \A i : PeerIDs(file, i) = MemPeerIDs(m, i)
<1> DEFINE s == m.store
           P == profilesOf(file)
<1>1. P = Stored(s) /\ DOMAIN P = DOMAIN s
  BY DEF profilesOf, File, Stored
<1>2. \A i \in DOMAIN s : P[i] = Encode([s[i] EXCEPT !.online = FALSE]) /\ s[i] \in Profile /\ s[i].id = i
  BY <1>1 DEF Stored, StoreOK
<1> HIDE DEF P
<1>3. \A i \in DOMAIN s : /\ P[i].id = i /\ P[i].name = s[i].name /\ P[i].key = s[i].key
                          /\ P[i].pids = {<<"ipfs", q>> : q \in s[i].pids}
  <2> SUFFICES ASSUME NEW i \in DOMAIN s
      PROVE /\ P[i].id = i /\ P[i].name = s[i].name /\ P[i].key = s[i].key
            /\ P[i].pids = {<<"ipfs", q>> : q \in s[i].pids}
    OBVIOUS
  <2> DEFINE p == s[i]
             e == Encode([p EXCEPT !.online = FALSE])
  <2>1. p \in Profile /\ p.id = i /\ P[i] = e
    BY <1>2
  <2> HIDE DEF p
  <2>2. e.id = p.id /\ e.name = p.name /\ e.key = p.key /\ e.pids = {<<"ipfs", q>> : q \in p.pids}
    BY <2>1, ProfileFacts
  <2> QED BY <2>1, <2>2 DEF p
<1>4. \A i \in DOMAIN s : /\ Decode(P[i]).name = s[i].name /\ Decode(P[i]).id = i
                          /\ Decode(P[i]).pids = s[i].pids
  <2> SUFFICES ASSUME NEW i \in DOMAIN s
      PROVE Decode(P[i]).name = s[i].name /\ Decode(P[i]).id = i /\ Decode(P[i]).pids = s[i].pids
    OBVIOUS
  <2> DEFINE S == s[i].pids
             T == {<<"ipfs", x>> : x \in S}
  <2>1. {q[2] : q \in T} = S
    <3>1. \A x \in S : <<"ipfs", x>> \in T /\ <<"ipfs", x>>[2] = x
      OBVIOUS
    <3>2. \A q \in T : q[2] \in S
      OBVIOUS
    <3> HIDE DEF S, T
    <3> QED BY <3>1, <3>2
  <2>2. Decode(P[i]).pids = {q[2] : q \in P[i].pids}
    BY DEF Decode
  <2> QED BY <1>3, <2>1, <2>2 DEF Decode
<1>5. \A name : PeernameID(file, name) = MemPeernameID(m, name)
  BY <1>1, <1>3 DEF PeernameID, MemPeernameID, P
<1>6. \A name : ProfilesForUsername(file, name) = MemProfilesForUsername(m, name)
  BY <1>1, <1>3 DEF ProfilesForUsername, MemProfilesForUsername, P
<1>7. \A pid : PeerProfile(file, pid) = MemPeerProfile(m, pid)
  <2>1. \A i \in DOMAIN s : \A pid :
          <<"ipfs", pid>> \in P[i].pids <=> pid \in s[i].pids
    BY <1>3
  <2> QED BY <1>1, <2>1 DEF PeerProfile, MemPeerProfile, P
<1>8. List(file) = MemList(m)
  BY <1>1, <1>4 DEF List, MemList, P
<1>9. \A i : PeerIDs(file, i) = MemPeerIDs(m, i)
  BY <1>1, <1>4 DEF PeerIDs, MemPeerIDs, P
<1> QED BY <1>1, <1>3, <1>4, <1>5, <1>6, <1>7, <1>8, <1>9 DEF P

\* The locks of a process, one taken or one left.
LEMMA LockFacts ==
  ASSUME lock \in [Procs -> [peers : BOOLEAN, keys : BOOLEAN]], NEW t \in Threads, NEW v \in BOOLEAN
  PROVE  LET p == Proc(t)
             a == [lock EXCEPT ![p]["peers"] = v]
             b == [lock EXCEPT ![p]["keys"] = v]
         IN  /\ p \in Procs
             /\ a \in [Procs -> [peers : BOOLEAN, keys : BOOLEAN]]
             /\ b \in [Procs -> [peers : BOOLEAN, keys : BOOLEAN]]
             /\ a[p].peers = v /\ b[p].keys = v /\ a[p].keys = lock[p].keys /\ b[p].peers = lock[p].peers
             /\ \A q \in Procs \ {p} : a[q] = lock[q] /\ b[q] = lock[q]
<1>1. Proc(t) \in Procs
  BY DEF Procs
<1> QED BY <1>1

\* A step that changes no file.
LEMMA QuietStep ==
  ASSUME ProfilesOK, NEW t \in Threads, NEW n, th' = [th EXCEPT ![t] = n], ThreadOK(n),
         UNCHANGED <<peersFile, keysFile, mem, killed>>,
         lock' \in [Procs -> [peers : BOOLEAN, keys : BOOLEAN]],
         \A p \in Procs : (lock[p].peers => lock'[p].peers) /\ (lock[p].keys => lock'[p].keys),
         n.at = "peersFile" => /\ lock'[Proc(t)].peers = TRUE /\ n.buf = peersFile.has
                               /\ lock[Proc(t)].peers = FALSE,
         n.at \in KeysAt => /\ lock'[Proc(t)].keys = TRUE /\ n.buf = keysFile.has
                            /\ lock[Proc(t)].keys = FALSE,
         \A i \in Users :
           /\ n # Resting /\ PubAdded(n, i) => i \in keysFile.has.pks
           /\ n # Resting /\ PrivAdded(n, i) => i \in keysFile.has.sks
           /\ i # Own /\ th[t] # Resting /\ PubAdded(th[t], i) => n # Resting /\ PubAdded(n, i)
           /\ i # Own /\ th[t] # Resting /\ PrivAdded(th[t], i) => n # Resting /\ PrivAdded(n, i)
  PROVE  ProfilesOK'
<1>1. /\ th' = [u \in Threads |-> th'[u]] /\ th'[t] = n
      /\ \A u \in Threads \ {t} : th'[u] = th[u]
  BY DEF ProfilesOK
<1>2. \A u \in Threads : Proc(u) \in Procs
  BY DEF Procs
<1>3. \A u \in Threads : ThreadOK(th[u])'
  BY <1>1 DEF ProfilesOK, ThreadOK
<1>4. \A p \in Procs : (lock[p].peers = TRUE => lock'[p].peers = TRUE) /\ (lock[p].keys = TRUE => lock'[p].keys = TRUE)
  OBVIOUS
<1>5. \A u \in Threads : HoldsPeers(u)'
  <2> SUFFICES ASSUME NEW u \in Threads, th'[u].at = "peersFile"
      PROVE  /\ lock'[Proc(u)].peers = TRUE /\ th'[u].buf = peersFile.has
             /\ \A w \in Threads \ {u} : Proc(w) = Proc(u) => th'[w].at # "peersFile"
    BY DEF HoldsPeers, Proc
  <2>1. CASE u = t
    BY <1>1, <2>1 DEF ProfilesOK, HoldsPeers
  <2>2. CASE u # t
    <3>1. th[u].at = "peersFile" /\ th'[u] = th[u]
      BY <1>1, <2>2
    <3>2. /\ lock[Proc(u)].peers = TRUE /\ th[u].buf = peersFile.has
          /\ \A w \in Threads \ {u} : Proc(w) = Proc(u) => th[w].at # "peersFile"
      BY <3>1 DEF ProfilesOK, HoldsPeers
    <3> QED BY <1>1, <1>2, <1>4, <3>1, <3>2
  <2> QED BY <2>1, <2>2
<1>6. \A u \in Threads : HoldsKeys(u)'
  <2> SUFFICES ASSUME NEW u \in Threads, th'[u].at \in KeysAt
      PROVE  /\ lock'[Proc(u)].keys = TRUE /\ th'[u].buf = keysFile.has
             /\ \A w \in Threads \ {u} : Proc(w) = Proc(u) => th'[w].at \notin KeysAt
    BY DEF HoldsKeys, Proc, KeysAt
  <2>1. CASE u = t
    BY <1>1, <2>1 DEF ProfilesOK, HoldsKeys
  <2>2. CASE u # t
    <3>1. th[u].at \in KeysAt /\ th'[u] = th[u]
      BY <1>1, <2>2
    <3>2. /\ lock[Proc(u)].keys = TRUE /\ th[u].buf = keysFile.has
          /\ \A w \in Threads \ {u} : Proc(w) = Proc(u) => th[w].at \notin KeysAt
      BY <3>1 DEF ProfilesOK, HoldsKeys
    <3> QED BY <1>1, <1>2, <1>4, <3>1, <3>2
  <2> QED BY <2>1, <2>2
<1>7. KeyFirst'
  BY <1>1 DEF ProfilesOK, KeyFirst, PubAdded, PrivAdded, Resting
<1>8. KeyMeant'
  <2>1. CASE killed
    BY <2>1 DEF KeyMeant
  <2>2. CASE ~killed
    <3> SUFFICES ASSUME NEW i \in Users \ {Own}
        PROVE /\ i \in keysFile.has.pks => i \in mem.pks \/ \E u \in Threads : th'[u] # Resting /\ PubAdded(th'[u], i)
              /\ i \in keysFile.has.sks => i \in mem.sks \/ \E u \in Threads : th'[u] # Resting /\ PrivAdded(th'[u], i)
              /\ i \in mem.pks => i \in keysFile.has.pks
              /\ i \in mem.sks => i \in keysFile.has.sks
      BY DEF KeyMeant, PubAdded, PrivAdded, Resting
    <3>1. /\ i \in keysFile.has.pks => i \in mem.pks \/ \E u \in Threads : th[u] # Resting /\ PubAdded(th[u], i)
          /\ i \in keysFile.has.sks => i \in mem.sks \/ \E u \in Threads : th[u] # Resting /\ PrivAdded(th[u], i)
          /\ i \in mem.pks => i \in keysFile.has.pks
          /\ i \in mem.sks => i \in keysFile.has.sks
      BY <2>2 DEF ProfilesOK, KeyMeant
    <3>2. \A u \in Threads : th[u] # Resting /\ PubAdded(th[u], i) => th'[u] # Resting /\ PubAdded(th'[u], i)
      BY <1>1
    <3>3. \A u \in Threads : th[u] # Resting /\ PrivAdded(th[u], i) => th'[u] # Resting /\ PrivAdded(th'[u], i)
      BY <1>1
    <3> QED BY <3>1, <3>2, <3>3
  <2> QED BY <2>1, <2>2
<1>9. /\ StoreOK(mem.store)' /\ (mem = [store |-> mem.store, pks |-> mem.pks, sks |-> mem.sks])'
      /\ (peersFile = File(Stored(mem.store)))'
      /\ (keysFile = File([pks |-> keysFile.has.pks, sks |-> keysFile.has.sks]))'
  BY DEF ProfilesOK, StoreOK, Stored, File, Profile, Encode
<1> QED BY <1>1, <1>3, <1>5, <1>6, <1>7, <1>8, <1>9 DEF ProfilesOK

\* A thread's call, moved on.
LEMMA ThreadMoved ==
  ASSUME NEW s, \/ s = [op |-> s.op, pro |-> s.pro, at |-> s.at]
                \/ s = [op |-> s.op, pro |-> s.pro, at |-> s.at, buf |-> s.buf],
         NEW o, NEW a, NEW n, n = [s EXCEPT !.op = o, !.at = a]
  PROVE  /\ n.op = o /\ n.at = a /\ n.pro = s.pro
         /\ \/ n = [op |-> n.op, pro |-> n.pro, at |-> n.at]
            \/ n = [op |-> n.op, pro |-> n.pro, at |-> n.at, buf |-> n.buf]
<1>1. ASSUME NEW x, NEW p, NEW y, s = [op |-> x, pro |-> p, at |-> y]
      PROVE  n.op = o /\ n.at = a /\ n.pro = p /\ n = [op |-> n.op, pro |-> n.pro, at |-> n.at]
  BY <1>1
<1>2. ASSUME NEW x, NEW p, NEW y, NEW b, s = [op |-> x, pro |-> p, at |-> y, buf |-> b]
      PROVE  n.op = o /\ n.at = a /\ n.pro = p /\ n = [op |-> n.op, pro |-> n.pro, at |-> n.at, buf |-> n.buf]
  BY <1>2
<1> QED BY <1>1, <1>2

\* Calls begin, look and read.
LEMMA QuietKeeps ==
  ASSUME ProfilesOK, NEW t \in Threads, Begin(t) \/ Look(t) \/ ReadKeys(t) \/ ReadPeers(t)
  PROVE  ProfilesOK'
<1> DEFINE s == th[t]
<1>1. UNCHANGED <<peersFile, keysFile, mem, killed>>
  BY DEF Begin, Look, ReadKeys, ReadPeers
<1>2. /\ ThreadOK(s) /\ lock \in [Procs -> [peers : BOOLEAN, keys : BOOLEAN]] /\ Proc(t) \in Procs
      /\ keysFile = File([pks |-> keysFile.has.pks, sks |-> keysFile.has.sks])
      /\ peersFile = File(Stored(mem.store))
  BY DEF ProfilesOK, Procs
<1>3. keys(keysFile) = keysFile.has /\ profilesOf(peersFile) = peersFile.has
  <2>1. keysFile.torn = FALSE /\ peersFile.torn = FALSE
    BY <1>2 DEF File
  <2> QED BY <2>1 DEF keys, profilesOf
<1>4. \A i \in Users : /\ s # Resting /\ PubAdded(s, i) => i \in keysFile.has.pks
                       /\ s # Resting /\ PrivAdded(s, i) => i \in keysFile.has.sks
  BY DEF ProfilesOK, KeyFirst
<1>5. CASE Begin(t)
  <2>1. s = Resting /\ lock' = lock
    BY <1>5 DEF Begin
  <2>2. PICK p \in Profile, op \in {"put", "delete", "open"}, at \in {"pub", "priv", "peers"} :
          /\ th' = [th EXCEPT ![t] = [op |-> op, pro |-> p, at |-> at]]
          /\ op = "put" => at = IF p.key THEN "pub" ELSE "peers"
          /\ op = "delete" => ~p.key /\ at = "peers"
          /\ op = "open" => p.id = Own /\ p.key /\ at = "priv"
    BY <1>5, Zenon DEF Begin
  <2> DEFINE n == [op |-> op, pro |-> p, at |-> at]
  <2>3. n.op = op /\ n.pro = p /\ n.at = at
    OBVIOUS
  <2>4. n # Resting
    BY <2>3 DEF Resting
  <2>5. n = [op |-> n.op, pro |-> n.pro, at |-> n.at] /\ p.key \in BOOLEAN
    BY ProfileFacts
  <2> HIDE DEF n
  <2>6. ThreadOK(n)
    BY <2>2, <2>3, <2>5 DEF ThreadOK
  <2>7. \A i \in Users : ~PubAdded(n, i) /\ ~PrivAdded(n, i)
    BY <2>2, <2>3, <2>5 DEF PubAdded, PrivAdded
  <2>8. n.at \notin KeysAt /\ n.at # "peersFile"
    BY <2>2, <2>3 DEF KeysAt
  <2> QED BY <1>1, <1>2, <2>1, <2>2, <2>6, <2>7, <2>8, QuietStep DEF n
<1>6. CASE Look(t)
  <2>1. s.at = "look" /\ lock' = lock
    BY <1>6 DEF Look
  <2>2. /\ s # Resting /\ s.pro \in Profile /\ s.op \in {"put", "delete", "open"} /\ s.pro.key
        /\ \/ s = [op |-> s.op, pro |-> s.pro, at |-> s.at]
           \/ s = [op |-> s.op, pro |-> s.pro, at |-> s.at, buf |-> s.buf]
    BY <1>2, <2>1 DEF ThreadOK, Resting
  <2> DEFINE n == [s EXCEPT !.op = "put", !.at = "pub"]
  <2>3. th' = [th EXCEPT ![t] = n] \/ th' = [th EXCEPT ![t] = Resting]
    BY <1>6 DEF Look, ProfilesOK
  <2>4. \A i \in Users : ~PubAdded(s, i) /\ ~PrivAdded(s, i)
    BY <2>1 DEF PubAdded, PrivAdded
  <2>5. CASE th' = [th EXCEPT ![t] = Resting]
    <3>1. ThreadOK(Resting) /\ Resting.at = "idle"
      BY DEF ThreadOK, Resting
    <3> QED BY <1>1, <1>2, <2>1, <2>4, <2>5, <3>1, QuietStep DEF KeysAt
  <2>6. CASE th' = [th EXCEPT ![t] = n]
    <3>1. n.op = "put" /\ n.at = "pub" /\ n.pro = s.pro
          /\ \/ n = [op |-> n.op, pro |-> n.pro, at |-> n.at]
             \/ n = [op |-> n.op, pro |-> n.pro, at |-> n.at, buf |-> n.buf]
      <4>1. \/ s = [op |-> s.op, pro |-> s.pro, at |-> s.at]
            \/ s = [op |-> s.op, pro |-> s.pro, at |-> s.at, buf |-> s.buf]
        BY <2>2
      <4> HIDE DEF s
      <4>2. n = [s EXCEPT !.op = "put", !.at = "pub"]
        OBVIOUS
      <4> HIDE DEF n
      <4> QED BY <4>1, <4>2, ThreadMoved
    <3> HIDE DEF n
    <3>2. ThreadOK(n)
      BY <2>2, <3>1 DEF ThreadOK
    <3>3. \A i \in Users : ~PubAdded(n, i) /\ ~PrivAdded(n, i)
      BY <3>1 DEF PubAdded, PrivAdded
    <3> QED BY <1>1, <1>2, <2>1, <2>4, <2>6, <3>1, <3>2, <3>3, QuietStep DEF KeysAt
  <2> QED BY <2>3, <2>5, <2>6
<1>7. CASE ReadKeys(t)
  <2> DEFINE at == IF s.at = "pub" THEN "pubFile" ELSE "privFile"
             n == [op |-> s.op, pro |-> s.pro, at |-> at, buf |-> keysFile.has]
  <2>1. /\ s.at \in {"pub", "priv"} /\ th' = [th EXCEPT ![t] = n]
        /\ ~lock[Proc(t)].keys /\ lock' = [lock EXCEPT ![Proc(t)]["keys"] = TRUE]
    BY <1>3, <1>7 DEF ReadKeys, Takes, Mine, ProfilesOK
  <2>2. /\ n.op = s.op /\ n.pro = s.pro /\ n.at = at /\ n.buf = keysFile.has /\ n # Resting
        /\ n = [op |-> n.op, pro |-> n.pro, at |-> n.at, buf |-> n.buf]
    BY DEF Resting
  <2> HIDE DEF n
  <2>3. s # Resting /\ ThreadOK(n)
    BY <1>2, <2>1, <2>2 DEF ThreadOK, Resting
  <2>4. /\ lock' \in [Procs -> [peers : BOOLEAN, keys : BOOLEAN]] /\ lock'[Proc(t)].keys = TRUE
        /\ lock[Proc(t)].keys = FALSE
        /\ \A p \in Procs : (lock[p].peers => lock'[p].peers) /\ (lock[p].keys => lock'[p].keys)
    <3>1. lock[Proc(t)].keys = FALSE
      BY <1>2, <2>1
    <3>2. /\ lock' \in [Procs -> [peers : BOOLEAN, keys : BOOLEAN]] /\ lock'[Proc(t)].keys = TRUE
          /\ lock'[Proc(t)].peers = lock[Proc(t)].peers
          /\ \A q \in Procs \ {Proc(t)} : lock'[q] = lock[q]
      BY <1>2, <2>1, LockFacts
    <3> QED BY <1>2, <3>1, <3>2
  <2>5. \A i \in Users : (PubAdded(n, i) <=> PubAdded(s, i)) /\ (PrivAdded(n, i) <=> PrivAdded(s, i))
    BY <2>1, <2>2 DEF PubAdded, PrivAdded
  <2> QED BY <1>1, <1>4, <2>1, <2>2, <2>3, <2>4, <2>5, QuietStep DEF KeysAt
<1>8. CASE ReadPeers(t)
  <2> DEFINE n == [op |-> s.op, pro |-> s.pro, at |-> "peersFile", buf |-> peersFile.has]
  <2>1. /\ s.at = "peers" /\ th' = [th EXCEPT ![t] = n]
        /\ ~lock[Proc(t)].peers /\ lock' = [lock EXCEPT ![Proc(t)]["peers"] = TRUE]
    BY <1>3, <1>8 DEF ReadPeers, Takes, Mine, ProfilesOK
  <2>2. /\ n.op = s.op /\ n.pro = s.pro /\ n.at = "peersFile" /\ n.buf = peersFile.has /\ n # Resting
        /\ n = [op |-> n.op, pro |-> n.pro, at |-> n.at, buf |-> n.buf]
    BY DEF Resting
  <2> HIDE DEF n
  <2>3. s # Resting /\ ThreadOK(n)
    BY <1>2, <2>1, <2>2 DEF ThreadOK, Resting
  <2>4. /\ lock' \in [Procs -> [peers : BOOLEAN, keys : BOOLEAN]] /\ lock'[Proc(t)].peers = TRUE
        /\ lock[Proc(t)].peers = FALSE
        /\ \A p \in Procs : (lock[p].peers => lock'[p].peers) /\ (lock[p].keys => lock'[p].keys)
    <3>1. lock[Proc(t)].peers = FALSE
      BY <1>2, <2>1
    <3>2. /\ lock' \in [Procs -> [peers : BOOLEAN, keys : BOOLEAN]] /\ lock'[Proc(t)].peers = TRUE
          /\ lock'[Proc(t)].keys = lock[Proc(t)].keys
          /\ \A q \in Procs \ {Proc(t)} : lock'[q] = lock[q]
      BY <1>2, <2>1, LockFacts
    <3> QED BY <1>2, <3>1, <3>2
  <2>5. \A i \in Users : (PubAdded(n, i) <=> PubAdded(s, i)) /\ (PrivAdded(n, i) <=> PrivAdded(s, i))
    BY <2>1, <2>2 DEF PubAdded, PrivAdded
  <2> QED BY <1>1, <1>4, <2>1, <2>2, <2>3, <2>4, <2>5, QuietStep DEF KeysAt
<1> QED BY <1>5, <1>6, <1>7, <1>8

\* A thread that has read the key store writes it, with no other process in between:
\* the file grows by a key, and the thread moves on.
LEMMA KeysStep ==
  ASSUME ProfilesOK, NEW t \in Threads, NEW n, th' = [th EXCEPT ![t] = n], ThreadOK(n),
         th[t].at \in KeysAt, n.at \notin KeysAt, n.at # "peersFile",
         UNCHANGED <<peersFile, mem, killed>>,
         lock' = [lock EXCEPT ![Proc(t)]["keys"] = FALSE],
         \A u \in Threads : Proc(u) # Proc(t) => th[u].at \notin KeysAt,
         NEW P, NEW S, keysFile' = File([pks |-> P, sks |-> S]),
         keysFile.has.pks \subseteq P, keysFile.has.sks \subseteq S,
         \A i \in Users :
           /\ n # Resting /\ PubAdded(n, i) => i \in P
           /\ n # Resting /\ PrivAdded(n, i) => i \in S
           /\ i # Own /\ i \in P => i \in keysFile.has.pks \/ (n # Resting /\ PubAdded(n, i))
           /\ i # Own /\ i \in S => i \in keysFile.has.sks \/ (n # Resting /\ PrivAdded(n, i))
           /\ i # Own /\ th[t] # Resting /\ PubAdded(th[t], i) => n # Resting /\ PubAdded(n, i)
           /\ i # Own /\ th[t] # Resting /\ PrivAdded(th[t], i) => n # Resting /\ PrivAdded(n, i)
  PROVE  ProfilesOK'
<1>1. /\ th' = [u \in Threads |-> th'[u]] /\ th'[t] = n
      /\ \A u \in Threads \ {t} : th'[u] = th[u]
  BY DEF ProfilesOK
<1>2. \A u \in Threads : Proc(u) \in Procs
  BY DEF Procs
<1>3. \A u \in Threads : ThreadOK(th[u])'
  BY <1>1 DEF ProfilesOK, ThreadOK
<1>4. /\ lock' \in [Procs -> [peers : BOOLEAN, keys : BOOLEAN]]
      /\ \A p \in Procs : lock'[p].peers = lock[p].peers
  <2>1. lock \in [Procs -> [peers : BOOLEAN, keys : BOOLEAN]]
    BY DEF ProfilesOK
  <2>2. /\ lock' \in [Procs -> [peers : BOOLEAN, keys : BOOLEAN]]
        /\ lock'[Proc(t)].peers = lock[Proc(t)].peers
        /\ \A q \in Procs \ {Proc(t)} : lock'[q] = lock[q]
    BY <2>1, LockFacts
  <2> QED BY <2>2
<1>5. \A u \in Threads : HoldsPeers(u)'
  <2> SUFFICES ASSUME NEW u \in Threads, th'[u].at = "peersFile"
      PROVE  /\ lock'[Proc(u)].peers = TRUE /\ th'[u].buf = peersFile.has
             /\ \A w \in Threads \ {u} : Proc(w) = Proc(u) => th'[w].at # "peersFile"
    BY DEF HoldsPeers, Proc
  <2>1. u # t /\ th[u].at = "peersFile" /\ th'[u] = th[u]
    BY <1>1
  <2>2. /\ lock[Proc(u)].peers = TRUE /\ th[u].buf = peersFile.has
        /\ \A w \in Threads \ {u} : Proc(w) = Proc(u) => th[w].at # "peersFile"
    BY <2>1 DEF ProfilesOK, HoldsPeers
  <2> QED BY <1>1, <1>2, <1>4, <2>1, <2>2
<1>6. \A u \in Threads : th'[u].at \notin KeysAt
  <2>1. \A u \in Threads \ {t} : Proc(u) = Proc(t) => th[u].at \notin KeysAt
    BY DEF ProfilesOK, HoldsKeys
  <2> QED BY <1>1, <2>1
<1>7. \A u \in Threads : HoldsKeys(u)'
  BY <1>6 DEF HoldsKeys, KeysAt
<1>8. keysFile'.has.pks = P /\ keysFile'.has.sks = S
  BY DEF File
<1>9. KeyFirst'
  <2>1. \A i \in DOMAIN mem.store : mem.store[i].key => i \in P /\ i \in S
    BY DEF ProfilesOK, KeyFirst
  <2>2. \A u \in Threads, i \in Users : /\ th'[u] # Resting /\ PubAdded(th'[u], i) => i \in P
                                        /\ th'[u] # Resting /\ PrivAdded(th'[u], i) => i \in S
    BY <1>1 DEF ProfilesOK, KeyFirst
  <2> QED BY <1>8, <2>1, <2>2 DEF KeyFirst, PubAdded, PrivAdded, Resting
<1>10. KeyMeant'
  <2>1. CASE killed
    BY <2>1 DEF KeyMeant
  <2>2. CASE ~killed
    <3> SUFFICES ASSUME NEW i \in Users \ {Own}
        PROVE /\ i \in P => i \in mem.pks \/ \E u \in Threads : th'[u] # Resting /\ PubAdded(th'[u], i)
              /\ i \in S => i \in mem.sks \/ \E u \in Threads : th'[u] # Resting /\ PrivAdded(th'[u], i)
              /\ i \in mem.pks => i \in P
              /\ i \in mem.sks => i \in S
      BY <1>8 DEF KeyMeant, PubAdded, PrivAdded, Resting
    <3>1. /\ i \in keysFile.has.pks => i \in mem.pks \/ \E u \in Threads : th[u] # Resting /\ PubAdded(th[u], i)
          /\ i \in keysFile.has.sks => i \in mem.sks \/ \E u \in Threads : th[u] # Resting /\ PrivAdded(th[u], i)
          /\ i \in mem.pks => i \in keysFile.has.pks
          /\ i \in mem.sks => i \in keysFile.has.sks
      BY <2>2 DEF ProfilesOK, KeyMeant
    <3>2. \A u \in Threads : th[u] # Resting /\ PubAdded(th[u], i) => th'[u] # Resting /\ PubAdded(th'[u], i)
      BY <1>1
    <3>3. \A u \in Threads : th[u] # Resting /\ PrivAdded(th[u], i) => th'[u] # Resting /\ PrivAdded(th'[u], i)
      BY <1>1
    <3>4. (n # Resting /\ PubAdded(n, i)) => \E u \in Threads : th'[u] # Resting /\ PubAdded(th'[u], i)
      BY <1>1
    <3>5. (n # Resting /\ PrivAdded(n, i)) => \E u \in Threads : th'[u] # Resting /\ PrivAdded(th'[u], i)
      BY <1>1
    <3> QED BY <3>1, <3>2, <3>3, <3>4, <3>5
  <2> QED BY <2>1, <2>2
<1>11. /\ StoreOK(mem.store)' /\ (mem = [store |-> mem.store, pks |-> mem.pks, sks |-> mem.sks])'
       /\ (peersFile = File(Stored(mem.store)))'
  BY DEF ProfilesOK, StoreOK, Stored, File, Profile, Encode
<1>12. (keysFile = File([pks |-> keysFile.has.pks, sks |-> keysFile.has.sks]))'
  BY <1>8 DEF File
<1> QED BY <1>1, <1>3, <1>4, <1>5, <1>7, <1>9, <1>10, <1>11, <1>12 DEF ProfilesOK

\* A thread's call, at its next place.
LEMMA ThreadAt ==
  ASSUME NEW s, \/ s = [op |-> s.op, pro |-> s.pro, at |-> s.at]
                \/ s = [op |-> s.op, pro |-> s.pro, at |-> s.at, buf |-> s.buf],
         NEW a, NEW n, n = [s EXCEPT !.at = a]
  PROVE  /\ n.op = s.op /\ n.at = a /\ n.pro = s.pro
         /\ \/ n = [op |-> n.op, pro |-> n.pro, at |-> n.at]
            \/ n = [op |-> n.op, pro |-> n.pro, at |-> n.at, buf |-> n.buf]
<1>1. ASSUME NEW x, NEW p, NEW y, s = [op |-> x, pro |-> p, at |-> y]
      PROVE  n.op = x /\ n.at = a /\ n.pro = p /\ n = [op |-> n.op, pro |-> n.pro, at |-> n.at]
  BY <1>1
<1>2. ASSUME NEW x, NEW p, NEW y, NEW b, s = [op |-> x, pro |-> p, at |-> y, buf |-> b]
      PROVE  n.op = x /\ n.at = a /\ n.pro = p /\ n = [op |-> n.op, pro |-> n.pro, at |-> n.at, buf |-> n.buf]
  BY <1>2
<1> QED BY <1>1, <1>2

\* AddPubKey and AddPrivKey, with no other process between reading the file and writing it.
LEMMA KeysKeep ==
  ASSUME ProfilesOK, NEW t \in Threads, AddPubKey(t) \/ AddPrivKey(t), ~mixed'
  PROVE  ProfilesOK'
<1> DEFINE s == th[t]
           K == keysFile.has
<1>1. /\ UNCHANGED <<peersFile, mem, killed>> /\ s.at \in KeysAt
      /\ lock' = [lock EXCEPT ![Proc(t)]["keys"] = FALSE]
  BY DEF AddPubKey, AddPrivKey, Leaves, KeysAt
<1>2. \A u \in Threads : Proc(u) # Proc(t) => th[u].at \notin KeysAt
  BY DEF AddPubKey, AddPrivKey, Crosses, KeysAt
<1>3. /\ s # Resting /\ ThreadOK(s) /\ s.pro \in Profile /\ s.pro.key /\ s.pro.id \in Users /\ s.op \in {"put", "open"}
      /\ \/ s = [op |-> s.op, pro |-> s.pro, at |-> s.at]
         \/ s = [op |-> s.op, pro |-> s.pro, at |-> s.at, buf |-> s.buf]
  <2>1. ThreadOK(s)
    BY DEF ProfilesOK
  <2>2. s # Resting
    BY <1>1 DEF KeysAt, Resting
  <2>3. s.pro \in Profile
    BY <2>1, <2>2 DEF ThreadOK
  <2>4. s.pro.id \in Users
    BY <2>3, ProfileFacts
  <2> QED BY <1>1, <2>1, <2>2, <2>4 DEF ThreadOK, KeysAt
<1>4. s.buf = K /\ K = [pks |-> K.pks, sks |-> K.sks]
  <2>1. s.buf = K
    BY <1>1 DEF ProfilesOK, HoldsKeys
  <2>2. keysFile = File([pks |-> K.pks, sks |-> K.sks])
    BY DEF ProfilesOK
  <2> QED BY <2>1, <2>2 DEF File
<1>5. \A i \in Users : /\ PubAdded(s, i) => i \in K.pks
                       /\ PrivAdded(s, i) => i \in K.sks
  BY <1>3 DEF ProfilesOK, KeyFirst
<1>6. CASE AddPubKey(t)
  <2> DEFINE n == [s EXCEPT !.at = "priv"]
             P == K.pks \union {s.pro.id}
  <2>1. s.at = "pubFile" /\ th' = [th EXCEPT ![t] = n]
    BY <1>6 DEF AddPubKey, Moves, ProfilesOK
  <2>2. keysFile' = File([pks |-> P, sks |-> K.sks])
    <3>1. keysFile' = File([s.buf EXCEPT !.pks = K.pks \union {s.pro.id}])
      BY <1>4, <1>6 DEF AddPubKey
    <3>2. [s.buf EXCEPT !.pks = P] = [pks |-> P, sks |-> K.sks]
      BY <1>4
    <3> QED BY <3>1, <3>2
  <2>3. s.op = "put"
    BY <1>3, <2>1 DEF ThreadOK
  <2>4. /\ n.op = "put" /\ n.at = "priv" /\ n.pro = s.pro
        /\ \/ n = [op |-> n.op, pro |-> n.pro, at |-> n.at]
           \/ n = [op |-> n.op, pro |-> n.pro, at |-> n.at, buf |-> n.buf]
    <3>1. n = [s EXCEPT !.at = "priv"]
      OBVIOUS
    <3> HIDE DEF n, s
    <3> QED BY <1>3, <2>3, <3>1, ThreadAt
  <2> HIDE DEF n
  <2>5. n # Resting /\ ThreadOK(n)
    BY <1>3, <2>4 DEF ThreadOK, Resting
  <2>6. \A i \in Users : /\ PubAdded(n, i) <=> i = s.pro.id
                         /\ ~PrivAdded(n, i) /\ ~PrivAdded(s, i) /\ ~PubAdded(s, i)
    BY <1>3, <2>1, <2>4 DEF PubAdded, PrivAdded
  <2>7. n.at \notin KeysAt /\ n.at # "peersFile"
    BY <2>4 DEF KeysAt
  <2>8. K.pks \subseteq P /\ K.sks \subseteq K.sks /\ \A i \in Users : i \in P <=> i \in K.pks \/ i = s.pro.id
    OBVIOUS
  <2> HIDE DEF P, K
  <2> QED BY <1>1, <1>2, <2>1, <2>2, <2>5, <2>6, <2>7, <2>8, KeysStep DEF K
<1>7. CASE AddPrivKey(t)
  <2> DEFINE at == IF s.op = "open" THEN "look" ELSE "peers"
             n == [s EXCEPT !.at = at]
             S == K.sks \union {s.pro.id}
  <2>1. s.at = "privFile" /\ th' = [th EXCEPT ![t] = n]
    BY <1>7 DEF AddPrivKey, Moves, ProfilesOK
  <2>2. keysFile' = File([pks |-> K.pks, sks |-> S])
    <3>1. keysFile' = File([s.buf EXCEPT !.sks = K.sks \union {s.pro.id}])
      BY <1>4, <1>7 DEF AddPrivKey
    <3>2. [s.buf EXCEPT !.sks = S] = [pks |-> K.pks, sks |-> S]
      BY <1>4
    <3> QED BY <3>1, <3>2
  <2>4. /\ n.op = s.op /\ n.at = at /\ n.pro = s.pro
        /\ \/ n = [op |-> n.op, pro |-> n.pro, at |-> n.at]
           \/ n = [op |-> n.op, pro |-> n.pro, at |-> n.at, buf |-> n.buf]
    <3>1. n = [s EXCEPT !.at = at]
      OBVIOUS
    <3> HIDE DEF n, s, at
    <3> QED BY <1>3, <3>1, ThreadAt
  <2> HIDE DEF n
  <2>5. n # Resting /\ ThreadOK(n)
    BY <1>3, <2>4 DEF ThreadOK, Resting
  <2>6. \A i \in Users : /\ PubAdded(n, i) <=> PubAdded(s, i)
                         /\ PrivAdded(n, i) <=> s.op = "put" /\ i = s.pro.id
                         /\ ~PrivAdded(s, i)
    BY <1>3, <2>1, <2>4 DEF PubAdded, PrivAdded
  <2>7. n.at \notin KeysAt /\ n.at # "peersFile"
    BY <2>4 DEF KeysAt
  <2>8. K.sks \subseteq S /\ K.pks \subseteq K.pks /\ \A i \in Users : i \in S <=> i \in K.sks \/ i = s.pro.id
    OBVIOUS
  <2>9. s.op = "put" \/ s.pro.id = Own
    BY <1>3 DEF ThreadOK
  <2>10. \A i \in Users :
           /\ n # Resting /\ PubAdded(n, i) => i \in K.pks
           /\ n # Resting /\ PrivAdded(n, i) => i \in S
           /\ i # Own /\ i \in K.pks => i \in K.pks \/ (n # Resting /\ PubAdded(n, i))
           /\ i # Own /\ i \in S => i \in K.sks \/ (n # Resting /\ PrivAdded(n, i))
           /\ i # Own /\ s # Resting /\ PubAdded(s, i) => n # Resting /\ PubAdded(n, i)
           /\ i # Own /\ s # Resting /\ PrivAdded(s, i) => n # Resting /\ PrivAdded(n, i)
    BY <1>5, <2>5, <2>6, <2>8, <2>9
  <2> HIDE DEF S, K
  <2> QED BY <1>1, <1>2, <2>1, <2>2, <2>5, <2>7, <2>8, <2>10, KeysStep DEF K
<1> QED BY <1>6, <1>7

\* A thread that has read the profiles writes them, with no other process in between:
\* the file and the MemStore change alike, and the call is over.
LEMMA PeersStep ==
  ASSUME ProfilesOK, NEW t \in Threads, th[t].at = "peersFile", th' = [th EXCEPT ![t] = Resting],
         UNCHANGED <<keysFile, killed>>,
         lock' = [lock EXCEPT ![Proc(t)]["peers"] = FALSE],
         \A u \in Threads : Proc(u) # Proc(t) => th[u].at # "peersFile",
         NEW st, NEW P, NEW S, mem' = [store |-> st, pks |-> P, sks |-> S],
         StoreOK(st), peersFile' = File(Stored(st)),
         \A i \in DOMAIN st : st[i].key => i \in keysFile.has.pks /\ i \in keysFile.has.sks,
         mem.pks \subseteq P, mem.sks \subseteq S,
         \A i \in Users :
           /\ i \in P => i \in mem.pks \/ i \in keysFile.has.pks
           /\ i \in S => i \in mem.sks \/ i \in keysFile.has.sks
           /\ PubAdded(th[t], i) => i \in P
           /\ PrivAdded(th[t], i) => i \in S
  PROVE  ProfilesOK'
<1>1. /\ th' = [u \in Threads |-> th'[u]] /\ th'[t] = Resting
      /\ \A u \in Threads \ {t} : th'[u] = th[u]
  BY DEF ProfilesOK
<1>2. \A u \in Threads : Proc(u) \in Procs
  BY DEF Procs
<1>3. \A u \in Threads : ThreadOK(th[u])'
  BY <1>1 DEF ProfilesOK, ThreadOK
<1>4. /\ lock' \in [Procs -> [peers : BOOLEAN, keys : BOOLEAN]]
      /\ \A p \in Procs : lock'[p].keys = lock[p].keys
  <2>1. lock \in [Procs -> [peers : BOOLEAN, keys : BOOLEAN]]
    BY DEF ProfilesOK
  <2>2. /\ lock' \in [Procs -> [peers : BOOLEAN, keys : BOOLEAN]]
        /\ lock'[Proc(t)].keys = lock[Proc(t)].keys
        /\ \A q \in Procs \ {Proc(t)} : lock'[q] = lock[q]
    BY <2>1, LockFacts
  <2> QED BY <2>2
<1>5. Resting.at = "idle"
  BY DEF Resting
<1>6. \A u \in Threads : HoldsPeers(u)'
  <2>1. \A u \in Threads \ {t} : Proc(u) = Proc(t) => th[u].at # "peersFile"
    BY DEF ProfilesOK, HoldsPeers
  <2>2. \A u \in Threads : th'[u].at # "peersFile"
    BY <1>1, <1>5, <2>1
  <2> QED BY <2>2 DEF HoldsPeers
<1>7. \A u \in Threads : HoldsKeys(u)'
  <2> SUFFICES ASSUME NEW u \in Threads, th'[u].at \in KeysAt
      PROVE  /\ lock'[Proc(u)].keys = TRUE /\ th'[u].buf = keysFile.has
             /\ \A w \in Threads \ {u} : Proc(w) = Proc(u) => th'[w].at \notin KeysAt
    BY DEF HoldsKeys, Proc, KeysAt
  <2>1. u # t /\ th[u].at \in KeysAt /\ th'[u] = th[u]
    BY <1>1, <1>5 DEF KeysAt
  <2>2. /\ lock[Proc(u)].keys = TRUE /\ th[u].buf = keysFile.has
        /\ \A w \in Threads \ {u} : Proc(w) = Proc(u) => th[w].at \notin KeysAt
    BY <2>1 DEF ProfilesOK, HoldsKeys
  <2> QED BY <1>1, <1>2, <1>4, <1>5, <2>1, <2>2 DEF KeysAt
<1>8. mem'.store = st /\ mem'.pks = P /\ mem'.sks = S
  OBVIOUS
<1>9. KeyFirst'
  <2>1. \A u \in Threads, i \in Users : /\ th'[u] # Resting /\ PubAdded(th'[u], i) => i \in keysFile.has.pks
                                        /\ th'[u] # Resting /\ PrivAdded(th'[u], i) => i \in keysFile.has.sks
    BY <1>1 DEF ProfilesOK, KeyFirst
  <2> QED BY <1>8, <2>1 DEF KeyFirst, PubAdded, PrivAdded, Resting
<1>10. KeyMeant'
  <2>1. CASE killed
    BY <2>1 DEF KeyMeant
  <2>2. CASE ~killed
    <3> SUFFICES ASSUME NEW i \in Users \ {Own}
        PROVE /\ i \in keysFile.has.pks => i \in P \/ \E u \in Threads : th'[u] # Resting /\ PubAdded(th'[u], i)
              /\ i \in keysFile.has.sks => i \in S \/ \E u \in Threads : th'[u] # Resting /\ PrivAdded(th'[u], i)
              /\ i \in P => i \in keysFile.has.pks
              /\ i \in S => i \in keysFile.has.sks
      BY <1>8 DEF KeyMeant, PubAdded, PrivAdded, Resting
    <3>1. /\ i \in keysFile.has.pks => i \in mem.pks \/ \E u \in Threads : th[u] # Resting /\ PubAdded(th[u], i)
          /\ i \in keysFile.has.sks => i \in mem.sks \/ \E u \in Threads : th[u] # Resting /\ PrivAdded(th[u], i)
          /\ i \in mem.pks => i \in keysFile.has.pks
          /\ i \in mem.sks => i \in keysFile.has.sks
      BY <2>2 DEF ProfilesOK, KeyMeant
    <3>2. \A u \in Threads : th[u] # Resting /\ PubAdded(th[u], i) => i \in P \/ (th'[u] # Resting /\ PubAdded(th'[u], i))
      BY <1>1
    <3>3. \A u \in Threads : th[u] # Resting /\ PrivAdded(th[u], i) => i \in S \/ (th'[u] # Resting /\ PrivAdded(th'[u], i))
      BY <1>1
    <3> QED BY <3>1, <3>2, <3>3
  <2> QED BY <2>1, <2>2
<1>11. (keysFile = File([pks |-> keysFile.has.pks, sks |-> keysFile.has.sks]))'
  BY DEF ProfilesOK, File
<1>12. /\ StoreOK(mem.store)' /\ (mem = [store |-> mem.store, pks |-> mem.pks, sks |-> mem.sks])'
       /\ (peersFile = File(Stored(mem.store)))'
  BY <1>8 DEF StoreOK, Stored, File, Profile, Encode
<1> QED BY <1>1, <1>3, <1>4, <1>6, <1>7, <1>9, <1>10, <1>11, <1>12 DEF ProfilesOK

\* PutProfile and DeleteProfile, with no other process between reading the file and writing it.
LEMMA PeersKeep ==
  ASSUME ProfilesOK, NEW t \in Threads, PutProfile(t) \/ DeleteProfile(t), ~mixed'
  PROVE  ProfilesOK'
<1> DEFINE s == th[t]
           p == s.pro
           K == keysFile.has
<1>1. /\ UNCHANGED <<keysFile, killed>> /\ s.at = "peersFile" /\ th' = [th EXCEPT ![t] = Resting]
      /\ lock' = [lock EXCEPT ![Proc(t)]["peers"] = FALSE]
  BY DEF PutProfile, DeleteProfile, Leaves
<1>2. \A u \in Threads : Proc(u) # Proc(t) => th[u].at # "peersFile"
  BY DEF PutProfile, DeleteProfile, Crosses
<1>3. s # Resting /\ p \in Profile /\ p.id \in Users /\ p.key \in BOOLEAN
  <2>1. s # Resting
    BY <1>1 DEF Resting
  <2>2. p \in Profile
    BY <2>1 DEF ProfilesOK, ThreadOK
  <2> QED BY <2>1, <2>2, ProfileFacts
<1>4. s.buf = Stored(mem.store) /\ StoreOK(mem.store) /\ mem = [store |-> mem.store, pks |-> mem.pks, sks |-> mem.sks]
  <2>1. s.buf = peersFile.has
    BY <1>1 DEF ProfilesOK, HoldsPeers
  <2>2. peersFile = File(Stored(mem.store))
    BY DEF ProfilesOK
  <2>3. peersFile.has = Stored(mem.store)
    BY <2>2 DEF File
  <2> QED BY <2>1, <2>3 DEF ProfilesOK
<1>5. \A i \in DOMAIN mem.store : mem.store[i].key => i \in K.pks /\ i \in K.sks
  BY DEF ProfilesOK, KeyFirst
<1>6. CASE PutProfile(t)
  <2> DEFINE st == With(mem.store, p.id, p)
             P == IF p.key THEN mem.pks \union {p.id} ELSE mem.pks
             S == IF p.key THEN mem.sks \union {p.id} ELSE mem.sks
  <2>1. s.op = "put" /\ mem' = [store |-> st, pks |-> P, sks |-> S]
    BY <1>6 DEF PutProfile, MemPut
  <2>2. peersFile' = File(With(Stored(mem.store), p.id, Encode([p EXCEPT !.online = FALSE])))
    BY <1>4, <1>6 DEF PutProfile
  <2>3. StoreOK(st) /\ Stored(st) = With(Stored(mem.store), p.id, Encode([p EXCEPT !.online = FALSE]))
    BY <1>3, <1>4, StoredPut
  <2>4. peersFile' = File(Stored(st))
    BY <2>2, <2>3, Zenon
  <2>5. p.key => PubAdded(s, p.id) /\ PrivAdded(s, p.id)
    BY <1>1, <2>1 DEF PubAdded, PrivAdded
  <2>6. p.key => p.id \in K.pks /\ p.id \in K.sks
    BY <1>3, <2>5 DEF ProfilesOK, KeyFirst
  <2>7. \A i \in DOMAIN st : st[i].key => i \in K.pks /\ i \in K.sks
    BY <1>5, <2>6 DEF With
  <2>8. \A i \in Users : /\ i \in P => i \in mem.pks \/ i \in K.pks
                         /\ i \in S => i \in mem.sks \/ i \in K.sks
    BY <2>6
  <2>9. \A i \in Users : /\ PubAdded(s, i) => i \in P
                         /\ PrivAdded(s, i) => i \in S
    BY DEF PubAdded, PrivAdded
  <2>10. mem.pks \subseteq P /\ mem.sks \subseteq S
    OBVIOUS
  <2> HIDE DEF st, P, S
  <2> QED BY <1>1, <1>2, <2>1, <2>3, <2>4, <2>7, <2>8, <2>9, <2>10, PeersStep
<1>7. CASE DeleteProfile(t)
  <2> DEFINE st == Without(mem.store, p.id)
  <2>1. s.op = "delete" /\ mem' = [store |-> st, pks |-> mem.pks, sks |-> mem.sks]
    <3>1. s.op = "delete" /\ mem' = [mem EXCEPT !.store = st]
      BY <1>7 DEF DeleteProfile, MemDelete
    <3> HIDE DEF st
    <3> QED BY <1>4, <3>1
  <2>2. peersFile' = File(Without(Stored(mem.store), p.id))
    BY <1>4, <1>7 DEF DeleteProfile
  <2>3. StoreOK(st) /\ Stored(st) = Without(Stored(mem.store), p.id)
    BY <1>4, StoredDelete
  <2>4. peersFile' = File(Stored(st))
    BY <2>2, <2>3, Zenon
  <2>5. \A i \in DOMAIN st : st[i].key => i \in K.pks /\ i \in K.sks
    BY <1>5 DEF Without, Restrict
  <2>6. \A i \in Users : ~PubAdded(s, i) /\ ~PrivAdded(s, i)
    BY <2>1 DEF PubAdded, PrivAdded
  <2> HIDE DEF st
  <2> QED BY <1>1, <1>2, <2>1, <2>3, <2>4, <2>5, <2>6, PeersStep
<1> QED BY <1>6, <1>7

\* A process is killed, and no file is torn.
LEMMA KillKeeps ==
  ASSUME ProfilesOK, NEW p \in Procs, Kill(p), ~mixed'
  PROVE  ProfilesOK'
<1>1. /\ UNCHANGED <<peersFile, keysFile, mem>> /\ killed' = TRUE
      /\ th' = [t \in Threads |-> IF Proc(t) = p THEN Resting ELSE th[t]]
      /\ lock' = [lock EXCEPT ![p] = Free]
  BY DEF Kill
<1>2. /\ th' = [t \in Threads |-> th'[t]]
      /\ \A u \in Threads : th'[u] = Resting \/ (th'[u] = th[u] /\ Proc(u) # p)
  BY <1>1
<1>3. /\ lock' \in [Procs -> [peers : BOOLEAN, keys : BOOLEAN]]
      /\ \A q \in Procs \ {p} : lock'[q] = lock[q]
  BY <1>1 DEF ProfilesOK, Free
<1>4. Resting.at = "idle" /\ \A u \in Threads : Proc(u) \in Procs
  BY DEF Resting, Procs
<1>5. \A u \in Threads : ThreadOK(th[u])'
  BY <1>2 DEF ProfilesOK, ThreadOK
<1>6. \A u \in Threads : HoldsPeers(u)'
  <2> SUFFICES ASSUME NEW u \in Threads, th'[u].at = "peersFile"
      PROVE  /\ lock'[Proc(u)].peers = TRUE /\ th'[u].buf = peersFile.has
             /\ \A w \in Threads \ {u} : Proc(w) = Proc(u) => th'[w].at # "peersFile"
    BY <1>1 DEF HoldsPeers, Proc
  <2>1. th[u].at = "peersFile" /\ th'[u] = th[u] /\ Proc(u) # p
    BY <1>2, <1>4
  <2>2. /\ lock[Proc(u)].peers = TRUE /\ th[u].buf = peersFile.has
        /\ \A w \in Threads \ {u} : Proc(w) = Proc(u) => th[w].at # "peersFile"
    BY <2>1 DEF ProfilesOK, HoldsPeers
  <2> QED BY <1>2, <1>3, <1>4, <2>1, <2>2
<1>7. \A u \in Threads : HoldsKeys(u)'
  <2> SUFFICES ASSUME NEW u \in Threads, th'[u].at \in KeysAt
      PROVE  /\ lock'[Proc(u)].keys = TRUE /\ th'[u].buf = keysFile.has
             /\ \A w \in Threads \ {u} : Proc(w) = Proc(u) => th'[w].at \notin KeysAt
    BY <1>1 DEF HoldsKeys, Proc, KeysAt
  <2>1. th[u].at \in KeysAt /\ th'[u] = th[u] /\ Proc(u) # p
    BY <1>2, <1>4 DEF KeysAt
  <2>2. /\ lock[Proc(u)].keys = TRUE /\ th[u].buf = keysFile.has
        /\ \A w \in Threads \ {u} : Proc(w) = Proc(u) => th[w].at \notin KeysAt
    BY <2>1 DEF ProfilesOK, HoldsKeys
  <2> QED BY <1>2, <1>3, <1>4, <2>1, <2>2 DEF KeysAt
<1>8. KeyFirst' /\ KeyMeant'
  BY <1>1, <1>2 DEF ProfilesOK, KeyFirst, KeyMeant, PubAdded, PrivAdded, Resting
<1>9. /\ StoreOK(mem.store)' /\ (mem = [store |-> mem.store, pks |-> mem.pks, sks |-> mem.sks])'
      /\ (peersFile = File(Stored(mem.store)))'
      /\ (keysFile = File([pks |-> keysFile.has.pks, sks |-> keysFile.has.sks]))'
  BY <1>1 DEF ProfilesOK, StoreOK, Stored, File, Profile, Encode
<1> QED BY <1>2, <1>3, <1>5, <1>6, <1>7, <1>8, <1>9 DEF ProfilesOK

LEMMA ProfilesStart == ProfilesInit => ProfilesInv
<1> SUFFICES ASSUME ProfilesInit PROVE ProfilesInv
  OBVIOUS
<1>1. /\ mem.store = NoProfiles /\ mem.pks = {} /\ mem.sks = {} /\ DOMAIN NoProfiles = {}
      /\ mem = [store |-> mem.store, pks |-> mem.pks, sks |-> mem.sks]
  BY DEF ProfilesInit, NoProfiles
<1>2. NoProfiles = [i \in {} |-> NoProfiles[i]]
  BY DEF NoProfiles
<1>3. StoreOK(mem.store) /\ Stored(mem.store) = NoProfiles
  BY <1>1, <1>2 DEF StoreOK, Stored, NoProfiles
<1>4. peersFile = File(Stored(mem.store))
  BY <1>3 DEF ProfilesInit
<1>5. keysFile.has.pks = {} /\ keysFile.has.sks = {} /\ keysFile = File([pks |-> keysFile.has.pks, sks |-> keysFile.has.sks])
  BY DEF ProfilesInit, NoKeys, File
<1>6. lock \in [Procs -> [peers : BOOLEAN, keys : BOOLEAN]]
  BY DEF ProfilesInit, Free
<1>7. th = [t \in Threads |-> th[t]] /\ \A t \in Threads : th[t] = Resting /\ th[t].at = "idle"
  BY DEF ProfilesInit, Resting
<1>8. \A t \in Threads : ThreadOK(th[t]) /\ HoldsPeers(t) /\ HoldsKeys(t)
  BY <1>7 DEF ThreadOK, HoldsPeers, HoldsKeys, KeysAt
<1>9. KeyFirst /\ KeyMeant
  BY <1>1, <1>5, <1>7 DEF KeyFirst, KeyMeant
<1> QED BY <1>1, <1>3, <1>4, <1>5, <1>6, <1>7, <1>8, <1>9 DEF ProfilesInv, ProfilesOK, ProfilesInit

\* As long as no two processes changed a file at once, peers.json and keystore.json answer
\* every question as a MemStore would after the same calls, and a profile that was stored
\* with its key has it (LocalStore, localStore).
THEOREM ProfilesAreKept == ProfilesSpec => []ProfilesKept
<1>1. ProfilesInv /\ [ProfilesNext]_profVars => ProfilesInv'
  <2> SUFFICES ASSUME ProfilesInv, [ProfilesNext]_profVars PROVE ProfilesInv'
    OBVIOUS
  <2>1. mixed' \in BOOLEAN /\ killed' \in BOOLEAN /\ (mixed => mixed')
    BY DEF ProfilesInv, ProfilesNext, profVars, Begin, ReadKeys, AddPubKey, AddPrivKey, Look, ReadPeers,
           PutProfile, DeleteProfile, Kill, Crosses
  <2>2. CASE mixed'
    BY <2>1, <2>2 DEF ProfilesInv
  <2>3. CASE ~mixed'
    <3>1. ProfilesOK
      BY <2>1, <2>3 DEF ProfilesInv
    <3>2. CASE UNCHANGED profVars
      <4>1. \A t \in Threads : (ThreadOK(th[t]) /\ HoldsPeers(t) /\ HoldsKeys(t))'
        BY <3>1, <3>2 DEF profVars, ProfilesOK, ThreadOK, HoldsPeers, HoldsKeys, Proc
      <4>2. KeyFirst' /\ KeyMeant'
        BY <3>1, <3>2 DEF profVars, ProfilesOK, KeyFirst, KeyMeant, PubAdded, PrivAdded, Resting
      <4>3. /\ StoreOK(mem.store)' /\ (peersFile = File(Stored(mem.store)))'
            /\ (keysFile = File([pks |-> keysFile.has.pks, sks |-> keysFile.has.sks]))'
        BY <3>1, <3>2 DEF profVars, ProfilesOK, StoreOK, Stored, File, Profile, Encode
      <4> QED BY <2>1, <3>1, <3>2, <4>1, <4>2, <4>3 DEF profVars, ProfilesInv, ProfilesOK
    <3>3. ASSUME NEW t \in Threads, Begin(t) \/ Look(t) \/ ReadKeys(t) \/ ReadPeers(t)
          PROVE  ProfilesOK'
      BY <3>1, <3>3, QuietKeeps
    <3>4. ASSUME NEW t \in Threads, AddPubKey(t) \/ AddPrivKey(t)
          PROVE  ProfilesOK'
      BY <2>3, <3>1, <3>4, KeysKeep
    <3>5. ASSUME NEW t \in Threads, PutProfile(t) \/ DeleteProfile(t)
          PROVE  ProfilesOK'
      BY <2>3, <3>1, <3>5, PeersKeep
    <3>6. ASSUME NEW p \in Procs, Kill(p)
          PROVE  ProfilesOK'
      BY <2>3, <3>1, <3>6, KillKeeps
    <3>7. ProfilesNext \/ UNCHANGED profVars
      OBVIOUS
    <3> QED BY <2>1, <3>2, <3>3, <3>4, <3>5, <3>6, <3>7 DEF ProfilesNext, ProfilesInv
  <2> QED BY <2>2, <2>3
<1>2. ProfilesInv => ProfilesKept
  <2> SUFFICES ASSUME ProfilesOK PROVE ProfilesKept
    BY DEF ProfilesInv, ProfilesKept
  <2> DEFINE P == profilesOf(peersFile)
  <2>1. StoreOK(mem.store) /\ peersFile = File(Stored(mem.store)) /\ keys(keysFile) = keysFile.has
    <3>1. keysFile.torn = FALSE
      BY DEF ProfilesOK, File
    <3> QED BY <3>1 DEF ProfilesOK, keys
  <2>2. /\ DOMAIN P = DOMAIN mem.store
        /\ \A i \in DOMAIN mem.store : P[i].key = mem.store[i].key
        /\ \A i \in DOMAIN mem.store : Decode(P[i]).name = mem.store[i].name /\ Decode(P[i]).pids = mem.store[i].pids
    BY <2>1, StoredAnswers
  <2>3. /\ \A name : PeernameID(peersFile, name) = MemPeernameID(mem, name)
        /\ \A name : ProfilesForUsername(peersFile, name) = MemProfilesForUsername(mem, name)
        /\ \A pid : PeerProfile(peersFile, pid) = MemPeerProfile(mem, pid)
        /\ List(peersFile) = MemList(mem)
        /\ \A i : PeerIDs(peersFile, i) = MemPeerIDs(mem, i)
    BY <2>1, StoredAnswers
  <2> HIDE DEF P
  <2>4. ASSUME NEW id \in DOMAIN P, P[id].key, NEW got \in GetProfile(peersFile, keysFile, id)
        PROVE  got.pub /\ got.priv
    <3>1. id \in keysFile.has.pks /\ id \in keysFile.has.sks
      BY <2>2, <2>4 DEF ProfilesOK, KeyFirst
    <3>2. PICK x : got = [name |-> x.name, pids |-> x.pids, pub |-> id \in keysFile.has.pks, priv |-> id \in keysFile.has.sks]
      BY <2>1 DEF GetProfile
    <3> QED BY <3>1, <3>2
  <2>5. ASSUME NEW id \in DOMAIN P, \A t \in Threads : th[t] = Resting, ~killed, id # Own
        PROVE  GetProfile(peersFile, keysFile, id) = MemGet(mem, id)
    <3>1. id \in Users \ {Own}
      BY <2>1, <2>2, <2>5 DEF StoreOK
    <3>2. (id \in keysFile.has.pks <=> id \in mem.pks) /\ (id \in keysFile.has.sks <=> id \in mem.sks)
      BY <2>5, <3>1 DEF ProfilesOK, KeyMeant
    <3> DEFINE g == [name |-> Decode(P[id]).name, pids |-> Decode(P[id]).pids,
                     pub |-> id \in keysFile.has.pks, priv |-> id \in keysFile.has.sks]
               h == [name |-> mem.store[id].name, pids |-> mem.store[id].pids, pub |-> id \in mem.pks, priv |-> id \in mem.sks]
    <3>3. GetProfile(peersFile, keysFile, id) = {g}
      BY <2>1 DEF GetProfile, P
    <3>4. MemGet(mem, id) = {h}
      BY <2>2 DEF MemGet
    <3>5. g = h
      BY <2>2, <3>2
    <3> QED BY <3>3, <3>4, <3>5
  <2> QED BY <2>3, <2>4, <2>5 DEF ProfilesKept, P
<1> QED BY <1>1, <1>2, ProfilesStart, PTL DEF ProfilesSpec

-----------------------------------------------------------------------------
(* Listing a history. *)

\* A listing under way.
Walk == [kind : {"list", "construct"}, asked : Nat \X Nat,
         caller : {"select", "ok", "timeout", "write"}, walker : {"load", "send", "done", "gone"},
         path : 1 .. Newest, offset : Int, limit : Int, log : Seq(Nat)]

\* How many versions the page has.
PageLen(offset, limit) ==
  IF offset >= Newest THEN 0 ELSE IF offset + limit < Newest THEN limit ELSE Newest - offset

\* How many versions the walker has passed that belong to the page.
Passed(k) == IF Newest - k.path > k.asked[1] THEN Newest - k.path - k.asked[1] ELSE 0

\* The list holds the page as far as the walker has come, and all of it once he
\* says that he is done: the offset counts down with the path, the limit with
\* the list.
WalkOK(k) ==
  /\ k \in Walk /\ k.asked[2] >= 1
  /\ k.offset = k.asked[1] - Newest + k.path
  /\ k.limit = k.asked[2] - Len(k.log)
  /\ \A i \in 1 .. Len(k.log) : k.log[i] = Newest + 1 - k.asked[1] - i
  /\ Len(k.log) <= PageLen(k.asked[1], k.asked[2])
  /\ k.walker \in {"load", "send"} => k.limit >= 1 /\ Len(k.log) = Passed(k)
  /\ k.walker = "send" => k.offset <= 0
  /\ k.walker = "done" => Len(k.log) = PageLen(k.asked[1], k.asked[2])
  /\ k.caller \in {"ok", "write"} => k.walker = "gone" /\ Len(k.log) = PageLen(k.asked[1], k.asked[2])
  /\ k.kind = "construct" => k.asked = <<0, AllVersions>>
  /\ k.caller = "write" => k.kind = "construct"

\* Every listing is right, and so is every log made from one.
WalkInv ==
  /\ parts \in [1 .. Newest -> SUBSET Components]
  /\ walks \in [Walkers -> Walk \union {NoWalk}]
  /\ \A w \in Walkers : walks[w] = NoWalk \/ WalkOK(walks[w])
  /\ made \in Seq(Seq(Nat))
  /\ \A i \in 1 .. Len(made) : HoldsAll(made[i])

\* Two lists with the same elements are the same.
LEMMA SameList ==
  ASSUME NEW s \in Seq(Nat), NEW t \in Seq(Nat), Len(s) = Len(t),
         \A i \in 1 .. Len(s) : s[i] = t[i]
  PROVE  s = t
OBVIOUS

\* A page, version by version.
LEMMA PageIs ==
  ASSUME NEW o \in Nat, NEW l \in Nat
  PROVE  /\ Slice(o, l) \in Seq(Nat) /\ Len(Slice(o, l)) = PageLen(o, l) /\ PageLen(o, l) \in Nat
         /\ \A i \in 1 .. PageLen(o, l) : Slice(o, l)[i] = Newest + 1 - o - i
<1>0. Newest \in Nat /\ Newest >= 1
  BY WalkAssumption
<1> DEFINE all == [i \in 1 .. Newest |-> Newest + 1 - i]
           to == IF o + l < Newest THEN o + l ELSE Newest
           page == SubSeq(all, o + 1, to)
<1>1. all \in Seq(Nat) /\ Len(all) = Newest /\ \A i \in 1 .. Newest : all[i] = Newest + 1 - i
  <2>1. \A i \in 1 .. Newest : Newest + 1 - i \in Nat
    BY <1>0
  <2>2. all \in [1 .. Newest -> Nat]
    BY <2>1
  <2>3. all \in Seq(Nat)
    BY <1>0, <2>2
  <2> QED BY <1>0, <2>2, <2>3
<1>2. CASE o >= Newest
  <2>1. Slice(o, l) = <<>> /\ PageLen(o, l) = 0
    BY <1>2 DEF Slice, PageLen
  <2> QED BY <2>1
<1>3. CASE ~(o >= Newest)
  <2>1. Slice(o, l) = page
    BY <1>3 DEF Slice
  <2>2. to \in Nat /\ to <= Newest /\ o <= to /\ PageLen(o, l) = to - o
    BY <1>0, <1>3 DEF PageLen
  <2> HIDE DEF all, to
  <2>3. page \in Seq(Nat) /\ Len(page) = to - o /\ \A i \in 1 .. (to - o) : page[i] = all[o + i]
    <3>1. \A i \in (o + 1) .. to : i \in 1 .. Len(all)
      BY <1>0, <1>1, <2>2
    <3>2. page = [i \in 1 .. (to - o) |-> all[o + i]]
      BY <1>0, <1>1, <2>2, <3>1
    <3> HIDE DEF page
    <3>3. \A i \in 1 .. (to - o) : o + i \in 1 .. Newest /\ all[o + i] \in Nat
      BY <1>0, <1>1, <2>2
    <3>4. page \in [1 .. (to - o) -> Nat] /\ to - o \in Nat
      <4> DEFINE m == to - o
                 p(i) == all[o + i]
      <4>1. page = [i \in 1 .. m |-> p(i)] /\ \A i \in 1 .. m : p(i) \in Nat
        BY <3>2, <3>3
      <4>2. m \in Nat
        BY <2>2
      <4> HIDE DEF m, p
      <4>3. page \in [1 .. m -> Nat]
        BY <4>1
      <4> QED BY <4>2, <4>3 DEF m
    <3>5. page \in Seq(Nat)
      BY <3>4
    <3> QED BY <3>2, <3>4, <3>5
  <2> HIDE DEF page
  <2>4. ASSUME NEW i \in 1 .. PageLen(o, l) PROVE page[i] = Newest + 1 - o - i
    <3>1. i \in 1 .. (to - o) /\ o + i \in 1 .. Newest
      BY <1>0, <2>2
    <3>2. page[i] = Newest + 1 - (o + i)
      BY <1>1, <2>3, <3>1
    <3> QED BY <1>0, <3>1, <3>2
  <2>5. PageLen(o, l) \in Nat
    BY <2>2
  <2> QED BY <2>1, <2>2, <2>3, <2>4, <2>5
<1> QED BY <1>2, <1>3

\* The page without offset or limit holds every version.
LEMMA AllHeld == HoldsAll(Slice(0, AllVersions))
<1>0. Newest \in Nat /\ Newest >= 1 /\ AllVersions \in Nat /\ AllVersions > Newest
  BY WalkAssumption
<1>1. /\ Slice(0, AllVersions) \in Seq(Nat) /\ Len(Slice(0, AllVersions)) = PageLen(0, AllVersions)
      /\ \A i \in 1 .. PageLen(0, AllVersions) : Slice(0, AllVersions)[i] = Newest + 1 - 0 - i
  BY <1>0, PageIs
<1>2. PageLen(0, AllVersions) = Newest
  BY <1>0 DEF PageLen
<1> DEFINE page == Slice(0, AllVersions)
<1>3. Len(page) = Newest /\ \A i \in 1 .. Newest : page[i] = Newest + 1 - i
  BY <1>0, <1>1, <1>2
<1> HIDE DEF page
<1>4. ASSUME NEW v \in 1 .. Newest PROVE \E i \in 1 .. Newest : page[i] = v
  <2>1. Newest + 1 - v \in 1 .. Newest /\ Newest + 1 - (Newest + 1 - v) = v
    BY <1>0
  <2> QED BY <1>3, <2>1
<1> QED BY <1>3, <1>4 DEF HoldsAll, page

\* What a listing under way is made of.
LEMMA WalkParts ==
  ASSUME NEW k, WalkOK(k)
  PROVE  /\ k.asked[1] \in Nat /\ k.asked[2] \in Nat /\ k.asked[2] >= 1
         /\ k.path \in Int /\ 1 <= k.path /\ k.path <= Newest
         /\ k.log \in Seq(Nat) /\ Len(k.log) \in Nat /\ k.offset \in Int /\ k.limit \in Int
         /\ k.walker \in {"load", "send", "done", "gone"}
         /\ k.caller \in {"select", "ok", "timeout", "write"}
         /\ Newest \in Nat /\ Newest >= 1 /\ k \in Walk
BY WalkAssumption DEF WalkOK, Walk

\* The versions listed are the first ones of the page.
LEMMA ListedIsPage ==
  ASSUME NEW k, WalkOK(k)
  PROVE  LET page == Slice(k.asked[1], k.asked[2]) IN
         /\ IsPrefix(k.log, page)
         /\ Len(k.log) = PageLen(k.asked[1], k.asked[2]) => k.log = page
<1> DEFINE o == k.asked[1]
           l == k.asked[2]
           page == Slice(o, l)
           s == k.log
<1>1. o \in Nat /\ l \in Nat /\ s \in Seq(Nat) /\ Len(s) \in Nat
  BY WalkParts
<1>2. Len(s) <= PageLen(o, l) /\ \A i \in 1 .. Len(s) : s[i] = Newest + 1 - o - i
  BY DEF WalkOK
<1> HIDE DEF o, l, s
<1>3. /\ page \in Seq(Nat) /\ Len(page) = PageLen(o, l) /\ PageLen(o, l) \in Nat
      /\ \A i \in 1 .. PageLen(o, l) : page[i] = Newest + 1 - o - i
  BY <1>1, PageIs
<1> HIDE DEF page
<1>4. \A i \in 1 .. Len(s) : s[i] = page[i]
  BY <1>1, <1>2, <1>3
<1>5. IsPrefix(s, page)
  BY <1>1, <1>2, <1>3, <1>4 DEF IsPrefix
<1>6. Len(s) = PageLen(o, l) => s = page
  BY <1>1, <1>3, <1>4, SameList
<1> QED BY <1>5, <1>6 DEF o, l, s, page

\* A new listing.
LEMMA StartOK ==
  ASSUME NEW kind \in {"list", "construct"}, NEW o \in Nat, NEW l \in Nat, l >= 1,
         kind = "construct" => o = 0 /\ l = AllVersions
  PROVE  WalkOK(Start(kind, o, l))
<1> DEFINE k == Start(kind, o, l)
<1>0. Newest \in Nat /\ Newest >= 1
  BY WalkAssumption
<1>1. /\ k.kind = kind /\ k.asked = <<o, l>> /\ k.caller = "select" /\ k.walker = "load"
      /\ k.path = Newest /\ k.offset = o /\ k.limit = l /\ k.log = <<>>
  BY DEF Start
<1>2. k \in Walk
  BY <1>0 DEF Walk, Start
<1> HIDE DEF k
<1>3. k.asked[1] = o /\ k.asked[2] = l /\ Len(k.log) = 0
  BY <1>1
<1>4. PageLen(o, l) \in Nat
  BY PageIs
<1>5. Passed(k) = 0
  BY <1>0, <1>1, <1>3 DEF Passed
<1>6. k.offset = k.asked[1] - Newest + k.path
  BY <1>0, <1>1, <1>3
<1> QED BY <1>0, <1>1, <1>2, <1>3, <1>4, <1>5, <1>6 DEF WalkOK, k

\* The counting of the walker: o versions are passed over, l are asked for, n
\* are listed, and p is the version he is at.
LEMMA CountBack ==
  ASSUME NEW o \in Nat, NEW l \in Nat, NEW n \in Nat, NEW p \in Int, 1 <= p, p <= Newest,
         l - n >= 1, n = IF Newest - p + 1 > o THEN Newest - p + 1 - o ELSE 0
  PROVE  /\ n <= PageLen(o, l)
         /\ p = 1 => n = PageLen(o, l)
         /\ n = IF Newest - (p - 1) > o THEN Newest - (p - 1) - o ELSE 0
         /\ p # 1 => p - 1 \in 1 .. Newest
         /\ (o - Newest + p) - 1 = o - Newest + (p - 1) /\ (o - Newest + p) - 1 \in Int
<1>0. Newest \in Nat /\ Newest >= 1
  BY WalkAssumption
<1> QED BY <1>0 DEF PageLen

\* The numbers when a version is handed over: it is the next of the page, and the
\* last one when the limit is used up.
LEMMA CountSend ==
  ASSUME NEW o \in Nat, NEW l \in Nat, NEW n \in Nat, NEW p \in Int, 1 <= p, p <= Newest,
         o - Newest + p <= 0, l - n >= 1, n = IF Newest - p > o THEN Newest - p - o ELSE 0
  PROVE  /\ p = Newest + 1 - o - (n + 1)
         /\ (l - n) - 1 = 0 => n + 1 = l /\ n + 1 = PageLen(o, l)
         /\ (l - n) - 1 # 0 => (l - n) - 1 >= 1
         /\ (l - n) - 1 = l - (n + 1) /\ (l - n) - 1 \in Int
         /\ n + 1 = IF Newest - p + 1 > o THEN Newest - p + 1 - o ELSE 0
<1>0. Newest \in Nat /\ Newest >= 1
  BY WalkAssumption
<1> QED BY <1>0 DEF PageLen

\* The walker goes back one version, or has come to the end: what is listed is
\* what belongs to the page of the versions down to the one he leaves.
LEMMA BackOK ==
  ASSUME NEW k \in Walk, k.asked[2] >= 1, k.caller \in {"select", "timeout"},
         k.offset = k.asked[1] - Newest + k.path,
         k.limit = k.asked[2] - Len(k.log), k.limit >= 1,
         \A i \in 1 .. Len(k.log) : k.log[i] = Newest + 1 - k.asked[1] - i,
         Len(k.log) = (IF Newest - k.path + 1 > k.asked[1] THEN Newest - k.path + 1 - k.asked[1] ELSE 0),
         k.kind = "construct" => k.asked = <<0, AllVersions>>
  PROVE  WalkOK(Back(k))
<1> DEFINE b == Back(k)
           o == k.asked[1]
           l == k.asked[2]
           n == Len(k.log)
           q == k.path
           f == k.offset - 1
<1>1. o \in Nat /\ l \in Nat /\ n \in Nat /\ q \in Int /\ 1 <= q /\ q <= Newest
  BY WalkAssumption DEF Walk
<1>2. l - n >= 1 /\ n = IF Newest - q + 1 > o THEN Newest - q + 1 - o ELSE 0
  OBVIOUS
<1>3. f = (o - Newest + q) - 1
  OBVIOUS
<1> HIDE DEF o, l, n, q, f
<1>4. /\ n <= PageLen(o, l)
      /\ q = 1 => n = PageLen(o, l)
      /\ n = IF Newest - (q - 1) > o THEN Newest - (q - 1) - o ELSE 0
      /\ q # 1 => q - 1 \in 1 .. Newest
      /\ (o - Newest + q) - 1 = o - Newest + (q - 1) /\ (o - Newest + q) - 1 \in Int
  BY <1>1, <1>2, CountBack
<1>5. CASE q = 1
  <2>1. b = [k EXCEPT !.walker = "done"]
    BY <1>5 DEF Back, q
  <2>2. b \in Walk
    BY <2>1 DEF Walk
  <2>3. /\ b.walker = "done" /\ b.kind = k.kind /\ b.asked = k.asked /\ b.caller = k.caller
        /\ b.path = k.path /\ b.offset = k.offset /\ b.limit = k.limit /\ b.log = k.log
    BY <2>1 DEF Walk
  <2> HIDE DEF b
  <2>4. Len(b.log) <= PageLen(b.asked[1], b.asked[2]) /\ Len(b.log) = PageLen(b.asked[1], b.asked[2])
    BY <1>4, <1>5, <2>3 DEF o, l, n
  <2>5. WalkOK(b)
    BY <2>2, <2>3, <2>4 DEF WalkOK
  <2> QED BY <2>5 DEF b
<1>6. CASE q # 1
  <2> DEFINE p == q - 1
  <2>1. b = [k EXCEPT !.walker = "load", !.path = p, !.offset = f]
    BY <1>6 DEF Back, q, f
  <2>2. p \in 1 .. Newest /\ f \in Int /\ f = o - Newest + p
    BY <1>3, <1>4, <1>6
  <2>3. n = IF Newest - p > o THEN Newest - p - o ELSE 0
    BY <1>4
  <2> HIDE DEF p
  <2>4. b \in Walk
    BY <2>1, <2>2 DEF Walk
  <2>5. /\ b.walker = "load" /\ b.kind = k.kind /\ b.asked = k.asked /\ b.caller = k.caller
        /\ b.path = p /\ b.offset = f /\ b.limit = k.limit /\ b.log = k.log
    BY <2>1 DEF Walk
  <2> HIDE DEF b
  <2>6. Len(b.log) = Passed(b) /\ Len(b.log) <= PageLen(b.asked[1], b.asked[2])
    BY <1>4, <2>3, <2>5 DEF Passed, o, l, n
  <2>7. b.offset = b.asked[1] - Newest + b.path
    BY <2>2, <2>5 DEF o
  <2>8. WalkOK(b)
    BY <2>4, <2>5, <2>6, <2>7 DEF WalkOK
  <2> QED BY <2>8 DEF b
<1> QED BY <1>5, <1>6

\* What the walker does with a version he can load, or cannot.
LoadsTo(k) == IF k.path \notin here THEN [k EXCEPT !.walker = "gone"]
              ELSE IF k.offset <= 0 THEN [k EXCEPT !.walker = "send"] ELSE Back(k)

\* That keeps the list the page so far.
LEMMA LoadsOK ==
  ASSUME NEW k, WalkOK(k), k.walker = "load"
  PROVE  WalkOK(LoadsTo(k))
<1>1. /\ k.asked[1] \in Nat /\ k.asked[2] \in Nat /\ k.asked[2] >= 1
      /\ k.path \in Int /\ 1 <= k.path /\ k.path <= Newest
      /\ k.log \in Seq(Nat) /\ Len(k.log) \in Nat /\ k.offset \in Int /\ k.limit \in Int
      /\ k.caller \in {"select", "ok", "timeout", "write"}
      /\ Newest \in Nat /\ Newest >= 1 /\ k \in Walk
  BY WalkParts
<1>2. ASSUME NEW x \in {"gone", "send"}, x = "send" => k.offset <= 0
      PROVE  WalkOK([k EXCEPT !.walker = x])
  <2> DEFINE b == [k EXCEPT !.walker = x]
  <2>1. b \in Walk
    BY <1>1, <1>2 DEF Walk
  <2>2. /\ b.walker = x /\ b.kind = k.kind /\ b.asked = k.asked /\ b.caller = k.caller
        /\ b.path = k.path /\ b.offset = k.offset /\ b.limit = k.limit /\ b.log = k.log
    BY <1>1 DEF Walk
  <2> HIDE DEF b
  <2>3. Passed(b) = Passed(k)
    BY <2>2 DEF Passed
  <2>4. WalkOK(b)
    BY <1>2, <2>1, <2>2, <2>3 DEF WalkOK
  <2> QED BY <2>4 DEF b
<1>3. CASE k.path \in here /\ ~(k.offset <= 0)
  <2>1. LoadsTo(k) = Back(k)
    BY <1>3 DEF LoadsTo
  <2>2. /\ k.caller \in {"select", "timeout"} /\ k.limit >= 1 /\ Len(k.log) = Passed(k)
        /\ k.offset = k.asked[1] - Newest + k.path /\ k.limit = k.asked[2] - Len(k.log)
        /\ \A i \in 1 .. Len(k.log) : k.log[i] = Newest + 1 - k.asked[1] - i
        /\ k.kind = "construct" => k.asked = <<0, AllVersions>>
    BY <1>1 DEF WalkOK
  <2>3. Len(k.log) = (IF Newest - k.path + 1 > k.asked[1] THEN Newest - k.path + 1 - k.asked[1] ELSE 0)
    BY <1>1, <1>3, <2>2 DEF Passed
  <2> QED BY <1>1, <2>1, <2>2, <2>3, BackOK
<1> QED BY <1>2, <1>3 DEF LoadsTo

\* What walker and caller do with a version that is handed over.
SendsTo(k) == LET sent == [k EXCEPT !.log = Append(@, k.path), !.limit = @ - 1] IN
              IF sent.limit = 0 THEN [sent EXCEPT !.walker = "done"] ELSE Back(sent)

\* So does that, with the version as the next of the page.
LEMMA SendsOK ==
  ASSUME NEW k, WalkOK(k), k.walker = "send", k.caller = "select"
  PROVE  WalkOK(SendsTo(k))
<1> DEFINE t == Append(k.log, k.path)
           m == k.limit - 1
           s == [k EXCEPT !.log = t, !.limit = m]
           o == k.asked[1]
           l == k.asked[2]
           n == Len(k.log)
           q == k.path
<1>1. /\ o \in Nat /\ l \in Nat /\ n \in Nat /\ q \in Nat /\ 1 <= q /\ q <= Newest
      /\ l >= 1 /\ k.log \in Seq(Nat) /\ k \in Walk
  BY WalkParts
<1>2. /\ l - n >= 1 /\ n = (IF Newest - q > o THEN Newest - q - o ELSE 0)
      /\ o - Newest + q <= 0 /\ m = (l - n) - 1
  BY DEF WalkOK, Passed
<1>3. /\ \A i \in 1 .. n : k.log[i] = Newest + 1 - o - i
      /\ k.offset = o - Newest + q
      /\ k.kind = "construct" => k.asked = <<0, AllVersions>>
  BY DEF WalkOK
<1>4. SendsTo(k) = IF s.limit = 0 THEN [s EXCEPT !.walker = "done"] ELSE Back(s)
  BY DEF SendsTo
<1>5. /\ t \in Seq(Nat) /\ Len(t) = n + 1 /\ t[n + 1] = q
      /\ \A i \in 1 .. n : t[i] = k.log[i]
  BY <1>1
<1> HIDE DEF t, m, o, l, n, q
<1>6. /\ q = Newest + 1 - o - (n + 1)
      /\ (l - n) - 1 = 0 => n + 1 = l /\ n + 1 = PageLen(o, l)
      /\ (l - n) - 1 # 0 => (l - n) - 1 >= 1
      /\ (l - n) - 1 = l - (n + 1) /\ (l - n) - 1 \in Int
      /\ n + 1 = IF Newest - q + 1 > o THEN Newest - q + 1 - o ELSE 0
  BY <1>1, <1>2, CountSend, SMTT(30)
<1>7. /\ s.walker = k.walker /\ s.kind = k.kind /\ s.asked = k.asked /\ s.caller = k.caller
      /\ s.path = k.path /\ s.offset = k.offset /\ s.limit = m /\ s.log = t
  BY <1>1 DEF Walk
<1>8. s \in Walk
  BY <1>1, <1>2, <1>5, <1>6 DEF Walk
<1> HIDE DEF s
<1>9. ASSUME NEW i \in 1 .. Len(t) PROVE t[i] = Newest + 1 - o - i
  <2>1. CASE i = n + 1
    BY <1>5, <1>6, <2>1
  <2>2. CASE i # n + 1
    <3>1. i \in 1 .. n
      BY <1>1, <1>5, <2>2
    <3> QED BY <1>3, <1>5, <3>1
  <2> QED BY <2>1, <2>2
<1>10. CASE m = 0
  <2> DEFINE b == [s EXCEPT !.walker = "done"]
  <2>1. SendsTo(k) = b
    BY <1>4, <1>7, <1>10
  <2>2. b \in Walk
    BY <1>8 DEF Walk
  <2>3. /\ b.walker = "done" /\ b.kind = k.kind /\ b.asked = k.asked /\ b.caller = k.caller
        /\ b.path = k.path /\ b.offset = k.offset /\ b.limit = m /\ b.log = t
    BY <1>7, <1>8 DEF Walk
  <2> HIDE DEF b
  <2>4. Len(t) = l /\ Len(t) = PageLen(o, l) /\ Len(t) <= PageLen(o, l) /\ m = l - Len(t)
    <3>1. n + 1 <= n + 1
      BY <1>1
    <3> QED BY <1>2, <1>5, <1>6, <1>10, <3>1
  <2>5. /\ b.asked[2] >= 1 /\ b.offset = b.asked[1] - Newest + b.path
        /\ b.limit = b.asked[2] - Len(b.log)
        /\ \A i \in 1 .. Len(b.log) : b.log[i] = Newest + 1 - b.asked[1] - i
        /\ Len(b.log) <= PageLen(b.asked[1], b.asked[2])
        /\ Len(b.log) = PageLen(b.asked[1], b.asked[2])
    BY <1>1, <1>3, <1>9, <2>3, <2>4 DEF o, l, q
  <2>6. WalkOK(b)
    BY <1>3, <2>2, <2>3, <2>5 DEF WalkOK
  <2> QED BY <2>1, <2>6
<1>11. CASE m # 0
  <2>1. SendsTo(k) = Back(s)
    BY <1>4, <1>7, <1>11
  <2>2. m >= 1 /\ m = l - Len(t)
    BY <1>2, <1>5, <1>6, <1>11
  <2>3. Len(t) = (IF Newest - q + 1 > o THEN Newest - q + 1 - o ELSE 0)
    BY <1>5, <1>6
  <2>4. /\ s.asked[2] >= 1 /\ s.caller \in {"select", "timeout"}
        /\ s.offset = s.asked[1] - Newest + s.path
        /\ s.limit = s.asked[2] - Len(s.log) /\ s.limit >= 1
        /\ \A i \in 1 .. Len(s.log) : s.log[i] = Newest + 1 - s.asked[1] - i
        /\ Len(s.log) = (IF Newest - s.path + 1 > s.asked[1] THEN Newest - s.path + 1 - s.asked[1] ELSE 0)
        /\ s.kind = "construct" => s.asked = <<0, AllVersions>>
    BY <1>1, <1>3, <1>7, <1>9, <2>2, <2>3 DEF o, l, q
  <2> QED BY <1>8, <2>1, <2>4, BackOK
<1> QED BY <1>10, <1>11

\* A listing whose caller or walker has moved on.
LEMMA MovedOK ==
  ASSUME NEW k, WalkOK(k), NEW c \in {"ok", "timeout", "write"}, NEW x \in {k.walker, "gone"},
         c = "timeout" => k.caller = "select" /\ x = k.walker,
         c = "ok" => k.walker = "done" /\ x = "gone",
         c = "write" => k.caller = "ok" /\ k.kind = "construct" /\ x = k.walker
  PROVE  WalkOK([k EXCEPT !.caller = c, !.walker = x])
<1> DEFINE b == [k EXCEPT !.caller = c, !.walker = x]
<1>1. k \in Walk /\ k.walker \in {"load", "send", "done", "gone"}
  BY WalkParts
<1>2. b \in Walk
  BY <1>1 DEF Walk
<1>3. /\ b.walker = x /\ b.kind = k.kind /\ b.asked = k.asked /\ b.caller = c
      /\ b.path = k.path /\ b.offset = k.offset /\ b.limit = k.limit /\ b.log = k.log
  BY <1>1 DEF Walk
<1> HIDE DEF b
<1>4. Passed(b) = Passed(k)
  BY <1>3 DEF Passed
<1>5. WalkOK(b)
  BY <1>2, <1>3, <1>4 DEF WalkOK
<1> QED BY <1>5 DEF b

\* A step of one listing.
LEMMA OneWalk ==
  ASSUME WalkInv, NEW w \in Walkers, NEW x, x = NoWalk \/ WalkOK(x),
         walks' = [walks EXCEPT ![w] = x], parts' = parts, made' = made
  PROVE  WalkInv'
<1>1. x \in Walk \union {NoWalk}
  BY WalkParts
<1>2. walks \in [Walkers -> Walk \union {NoWalk}]
  BY DEF WalkInv
<1>3. /\ walks' \in [Walkers -> Walk \union {NoWalk}]
      /\ walks'[w] = x /\ \A v \in Walkers \ {w} : walks'[v] = walks[v]
  BY <1>1, <1>2
<1>4. \A v \in Walkers : walks'[v] = NoWalk \/ WalkOK(walks'[v])
  BY <1>3 DEF WalkInv
<1> QED BY <1>3, <1>4 DEF WalkInv

\* A listing that has begun is one that holds its page so far.
LEMMA Begun ==
  ASSUME WalkInv, NEW w \in Walkers, walks[w].caller # "idle"
  PROVE  WalkOK(walks[w])
BY DEF WalkInv, NoWalk

\* Every step keeps the listings and the logs made from them right.
LEMMA WalkStep ==
  ASSUME WalkInv, [WalkNext]_walkVars
  PROVE  WalkInv'
<1>0. Newest \in Nat /\ Newest >= 1 /\ AllVersions \in Nat /\ AllVersions >= 1
  BY WalkAssumption
<1>1. CASE UNCHANGED walkVars
  BY <1>1 DEF walkVars, WalkInv
<1>2. CASE WalkNext
  <2>1. PICK w \in Walkers :
          \/ \E offset \in -1 .. Newest, limit \in 0 .. Newest : Log(w, offset, limit)
          \/ Loads(w) \/ Sends(w) \/ Finishes(w) \/ TimesOut(w)
          \/ \E own \in BOOLEAN : Answers(w, own)
          \/ ChecksLog(w) \/ WritesLog(w)
    BY <1>2 DEF WalkNext
  <2> DEFINE k == walks[w]
  <2>0. k \in Walk \union {NoWalk} /\ walks \in [Walkers -> Walk \union {NoWalk}]
    BY DEF WalkInv
  <2>2. ASSUME NEW offset \in -1 .. Newest, NEW limit \in 0 .. Newest, Log(w, offset, limit)
        PROVE  WalkInv'
    <3> DEFINE o == IF offset < 0 THEN 0 ELSE offset
               l == IF limit <= 0 THEN AllVersions ELSE limit
    <3>1. o \in Nat /\ l \in Nat /\ l >= 1
      BY <1>0
    <3>2. walks' = [walks EXCEPT ![w] = Start("list", o, l)] /\ parts' = parts /\ made' = made
      BY <2>2 DEF Log, DatasetLog
    <3> HIDE DEF o, l
    <3>3. WalkOK(Start("list", o, l))
      BY <3>1, StartOK
    <3> QED BY <3>2, <3>3, OneWalk
  <2>3. CASE Loads(w)
    <3>1. walks' = [walks EXCEPT ![w] = LoadsTo(k)] /\ parts' = parts /\ made' = made
      BY <2>3 DEF Loads, LoadsTo
    <3>2. WalkOK(k) /\ k.walker = "load"
      BY <2>3, Begun DEF Loads
    <3> HIDE DEF k
    <3> QED BY <3>1, <3>2, LoadsOK, OneWalk
  <2>4. CASE Sends(w)
    <3>1. walks' = [walks EXCEPT ![w] = SendsTo(k)] /\ parts' = parts /\ made' = made
      BY <2>4 DEF Sends, SendsTo
    <3>2. WalkOK(k) /\ k.walker = "send" /\ k.caller = "select"
      BY <2>4, Begun DEF Sends
    <3> HIDE DEF k
    <3> QED BY <3>1, <3>2, SendsOK, OneWalk
  <2>5. CASE Finishes(w)
    <3> DEFINE b == [k EXCEPT !.caller = "ok", !.walker = "gone"]
    <3>1. WalkOK(k) /\ k.walker = "done" /\ k.caller = "select"
      BY <2>5, Begun DEF Finishes
    <3>2. walks' = [walks EXCEPT ![w] = b] /\ parts' = parts /\ made' = made
      BY <2>0, <2>5 DEF Finishes
    <3>3. WalkOK(b)
      BY <3>1, MovedOK
    <3> HIDE DEF b
    <3> QED BY <3>2, <3>3, OneWalk
  <2>6. CASE TimesOut(w)
    <3> DEFINE b == [k EXCEPT !.caller = "timeout"]
    <3>1. WalkOK(k) /\ k.caller = "select" /\ k \in Walk
      BY <2>6, Begun, WalkParts DEF TimesOut
    <3>2. walks' = [walks EXCEPT ![w] = b] /\ parts' = parts /\ made' = made
      BY <2>0, <2>6 DEF TimesOut
    <3>3. b = [k EXCEPT !.caller = "timeout", !.walker = k.walker]
      BY <3>1 DEF Walk
    <3>4. WalkOK(b)
      BY <3>1, <3>3, MovedOK
    <3> HIDE DEF b
    <3> QED BY <3>2, <3>4, OneWalk
  <2>7. ASSUME NEW own \in BOOLEAN, Answers(w, own) PROVE WalkInv'
    <3> DEFINE x == IF k.caller = "ok" /\ own THEN Start("construct", 0, AllVersions) ELSE NoWalk
    <3>1. walks' = [walks EXCEPT ![w] = x] /\ parts' = parts /\ made' = made
      BY <2>7 DEF Answers
    <3>2. WalkOK(Start("construct", 0, AllVersions))
      BY <1>0, StartOK
    <3>3. x = NoWalk \/ WalkOK(x)
      BY <3>2
    <3> HIDE DEF x
    <3> QED BY <3>1, <3>3, OneWalk
  <2>8. CASE ChecksLog(w)
    <3> DEFINE b == [k EXCEPT !.caller = "write"]
               x == IF k.caller = "ok" /\ made = <<>> THEN b ELSE NoWalk
    <3>1. walks' = [walks EXCEPT ![w] = x] /\ parts' = parts /\ made' = made
      BY <2>8 DEF ChecksLog
    <3>2. WalkOK(k) /\ k.kind = "construct" /\ k \in Walk
      BY <2>8, Begun, WalkParts DEF ChecksLog
    <3>3. b = [k EXCEPT !.caller = "write", !.walker = k.walker]
      BY <3>2 DEF Walk
    <3>4. k.caller = "ok" => WalkOK(b)
      BY <3>2, <3>3, MovedOK
    <3>5. x = NoWalk \/ WalkOK(x)
      BY <3>4
    <3> HIDE DEF x
    <3> QED BY <3>1, <3>5, OneWalk
  <2>9. CASE WritesLog(w)
    <3>1. /\ walks' = [walks EXCEPT ![w] = NoWalk] /\ parts' = parts
          /\ made' = Append(made, k.log) /\ k.caller = "write"
      BY <2>9 DEF WritesLog
    <3>2. WalkOK(k)
      BY <3>1, Begun
    <3>3. k.asked = <<0, AllVersions>> /\ Len(k.log) = PageLen(k.asked[1], k.asked[2]) /\ k.log \in Seq(Nat)
      BY <3>1, <3>2, WalkParts DEF WalkOK
    <3>4. k.log = Slice(k.asked[1], k.asked[2])
      BY <3>2, <3>3, ListedIsPage
    <3>5. HoldsAll(k.log)
      BY <3>3, <3>4, AllHeld
    <3> DEFINE new == k.log
    <3>6. HoldsAll(new) /\ new \in Seq(Nat) /\ made' = Append(made, new)
      BY <3>1, <3>3, <3>5
    <3> HIDE DEF new, k
    <3>7. made \in Seq(Seq(Nat)) /\ \A i \in 1 .. Len(made) : HoldsAll(made[i])
      BY DEF WalkInv
    <3>8. made' \in Seq(Seq(Nat)) /\ \A i \in 1 .. Len(made') : HoldsAll(made'[i])
      BY <3>6, <3>7
    <3>9. /\ walks' \in [Walkers -> Walk \union {NoWalk}]
          /\ \A v \in Walkers : walks'[v] = NoWalk \/ WalkOK(walks'[v])
      <4>1. walks'[w] = NoWalk /\ \A v \in Walkers \ {w} : walks'[v] = walks[v]
        BY <2>0, <3>1
      <4>2. walks' \in [Walkers -> Walk \union {NoWalk}]
        BY <2>0, <3>1
      <4> QED BY <4>1, <4>2 DEF WalkInv
    <3> QED BY <3>1, <3>8, <3>9 DEF WalkInv
  <2> QED BY <2>1, <2>2, <2>3, <2>4, <2>5, <2>6, <2>7, <2>8, <2>9
<1> QED BY <1>1, <1>2

\* No listing is under way at first, and a log that is there holds the history.
LEMMA WalkStarts == WalkInit => WalkInv
<1> SUFFICES ASSUME WalkInit PROVE WalkInv
  OBVIOUS
<1>0. Newest \in Nat /\ Newest >= 1 /\ AllVersions \in Nat /\ AllVersions > Newest
  BY WalkAssumption
<1>1. /\ parts \in [1 .. Newest -> SUBSET Components]
      /\ walks \in [Walkers -> Walk \union {NoWalk}] /\ \A w \in Walkers : walks[w] = NoWalk
  BY DEF WalkInit
<1> DEFINE all == [i \in 1 .. Newest |-> i]
<1>2. HoldsAll(all) /\ all \in Seq(Nat)
  <2>1. \A i \in 1 .. Newest : i \in Nat
    BY <1>0
  <2>2. all \in [1 .. Newest -> Nat]
    BY <2>1
  <2>3. all \in Seq(Nat) /\ Len(all) = Newest /\ \A i \in 1 .. Newest : all[i] = i
    BY <1>0, <2>2
  <2> HIDE DEF all
  <2> QED BY <2>3 DEF HoldsAll
<1>3. made = <<>> \/ made = <<all>>
  BY DEF WalkInit
<1> HIDE DEF all
<1>4. made \in Seq(Seq(Nat)) /\ \A i \in 1 .. Len(made) : HoldsAll(made[i])
  <2>1. CASE made = <<>>
    BY <2>1
  <2>2. CASE made = <<all>>
    <3>1. Len(made) = 1 /\ made[1] = all /\ made \in Seq(Seq(Nat))
      BY <1>2, <2>2
    <3> QED BY <1>2, <3>1
  <2> QED BY <1>3, <2>1, <2>2
<1> QED BY <1>1, <1>4 DEF WalkInv

\* A listing under way holds its page so far, and all of it when it is done.
LEMMA WalkIsExact == WalkInv => WalkExact
<1> SUFFICES ASSUME WalkInv PROVE WalkExact
  OBVIOUS
<1>1. ASSUME NEW w \in Walkers, walks[w] # NoWalk
      PROVE  LET k == walks[w]  page == Slice(k.asked[1], k.asked[2]) IN
             /\ IsPrefix(k.log, page)
             /\ k.caller \in {"ok", "write"} => k.log = page
  <2> DEFINE k == walks[w]
  <2>1. WalkOK(k)
    BY <1>1 DEF WalkInv
  <2>2. k.caller \in {"ok", "write"} => Len(k.log) = PageLen(k.asked[1], k.asked[2])
    BY <2>1 DEF WalkOK
  <2> HIDE DEF k
  <2>3. /\ IsPrefix(k.log, Slice(k.asked[1], k.asked[2]))
        /\ k.caller \in {"ok", "write"} => k.log = Slice(k.asked[1], k.asked[2])
    BY <2>1, <2>2, ListedIsPage
  <2> QED BY <2>3 DEF k
<1>2. \A i \in DOMAIN made : HoldsAll(made[i])
  <2>1. made \in Seq(Seq(Nat)) /\ \A i \in 1 .. Len(made) : HoldsAll(made[i])
    BY DEF WalkInv
  <2>2. DOMAIN made = 1 .. Len(made)
    BY <2>1
  <2> QED BY <2>1, <2>2
<1> QED BY <1>1, <1>2 DEF WalkExact

-----------------------------------------------------------------------------
(* Revisions of a history. *)

\* There is a least one in every set of naturals.
LEMMA LeastOne ==
  ASSUME NEW S \in SUBSET Nat, S # {}
  PROVE  \E k \in S : \A j \in Nat : j < k => j \notin S
<1>1. IsWellFoundedOn({ss \in Nat \X Nat : ss[1] < ss[2]}, Nat)
  BY NatLessThanWellFounded DEF OpToRel
<1>2. PICK k \in S : \A y \in S : ~(<<y, k>> \in {ss \in Nat \X Nat : ss[1] < ss[2]})
  BY <1>1, WFMin
<1> QED BY <1>2

\* The versions from v on that have the component f, and how many they are.
Having(f, v) == {u \in 1 .. Newest : Holds(f, u) /\ u >= v}
Count(f, v) == Cardinality(Having(f, v))

\* A version more counts when it has the component.
LEMMA CountStep ==
  ASSUME NEW f, NEW v \in 1 .. Newest
  PROVE  /\ Count(f, v) \in Nat /\ Count(f, v + 1) \in Nat
         /\ Count(f, v) = Count(f, v + 1) + (IF Holds(f, v) THEN 1 ELSE 0)
<1>0. Newest \in Nat
  BY WalkAssumption
<1>1. \A x : Having(f, x) \subseteq 1 .. Newest
  BY DEF Having
<1>2. \A x : IsFiniteSet(Having(f, x)) /\ Cardinality(Having(f, x)) \in Nat
  <2>1. IsFiniteSet(1 .. Newest)
    BY <1>0, FS_Interval
  <2> QED BY <1>1, <2>1, FS_Subset, FS_CardinalityType
<1>3. v \notin Having(f, v + 1)
  BY <1>0 DEF Having
<1>4. CASE Holds(f, v)
  <2>1. Having(f, v) = Having(f, v + 1) \union {v}
    BY <1>0, <1>4 DEF Having
  <2> QED BY <1>2, <1>3, <1>4, <2>1, FS_AddElement DEF Count
<1>5. CASE ~Holds(f, v)
  <2>1. Having(f, v) = Having(f, v + 1)
    BY <1>0, <1>5 DEF Having
  <2> QED BY <1>2, <1>5, <2>1 DEF Count
<1> QED BY <1>4, <1>5

\* Nothing is newer than the newest.
LEMMA CountNone ==
  ASSUME NEW f
  PROVE  Count(f, Newest + 1) = 0
<1>1. Having(f, Newest + 1) = {}
  BY WalkAssumption DEF Having
<1> QED BY <1>1, FS_EmptySet DEF Count

\* An older version that has the component counts for more.
LEMMA CountGrows ==
  ASSUME NEW f, NEW v \in Nat, NEW u \in 1 .. Newest, v <= u
  PROVE  /\ Count(f, v) \in Nat /\ Count(f, u) \in Nat /\ Count(f, u) <= Count(f, v)
         /\ v \in 1 .. Newest /\ Holds(f, v) /\ v < u => Count(f, u) < Count(f, v)
<1>0. Newest \in Nat
  BY WalkAssumption
<1>1. IsFiniteSet(1 .. Newest)
  BY <1>0, FS_Interval
<1>2. /\ IsFiniteSet(Having(f, v)) /\ IsFiniteSet(Having(f, u))
      /\ Count(f, v) \in Nat /\ Count(f, u) \in Nat
  <2>1. Having(f, v) \subseteq 1 .. Newest /\ Having(f, u) \subseteq 1 .. Newest
    BY DEF Having
  <2> QED BY <1>1, <2>1, FS_Subset, FS_CardinalityType DEF Count
<1>3. Having(f, u) \subseteq Having(f, v)
  BY <1>0 DEF Having
<1>4. Count(f, u) <= Count(f, v)
  BY <1>2, <1>3, FS_Subset DEF Count
<1>5. ASSUME v \in 1 .. Newest, Holds(f, v), v < u PROVE Count(f, u) < Count(f, v)
  <2>1. v \in Having(f, v) /\ v \notin Having(f, u)
    BY <1>0, <1>5 DEF Having
  <2>2. Having(f, u) # Having(f, v)
    BY <2>1
  <2> QED BY <1>2, <1>3, <2>2, FS_Subset DEF Count
<1> QED BY <1>2, <1>4, <1>5

\* What the n-th version with the component is: u, or none.
LEMMA NthIs ==
  ASSUME NEW f, NEW n \in Nat, n >= 1, NEW u \in 0 .. Newest,
         u # 0 => Holds(f, u) /\ Count(f, u) = n,
         u = 0 => Count(f, 1) < n
  PROVE  NthWith(f, n) = u
<1> DEFINE with == {v \in 1 .. Newest : Holds(f, v)}
           hit == {v \in with : Cardinality({x \in with : x >= v}) = n}
<1>0. Newest \in Nat /\ Newest >= 1
  BY WalkAssumption
<1>1. NthWith(f, n) = IF hit = {} THEN 0 ELSE CHOOSE v \in hit : TRUE
  BY DEF NthWith
<1>2. \A v \in with : {x \in with : x >= v} = Having(f, v)
  BY DEF Having
<1>3. hit = {v \in with : Count(f, v) = n}
  BY <1>2 DEF Count
<1>4. CASE u = 0
  <2>1. \A v \in 1 .. Newest : Count(f, v) <= Count(f, 1) /\ Count(f, v) \in Nat /\ Count(f, 1) \in Nat
    BY <1>0, CountGrows
  <2>2. \A v \in with : Count(f, v) # n
    BY <1>4, <2>1
  <2>3. hit = {}
    BY <1>3, <2>2
  <2> QED BY <1>1, <1>4, <2>3
<1>5. CASE u # 0
  <2>1. u \in with /\ u \in hit
    BY <1>3, <1>5
  <2>2. ASSUME NEW v \in hit PROVE v = u
    <3>1. v \in 1 .. Newest /\ u \in 1 .. Newest /\ Holds(f, v) /\ Holds(f, u)
          /\ Count(f, v) = n /\ Count(f, u) = n
      BY <1>3, <2>1, <2>2
    <3> HIDE DEF hit, with
    <3>2. v < u => Count(f, u) < Count(f, v)
      BY <1>0, <3>1, CountGrows
    <3>3. u < v => Count(f, v) < Count(f, u)
      BY <1>0, <3>1, CountGrows
    <3> QED BY <1>0, <3>1, <3>2, <3>3
  <2>3. hit = {u}
    BY <2>1, <2>2
  <2> HIDE DEF hit
  <2> QED BY <1>1, <2>3
<1> QED BY <1>4, <1>5

\* What LoadRevs is asked for and what it knows: the generations still to go,
\* x of the component F and y of G, and the versions found, t and m.
Fields == Components \union {"ds"}
Asked(F, G, x, y) == <<[field |-> F, gen |-> x], [field |-> G, gen |-> y]>>
Known(F, G, t, m) == [f \in Components |-> IF f = F THEN t ELSE IF f = G THEN m ELSE 0]
Knows(F, G, x, y, t, m) == [revs |-> Asked(F, G, x, y), res |-> Known(F, G, t, m)]
Failed == [revs |-> <<>>, res |-> NoParts]

\* The generations and the versions after version v.
Gen(f, v, x) == IF Holds(f, v) THEN x - 1 ELSE x
Found(f, v, x, t) == IF Holds(f, v) /\ Gen(f, v, x) = 0 THEN v ELSE t

\* The two revisions of a request.
LEMMA AskedParts ==
  ASSUME NEW F, NEW G, NEW x, NEW y
  PROVE  /\ Asked(F, G, x, y)[1] = [field |-> F, gen |-> x] /\ Asked(F, G, x, y)[2] = [field |-> G, gen |-> y]
         /\ DOMAIN Asked(F, G, x, y) = {1, 2} /\ Asked(F, G, x, y) # <<>>
BY DEF Asked

\* The two revisions are looked at one after the other.
LEMMA FoldTwo ==
  ASSUME NEW revs, DOMAIN revs = {1, 2}, NEW v, NEW st
  PROVE  FoldLeftDomain(LAMBDA acc, i : selOne(acc, v, i), st, revs) =
           selOne(selOne(st, v, 1), v, 2)
<1> DEFINE S == DOMAIN [i \in DOMAIN revs |-> i]
           P(g, s) == IF s = {} THEN st
                      ELSE selOne(g[s \ {Max(s)}], v, [i \in DOMAIN revs |-> i][Max(s)])
           iter == CHOOSE g : g = [s \in SUBSET S |-> P(g, s)]
<1>1. FoldLeftDomain(LAMBDA acc, i : selOne(acc, v, i), st, revs) = iter[S]
  BY DEF FoldLeftDomain, FoldLeft, MapThenFoldSet
<1>2. S = {1, 2}
  OBVIOUS
<1>3. Max({1}) = 1 /\ Max({2}) = 2 /\ Max({1, 2}) = 2
  BY DEF Max
<1>4. [i \in DOMAIN revs |-> i][1] = 1 /\ [i \in DOMAIN revs |-> i][2] = 2
  OBVIOUS
<1>5. \A s \in SUBSET S : s = {} \/ s = {1} \/ s = {2} \/ s = {1, 2}
  BY <1>2
<1> DEFINE G == [s \in SUBSET S |->
                   IF s = {} THEN st ELSE IF s = {1} THEN selOne(st, v, 1)
                   ELSE IF s = {2} THEN selOne(st, v, 2) ELSE selOne(selOne(st, v, 1), v, 2)]
<1>6. {1} \ {1} = {} /\ {2} \ {2} = {} /\ {1, 2} \ {2} = {1}
  OBVIOUS
<1>7. {1} # {} /\ {2} # {} /\ {1, 2} # {} /\ {2} # {1} /\ {1, 2} # {1} /\ {1, 2} # {2}
  OBVIOUS
<1>8. /\ {} \in SUBSET S /\ {1} \in SUBSET S /\ {2} \in SUBSET S /\ {1, 2} \in SUBSET S
  BY <1>2
<1>9. G[{}] = st /\ G[{1}] = selOne(st, v, 1)
  BY <1>7, <1>8
<1>10. \A s \in SUBSET S : G[s] = P(G, s)
  <2> SUFFICES ASSUME NEW s \in SUBSET S PROVE G[s] = P(G, s)
    OBVIOUS
  <2>1. CASE s = {}
    BY <2>1, <1>9
  <2>2. CASE s = {1}
    <3>1. P(G, s) = selOne(G[{}], v, 1)
      BY <1>3, <1>4, <1>6, <1>7, <2>2
    <3> QED BY <1>9, <2>2, <3>1
  <2>3. CASE s = {2}
    <3>1. P(G, s) = selOne(G[{}], v, 2)
      BY <1>3, <1>4, <1>6, <1>7, <2>3
    <3> QED BY <1>7, <1>8, <1>9, <2>3, <3>1
  <2>4. CASE s = {1, 2}
    <3>1. P(G, s) = selOne(G[{1}], v, 2)
      BY <1>3, <1>4, <1>6, <1>7, <2>4
    <3>2. G[s] = selOne(selOne(st, v, 1), v, 2)
      BY <1>7, <1>8, <2>4
    <3> QED BY <1>9, <3>1, <3>2
  <2> QED BY <1>5, <2>1, <2>2, <2>3, <2>4
<1>11. G = [s \in SUBSET S |-> P(G, s)]
  <2>1. G = [s \in SUBSET S |-> G[s]]
    OBVIOUS
  <2> HIDE DEF G, P
  <2> QED BY <1>10, <2>1
<1>12. iter = [s \in SUBSET S |-> P(iter, s)]
  <2> HIDE DEF G, P
  <2> QED BY <1>11
<1>13. \A s \in SUBSET S : iter[s] = P(iter, s)
  <2> HIDE DEF P, iter
  <2> QED BY <1>12
<1> HIDE DEF iter
<1>14. iter[{}] = st
  BY <1>8, <1>13
<1>15. iter[{1}] = selOne(iter[{}], v, 1)
  <2>1. iter[{1}] = P(iter, {1})
    BY <1>8, <1>13
  <2> QED BY <1>3, <1>4, <1>6, <1>7, <2>1
<1>16. iter[{1, 2}] = selOne(iter[{1}], v, 2)
  <2>1. iter[{1, 2}] = P(iter, {1, 2})
    BY <1>8, <1>13
  <2> QED BY <1>3, <1>4, <1>6, <1>7, <2>1
<1> QED BY <1>1, <1>2, <1>14, <1>15, <1>16

\* What looking at a version changes.
LEMMA SelTwo ==
  ASSUME NEW F \in Fields, NEW G \in Fields, F # G, NEW x, NEW y, NEW t, NEW m, NEW v
  PROVE  selOne(selOne(Knows(F, G, x, y, t, m), v, 1), v, 2) =
           Knows(F, G, Gen(F, v, x), Gen(G, v, y), Found(F, v, x, t), Found(G, v, y, m))
<1> DEFINE x1 == Gen(F, v, x)
           y1 == Gen(G, v, y)
           t1 == Found(F, v, x, t)
           m1 == Found(G, v, y, m)
<1>1. "ds" \notin Components
  BY DEF Components
<1>2. sel([field |-> F, gen |-> x], v, Known(F, G, t, m)) =
        [rev |-> [field |-> F, gen |-> x1], res |-> Known(F, G, t1, m)]
  <2>1. F # "ds" => [Known(F, G, t, m) EXCEPT ![F] = v] = Known(F, G, v, m)
    BY DEF Known, Components
  <2>2. F = "ds" => Known(F, G, t, m) = Known(F, G, t1, m)
    BY <1>1 DEF Known
  <2> QED BY <2>1, <2>2 DEF sel, Gen, Found
<1>3. sel([field |-> G, gen |-> y], v, Known(F, G, t1, m)) =
        [rev |-> [field |-> G, gen |-> y1], res |-> Known(F, G, t1, m1)]
  <2> HIDE DEF t1
  <2>1. G # "ds" => [Known(F, G, t1, m) EXCEPT ![G] = v] = Known(F, G, t1, v)
    BY DEF Known, Components
  <2>2. G = "ds" => Known(F, G, t1, m) = Known(F, G, t1, m1)
    BY <1>1 DEF Known
  <2> QED BY <2>1, <2>2 DEF sel, Gen, Found
<1> HIDE DEF x1, y1, t1, m1
<1>4. selOne(Knows(F, G, x, y, t, m), v, 1) = Knows(F, G, x1, y, t1, m)
  <2> DEFINE acc == Knows(F, G, x, y, t, m)
  <2>1. acc.revs = Asked(F, G, x, y) /\ acc.res = Known(F, G, t, m)
    BY DEF Knows
  <2> HIDE DEF acc
  <2>2. acc.revs[1] = [field |-> F, gen |-> x]
    <3>1. Asked(F, G, x, y)[1] = [field |-> F, gen |-> x]
      BY DEF Asked
    <3> QED BY <2>1, <3>1
  <2>3. sel(acc.revs[1], v, acc.res) = [rev |-> [field |-> F, gen |-> x1], res |-> Known(F, G, t1, m)]
    BY <1>2, <2>1, <2>2
  <2>4. [acc.revs EXCEPT ![1] = [field |-> F, gen |-> x1]] = Asked(F, G, x1, y)
    <3>1. [Asked(F, G, x, y) EXCEPT ![1] = [field |-> F, gen |-> x1]] = Asked(F, G, x1, y)
      BY DEF Asked
    <3> QED BY <2>1, <3>1
  <2>5. selOne(acc, v, 1) = [revs |-> Asked(F, G, x1, y), res |-> Known(F, G, t1, m)]
    BY <2>3, <2>4 DEF selOne
  <2> QED BY <2>5 DEF acc, Knows
<1>5. selOne(Knows(F, G, x1, y, t1, m), v, 2) = Knows(F, G, x1, y1, t1, m1)
  <2> DEFINE acc == Knows(F, G, x1, y, t1, m)
  <2>1. acc.revs = Asked(F, G, x1, y) /\ acc.res = Known(F, G, t1, m)
    BY DEF Knows
  <2> HIDE DEF acc
  <2>2. acc.revs[2] = [field |-> G, gen |-> y]
    <3>1. Asked(F, G, x1, y)[2] = [field |-> G, gen |-> y]
      BY DEF Asked
    <3> QED BY <2>1, <3>1
  <2>3. sel(acc.revs[2], v, acc.res) = [rev |-> [field |-> G, gen |-> y1], res |-> Known(F, G, t1, m1)]
    BY <1>3, <2>1, <2>2
  <2>4. [acc.revs EXCEPT ![2] = [field |-> G, gen |-> y1]] = Asked(F, G, x1, y1)
    <3>1. [Asked(F, G, x1, y) EXCEPT ![2] = [field |-> G, gen |-> y1]] = Asked(F, G, x1, y1)
      BY DEF Asked
    <3> QED BY <2>1, <3>1
  <2>5. selOne(acc, v, 2) = [revs |-> Asked(F, G, x1, y1), res |-> Known(F, G, t1, m1)]
    BY <2>3, <2>4 DEF selOne
  <2> QED BY <2>5 DEF acc, Knows
<1> QED BY <1>4, <1>5 DEF x1, y1, t1, m1

\* LoadRevs leaves a failure as it is.
LEMMA LoadRevFailed ==
  ASSUME NEW F, NEW G, NEW a, NEW b, NEW v
  PROVE  LoadRev(Asked(F, G, a, b), v, Failed) = Failed
BY DEF LoadRev, Failed

\* LoadRevs at one version.
LEMMA LoadRevIs ==
  ASSUME NEW F \in Fields, NEW G \in Fields, F # G,
         NEW a, NEW b, NEW v, NEW x, NEW y, NEW t, NEW m
  PROVE  LoadRev(Asked(F, G, a, b), v, Knows(F, G, x, y, t, m)) =
           IF x = 0 /\ y = 0 THEN Knows(F, G, x, y, t, m)
           ELSE IF v \in here
           THEN Knows(F, G, Gen(F, v, x), Gen(G, v, y), Found(F, v, x, t), Found(G, v, y, m))
           ELSE Failed
<1> DEFINE st == Knows(F, G, x, y, t, m)
           to == Knows(F, G, Gen(F, v, x), Gen(G, v, y), Found(F, v, x, t), Found(G, v, y, m))
           fold == FoldLeftDomain(LAMBDA acc, i : selOne(acc, v, i), st, Asked(F, G, a, b))
<1>1. st.revs = Asked(F, G, x, y)
  BY DEF Knows
<1>2. DOMAIN Asked(F, G, a, b) = {1, 2} /\ st.revs # <<>> /\ st.revs[1].gen = x /\ st.revs[2].gen = y
  <2>1. DOMAIN Asked(F, G, a, b) = {1, 2}
    BY AskedParts
  <2>2. /\ Asked(F, G, x, y) # <<>> /\ Asked(F, G, x, y)[1] = [field |-> F, gen |-> x]
        /\ Asked(F, G, x, y)[2] = [field |-> G, gen |-> y]
    BY AskedParts
  <2> HIDE DEF st
  <2> QED BY <1>1, <2>1, <2>2
<1>3. (\A i \in DOMAIN Asked(F, G, a, b) : st.revs[i].gen = 0) <=> x = 0 /\ y = 0
  BY <1>2
<1>4. fold = to
  <2> DEFINE revs == Asked(F, G, a, b)
  <2>1. DOMAIN revs = {1, 2}
    BY <1>2
  <2>2. fold = selOne(selOne(st, v, 1), v, 2)
    <3> HIDE DEF revs, st
    <3> QED BY <2>1, FoldTwo DEF revs
  <2>3. selOne(selOne(st, v, 1), v, 2) = to
    BY SelTwo
  <2> HIDE DEF st, to, fold
  <2> QED BY <2>2, <2>3
<1>5. LoadRev(Asked(F, G, a, b), v, st) =
        IF st.revs = <<>> \/ \A i \in DOMAIN Asked(F, G, a, b) : st.revs[i].gen = 0 THEN st
        ELSE IF v \in here THEN fold ELSE Failed
  BY DEF LoadRev, Failed
<1> HIDE DEF st, to, fold
<1>6. LoadRev(Asked(F, G, a, b), v, st) =
        IF x = 0 /\ y = 0 THEN st ELSE IF v \in here THEN to ELSE Failed
  BY <1>2, <1>3, <1>4, <1>5
<1> QED BY <1>6 DEF st, to

\* What has been found of the component f down to version v, when generation g
\* is asked for: nothing yet, or the version.
Fine(f, g, t, v) ==
  /\ t \in 0 .. Newest
  /\ t # 0 => Holds(f, t) /\ Count(f, t) = g
  /\ t = 0 => Count(f, v) < g

\* Looking at version v keeps that.
LEMMA FineStep ==
  ASSUME NEW f, NEW g \in Nat, NEW v \in 1 .. Newest, NEW x, NEW t,
         Fine(f, g, t, v + 1), x = g - Count(f, v + 1)
  PROVE  /\ Gen(f, v, x) = g - Count(f, v) /\ Gen(f, v, x) \in Int
         /\ Fine(f, g, Found(f, v, x, t), v)
<1> DEFINE n == Count(f, v)
           o == Count(f, v + 1)
<1>1. n \in Nat /\ o \in Nat /\ n = o + (IF Holds(f, v) THEN 1 ELSE 0)
  BY CountStep
<1>2. x = g - o
  OBVIOUS
<1>3. /\ t \in 0 .. Newest /\ (t # 0 => Holds(f, t) /\ Count(f, t) = g) /\ (t = 0 => o < g)
  BY DEF Fine
<1>4. Newest \in Nat
  BY WalkAssumption
<1>5. CASE Holds(f, v) /\ n = g
  <2>1. Gen(f, v, x) = 0 /\ g - n = 0
    BY <1>1, <1>2, <1>5 DEF Gen
  <2>2. Found(f, v, x, t) = v
    BY <1>5, <2>1 DEF Found
  <2> QED BY <1>4, <1>5, <2>1, <2>2 DEF Fine
<1>6. CASE Holds(f, v) /\ n # g
  <2> HIDE DEF n, o
  <2>1. Gen(f, v, x) = g - n /\ g - n # 0 /\ g - n \in Int
    BY <1>1, <1>2, <1>6 DEF Gen
  <2>2. Found(f, v, x, t) = t
    BY <2>1 DEF Found
  <2>3. t = 0 => n < g
    BY <1>1, <1>3, <1>6
  <2> QED BY <1>3, <2>1, <2>2, <2>3 DEF Fine, n
<1>7. CASE ~Holds(f, v)
  <2> HIDE DEF n, o
  <2>1. Gen(f, v, x) = g - n /\ g - n \in Int
    BY <1>1, <1>2, <1>7 DEF Gen
  <2>2. Found(f, v, x, t) = t
    BY <1>7 DEF Found
  <2>3. t = 0 => n < g
    BY <1>1, <1>3, <1>7
  <2> QED BY <1>3, <2>1, <2>2, <2>3 DEF Fine, n
<1> QED BY <1>5, <1>6, <1>7

\* What LoadRevs knows after the versions down to v: it has failed, or stopped
\* with both found, or counts on.
Read(F, G, a, b, v, st) ==
  \/ st = Failed
  \/ \E x, y, t, m :
       /\ st = Knows(F, G, x, y, t, m)
       /\ Fine(F, a, t, v) /\ Fine(G, b, m, v)
       /\ \/ x = a - Count(F, v) /\ y = b - Count(G, v)
          \/ x = 0 /\ y = 0 /\ t # 0 /\ m # 0

\* Looking at one more version keeps that.
LEMMA ReadStep ==
  ASSUME NEW F \in Fields, NEW G \in Fields, F # G,
         NEW a \in Nat, NEW b \in Nat, NEW v \in 1 .. Newest, NEW st, Read(F, G, a, b, v + 1, st)
  PROVE  Read(F, G, a, b, v, LoadRev(Asked(F, G, a, b), v, st))
<1>1. CASE st = Failed
  <2>1. LoadRev(Asked(F, G, a, b), v, st) = Failed
    BY <1>1, LoadRevFailed
  <2> QED BY <2>1 DEF Read
<1>2. CASE st # Failed
  <2>1. PICK x, y, t, m :
         /\ st = Knows(F, G, x, y, t, m)
         /\ Fine(F, a, t, v + 1) /\ Fine(G, b, m, v + 1)
         /\ \/ x = a - Count(F, v + 1) /\ y = b - Count(G, v + 1)
            \/ x = 0 /\ y = 0 /\ t # 0 /\ m # 0
    BY <1>2 DEF Read
  <2>2. LoadRev(Asked(F, G, a, b), v, st) =
          IF x = 0 /\ y = 0 THEN st
          ELSE IF v \in here
          THEN Knows(F, G, Gen(F, v, x), Gen(G, v, y), Found(F, v, x, t), Found(G, v, y, m))
          ELSE Failed
    <3> DEFINE to == Knows(F, G, Gen(F, v, x), Gen(G, v, y), Found(F, v, x, t), Found(G, v, y, m))
               was == Knows(F, G, x, y, t, m)
    <3>1. LoadRev(Asked(F, G, a, b), v, was) = IF x = 0 /\ y = 0 THEN was ELSE IF v \in here THEN to ELSE Failed
      BY LoadRevIs
    <3>2. st = was
      BY <2>1
    <3> HIDE DEF to, was
    <3>3. LoadRev(Asked(F, G, a, b), v, st) = IF x = 0 /\ y = 0 THEN st ELSE IF v \in here THEN to ELSE Failed
      BY <3>1, <3>2
    <3> QED BY <3>3 DEF to
  <2>3. CASE x = 0 /\ y = 0
    <3>1. LoadRev(Asked(F, G, a, b), v, st) = Knows(F, G, x, y, t, m)
      BY <2>1, <2>2, <2>3
    <3>2. t # 0 /\ m # 0
      <4>1. /\ Count(F, v + 1) \in Nat /\ Count(G, v + 1) \in Nat
        BY CountStep
      <4>2. (t = 0 => Count(F, v + 1) < a) /\ (m = 0 => Count(G, v + 1) < b)
        BY <2>1 DEF Fine
      <4>3. CASE x = a - Count(F, v + 1) /\ y = b - Count(G, v + 1)
        BY <2>3, <4>1, <4>2, <4>3
      <4> QED BY <2>1, <4>3
    <3>3. Fine(F, a, t, v) /\ Fine(G, b, m, v)
      BY <2>1, <3>2 DEF Fine
    <3> HIDE DEF Knows
    <3> QED BY <2>3, <3>1, <3>2, <3>3 DEF Read
  <2>4. CASE ~(x = 0 /\ y = 0) /\ v \in here
    <3> DEFINE x1 == Gen(F, v, x)
               y1 == Gen(G, v, y)
               t1 == Found(F, v, x, t)
               m1 == Found(G, v, y, m)
    <3>1. LoadRev(Asked(F, G, a, b), v, st) = Knows(F, G, x1, y1, t1, m1)
      BY <2>2, <2>4
    <3>2. x = a - Count(F, v + 1) /\ y = b - Count(G, v + 1)
      BY <2>1, <2>4
    <3>3. x1 = a - Count(F, v) /\ Fine(F, a, t1, v)
      BY <2>1, <3>2, FineStep
    <3>4. y1 = b - Count(G, v) /\ Fine(G, b, m1, v)
      BY <2>1, <3>2, FineStep
    <3> HIDE DEF x1, y1, t1, m1
    <3> QED BY <3>1, <3>3, <3>4 DEF Read
  <2>5. CASE ~(x = 0 /\ y = 0) /\ v \notin here
    BY <2>2, <2>5 DEF Read
  <2> QED BY <2>3, <2>4, <2>5
<1> QED BY <1>1, <1>2

\* The recursion of LoadRevs has a solution: a table of the first k versions.
Table(f, revs, k) ==
  /\ DOMAIN f = 0 .. k
  /\ f[0] = [revs |-> revs, res |-> NoParts]
  /\ \A i \in 1 .. k : f[i] = LoadRev(revs, Newest + 1 - i, f[i - 1])

\* By the least k without one.
LEMMA TableExists ==
  ASSUME NEW revs, NEW k \in Nat
  PROVE  \E f : Table(f, revs, k)
<1> DEFINE Bad == {j \in Nat : ~\E f : Table(f, revs, j)}
<1> SUFFICES ASSUME Bad # {} PROVE FALSE
  OBVIOUS
<1>1. PICK j \in Bad : \A i \in Nat : i < j => i \notin Bad
  <2>1. Bad \in SUBSET Nat
    OBVIOUS
  <2> HIDE DEF Bad
  <2> QED BY <2>1, LeastOne
<1>2. j \in Nat /\ ~\E f : Table(f, revs, j)
  BY <1>1
<1>3. j # 0
  <2> DEFINE st == [revs |-> revs, res |-> NoParts]
             z == [i \in 0 .. 0 |-> st]
  <2>1. Table(z, revs, 0)
    BY DEF Table
  <2> QED BY <1>2, <2>1
<1>4. j - 1 \in Nat /\ j - 1 \notin Bad
  BY <1>1, <1>2, <1>3
<1>5. PICK f : Table(f, revs, j - 1)
  BY <1>4
<1> DEFINE u == LoadRev(revs, Newest + 1 - j, f[j - 1])
           g == [i \in 0 .. j |-> IF i = j THEN u ELSE f[i]]
<1>6. g[j] = u /\ \A i \in 0 .. (j - 1) : g[i] = f[i]
  BY <1>2, <1>3
<1>7. DOMAIN g = 0 .. j
  OBVIOUS
<1> HIDE DEF g
<1>8. g[0] = [revs |-> revs, res |-> NoParts]
  <2>1. 0 \in 0 .. (j - 1)
    BY <1>4
  <2> QED BY <1>5, <1>6, <2>1 DEF Table
<1>9. ASSUME NEW i \in 1 .. j PROVE g[i] = LoadRev(revs, Newest + 1 - i, g[i - 1])
  <2>1. CASE i = j
    <3>1. j - 1 \in 0 .. (j - 1)
      BY <1>4
    <3>2. g[j - 1] = f[j - 1]
      BY <1>6, <3>1
    <3> QED BY <1>6, <2>1, <3>2
  <2>2. CASE i # j
    <3>1. i \in 1 .. (j - 1) /\ i \in 0 .. (j - 1) /\ i - 1 \in 0 .. (j - 1)
      BY <1>2, <2>2
    <3>2. f[i] = LoadRev(revs, Newest + 1 - i, f[i - 1])
      BY <1>5, <3>1 DEF Table
    <3> QED BY <1>6, <3>1, <3>2
  <2> QED BY <2>1, <2>2
<1>10. Table(g, revs, j)
  BY <1>7, <1>8, <1>9 DEF Table
<1> QED BY <1>2, <1>10

\* What LoadRevs returns is the last entry of such a table.
LEMMA LoadRevsIs ==
  ASSUME NEW revs
  PROVE  \E f : Table(f, revs, Newest) /\ LoadRevs(revs) = f[Newest]
<1>0. Newest \in Nat
  BY WalkAssumption
<1> DEFINE st == [revs |-> revs, res |-> NoParts]
           B(f, n) == IF n = 0 THEN st ELSE LoadRev(revs, Newest + 1 - n, f[n - 1])
           read == CHOOSE f : f = [n \in 0 .. Newest |-> B(f, n)]
<1>1. LoadRevs(revs) = read[Newest]
  BY DEF LoadRevs
<1>2. PICK f : Table(f, revs, Newest)
  BY <1>0, TableExists
<1>3. \E g : g = [n \in 0 .. Newest |-> B(g, n)]
  <2> DEFINE g == [n \in 0 .. Newest |-> f[n]]
  <2>1. \A n \in 0 .. Newest : g[n] = B(g, n)
    <3> SUFFICES ASSUME NEW n \in 0 .. Newest PROVE g[n] = B(g, n)
      OBVIOUS
    <3>1. CASE n = 0
      BY <1>2, <3>1 DEF Table
    <3>2. CASE n # 0
      <4>1. n \in 1 .. Newest /\ n - 1 \in 0 .. Newest
        BY <1>0, <3>2
      <4>2. g[n] = f[n] /\ g[n - 1] = f[n - 1]
        BY <4>1
      <4>3. f[n] = LoadRev(revs, Newest + 1 - n, f[n - 1])
        BY <1>2, <4>1 DEF Table
      <4> HIDE DEF g
      <4> QED BY <3>2, <4>2, <4>3
    <3> QED BY <3>1, <3>2
  <2>2. g = [n \in 0 .. Newest |-> g[n]]
    OBVIOUS
  <2> HIDE DEF g, B
  <2>3. g = [n \in 0 .. Newest |-> B(g, n)]
    BY <2>1, <2>2
  <2> QED BY <2>3
<1>4. read = [n \in 0 .. Newest |-> B(read, n)]
  <2> HIDE DEF B
  <2> QED BY <1>3
<1> HIDE DEF read
<1>5. DOMAIN read = 0 .. Newest /\ \A n \in 0 .. Newest : read[n] = B(read, n)
  <2> HIDE DEF B
  <2> QED BY <1>4
<1>6. Table(read, revs, Newest)
  <2>1. read[0] = st
    BY <1>0, <1>5
  <2>2. ASSUME NEW i \in 1 .. Newest PROVE read[i] = LoadRev(revs, Newest + 1 - i, read[i - 1])
    <3>1. i \in 0 .. Newest /\ i # 0
      BY <1>0
    <3> QED BY <1>5, <3>1
  <2> QED BY <1>5, <2>1, <2>2 DEF Table
<1> QED BY <1>1, <1>6

\* The generations that were asked for are what LoadRevs gives, if it does not
\* fail, for every history and every two generations.
LEMMA RevsFound ==
  ASSUME NEW F \in Fields, NEW G \in Fields, F # G,
         NEW a \in Nat, NEW b \in Nat, a >= 1, b >= 1, LoadRevs(Asked(F, G, a, b)).revs # <<>>
  PROVE  /\ F # "ds" => LoadRevs(Asked(F, G, a, b)).res[F] = NthWith(F, a)
         /\ G # "ds" => LoadRevs(Asked(F, G, a, b)).res[G] = NthWith(G, b)
<1>0. Newest \in Nat /\ Newest >= 1
  BY WalkAssumption
<1> DEFINE revs == Asked(F, G, a, b)
<1>1. PICK f : Table(f, revs, Newest) /\ LoadRevs(revs) = f[Newest]
  BY LoadRevsIs
<1> DEFINE Bad == {n \in 0 .. Newest : ~Read(F, G, a, b, Newest + 1 - n, f[n])}
<1>2. Bad = {}
  <2> SUFFICES ASSUME Bad # {} PROVE FALSE
    OBVIOUS
  <2>1. PICK n \in Bad : \A i \in Nat : i < n => i \notin Bad
    <3>1. Bad \in SUBSET Nat
      BY <1>0
    <3> HIDE DEF Bad
    <3> QED BY <3>1, LeastOne
  <2>2. n # 0
    <3>1. f[0] = [revs |-> revs, res |-> NoParts]
      BY <1>1 DEF Table
    <3>2. Known(F, G, 0, 0) = NoParts
      BY DEF Known, NoParts
    <3>3. f[0] = Knows(F, G, a, b, 0, 0)
      BY <3>1, <3>2 DEF Knows
    <3>4. Count(F, Newest + 1) = 0 /\ Count(G, Newest + 1) = 0
      BY CountNone
    <3>5. a = a - 0 /\ b = b - 0 /\ 0 < a /\ 0 < b /\ 0 \in 0 .. Newest
      BY <1>0
    <3>6. Fine(F, a, 0, Newest + 1) /\ Fine(G, b, 0, Newest + 1)
      BY <3>4, <3>5 DEF Fine
    <3>7. a = a - Count(F, Newest + 1) /\ b = b - Count(G, Newest + 1)
      BY <3>4, <3>5
    <3> HIDE DEF revs
    <3>8. Read(F, G, a, b, Newest + 1, f[0])
      BY <3>3, <3>6, <3>7 DEF Read
    <3>9. Newest + 1 - 0 = Newest + 1
      BY <1>0
    <3> QED BY <2>1, <3>8, <3>9
  <2>3. n \in 1 .. Newest /\ n - 1 \in 0 .. Newest /\ n - 1 \notin Bad
    BY <1>0, <2>1, <2>2
  <2> DEFINE v == Newest + 1 - n
  <2>4. v \in 1 .. Newest /\ Newest + 1 - (n - 1) = v + 1
    BY <1>0, <2>3
  <2>5. Read(F, G, a, b, v + 1, f[n - 1])
    BY <2>3, <2>4
  <2>6. f[n] = LoadRev(Asked(F, G, a, b), v, f[n - 1])
    BY <1>1, <2>3 DEF Table
  <2>7. ~Read(F, G, a, b, v, f[n])
    BY <2>1
  <2> HIDE DEF v
  <2> QED BY <2>4, <2>5, <2>6, <2>7, ReadStep
<1>3. Read(F, G, a, b, 1, LoadRevs(revs))
  <2>1. Newest \in 0 .. Newest /\ Newest + 1 - Newest = 1
    BY <1>0
  <2> QED BY <1>1, <1>2, <2>1
<1>4. LoadRevs(revs) # Failed
  BY DEF Failed
<1>5. PICK x, y, t, m :
       /\ LoadRevs(revs) = Knows(F, G, x, y, t, m) /\ Fine(F, a, t, 1) /\ Fine(G, b, m, 1)
  BY <1>3, <1>4 DEF Read
<1> HIDE DEF revs
<1>6. (F # "ds" => LoadRevs(revs).res[F] = t) /\ (G # "ds" => LoadRevs(revs).res[G] = m)
  BY <1>5 DEF Knows, Known, Components, Fields
<1>7. NthWith(F, a) = t /\ NthWith(G, b) = m
  BY <1>5, NthIs DEF Fine
<1> QED BY <1>6, <1>7 DEF revs

\* RevsExact, from that.
LEMMA RevsAreExact == RevsExact
<1> SUFFICES ASSUME NEW fs \in {<<"tf", "md">>, <<"ds", "md">>, <<"tf", "ds">>},
                    NEW a \in 1 .. 2, NEW b \in 1 .. 2, NEW i \in {1, 2},
                    LoadRevs(Asked(fs[1], fs[2], a, b)).revs # <<>>, fs[i] # "ds"
             PROVE  LoadRevs(Asked(fs[1], fs[2], a, b)).res[fs[i]] =
                      NthWith(fs[i], Asked(fs[1], fs[2], a, b)[i].gen)
  BY DEF RevsExact, Asked
<1> DEFINE F == fs[1]
           G == fs[2]
<1>1. F \in Fields /\ G \in Fields /\ F # G
  BY DEF Fields, Components
<1>2. a \in Nat /\ b \in Nat /\ a >= 1 /\ b >= 1
  OBVIOUS
<1>3. LoadRevs(Asked(F, G, a, b)).revs # <<>> /\ (i = 1 => F # "ds") /\ (i = 2 => G # "ds")
  OBVIOUS
<1>4. Asked(F, G, a, b)[1].gen = a /\ Asked(F, G, a, b)[2].gen = b
  BY DEF Asked
<1>5. fs[i] = IF i = 1 THEN F ELSE G
  OBVIOUS
<1>6. SUFFICES LoadRevs(Asked(F, G, a, b)).res[fs[i]] = NthWith(fs[i], Asked(F, G, a, b)[i].gen)
  OBVIOUS
<1> HIDE DEF F, G
<1>7. /\ F # "ds" => LoadRevs(Asked(F, G, a, b)).res[F] = NthWith(F, a)
      /\ G # "ds" => LoadRevs(Asked(F, G, a, b)).res[G] = NthWith(G, b)
  BY <1>1, <1>2, <1>3, RevsFound
<1> QED BY <1>3, <1>4, <1>5, <1>7

\* A history is read back as it was written, whatever its length and whatever
\* of it can be loaded: StoredHistoricalDatasets lists the page that was asked
\* for, however walkers and callers that give up interleave, a log made from
\* the history holds all of it, and LoadRevs gives the generations asked for.
THEOREM HistoryIsReadBack == WalkSpec => []HistoryReadBack
<1>1. WalkInv /\ [WalkNext]_walkVars => WalkInv'
  BY WalkStep
<1>2. WalkInv => HistoryReadBack
  BY WalkIsExact, RevsAreExact DEF HistoryReadBack
<1> QED BY <1>1, <1>2, WalkStarts, PTL DEF WalkSpec

-----------------------------------------------------------------------------
(* Resolving a reference with the peers. *)

WasRead == {"wasFull", "wasEmpty", "wasLost"}
PeerAnswers == {"none", "full", "empty", "lost"} \union WasRead
\* The peers whose answer the loop of ResolveRef has not read.
Unread == {p \in rslv.asked : rslv.answer[p] \notin WasRead}

\* While ResolveRef asks, its counter is the number of answers it has not read, and
\* none of those it has read had the reference: when the counter is zero none does.
Asking ==
    rslv.at = "asking" =>
       /\ rslv.left = Cardinality(Unread)
       /\ \A p \in rslv.asked : rslv.answer[p] # "wasFull"

AskInv ==
    /\ rslv \in [at : {"idle", "asking", "found", "notfound", "timeout"}, asked : SUBSET Peers,
                 answer : UNION {[ps -> PeerAnswers] : ps \in SUBSET Peers}, left : Int]
    /\ DOMAIN rslv.answer = rslv.asked
    /\ \A p \in rslv.asked : rslv.answer[p] \in {"empty", "wasEmpty"} => p \notin Holders
    /\ Asking /\ NotFoundMeansAll

LEMMA NoRefHolds == ASSUME rslv' = NoRef PROVE AskInv'
<1> DEFINE none == [p \in {} |-> "none"]
<1>1. none \in [{} -> PeerAnswers] /\ DOMAIN none = {}
  BY DEF PeerAnswers, WasRead
<1> HIDE DEF none
<1>2. rslv' = [at |-> "idle", asked |-> {}, answer |-> none, left |-> 0]
  BY DEF NoRef, none
<1>3. none \in UNION {[ps -> PeerAnswers] : ps \in SUBSET Peers}
  BY <1>1
<1>4. rslv' \in [at : {"idle", "asking", "found", "notfound", "timeout"}, asked : SUBSET Peers,
                 answer : UNION {[ps -> PeerAnswers] : ps \in SUBSET Peers}, left : Int]
  BY <1>2, <1>3
<1>5. rslv'.at = "idle" /\ DOMAIN rslv'.answer = rslv'.asked /\ rslv'.asked = {}
  BY <1>1, <1>2
<1> QED BY <1>4, <1>5 DEF AskInv, Asking, NotFoundMeansAll

\* ResolveRef starts with as many answers to read as it asks peers.
LEMMA ResolveStarts == ASSUME AskInv, ResolveRef PROVE AskInv'
<1> DEFINE ps == ConnectedQriPeers
           none == [p \in {} |-> "none"]
           ask == [p \in ps |-> "none"]
<1>1. ps \subseteq Peers
  BY DEF ConnectedQriPeers
<1>2. CASE ps = {}
  <2>1. none \in [{} -> PeerAnswers] /\ DOMAIN none = {}
    BY DEF PeerAnswers, WasRead
  <2> HIDE DEF none
  <2>2. NoRef = [at |-> "idle", asked |-> {}, answer |-> none, left |-> 0]
    BY DEF NoRef, none
  <2>3. rslv' = [NoRef EXCEPT !.at = "notfound"]
    BY <1>2 DEF ResolveRef
  <2>4. rslv' = [at |-> "notfound", asked |-> {}, answer |-> none, left |-> 0]
    BY <2>2, <2>3
  <2>5. rslv' \in [at : {"idle", "asking", "found", "notfound", "timeout"}, asked : SUBSET Peers,
                  answer : UNION {[qs -> PeerAnswers] : qs \in SUBSET Peers}, left : Int]
    <3>1. none \in UNION {[qs -> PeerAnswers] : qs \in SUBSET Peers}
      BY <2>1
    <3> QED BY <2>4, <3>1
  <2>6. rslv'.at = "notfound" /\ rslv'.asked = {} /\ rslv'.answer = none
    BY <2>4
  <2> QED BY <2>1, <2>5, <2>6 DEF AskInv, Asking, NotFoundMeansAll
<1>3. CASE ps # {}
  <2>1. rslv' = [at |-> "asking", asked |-> ps, answer |-> ask, left |-> Cardinality(ps)]
    BY <1>3 DEF ResolveRef
  <2>2. ask \in [ps -> PeerAnswers] /\ DOMAIN ask = ps /\ \A p \in ps : ask[p] = "none"
    BY DEF PeerAnswers, WasRead
  <2> HIDE DEF ps, ask
  <2>3. Cardinality(ps) \in Int
    <3>1. IsFiniteSet(ps)
      BY <1>1, NodeAssumption, FS_Subset
    <3>2. Cardinality(ps) \in Nat
      BY <3>1, FS_CardinalityType
    <3> QED BY <3>2
  <2>4. rslv'.at = "asking" /\ rslv'.asked = ps /\ rslv'.answer = ask /\ rslv'.left = Cardinality(ps)
    BY <2>1
  <2>5. Unread' = ps
    BY <2>2, <2>4 DEF Unread, WasRead
  <2>6. Asking' /\ NotFoundMeansAll'
    BY <2>2, <2>4, <2>5 DEF Asking, NotFoundMeansAll
  <2> QED BY <1>1, <2>1, <2>2, <2>3, <2>4, <2>6 DEF AskInv
<1> QED BY <1>2, <1>3

\* A goroutine answers: nothing is read by that.
LEMMA AnswerKeeps == ASSUME AskInv, NEW p \in Peers, resolveRefRequest(p) PROVE AskInv'
<1>1. PICK a \in {"full", "empty", "lost"} : rslv' = [rslv EXCEPT !.answer[p] = a] /\ (a = "empty" => p \notin Holders)
  BY DEF resolveRefRequest, resolveRefHandler
<1>2. rslv.at = "asking" /\ p \in rslv.asked /\ rslv.answer[p] = "none"
  BY DEF resolveRefRequest
<1> DEFINE ans == [rslv.answer EXCEPT ![p] = a]
<1>3. rslv.answer \in [rslv.asked -> PeerAnswers]
  BY DEF AskInv
<1>4. ans \in [rslv.asked -> PeerAnswers] /\ ans[p] = a /\ \A q \in rslv.asked \ {p} : ans[q] = rslv.answer[q]
  BY <1>2, <1>3 DEF PeerAnswers, WasRead
<1>5. rslv' = [rslv EXCEPT !.answer = ans]
  BY <1>1 DEF AskInv
<1> HIDE DEF ans
<1>6. rslv'.at = "asking" /\ rslv'.asked = rslv.asked /\ rslv'.answer = ans /\ rslv'.left = rslv.left
  BY <1>2, <1>5 DEF AskInv
<1>7. Unread' = Unread
  BY <1>2, <1>4, <1>6 DEF Unread, WasRead
<1>8. Asking' /\ NotFoundMeansAll'
  BY <1>2, <1>4, <1>6, <1>7 DEF AskInv, Asking, NotFoundMeansAll
<1>9. rslv' \in [at : {"idle", "asking", "found", "notfound", "timeout"}, asked : SUBSET Peers,
                 answer : UNION {[ps -> PeerAnswers] : ps \in SUBSET Peers}, left : Int]
  BY <1>4, <1>5 DEF AskInv
<1>10. \A q \in rslv'.asked : rslv'.answer[q] \in {"empty", "wasEmpty"} => q \notin Holders
  BY <1>1, <1>4, <1>6 DEF AskInv
<1> QED BY <1>4, <1>6, <1>8, <1>9, <1>10 DEF AskInv

\* The loop reads an answer: one is left less, and the last one says there is none.
LEMMA ReadKeeps == ASSUME AskInv, NEW p \in Peers, ReadAnswer(p) PROVE AskInv'
<1> DEFINE l == rslv.left - 1
           was == Was(rslv.answer[p])
           to == IF rslv.answer[p] = "full" THEN "found" ELSE IF l = 0 THEN "notfound" ELSE "asking"
           ans == [rslv.answer EXCEPT ![p] = was]
<1>1. rslv.at = "asking" /\ p \in rslv.asked /\ rslv.answer[p] \in {"full", "empty", "lost"}
  BY DEF ReadAnswer
<1>2. rslv' = [rslv EXCEPT !.left = l, !.answer = ans, !.at = to]
  BY DEF ReadAnswer, AskInv
<1>3. rslv.answer \in [rslv.asked -> PeerAnswers] /\ rslv.asked \subseteq Peers
  BY DEF AskInv
<1>4. ans \in [rslv.asked -> PeerAnswers] /\ ans[p] = was /\ \A q \in rslv.asked \ {p} : ans[q] = rslv.answer[q]
  <2>1. was \in WasRead /\ (rslv.answer[p] # "full" => was # "wasFull")
        /\ (was = "wasEmpty" <=> rslv.answer[p] = "empty")
    BY <1>1 DEF WasRead, Was
  <2> HIDE DEF was
  <2> QED BY <1>1, <1>3, <2>1 DEF PeerAnswers
<1>10. was \in WasRead /\ (rslv.answer[p] # "full" => was # "wasFull")
       /\ (was = "wasEmpty" <=> rslv.answer[p] = "empty")
  BY <1>1 DEF WasRead, Was
<1> HIDE DEF was
<1>5. l \in Int /\ to \in {"found", "notfound", "asking"}
  BY DEF AskInv
<1> HIDE DEF ans
<1>6. rslv'.at = to /\ rslv'.asked = rslv.asked /\ rslv'.answer = ans /\ rslv'.left = l
  <2> HIDE DEF l, to
  <2> QED BY <1>2 DEF AskInv
<1>7. rslv' \in [at : {"idle", "asking", "found", "notfound", "timeout"}, asked : SUBSET Peers,
                 answer : UNION {[ps -> PeerAnswers] : ps \in SUBSET Peers}, left : Int]
  <2> HIDE DEF l, to
  <2> QED BY <1>2, <1>4, <1>5 DEF AskInv
<1>11. \A q \in rslv'.asked : rslv'.answer[q] \in {"empty", "wasEmpty"} => q \notin Holders
  BY <1>1, <1>4, <1>6, <1>10 DEF AskInv, WasRead
<1>8. CASE rslv.answer[p] = "full"
  BY <1>4, <1>6, <1>7, <1>8, <1>11 DEF AskInv, Asking, NotFoundMeansAll
<1>9. CASE rslv.answer[p] \in {"empty", "lost"}
  <2>1. /\ IsFiniteSet(Unread) /\ p \in Unread
        /\ rslv.left = Cardinality(Unread) /\ \A q \in rslv.asked : rslv.answer[q] # "wasFull"
    <3>1. Unread \subseteq Peers /\ p \in Unread
      BY <1>1, <1>3, <1>9 DEF Unread, WasRead
    <3>2. IsFiniteSet(Unread)
      BY <3>1, NodeAssumption, FS_Subset
    <3> QED BY <1>1, <3>1, <3>2 DEF AskInv, Asking
  <2>2. Unread' = Unread \ {p} /\ was # "wasFull"
    BY <1>4, <1>6, <1>9, <1>10 DEF Unread
  <2>3. Cardinality(Unread') = l /\ IsFiniteSet(Unread')
    BY <2>1, <2>2, FS_RemoveElement
  <2>4. \A q \in rslv.asked : ans[q] # "wasFull"
    BY <1>4, <2>1, <2>2
  <2>5. Asking'
    BY <1>6, <2>3, <2>4 DEF Asking
  <2>6. NotFoundMeansAll'
    <3> SUFFICES ASSUME l = 0
                 PROVE  \A q \in rslv.asked : ans[q] = "wasLost" \/ (ans[q] = "wasEmpty" /\ q \notin Holders)
      BY <1>6, <1>9 DEF NotFoundMeansAll
    <3>1. Unread' = {}
      BY <2>3, FS_EmptySet
    <3>2. \A q \in rslv.asked : ans[q] \in WasRead
      BY <1>6, <3>1 DEF Unread
    <3> QED BY <1>6, <1>11, <2>4, <3>2 DEF WasRead
  <2> QED BY <1>4, <1>6, <1>7, <1>11, <2>5, <2>6 DEF AskInv
<1> QED BY <1>1, <1>8, <1>9

\* The timeout passes.
LEMMA TimeoutKeeps == ASSUME AskInv, ResolveTimesOut PROVE AskInv'
<1>1. rslv' = [rslv EXCEPT !.at = "timeout"]
  BY DEF ResolveTimesOut
<1> QED BY <1>1 DEF AskInv, Asking, NotFoundMeansAll

LEMMA RestKeeps == ASSUME AskInv, UNCHANGED rslv PROVE AskInv'
BY DEF AskInv, Asking, NotFoundMeansAll, Unread

LEMMA StepKeeps == ASSUME AskInv, [Next]_vars PROVE AskInv'
<1>1. CASE ResolveRef
  BY <1>1, ResolveStarts
<1>2. CASE \E p \in Peers : resolveRefRequest(p)
  BY <1>2, AnswerKeeps
<1>3. CASE \E p \in Peers : ReadAnswer(p)
  BY <1>3, ReadKeeps
<1>4. CASE ResolveTimesOut
  BY <1>4, TimeoutKeeps
<1>5. CASE ResolveReturns
  BY <1>5, NoRefHolds DEF ResolveReturns
<1>6. CASE UNCHANGED rslv
  BY <1>6, RestKeeps
<1>7. NodeSteps => \/ ResolveRef \/ (\E p \in Peers : resolveRefRequest(p)) \/ (\E p \in Peers : ReadAnswer(p))
                   \/ ResolveTimesOut \/ ResolveReturns \/ UNCHANGED rslv
  BY DEF NodeSteps, Dial, Identified, IdentifyFails, Drop, QriProfileRequest, LoopResumes, NewStream,
         receiveAndStoreProfile, DisconnectLooks, DisconnectRemoves, ConnectToPeer, DisconnectFromPeer,
         RequestDatasetsList, sendMessage, handleStream, ConnectReturns, DatasetsListed
<1>8. Next => Serving \/ UNCHANGED rslv
  BY DEF Next, NewInstance, Reconnects, Shutdown, waitForAllDone, ShutdownReported, Connect, GoOnline,
         HolderAdds, HolderPanics, HolderLeaves, nodeVars
<1> QED BY <1>1, <1>2, <1>3, <1>4, <1>5, <1>6, <1>7, <1>8 DEF Serving, vars, nodeVars

\* A reference is reported unknown only after every peer that was asked has answered
\* and does not have it, or was lost (p2pRefResolver.ResolveRef).
THEOREM NotFoundIsAll == Spec => []NotFoundMeansAll
<1>1. Init => AskInv
  <2> DEFINE none == [p \in {} |-> "none"]
  <2>1. none \in [{} -> PeerAnswers] /\ DOMAIN none = {}
    BY DEF PeerAnswers, WasRead
  <2> HIDE DEF none
  <2>2. Init => rslv = [at |-> "idle", asked |-> {}, answer |-> none, left |-> 0]
    BY DEF Init, NodeInit, NodeRest, NoRef, none
  <2> SUFFICES ASSUME Init PROVE AskInv
    OBVIOUS
  <2>3. rslv \in [at : {"idle", "asking", "found", "notfound", "timeout"}, asked : SUBSET Peers,
                 answer : UNION {[qs -> PeerAnswers] : qs \in SUBSET Peers}, left : Int]
    <3>1. none \in UNION {[qs -> PeerAnswers] : qs \in SUBSET Peers}
      BY <2>1
    <3> QED BY <2>2, <3>1
  <2>4. rslv.at = "idle" /\ rslv.asked = {} /\ rslv.answer = none
    BY <2>2
  <2> QED BY <2>1, <2>3, <2>4 DEF AskInv, Asking, NotFoundMeansAll
<1>2. AskInv /\ [Next]_vars => AskInv'
  BY StepKeeps
<1>3. AskInv => NotFoundMeansAll
  BY DEF AskInv
<1> QED BY <1>1, <1>2, <1>3, PTL DEF Spec

-----------------------------------------------------------------------------
(* Waiting for a profile. *)

\* Every channel that is open has its request.
Served == \A w \in open : \E r \in reqs : r.wait = w

LEMMA ServedKept == ASSUME Served, [Next]_vars PROVE Served'
<1>1. CASE UNCHANGED <<open, reqs>>
  BY <1>1 DEF Served
<1>2. ASSUME NEW ps, Closed(ps), UNCHANGED open PROVE Served'
  <2> SUFFICES ASSUME NEW w \in open PROVE \E r \in reqs' : r.wait = w
    BY <1>2 DEF Served
  <2>1. PICK r \in reqs : r.wait = w
    BY DEF Served
  <2> DEFINE q == IF r.peer \in ps /\ r.at = "stream" THEN [r EXCEPT !.at = "reset"] ELSE r
  <2>2. q \in reqs'
    BY <1>2 DEF Closed
  <2>3. q.wait = w
    BY <2>1
  <2> QED BY <2>2, <2>3
<1>3. ASSUME NEW p, profileWait(p) PROVE Served'
  <2>1. CASE peers[p] # 0
    BY <1>1, <1>3, <2>1 DEF profileWait, qis
  <2>2. CASE peers[p] = 0
    <3> DEFINE new == [peer |-> p, wait |-> last + 1, at |-> "start"]
    <3>1. open' = open \cup {last + 1} /\ reqs' = reqs \cup {new}
      BY <1>3, <2>2 DEF profileWait
    <3>2. new.wait = last + 1
      OBVIOUS
    <3> HIDE DEF new
    <3> QED BY <3>1, <3>2 DEF Served
  <2> QED BY <2>1, <2>2
<1>4. ASSUME NEW r \in reqs, RequestEnds(r) PROVE Served'
  BY <1>4 DEF RequestEnds, Served
<1>5. ASSUME NEW r \in reqs, NewStream(r) PROVE Served'
  <2>1. CASE RequestEnds(r)
    BY <1>4, <2>1
  <2>2. CASE ~RequestEnds(r)
    <3> DEFINE q == [r EXCEPT !.at = "stream"]
    <3>1. reqs' = (reqs \ {r}) \cup {q} /\ open' = open
      BY <1>5, <2>2 DEF NewStream
    <3>2. q.wait = r.wait
      OBVIOUS
    <3> HIDE DEF q
    <3> QED BY <3>1, <3>2 DEF Served
  <2> QED BY <2>1, <2>2
<1>6. ASSUME NodeSteps PROVE Served'
  <2>1. ASSUME NEW p \in Peers, Drop(p) PROVE Served'
    BY <1>2, <2>1 DEF Drop
  <2>2. ASSUME NEW i \in DOMAIN loops, QriProfileRequest(i) PROVE Served'
    BY <1>1, <1>3, <2>2 DEF QriProfileRequest, qis
  <2>3. ASSUME NEW r \in reqs, receiveAndStoreProfile(r) PROVE Served'
    BY <1>4, <2>3 DEF receiveAndStoreProfile
  <2>4. ASSUME NEW p \in Peers, NEW by, ConnectToPeer(p, by) PROVE Served'
    BY <1>1, <1>3, <2>4 DEF ConnectToPeer, qis
  <2>5. ASSUME NEW p \in Peers, NEW by, DisconnectFromPeer(p, by) PROVE Served'
    BY <1>2, <2>5 DEF DisconnectFromPeer
  <2>6. \/ \E p \in Peers : Drop(p)
        \/ \E i \in DOMAIN loops : QriProfileRequest(i)
        \/ \E r \in reqs : NewStream(r) \/ receiveAndStoreProfile(r)
        \/ \E p \in Peers, by \in {"address", "name"} : ConnectToPeer(p, by) \/ DisconnectFromPeer(p, by)
        \/ UNCHANGED <<open, reqs>>
    BY <1>6 DEF NodeSteps, Dial, Identified, IdentifyFails, LoopResumes, DisconnectLooks, DisconnectRemoves,
                RequestDatasetsList, sendMessage, handleStream, ConnectReturns, DatasetsListed, qis,
                resolveRefRequest, ReadAnswer, ResolveRef, ResolveTimesOut, ResolveReturns
  <2> QED BY <1>1, <1>5, <2>1, <2>2, <2>3, <2>4, <2>5, <2>6
<1>7. ASSUME NEW o, Connect(o) PROVE Served'
  BY <1>1, <1>2, <1>7 DEF Connect, GoOnline
<1>8. CASE Shutdown
  BY <1>1, <1>2, <1>8 DEF Shutdown, GoOffline
<1>9. Next => NodeSteps \/ (\E o \in {"ok", "hostFails", "ownerFails"} : Connect(o)) \/ Shutdown \/ UNCHANGED <<open, reqs>>
  BY DEF Next, NewInstance, Reconnects, waitForAllDone, ShutdownReported, Serving,
         HolderAdds, HolderPanics, HolderLeaves, nodeVars, qis
<1> QED BY <1>1, <1>6, <1>7, <1>8, <1>9 DEF vars, nodeVars, qis

\* Nobody waits for a profile that nobody fetches any more, for any number of peers,
\* connections and calls (profileWait, profileRequest, HandleQriPeerDisconnect).
THEOREM WaitsAreFetched == Spec => []WaitsAreServed
<1>1. Init => Served
  BY DEF Init, NodeInit, NodeRest, Served
<1>2. Served => WaitsAreServed
  BY DEF Served, WaitsAreServed
<1> QED BY <1>1, <1>2, ServedKept, PTL DEF Spec
=============================================================================
