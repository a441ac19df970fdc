----------------------------- MODULE StatsCache -----------------------------
(***************************************************************************)
(* The cache of computed stats: a file per key, and info.json with the     *)
(* properties of each stats file and of the file the stats are of.         *)
(*                                                                         *)
(* Key Linked is the body file of a working directory, which the user may  *)
(* edit; the other keys are stored versions, which never change.  A body,  *)
(* the stats of it and its properties (size and time of change) are the    *)
(* number of the edit.                                                     *)
(***************************************************************************)
EXTENDS Naturals, FiniteSets

CONSTANTS Readers,    \* requests for stats at once
          Keys,       \* dataset paths
          Linked,     \* the one that is a local file
          Room,       \* maxSize, in stats components
          MaxEdits    \* BOUND

ASSUME StatsAssumption == Linked \in Keys /\ Room \in Nat \ {0} /\ MaxEdits \in Nat

VARIABLES body,      \* body[k]: what the body of k is
          files,     \* files[k]: the stats file of k: Absent, Torn or the body it is of
          info,      \* c.info: info[k]: the target's properties, or Absent
          infoFile,  \* info.json: "none", "corrupt" or a copy of info
          root,      \* the directory of the cache is there
          stats,     \* stats[r]: the request of r
          crossed    \* history: the body was edited while stats of it were computed or put

statsVars == <<body, files, info, infoFile, root, stats, crossed>>

Absent == 0
Torn == MaxEdits + 2
NoRequest == [at |-> "idle"]
NoInfo == [k \in Keys |-> Absent]
At(r, s) == stats' = [stats EXCEPT ![r] = s]

-----------------------------------------------------------------------------
\* Service.Stats asks the cache first.  GetStats looks into the map, without the lock.
GetStats(r, k) ==
  /\ stats[r] = NoRequest
  /\ At(r, [at |-> IF info[k] = Absent THEN "compute" ELSE "stat", key |-> k, from |-> body[k],
            noted |-> info[k], of |-> Absent])
  /\ UNCHANGED <<body, files, info, infoFile, root, crossed>>

\* MUTANT: the properties of the body file are not compared.
StatTargetUnchecked(r) ==
  /\ stats[r].at = "stat"
  /\ At(r, [stats[r] EXCEPT !.at = "open"])
  /\ UNCHANGED <<body, files, info, infoFile, root, crossed>>

\* The properties of a local file must be those that were noted.
StatTarget(r) ==
  LET s == stats[r] IN
  /\ s.at = "stat"
  /\ At(r, [s EXCEPT !.at = IF s.key = Linked /\ s.noted # body[s.key] THEN "compute" ELSE "open"])
  /\ UNCHANGED <<body, files, info, infoFile, root, crossed>>

\* The stats file is opened, if no other request has purged it meanwhile.
OpenStats(r) ==
  LET s == stats[r] IN
  /\ s.at = "open"
  /\ At(r, IF files[s.key] = Absent THEN [s EXCEPT !.at = "compute"]
           ELSE [s EXCEPT !.at = "decode", !.of = files[s.key]])
  /\ UNCHANGED <<body, files, info, infoFile, root, crossed>>

\* What is decoded is what the file holds by now, or, if it was purged since, what
\* it held when it was opened.  A file that is being written cannot be decoded, and
\* then the stats are computed.
DecodeStats(r) ==
  LET s == stats[r] IN
  /\ s.at = "decode"
  /\ \E got \in {s.of, files[s.key]} \ {Absent} :
       At(r, IF got = Torn THEN [s EXCEPT !.at = "compute"] ELSE [s EXCEPT !.at = "answer", !.of = got])
  /\ UNCHANGED <<body, files, info, infoFile, root, crossed>>

\* The body is read and counted, or has no schema that can be inferred.
Compute(r) ==
  /\ stats[r].at = "compute"
  /\ \/ At(r, [stats[r] EXCEPT !.at = "props", !.of = body[stats[r].key]])
     \/ At(r, NoRequest)
  /\ UNCHANGED <<body, files, info, infoFile, root, crossed>>

\* PutStats: the properties of the target as it is NOW; then the stats file.
PutProps(r) ==
  LET s == stats[r] IN
  /\ s.at = "props"
  /\ At(r, [s EXCEPT !.at = "write", !.noted = body[s.key]])
  /\ UNCHANGED <<body, files, info, infoFile, root, crossed>>

\* WriteFile truncates and fills; it fails without the directory.
PutOpens(r) ==
  LET s == stats[r] IN
  /\ s.at = "write"
  /\ IF root THEN files' = [files EXCEPT ![s.key] = Torn] /\ At(r, [s EXCEPT !.at = "fill"])
     ELSE UNCHANGED files /\ At(r, [s EXCEPT !.at = "answer"])
  /\ UNCHANGED <<body, info, infoFile, root, crossed>>

PutFills(r) ==
  LET s == stats[r] IN
  /\ s.at = "fill"
  /\ files' = [files EXCEPT ![s.key] = s.of]
  /\ At(r, [s EXCEPT !.at = "add"])
  /\ UNCHANGED <<body, info, infoFile, root, crossed>>

\* addAndPurgeExpired, under the lock: while there are too many, one other goes (any
\* of them, the lowest time is never kept); its file may be gone already, and then
\* nothing more is purged.
addAndPurgeExpired(r) ==
  LET s == stats[r]
      added == [info EXCEPT ![s.key] = s.noted]
      known == {k \in Keys : added[k] # Absent}
      over  == Cardinality(known) - Room IN
  /\ s.at = "add"
  /\ At(r, [s EXCEPT !.at = "save"])
  /\ IF over <= 0 THEN info' = added /\ UNCHANGED files
     ELSE \E out \in SUBSET (known \ {s.key}) :
            /\ Cardinality(out) = over \/ (Cardinality(out) < over /\ \E k \in known \ ({s.key} \union out) : files[k] = Absent)
            /\ \A k \in out : files[k] # Absent
            /\ files' = [k \in Keys |-> IF k \in out THEN Absent ELSE files[k]]
            /\ info' = [k \in Keys |-> IF k \in out THEN Absent ELSE added[k]]
  /\ UNCHANGED <<body, infoFile, root, crossed>>

writeCacheInfo(r) ==
  LET s == stats[r] IN
  /\ s.at = "save"
  /\ infoFile' = IF root THEN [is |-> "info", of |-> info] ELSE infoFile
  /\ At(r, [s EXCEPT !.at = "answer"])
  /\ UNCHANGED <<body, files, info, root, crossed>>

Answered(r) ==
  /\ stats[r].at = "answer"
  /\ At(r, NoRequest)
  /\ UNCHANGED <<body, files, info, infoFile, root, crossed>>

-----------------------------------------------------------------------------
EditBody ==
  /\ body[Linked] <= MaxEdits
  /\ body' = [body EXCEPT ![Linked] = @ + 1]
  /\ crossed' = (crossed \/ \E r \in Readers : stats[r].at \in {"props", "write", "fill", "add", "save"} /\ stats[r].key = Linked)
  /\ UNCHANGED <<files, info, infoFile, root, stats>>

\* The process ends, perhaps while it writes info.json; NewLocalCache reads it:
\* a corrupt one takes the whole directory with it, and the directory is not made
\* again before the next start.
NewLocalCache(torn) ==
  /\ torn => root /\ \E r \in Readers : stats[r].at = "save"
  /\ stats' = [r \in Readers |-> NoRequest]
  /\ IF torn
     THEN files' = NoInfo /\ info' = NoInfo /\ infoFile' = [is |-> "none", of |-> NoInfo] /\ root' = FALSE
     ELSE info' = infoFile.of /\ root' = TRUE /\ UNCHANGED <<files, infoFile>>
  /\ UNCHANGED <<body, crossed>>

StatsInit ==
  /\ body = [k \in Keys |-> 1]
  /\ files = NoInfo /\ info = NoInfo /\ infoFile = [is |-> "none", of |-> NoInfo] /\ root = TRUE
  /\ stats = [r \in Readers |-> NoRequest] /\ crossed = FALSE

StatsNext ==
  \/ EditBody
  \/ \E torn \in BOOLEAN : NewLocalCache(torn)
  \/ \E r \in Readers :
       \/ \E k \in Keys : GetStats(r, k)
       \/ StatTarget(r) \/ OpenStats(r) \/ DecodeStats(r)
       \/ Compute(r) \/ PutProps(r) \/ PutOpens(r) \/ PutFills(r)
       \/ addAndPurgeExpired(r) \/ writeCacheInfo(r) \/ Answered(r)

StatsSpec == StatsInit /\ [][StatsNext]_statsVars

-----------------------------------------------------------------------------
\* The stats a request is answered with are those of a body the key had while the
\* request was under way, whatever was cached before it, put or purged between its
\* look into the map, its check of the body's properties and its reading of the
\* file, or left behind by a process that died; as long as the body was not edited
\* between being read by another request and the end of that one's put, when its
\* stats are noted with the properties of the edit (stats.Service.Stats, localCache).
StatsOfBody ==
  crossed \/ \A r \in Readers :
    stats[r].at = "answer" => stats[r].of \in stats[r].from .. body[stats[r].key]
=============================================================================
