------------------------------ MODULE Catalog ------------------------------
(***************************************************************************)
(* What a repository answers when it is asked for a dataset by name, while *)
(* the author works in it.  Three stores know a name: the logbook, the     *)
(* refstore and the dscache, which follows the events the writers publish. *)
(* Requests resolve a name in the cache first, then in the repository,     *)
(* then on the network, and load what they found.                          *)
(*                                                                         *)
(* The writers are those of Datasets and Logbook, a step for every change  *)
(* of a shared store.  One profile, Me, owns every name here; a version is *)
(* a number, 0 is none.  What a pull brings in is the subject of Remote.   *)
(***************************************************************************)
EXTENDS Dscache, FiniteSets

CONSTANTS Callers,      \* requests under way at once: 1 .. n
          Names,        \* dataset names, positive naturals
          Dir,          \* the working directory, a positive natural
          MaxLogs,      \* BOUND: datasets started
          MaxSaves      \* BOUND: versions saved

ASSUME NamesAssumption == Names \subseteq Nat \ {0}

Me == 1                 \* the author: user and profile ID

VARIABLES book,       \* book[i]: the dataset log with init ID i: [name, ops, gone]
          refs,       \* refs[n]: the refstore: [path, dir], or NoRef
          prev,       \* prev[v]: the version before v; DOMAIN prev are the versions made
          stored,     \* the versions in the store
          dirs,       \* the directories that hold a link file
          cache,      \* inst.dscache, in memory
          cfile,      \* dscache.qfb
          createNew,  \* Dscache.CreateNewEnabled
          profiles,   \* the users of the profile store
          req,        \* req[c]: the operation or the request of c
          lost,       \* history: two handlers overlapped, or one came late
          left,       \* BOUND: operations and requests that may still start
          width       \* BOUND: how many of them at once

catVars == <<book, refs, prev, stored, dirs, cache, cfile, createNew, profiles, req, lost, left, width>>
repoVars == <<book, refs, prev, stored, dirs>>
cacheVars == <<cache, cfile, lost>>
counts == <<left, width>>

NoRef == [path |-> 0, dir |-> -1]
HasRef(n) == refs[n] # NoRef
Idle == [at |-> "idle"]

\* RefToInitID, HeadRef: the first live log that has the name.
Live(n) == {i \in DOMAIN book : book[i].name = n /\ ~book[i].gone}
RefToInitID(n) == IF Live(n) = {} THEN 0 ELSE CHOOSE i \in Live(n) : \A j \in Live(n) : i <= j

\* The path a log says is the newest.
LogHead(i) == Head0(Versions(book[i].ops))

-----------------------------------------------------------------------------
(***************************************************************************)
(* Events.  The publisher's goroutine runs the handler: it reads the cache *)
(* and then assigns the new buffer and writes the file.                    *)
(***************************************************************************)
DsChange(i, n, top, head, dir) ==
  [init |-> i, user |-> Me, id |-> Me, name |-> n, top |-> top, head |-> head, dir |-> dir]

Publish(c, type, act, next) == req' = [req EXCEPT ![c] = [at |-> "event", type |-> type, act |-> act, next |-> next]]

\* The event is behind the log: another writer of the same log went first.
Late(r) == r.type \in {"init", "commit"} /\ r.act.init \in DOMAIN book /\ r.act.head # LogHead(r.act.init)

Handle(c) ==
  LET r == req[c] IN
  /\ r.at = "event"
  /\ req' = [req EXCEPT ![c] = [at |-> "assign", next |-> r.next,
                                new |-> handler(cache, r.type, r.act, createNew, Me)]]
  /\ lost' = (lost \/ Late(r) \/ \E d \in Callers : req[d].at = "assign")
  /\ UNCHANGED <<repoVars, cache, cfile, createNew, profiles, counts>>

\* The vector of references is shorter than the users' and the read panics.
HandlerPanics(c) ==
  /\ req[c].at = "event" /\ req[c].type = "init" /\ ReadsPastEnd(cache)
  /\ req' = [req EXCEPT ![c] = Idle]
  /\ UNCHANGED <<repoVars, cacheVars, createNew, profiles, counts>>

Assign(c) ==
  /\ req[c].at = "assign"
  /\ cache' = req[c].new
  /\ cfile' = IF IsEmpty(req[c].new) THEN cfile ELSE req[c].new
  /\ req' = [req EXCEPT ![c] = req[c].next]
  /\ UNCHANGED <<repoVars, lost, createNew, profiles, counts>>

-----------------------------------------------------------------------------
(***************************************************************************)
(* The author.                                                             *)
(***************************************************************************)
MayStart(c) ==
  /\ c <= width /\ req[c] = Idle
  /\ left > 0 /\ left' = left - 1 /\ UNCHANGED width

\* Save: a name without a log is started first (WriteDatasetInit).  "enable" is the
\* parameter UseDscache of the request.
StartSave(c, n, enable) ==
  LET put(i) == [at |-> "put", n |-> n, i |-> i] IN
  /\ MayStart(c)
  /\ createNew' = (createNew \/ enable)
  /\ \/ /\ RefToInitID(n) # 0
        /\ req' = [req EXCEPT ![c] = put(RefToInitID(n))] /\ UNCHANGED book
     \/ /\ RefToInitID(n) = 0 /\ Len(book) < MaxLogs
        /\ book' = Append(book, [name |-> n, ops |-> <<BranchInit>>, gone |-> FALSE])
        /\ Publish(c, "init", DsChange(Len(book) + 1, n, 0, 0, 0), put(Len(book) + 1))
  /\ UNCHANGED <<refs, prev, stored, dirs, cacheVars, profiles>>

\* The version is stored and the reference put under the name.
SavePuts(c) ==
  LET n == req[c].n  v == Len(prev) + 1  was == refs[n] IN
  /\ req[c].at = "put" /\ Len(prev) < MaxSaves
  /\ prev' = Append(prev, was.path)
  /\ stored' = stored \union {v}
  /\ refs' = [refs EXCEPT ![n] = [path |-> v, dir |-> IF HasRef(n) THEN was.dir ELSE 0]]
  /\ req' = [req EXCEPT ![c] = [at |-> "log", i |-> req[c].i, v |-> v]]
  /\ UNCHANGED <<book, dirs, cacheVars, createNew, profiles, counts>>

\* WriteVersionSave.
SaveLogs(c) ==
  LET r == req[c] IN
  /\ r.at = "log"
  /\ book' = [book EXCEPT ![r.i].ops = Append(@, Commit(r.v, 0))]
  /\ Publish(c, "commit", DsChange(r.i, 0, Len(book[r.i].ops), r.v, 0), Idle)
  /\ UNCHANGED <<refs, prev, stored, dirs, cacheVars, createNew, profiles, counts>>

\* WriteTransformRun: a run that saved nothing; no event.
RunFails(c, i) ==
  /\ MayStart(c) /\ i \in DOMAIN book /\ ~book[i].gone
  /\ book' = [book EXCEPT ![i].ops = Append(@, Run(1))]
  /\ UNCHANGED <<refs, prev, stored, dirs, cacheVars, createNew, profiles, req>>

\* RenameDatasetRef: the log, the reference under the old name, the one under the new.
StartRename(c, a, b) ==
  /\ MayStart(c) /\ a # b /\ HasRef(a) /\ RefToInitID(a) # 0 /\ ~HasRef(b)
  /\ book' = [book EXCEPT ![RefToInitID(a)].name = b]
  /\ Publish(c, "rename", DsChange(RefToInitID(a), b, 0, 0, 0), [at |-> "unput", n |-> a, to |-> b])
  /\ UNCHANGED <<refs, prev, stored, dirs, cacheVars, createNew, profiles>>

\* DeleteVersionInfoShim, of a rename or of a remove ("to" is 0); it fails when
\* another request was faster.
Unput(c) ==
  LET r == req[c] IN
  /\ r.at = "unput"
  /\ refs' = [refs EXCEPT ![r.n] = NoRef]
  /\ req' = [req EXCEPT ![c] = IF r.to = 0 \/ ~HasRef(r.n) THEN Idle
                               ELSE [at |-> "reput", n |-> r.to, ref |-> refs[r.n]]]
  /\ UNCHANGED <<book, prev, stored, dirs, cacheVars, createNew, profiles, counts>>

Reput(c) ==
  /\ req[c].at = "reput"
  /\ refs' = [refs EXCEPT ![req[c].n] = req[c].ref]
  /\ req' = [req EXCEPT ![c] = Idle]
  /\ UNCHANGED <<book, prev, stored, dirs, cacheVars, createNew, profiles, counts>>

\* The versions from v on, newest first.
Chain(v) == LET walk[x \in 0 .. v] == IF x = 0 THEN <<>> ELSE <<x>> \o walk[prev[x]] IN walk[v]

\* RemoveNVersionsFromStore, of the newest version or of all: the blocks go, the
\* reference goes back to the version before (or stays at the oldest).
StartRemove(c, n, all) ==
  LET chain == Chain(refs[n].path)
      back  == IF all \/ Len(chain) = 1 THEN Last(chain) ELSE chain[2] IN
  /\ MayStart(c) /\ HasRef(n) /\ refs[n].path # 0 /\ RefToInitID(n) # 0
  /\ ~all => Len(chain) > 1
  /\ stored' = stored \ (IF all THEN {chain[k] : k \in DOMAIN chain} ELSE {chain[1]})
  /\ refs' = [refs EXCEPT ![n].path = back]
  /\ req' = [req EXCEPT ![c] = [at |-> "unlog", i |-> RefToInitID(n), n |-> n, all |-> all]]
  /\ UNCHANGED <<book, prev, dirs, cacheVars, createNew, profiles>>

\* WriteVersionDelete: the event names the OLDEST version that is left, and there
\* is none when no version is.
RemoveLogs(c) ==
  LET r == req[c]
      nops  == Append(book[r.i].ops, Delete(IF r.all THEN -1 ELSE 1))
      items == VersionInfos(nops, FALSE)
      next  == IF r.all THEN [at |-> "end", i |-> r.i, n |-> r.n] ELSE Idle IN
  /\ r.at = "unlog"
  /\ book' = [book EXCEPT ![r.i].ops = nops]
  /\ IF items = <<>> THEN req' = [req EXCEPT ![c] = next]
     ELSE Publish(c, "commit", DsChange(r.i, 0, Len(items), Last(items).path, 0), next)
  /\ UNCHANGED <<refs, prev, stored, dirs, cacheVars, createNew, profiles, counts>>

\* WriteDatasetDelete; the reference goes last.
DeleteLogs(c) ==
  LET r == req[c] IN
  /\ r.at = "end"
  /\ book' = [book EXCEPT ![r.i].gone = TRUE]
  /\ Publish(c, "delete", DsChange(r.i, 0, 0, 0, 0), [at |-> "unput", n |-> r.n, to |-> 0])
  /\ UNCHANGED <<refs, prev, stored, dirs, cacheVars, createNew, profiles, counts>>

\* CreateLink: the reference and the link file.
StartLink(c, n) ==
  /\ MayStart(c) /\ HasRef(n) /\ refs[n].dir = 0
  /\ refs' = [refs EXCEPT ![n].dir = Dir]
  /\ dirs' = dirs \union {Dir}
  /\ Publish(c, "link", DsChange(RefToInitID(n), n, 0, 0, Dir), Idle)
  /\ UNCHANGED <<book, prev, stored, cacheVars, createNew, profiles>>

\* The user removes the directory; a process ends, cleanly or not, and the next
\* one reads the cache's file.
DirGone == Dir \in dirs /\ dirs' = dirs \ {Dir} /\ UNCHANGED <<book, refs, prev, stored, cacheVars, createNew, profiles, req, counts>>

Restart ==
  /\ cache # cfile \/ createNew \/ \E c \in Callers : req[c] # Idle
  /\ cache' = cfile /\ createNew' = FALSE
  /\ lost' = (lost \/ \E c \in Callers : req[c] # Idle)
  /\ req' = [c \in Callers |-> Idle]
  /\ UNCHANGED <<repoVars, cfile, profiles, counts>>

-----------------------------------------------------------------------------
(***************************************************************************)
(* Resolving and loading.                                                  *)
(***************************************************************************)
\* Repo.ResolveRef: the refstore, then the init ID from the logbook; a reference
\* without a log is an error, not "not found".
ResolveInRepo(n, path) ==
  IF ~HasRef(n) THEN [end |-> "notfound", init |-> 0, path |-> path]
  ELSE [end |-> IF RefToInitID(n) = 0 THEN "error" ELSE "found", init |-> RefToInitID(n),
        path |-> IF path = 0 THEN refs[n].path ELSE path]

\* sequentialResolver: the first that does not answer "not found".
sequentialResolver(n, path) ==
  LET hit == ResolveInCache(cache, Me, n, path) IN
  IF hit.found THEN [end |-> "found", init |-> hit.init, path |-> hit.path] ELSE ResolveInRepo(n, path)

\* parallelResolver: what it may answer, given what each resolver does.  The first
\* answer that is not "not found" wins; an answer that comes later is dropped.
parallelResolver(answers) ==
  {answers[s] : s \in {t \in DOMAIN answers : answers[t] # "notfound"}} \union
  IF \A s \in DOMAIN answers : answers[s] = "notfound" THEN {"notfound"} ELSE {}

\* resolverForMode, defaultResolver: what is found on the network is pulled (Remote).
\* answers: of the registry and of the peers.
resolverForMode(mode, n, path, answers) ==
  LET local == sequentialResolver(n, path)
      far   == IF mode = "network" THEN answers ELSE [answers EXCEPT !.peers = "notfound"]
      there == {[end |-> IF e = "found" THEN "remote" ELSE e, init |-> 0, path |-> path] : e \in parallelResolver(far)}
  IN  CASE mode = "local"   -> {local}
        [] mode = "network" -> there
        [] mode = ""        -> IF local.end = "notfound" THEN there ELSE {local}

\* ParseAndResolveRef, and ParseAndResolveRefWithWorkingDir: without a path given, a
\* linked directory is taken for the version; that needs an init ID.
ParseAndResolveRef(mode, n, path, answers) == resolverForMode(mode, n, path, answers)

ParseAndResolveRefWithWorkingDir(mode, n, path, answers) ==
  {IF r.end # "found" \/ path # 0 THEN r
   ELSE IF r.init = 0 THEN [r EXCEPT !.end = "error"]
   ELSE IF HasRef(n) /\ refs[n].dir > 0 THEN [r EXCEPT !.path = 0 - refs[n].dir] ELSE r
   : r \in resolverForMode(mode, n, path, answers)}

\* A path below 0 is that of a directory (IsFSIPath).
loadLocalDataset(path) ==
  CASE path < 0 -> IF 0 - path \in dirs THEN "ok" ELSE "error"
    [] OTHER    -> IF path \in stored THEN "ok" ELSE "error"

\* Get, first half; a request that names a version gives its path.
GetResolves(c, n, mode, path, answers) ==
  /\ MayStart(c) /\ path \in stored \union {0}
  /\ \E r \in ParseAndResolveRefWithWorkingDir(mode, n, path, answers) :
       req' = [req EXCEPT ![c] = IF r.end = "found" THEN [at |-> "load", path |-> r.path] ELSE Idle]
  /\ UNCHANGED <<repoVars, cacheVars, createNew, profiles>>

\* NewParseResolveLoadFunc, the loader of transforms and SQL: no working directories,
\* and a dataset without a version is an error.
ParseResolveLoad(c, n, answers) ==
  /\ MayStart(c)
  /\ \E r \in ParseAndResolveRef("", n, 0, answers) :
       req' = [req EXCEPT ![c] = IF r.end = "found" /\ r.path # 0 THEN [at |-> "load", path |-> r.path] ELSE Idle]
  /\ UNCHANGED <<repoVars, cacheVars, createNew, profiles>>

\* Second half: the version, or the directory, may be gone by now.
GetLoads(c) ==
  /\ req[c].at = "load"
  /\ req' = [req EXCEPT ![c] = IF loadLocalDataset(req[c].path) = "ok" THEN [at |-> "got", path |-> req[c].path] ELSE Idle]
  /\ UNCHANGED <<repoVars, cacheVars, createNew, profiles, counts>>

GetEnds(c) == req[c].at = "got" /\ req' = [req EXCEPT ![c] = Idle] /\ UNCHANGED <<repoVars, cacheVars, createNew, profiles, counts>>

-----------------------------------------------------------------------------
(***************************************************************************)
(* Listing.                                                                *)
(***************************************************************************)
References == LET s == SetToSortSeq({n \in Names : HasRef(n)}, <) IN
              [i \in DOMAIN s |-> [id |-> Me, name |-> s[i], path |-> refs[s[i]].path, dir |-> refs[s[i]].dir]]

\* ListDatasets: the offset counts every reference; one that does not match the term
\* or whose version is not here is passed over; the rest is cut to the limit.
ListDatasets(matches, offset, limit) ==
  LET all  == References
      page == IF offset >= Len(all) THEN <<>> ELSE SubSeq(all, offset + 1, Len(all))
      have == SelectSeq(page, LAMBDA r : r.name \in matches /\ (r.path = 0 \/ r.path \in stored))
  IN  IF limit < Len(have) THEN Upto(have, limit) ELSE have

\* List with UseDscache: an empty cache is built from the repository and assigned,
\* the references of the cache are listed.
ListBuilds(c) ==
  /\ MayStart(c) /\ IsEmpty(cache)
  /\ req' = [req EXCEPT ![c] = IF BuildPanics(book) THEN Idle
                               ELSE [at |-> "assign", next |-> [at |-> "list"],
                                     new |-> DscacheFromRepo(profiles, book, Me, References)]]
  /\ lost' = (lost \/ \E d \in Callers : req[d] # Idle)
  /\ UNCHANGED <<repoVars, cache, cfile, createNew, profiles>>

ListCached(c) ==
  /\ req[c].at = "list"
  /\ req' = [req EXCEPT ![c] = [at |-> "ensure", list |-> ListRefs(cache)]]
  /\ UNCHANGED <<repoVars, cacheVars, createNew, profiles, counts>>

\* List of a cache that is there, or of the refstore.
ListStarts(c, useDscache) ==
  /\ MayStart(c) /\ (useDscache => ~IsEmpty(cache))
  /\ req' = [req EXCEPT ![c] = [at |-> "ensure", list |-> IF useDscache THEN ListRefs(cache) ELSE ListDatasets(Names, 0, 25)]]
  /\ UNCHANGED <<repoVars, cacheVars, createNew, profiles>>

\* With EnsureFSIExists the references that were read are looked over: one that has
\* lost its directory is written back as it was read, without the directory; or
\* deleted, when it has no version.
EnsureFSIExists(c) ==
  LET r == req[c]  ref == Head(r.list) IN
  /\ r.at = "ensure" /\ r.list # <<>>
  /\ refs' = IF ref.dir > 0 /\ ref.dir \notin dirs
             THEN [refs EXCEPT ![ref.name] = IF ref.path = 0 THEN NoRef ELSE [path |-> ref.path, dir |-> 0]]
             ELSE refs
  /\ req' = [req EXCEPT ![c].list = Tail(@)]
  /\ UNCHANGED <<book, prev, stored, dirs, cacheVars, createNew, profiles, counts>>

ListEnds(c) == req[c].at = "ensure" /\ req[c].list = <<>> /\ req' = [req EXCEPT ![c] = Idle]
               /\ UNCHANGED <<repoVars, cacheVars, createNew, profiles, counts>>

-----------------------------------------------------------------------------
CatalogInit(users, calls, atOnce) ==
  /\ book = <<>> /\ refs = [n \in Names |-> NoRef] /\ prev = <<>> /\ stored = {} /\ dirs = {}
  /\ cache = NewDscache /\ cfile = NewDscache /\ createNew = FALSE /\ profiles = users
  /\ req = [c \in Callers |-> Idle] /\ lost = FALSE /\ left = calls /\ width = atOnce

Silent == [registry |-> "notfound", peers |-> "notfound"]

CatalogNext ==
  \/ DirGone \/ Restart
  \/ \E c \in Callers :
       \/ Handle(c) \/ HandlerPanics(c) \/ Assign(c)
       \/ SavePuts(c) \/ SaveLogs(c) \/ Unput(c) \/ Reput(c) \/ RemoveLogs(c) \/ DeleteLogs(c)
       \/ GetLoads(c) \/ GetEnds(c) \/ ListBuilds(c) \/ ListCached(c) \/ EnsureFSIExists(c) \/ ListEnds(c)
       \/ \E n \in Names :
            \/ \E b \in BOOLEAN : StartSave(c, n, b) \/ StartRemove(c, n, b)
            \/ \E b \in Names : StartRename(c, n, b)
            \/ StartLink(c, n)
            \/ \E p \in {0, 1} : GetResolves(c, n, "local", p, Silent)
            \/ \E e \in {"found", "notfound", "error"} :
                 \/ \E mode \in {"", "network"} : GetResolves(c, n, mode, 0, [registry |-> e, peers |-> "notfound"])
                 \/ ParseResolveLoad(c, n, [registry |-> e, peers |-> "found"])
       \/ \E b \in BOOLEAN : ListStarts(c, b)
       \/ \E i \in 1 .. MaxLogs : RunFails(c, i)

-----------------------------------------------------------------------------
\* A log in which every operation is a save.
OnlySaves(i) == \A k \in 2 .. Len(book[i].ops) : IsCommit(book[i].ops[k], "init")

\* A writer of the log is on its way.
Writing(i) == \E c \in Callers :
   \/ req[c].at \in {"log", "unlog", "end"} /\ req[c].i = i
   \/ req[c].at = "event" /\ req[c].act.init = i
   \/ req[c].at = "assign"

\* A name the cache knows resolves to the newest version of the live dataset that
\* has the name, through restarts, rebuilds and the entries every new dataset
\* drops, as long as no two handlers overlapped, the dataset was not renamed and
\* none of its versions removed (dscache.ResolveRef before repo.ResolveRef).
CachedHeadIsNewest ==
  lost \/ \A n \in Names :
    LET r == ResolveInCache(cache, Me, n, 0) IN
    (r.found /\ r.init > 0 /\ book[r.init].name = n /\ OnlySaves(r.init) /\ ~Writing(r.init))
      => ~book[r.init].gone /\ r.path = LogHead(r.init)
=============================================================================
