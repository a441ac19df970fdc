------------------------------- MODULE Remote -------------------------------
(***************************************************************************)
(* Publishing a dataset: its author pushes it to a remote and takes it off *)
(* again, a reader pulls it from there.                                    *)
(*                                                                         *)
(* A version of a dataset is in four places that are written one after the *)
(* other: in the author's book, in the remote's book, in its store, and in *)
(* its refstore, and likewise for the reader.  Every call in between may   *)
(* fail, and requests may overlap.                                         *)
(*                                                                         *)
(* Versions are numbered in the order the author saves them, and each is   *)
(* linked to the one before.  A book's log of the dataset is given by the  *)
(* number of versions in it (module Logsync has what syncing promises), 0  *)
(* for a book without one; a refstore entry with path 0 is no entry.       *)
(***************************************************************************)
EXTENDS Access

CONSTANTS Clients,        \* requests of the author that may be under way together
          Policies,       \* the policies the remote may have, {} for none at all
          AcceptSizeMax,  \* the largest dataset the remote accepts, -1 for any
          MaxVersions,    \* BOUND: versions saved in a behaviour
          MaxRemoves      \* BOUND: requests to remove the dataset

ASSUME RemoteBounds == /\ AcceptSizeMax \in Int
                       /\ MaxVersions \in Nat /\ MaxRemoves \in Nat

ASSUME PoliciesValid == \A p \in Policies : \A rule \in p : ValidRule(rule)

VARIABLES policy,   \* the remote's policy
          saved,    \* versions the author has saved: they are in his book and store
          ref,      \* the author's refstore entry
          theirs,   \* the remote's book, store and refstore entry
          copy,     \* the reader's book, store and refstore entry
          call,     \* each client's request
          pull,     \* the reader's request
          removes   \* removals requested so far

vars == <<policy, saved, ref, theirs, copy, call, pull, removes>>

Versions == 0 .. MaxVersions

NoRef == [path |-> 0, published |-> FALSE]
Peer  == [log : Versions, store : SUBSET Versions,
          ref : [path : Versions, published : BOOLEAN]]
Empty == [log |-> 0, store |-> {}, ref |-> NoRef]

\* at: the step a request is about to take; path: the version it is about, as
\* resolved when it began; low: the last version a removal deleted, or the one a
\* pull found in the reader's refstore.
Idle == [at |-> "idle", path |-> 0, low |-> 0]

PushSteps   == {"pushLogs", "dsPushPreCheck", "sendBlocks", "dsPushComplete", "published"}
RemoveSteps == {"removeLog", "RemoveDataset", "RewindDatasetRef", "PutVersionInfo",
                "DeleteRef", "removed"}
PullSteps   == {"known", "pullLogs", "pullVersion", "getRef", "compare", "putRef"}
Request     == [at : {"idle"} \union PushSteps \union RemoveSteps \union PullSteps,
                path : Versions, low : Versions]

At(c, step) == call[c].at = step
Go(c, step) == call' = [call EXCEPT ![c].at = step]
Done(c)     == call' = [call EXCEPT ![c] = Idle]

Init == /\ policy \in Policies
        /\ saved = 0
        /\ ref = [path |-> 0, published |-> FALSE]
        /\ theirs = Empty
        /\ copy = Empty
        /\ call = [c \in Clients |-> Idle]
        /\ pull = Idle
        /\ removes = 0

\* The remote is asked by the author, or by the reader, for this dataset.
Allowed(who, act) ==
  policy # {} => Enforce(policy, who, who, ResourceFromRef("author", "name"),
                         <<"remote", act>>)

-----------------------------------------------------------------------------
(* The author at home. *)

\* A save, as module Datasets has it: the version is linked to the one before,
\* and its reference put in the refstore, unpublished.
Save == /\ saved < MaxVersions
        /\ saved' = saved + 1
        /\ ref' = [path |-> saved + 1, published |-> FALSE]
        /\ UNCHANGED <<policy, theirs, copy, call, pull, removes>>

\* SetPublishStatus, with the reference the request resolved when it began.
\* The whole entry is put, not only the flag.
SetPublishStatus(path, published) ==
  ref' = [path |-> path, published |-> published]

\* A call fails: the remote refuses, or a request or its answer is lost, or the
\* client or the remote stops in the middle.  Nothing is undone.
Fail(c) ==
  /\ ~At(c, "idle")
  /\ Done(c)
  /\ UNCHANGED <<policy, saved, ref, theirs, copy, pull, removes>>

\* The remote says no, for a reason that is in the model.
Refused(c) == Done(c) /\ UNCHANGED theirs

-----------------------------------------------------------------------------
(* RemoteMethods.Push and client.PushDataset. *)

Push(c) ==
  /\ At(c, "idle")
  /\ ref.path # 0
  /\ call' = [call EXCEPT ![c] = [at |-> "pushLogs", path |-> ref.path, low |-> 0]]
  /\ UNCHANGED <<policy, saved, ref, theirs, copy, pull, removes>>

\* MUTANT: the version is sent although its log was refused.
pushLogsAnyway(c) ==
  /\ At(c, "pushLogs")
  /\ Go(c, "dsPushPreCheck")
  /\ \/ /\ Allowed("author", "push")
        /\ theirs' = [theirs EXCEPT !.log = IF saved > @ THEN saved ELSE @]
     \/ UNCHANGED theirs
  /\ UNCHANGED <<policy, saved, ref, copy, pull, removes>>

\* pushLogs: logsync's put.  The whole log is sent, the longer one stays.
pushLogs(c) ==
  /\ At(c, "pushLogs")
  /\ \/ /\ Allowed("author", "push")
        /\ theirs' = [theirs EXCEPT !.log = IF saved > @ THEN saved ELSE @]
        /\ Go(c, "dsPushPreCheck")
     \/ ~Allowed("author", "push") /\ Refused(c)
  /\ UNCHANGED <<policy, saved, ref, copy, pull, removes>>

\* The size of a dataset: later versions are larger.  The limit is compared as
\* an unsigned number, so that other negative limits are no limit either.
TooLarge(v) == AcceptSizeMax >= 0 /\ v >= AcceptSizeMax

dsPushPreCheck(c) ==
  /\ At(c, "dsPushPreCheck")
  /\ IF /\ Allowed("author", "push")
        /\ AcceptSizeMax # 0
        /\ ~TooLarge(call[c].path)
       THEN Go(c, "sendBlocks") /\ UNCHANGED theirs
       ELSE Refused(c)
  /\ UNCHANGED <<policy, saved, ref, copy, pull, removes>>

\* MUTANT: a version whose blocks did not all arrive is reported complete.
sendSomeBlocks(c) ==
  /\ At(c, "sendBlocks")
  /\ \E all \in BOOLEAN :
        theirs' = [theirs EXCEPT !.store = IF all THEN @ \union {call[c].path} ELSE @]
  /\ Go(c, "dsPushComplete")
  /\ UNCHANGED <<policy, saved, ref, copy, pull, removes>>

\* dsync sends the blocks of this version that the remote lacks, which pins them.
sendBlocks(c) ==
  /\ At(c, "sendBlocks")
  /\ theirs' = [theirs EXCEPT !.store = @ \union {call[c].path}]
  /\ Go(c, "dsPushComplete")
  /\ UNCHANGED <<policy, saved, ref, copy, pull, removes>>

\* Repo.ResolveRef at the remote needs the refstore and the book.
Resolvable == theirs.ref.path # 0 /\ theirs.log # 0

\* dsPushComplete: the pushed path becomes the remote's, published.  A dataset
\* that is in the refstore and not in the book is an error.
dsPushComplete(c) ==
  /\ At(c, "dsPushComplete")
  /\ IF theirs.ref.path # 0 /\ ~Resolvable
       THEN Refused(c)
       ELSE /\ theirs' = [theirs EXCEPT !.ref = [path |-> call[c].path, published |-> TRUE]]
            /\ Go(c, "published")
  /\ UNCHANGED <<policy, saved, ref, copy, pull, removes>>

PushDone(c) ==
  /\ At(c, "published")
  /\ SetPublishStatus(call[c].path, TRUE)
  /\ Done(c)
  /\ UNCHANGED <<policy, saved, theirs, copy, pull, removes>>

-----------------------------------------------------------------------------
(* RemoteMethods.Remove and client.RemoveDataset. *)

Remove(c) ==
  /\ At(c, "idle")
  /\ ref.path # 0
  /\ removes < MaxRemoves
  /\ removes' = removes + 1
  /\ call' = [call EXCEPT ![c] = [at |-> "removeLog", path |-> ref.path, low |-> 0]]
  /\ UNCHANGED <<policy, saved, ref, theirs, copy, pull>>

\* logsync's del: an error when the remote does not know the dataset.
removeLog(c) ==
  /\ At(c, "removeLog")
  /\ IF Allowed("author", "remove") /\ theirs.log # 0
       THEN theirs' = [theirs EXCEPT !.log = 0] /\ Go(c, "RemoveDataset")
       ELSE Refused(c)
  /\ UNCHANGED <<policy, saved, ref, copy, pull, removes>>

\* The versions that RemoveNVersionsFromStore deletes, from the given one back
\* to the first that is not in the store.
Chain(v) == {w \in 1 .. v : \A x \in w .. v : x \in theirs.store}

\* Remote.RemoveDataset, to the end of the loop over the versions: the version
\* named by the client has to be there.
RemoveDataset(c) ==
  /\ At(c, "RemoveDataset")
  /\ IF Allowed("author", "remove") /\ call[c].path \in theirs.store
       THEN /\ theirs' = [theirs EXCEPT !.store = @ \ Chain(call[c].path)]
            /\ call' = [call EXCEPT ![c].at = "RewindDatasetRef",
                                    ![c].low = Min(Chain(call[c].path))]
       ELSE Refused(c)
  /\ UNCHANGED <<policy, saved, ref, copy, pull, removes>>

\* RewindDatasetRef: an error when there is no entry, which is deleted first.
RewindDatasetRef(c) ==
  /\ At(c, "RewindDatasetRef")
  /\ IF theirs.ref.path # 0
       THEN theirs' = [theirs EXCEPT !.ref = NoRef] /\ Go(c, "PutVersionInfo")
       ELSE Refused(c)
  /\ UNCHANGED <<policy, saved, ref, copy, pull, removes>>

\* The end of RewindDatasetRef: the entry that was read, published as every entry
\* of the remote is, goes back with the last path deleted, over one that a push
\* has put meanwhile.  A log that is there again is the author's, and the remote
\* may not record the removal in it.
PutVersionInfo(c) ==
  /\ At(c, "PutVersionInfo")
  /\ theirs' = [theirs EXCEPT !.ref = [path |-> call[c].low, published |-> TRUE]]
  /\ IF theirs.log # 0 THEN Done(c) ELSE Go(c, "DeleteRef")
  /\ UNCHANGED <<policy, saved, ref, copy, pull, removes>>

DeleteRef(c) ==
  /\ At(c, "DeleteRef")
  /\ theirs' = [theirs EXCEPT !.ref = NoRef]
  /\ Go(c, "removed")
  /\ UNCHANGED <<policy, saved, ref, copy, pull, removes>>

RemoveDone(c) ==
  /\ At(c, "removed")
  /\ SetPublishStatus(call[c].path, FALSE)
  /\ Done(c)
  /\ UNCHANGED <<policy, saved, theirs, copy, pull, removes>>

-----------------------------------------------------------------------------
(* DatasetMethods.Pull and client.PullDataset, by the reader. *)

PullAt(step) == pull' = [pull EXCEPT !.at = step]

\* RepoFeeds.Feed: the published references whose version is in the store.
Feed == {v \in {theirs.ref.path} \ {0} : theirs.ref.published /\ v \in theirs.store}

Asking(v) == pull' = [at |-> "known", path |-> v, low |-> 0]

\* client.Feeds and client.Feed: the reader sees a version in a feed.
Feeds ==
  /\ pull.at = "idle"
  /\ \E v \in Feed : Asking(v)
  /\ UNCHANGED <<policy, saved, ref, theirs, copy, call, removes>>

\* client.FetchLogs: the reader sees a version in the remote's log.
FetchLogs ==
  /\ pull.at = "idle"
  /\ Allowed("reader", "pull")
  /\ \E v \in 1 .. theirs.log : Asking(v)
  /\ UNCHANGED <<policy, saved, ref, theirs, copy, call, removes>>

\* client.PreviewDatasetVersion: the reader looks at it, or cannot, and goes on.
Preview ==
  /\ pull.at = "known"
  /\ pull' = Idle
  /\ UNCHANGED <<policy, saved, ref, theirs, copy, call, removes>>

\* resolveRefHTTP: the remote's own path, unless the reader asks for one.
ResolvedPath == IF pull.at = "idle" THEN theirs.ref.path ELSE pull.path

Pull ==
  /\ pull.at \in {"idle", "known"}
  /\ Resolvable
  /\ pull' = [pull EXCEPT !.at = "pullLogs", !.path = ResolvedPath]
  /\ UNCHANGED <<policy, saved, ref, theirs, copy, call, removes>>

\* MUTANT: the version is fetched first, and the log with it if there is one.
pullLogsLater ==
  /\ pull.at = "pullLogs"
  /\ PullAt("pullVersion")
  /\ UNCHANGED <<policy, saved, ref, theirs, copy, call, removes>>

pullLogs ==
  /\ pull.at = "pullLogs"
  /\ IF Allowed("reader", "pull") /\ theirs.log # 0
       THEN /\ copy' = [copy EXCEPT !.log = IF theirs.log > @ THEN theirs.log ELSE @]
            /\ PullAt("pullVersion")
       ELSE pull' = Idle /\ UNCHANGED copy
  /\ UNCHANGED <<policy, saved, ref, theirs, call, removes>>

\* The remote tells what blocks a version has: no policy is asked.
dsGetDagInfo(v) == v \in theirs.store

\* pullDatasetVersion: fetches the blocks and pins them.
pullDatasetVersion ==
  /\ pull.at = "pullVersion"
  /\ IF dsGetDagInfo(pull.path)
       THEN copy' = [copy EXCEPT !.store = @ \union {pull.path}] /\ PullAt("getRef")
       ELSE pull' = Idle /\ UNCHANGED copy
  /\ UNCHANGED <<policy, saved, ref, theirs, call, removes>>

\* The reader's refstore is asked for an entry: a first one is put at once.
GetRef ==
  /\ pull.at = "getRef"
  /\ pull' = [pull EXCEPT !.at = IF copy.ref.path = 0 THEN "putRef" ELSE "compare",
                          !.low = copy.ref.path]
  /\ UNCHANGED <<policy, saved, ref, theirs, copy, call, removes>>

\* ReplaceRefIfMoreRecent: both versions are loaded, and what was in the
\* refstore stays if it is newer.
ReplaceRefIfMoreRecent ==
  /\ pull.at = "compare"
  /\ IF {pull.low, pull.path} \subseteq copy.store /\ pull.low <= pull.path
       THEN PullAt("putRef")
       ELSE pull' = Idle
  /\ UNCHANGED <<policy, saved, ref, theirs, copy, call, removes>>

PutRef ==
  /\ pull.at = "putRef"
  /\ copy' = [copy EXCEPT !.ref.path = pull.path]
  /\ pull' = Idle
  /\ UNCHANGED <<policy, saved, ref, theirs, call, removes>>

PullFail ==
  /\ pull.at # "idle"
  /\ pull' = Idle
  /\ UNCHANGED <<policy, saved, ref, theirs, copy, call, removes>>

-----------------------------------------------------------------------------
PushStep(c)   == \/ Push(c) \/ pushLogs(c) \/ dsPushPreCheck(c) \/ sendBlocks(c)
                 \/ dsPushComplete(c) \/ PushDone(c)
RemoveStep(c) == \/ Remove(c) \/ removeLog(c) \/ RemoveDataset(c)
                 \/ RewindDatasetRef(c) \/ PutVersionInfo(c) \/ DeleteRef(c)
                 \/ RemoveDone(c)
PullStep      == \/ Feeds \/ FetchLogs \/ Preview \/ Pull
                 \/ pullLogs \/ pullDatasetVersion
                 \/ GetRef \/ ReplaceRefIfMoreRecent \/ PutRef \/ PullFail

Next == \/ Save
        \/ \E c \in Clients : PushStep(c) \/ RemoveStep(c) \/ Fail(c)
        \/ PullStep

Spec == Init /\ [][Next]_vars

-----------------------------------------------------------------------------
\* The types of the state.
TypeOK ==
  /\ policy \in Policies
  /\ saved \in Versions
  /\ ref \in [path : Versions, published : BOOLEAN]
  /\ theirs \in Peer /\ copy \in Peer
  /\ call \in [Clients -> Request] /\ pull \in Request
  /\ removes \in 0 .. MaxRemoves

\* Whatever pushes overlap or fail half-way, a version that the remote lists in
\* its feed, or has in its store at all, is in the remote's log of the dataset:
\* PushDataset sends the log first.  As long as nothing was removed.
FeedIsInLog ==
  removes = 0 => \A v \in Feed \union theirs.store : v <= theirs.log

\* What a reader's reference names can be loaded and is in the history the
\* reader lists: PullDataset merges the log and fetches the version before the
\* reference is put, although the remote may change in between.
PulledWhole ==
  copy.ref.path # 0 =>
     /\ copy.ref.path \in copy.store
     /\ removes = 0 => copy.ref.path <= copy.log

\* A push that is reported done is done: the remote resolves the name, to a
\* version it has and its log knows.  As long as nothing was removed.
PushedIsServed ==
  \A c \in Clients : At(c, "published") /\ removes = 0 =>
     /\ Resolvable
     /\ theirs.ref.path \in theirs.store
     /\ call[c].path \in theirs.store

=============================================================================
