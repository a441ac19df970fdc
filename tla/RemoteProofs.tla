---------------------------- MODULE RemoteProofs ----------------------------
(***************************************************************************)
(* Proofs about publishing and pulling, for any number of clients,         *)
(* versions, removals and failures, and any set of policies; and about the *)
(* name a user has at a registry and the configuration it is kept in, for  *)
(* any number of names, keys, datasets, threads, requests and failures.    *)
(***************************************************************************)
EXTENDS Remote, Identity, WellFoundedInduction, TLAPS

-----------------------------------------------------------------------------
(* The inductive invariant: how far the places a version is written to may *)
(* be apart while requests are under way.                                  *)

\* What the author pushes is a version he has saved.
RefSaved == ref.path <= saved

\* A request of the author speaks of a version that he had saved when it began,
\* and only a removal takes the steps of one.
CallSaved ==
  \A c \in Clients : ~At(c, "idle") =>
     /\ call[c].at \in PushSteps \union RemoveSteps
     /\ call[c].path \in 1 .. saved
     /\ call[c].at \in RemoveSteps => removes > 0

\* Nothing reaches the remote's store before the remote's log has it.
LogFirst ==
  /\ \A v \in theirs.store : v <= theirs.log
  /\ \A c \in Clients :
        call[c].at \in PushSteps \ {"pushLogs"} => call[c].path <= theirs.log

\* Nothing is named by the remote's refstore before the remote's store has it.
StoreNext ==
  /\ theirs.ref.path # 0 => theirs.ref.path \in theirs.store
  /\ \A c \in Clients :
        /\ At(c, "dsPushComplete") \/ At(c, "published") => call[c].path \in theirs.store
        /\ At(c, "published") => theirs.ref.path # 0 /\ theirs.log # 0

\* The same of the reader, whose request is about a version of the remote's log
\* and then about one of his own.
PullInLog ==
  /\ pull.at \in {"known", "pullLogs"} => pull.path <= theirs.log
  /\ pull.at \in PullSteps \ {"known", "pullLogs"} => pull.path <= copy.log
  /\ copy.ref.path <= copy.log

\* What the reader's refstore names, or is about to, is in the reader's store.
PullInStore ==
  /\ pull.at \in {"getRef", "compare", "putRef"} => pull.path \in copy.store
  /\ copy.ref.path # 0 => copy.ref.path \in copy.store

PullKind == pull.at \in {"idle"} \union PullSteps

IInv ==
  /\ TypeOK
  /\ RefSaved
  /\ CallSaved
  /\ PullKind
  /\ removes = 0 => LogFirst /\ StoreNext /\ PullInLog
  /\ PullInStore

-----------------------------------------------------------------------------
(* Types. *)

\* A set of numbers that is not empty has a least element, and Min gives it.
LEMMA MinIn ==
  ASSUME NEW S \in SUBSET Nat, S # {}
  PROVE  Min(S) \in S
<1> DEFINE R == OpToRel(<, Nat)
<1>1. \A x, y \in Nat : <<x, y>> \notin R => y =< x
  BY DEF OpToRel
<1>2. IsWellFoundedOn(R, Nat)
  BY NatLessThanWellFounded
<1> HIDE DEF R
<1>3. \E x \in S : \A y \in S : ~(<<y, x>> \in R)
  BY <1>2, WFMin
<1>4. \E x \in S : \A y \in S : x =< y
  BY <1>1, <1>3
<1> QED BY <1>4 DEF Min

\* What RemoveDataset deletes last is a version.
LEMMA ChainMin ==
  ASSUME theirs \in Peer, NEW v \in Versions \ {0}, v \in theirs.store
  PROVE  Min(Chain(v)) \in Versions
<1>1. Chain(v) \in SUBSET Nat /\ Chain(v) \subseteq Versions
  BY RemoteBounds DEF Chain, Versions
<1>2. v \in Chain(v)
  BY DEF Chain, Versions
<1> QED BY <1>1, <1>2, MinIn

\* Replacing the remote's reference leaves a book, a store and a reference.
LEMMA PutRefType ==
  ASSUME theirs \in Peer, NEW v \in Versions, NEW p \in BOOLEAN
  PROVE  [theirs EXCEPT !.ref = [path |-> v, published |-> p]] \in Peer
<1> DEFINE r == [path |-> v, published |-> p]
<1>1. r \in [path : Versions, published : BOOLEAN]
  BY Zenon
<1> HIDE DEF r
<1>2. [theirs EXCEPT !.ref = r] \in Peer
  BY <1>1 DEF Peer
<1> QED BY <1>2 DEF r

\* Every step keeps the types, whoever takes it.
LEMMA TypeStep ==
  ASSUME TypeOK, CallSaved, [Next]_vars
  PROVE  TypeOK'
<1> USE RemoteBounds DEF TypeOK, Versions, Request, PushSteps, RemoveSteps, PullSteps
<1>1. CASE UNCHANGED vars
  BY <1>1 DEF vars
<1>2. CASE Save
  BY <1>2 DEF Save
<1>3. CASE \E c \in Clients : PushStep(c) \/ Fail(c)
  <2> SUFFICES ASSUME NEW c \in Clients, PushStep(c) \/ Fail(c)
               PROVE  TypeOK'
    BY <1>3
  <2> USE DEF Idle, At, Go, Done, Refused, NoRef
  <2>1. CASE Push(c)
    BY <2>1 DEF Push
  <2>2. CASE pushLogs(c)
    BY <2>2 DEF pushLogs, Peer
  <2>3. CASE dsPushPreCheck(c)
    BY <2>3 DEF dsPushPreCheck
  <2>4. CASE sendBlocks(c)
    BY <2>4 DEF sendBlocks, Peer
  <2>5. CASE dsPushComplete(c)
    <3>1. theirs' \in Peer
      <4>1. call[c].path \in Versions
        OBVIOUS
      <4>2. \A v \in Versions, p \in BOOLEAN :
               [theirs EXCEPT !.ref = [path |-> v, published |-> p]] \in Peer
        BY PutRefType
      <4>3. theirs' \in {theirs, [theirs EXCEPT !.ref = [path |-> call[c].path, published |-> TRUE]]}
        BY <2>5, Zenon DEF dsPushComplete
      <4> QED BY <4>1, <4>2, <4>3, Zenon
    <3> QED BY <2>5, <3>1 DEF dsPushComplete
  <2>6. CASE PushDone(c)
    BY <2>6 DEF PushDone, SetPublishStatus
  <2>7. CASE Fail(c)
    BY <2>7 DEF Fail
  <2> QED BY <2>1, <2>2, <2>3, <2>4, <2>5, <2>6, <2>7 DEF PushStep
<1>4. CASE \E c \in Clients : RemoveStep(c)
  <2> SUFFICES ASSUME NEW c \in Clients, RemoveStep(c)
               PROVE  TypeOK'
    BY <1>4
  <2> USE DEF Idle, At, Go, Done, Refused, NoRef
  <2>1. CASE Remove(c)
    BY <2>1 DEF Remove
  <2>2. CASE removeLog(c)
    BY <2>2 DEF removeLog, Peer
  <2>3. CASE RemoveDataset(c)
    <3>1. call[c].path \in Versions \ {0}
      BY <2>3 DEF RemoveDataset, CallSaved
    <3>2. call[c].path \in theirs.store => Min(Chain(call[c].path)) \in Versions
      BY <3>1, ChainMin
    <3> QED BY <2>3, <3>2 DEF RemoveDataset, Peer
  <2>8. \A v \in Versions, p \in BOOLEAN :
           [theirs EXCEPT !.ref = [path |-> v, published |-> p]] \in Peer
    BY PutRefType
  <2>4. CASE RewindDatasetRef(c)
    <3>1. theirs' \in Peer
      <4>1. 0 \in Versions
        OBVIOUS
      <4>2. theirs' \in {theirs, [theirs EXCEPT !.ref = [path |-> 0, published |-> FALSE]]}
        BY <2>4, Zenon DEF RewindDatasetRef
      <4> QED BY <2>8, <4>1, <4>2, Zenon
    <3> QED BY <2>4, <3>1 DEF RewindDatasetRef
  <2>5. CASE DeleteRef(c)
    <3>1. theirs' \in Peer
      <4>1. 0 \in Versions
        OBVIOUS
      <4> QED BY <2>5, <2>8, <4>1, Zenon DEF DeleteRef
    <3> QED BY <2>5, <3>1 DEF DeleteRef
  <2>6. CASE RemoveDone(c)
    BY <2>6 DEF RemoveDone, SetPublishStatus
  <2>7. CASE PutVersionInfo(c)
    <3>1. theirs' \in Peer
      <4>1. call[c].low \in Versions
        OBVIOUS
      <4> QED BY <2>7, <2>8, <4>1, Zenon DEF PutVersionInfo
    <3> QED BY <2>7, <3>1 DEF PutVersionInfo
  <2> QED BY <2>1, <2>2, <2>3, <2>4, <2>5, <2>6, <2>7 DEF RemoveStep
<1>5. CASE PullStep
  <2> USE DEF Idle, Peer, Asking, PullAt
  <2>1. CASE Feeds
    BY <2>1 DEF Feeds, Feed
  <2>2. CASE FetchLogs
    BY <2>2 DEF FetchLogs
  <2>3. CASE Preview
    BY <2>3 DEF Preview
  <2>4. CASE Pull
    BY <2>4 DEF Pull, ResolvedPath
  <2>5. CASE pullLogs
    BY <2>5 DEF pullLogs
  <2>6. CASE pullDatasetVersion
    BY <2>6 DEF pullDatasetVersion
  <2>7. CASE GetRef
    BY <2>7 DEF GetRef
  <2>8. CASE ReplaceRefIfMoreRecent
    BY <2>8 DEF ReplaceRefIfMoreRecent
  <2>9. CASE PutRef
    BY <2>9 DEF PutRef
  <2>10. CASE PullFail
    BY <2>10 DEF PullFail
  <2> QED BY <1>5, <2>1, <2>2, <2>3, <2>4, <2>5, <2>6, <2>7, <2>8, <2>9, <2>10 DEF PullStep
<1> QED BY <1>1, <1>2, <1>3, <1>4, <1>5 DEF Next

-----------------------------------------------------------------------------
(* The invariant. *)

\* Requests begin with what the author's refstore names, and keep to it.
LEMMA SavedStep ==
  ASSUME IInv, [Next]_vars
  PROVE  RefSaved' /\ CallSaved' /\ PullKind'
<1> USE RemoteBounds DEF IInv, TypeOK, Versions, Request, PushSteps, RemoveSteps, PullSteps, RefSaved, CallSaved, PullKind
<1>1. CASE UNCHANGED vars
  BY <1>1 DEF vars, At
<1>2. CASE Save
  BY <1>2 DEF Save, At
<1>3. ASSUME NEW c \in Clients, PushStep(c) \/ Fail(c)
      PROVE  RefSaved' /\ CallSaved' /\ PullKind'
  <2> USE DEF Idle, At, Go, Done, Refused
  <2>1. CASE Push(c)
    BY <2>1 DEF Push
  <2>2. CASE pushLogs(c)
    BY <2>2 DEF pushLogs
  <2>3. CASE dsPushPreCheck(c)
    BY <2>3 DEF dsPushPreCheck
  <2>4. CASE sendBlocks(c)
    BY <2>4 DEF sendBlocks
  <2>5. CASE dsPushComplete(c)
    BY <2>5 DEF dsPushComplete, Resolvable
  <2>6. CASE PushDone(c)
    BY <2>6 DEF PushDone, SetPublishStatus
  <2>7. CASE Fail(c)
    BY <2>7 DEF Fail
  <2> QED BY <1>3, <2>1, <2>2, <2>3, <2>4, <2>5, <2>6, <2>7 DEF PushStep
<1>4. ASSUME NEW c \in Clients, RemoveStep(c)
      PROVE  RefSaved' /\ CallSaved' /\ PullKind'
  <2> USE DEF Idle, At, Go, Done, Refused
  <2>1. CASE Remove(c)
    BY <2>1 DEF Remove
  <2>2. CASE removeLog(c)
    BY <2>2 DEF removeLog
  <2>3. CASE RemoveDataset(c)
    BY <2>3 DEF RemoveDataset
  <2>4. CASE RewindDatasetRef(c)
    BY <2>4 DEF RewindDatasetRef
  <2>5. CASE DeleteRef(c)
    BY <2>5 DEF DeleteRef
  <2>6. CASE RemoveDone(c)
    BY <2>6 DEF RemoveDone, SetPublishStatus
  <2>7. CASE PutVersionInfo(c)
    BY <2>7 DEF PutVersionInfo
  <2> QED BY <1>4, <2>1, <2>2, <2>3, <2>4, <2>5, <2>6, <2>7 DEF RemoveStep
<1>5. CASE PullStep
  <2> USE DEF Idle, Asking, PullAt, At
  <2>1. CASE Feeds
    BY <2>1 DEF Feeds, Feed
  <2>2. CASE FetchLogs
    BY <2>2 DEF FetchLogs
  <2>3. CASE Preview
    BY <2>3 DEF Preview
  <2>4. CASE Pull
    BY <2>4 DEF Pull, ResolvedPath, Resolvable
  <2>5. CASE pullLogs
    BY <2>5 DEF pullLogs
  <2>6. CASE pullDatasetVersion
    BY <2>6 DEF pullDatasetVersion, dsGetDagInfo
  <2>7. CASE GetRef
    BY <2>7 DEF GetRef
  <2>8. CASE ReplaceRefIfMoreRecent
    BY <2>8 DEF ReplaceRefIfMoreRecent
  <2>9. CASE PutRef
    BY <2>9 DEF PutRef
  <2>10. CASE PullFail
    BY <2>10 DEF PullFail
  <2> QED BY <1>5, <2>1, <2>2, <2>3, <2>4, <2>5, <2>6, <2>7, <2>8, <2>9, <2>10 DEF PullStep
<1> QED BY <1>1, <1>2, <1>3, <1>4, <1>5 DEF Next

\* At the remote the log comes first, then the store, then the reference.
LEMMA RemoteStep ==
  ASSUME IInv, [Next]_vars
  PROVE  removes' = 0 => LogFirst' /\ StoreNext'
<1> USE RemoteBounds DEF IInv, TypeOK, Versions, Request, PushSteps, RemoveSteps, PullSteps, Peer, NoRef, LogFirst, StoreNext, CallSaved
<1>1. CASE UNCHANGED vars
  BY <1>1 DEF vars, At
<1>2. CASE Save
  BY <1>2 DEF Save, At
<1>3. ASSUME NEW c \in Clients, PushStep(c) \/ Fail(c)
      PROVE  removes' = 0 => LogFirst' /\ StoreNext'
  <2> USE DEF Idle, At, Go, Done, Refused
  <2>1. CASE Push(c)
    BY <2>1 DEF Push
  <2>2. CASE pushLogs(c)
    BY <2>2 DEF pushLogs
  <2>3. CASE dsPushPreCheck(c)
    BY <2>3 DEF dsPushPreCheck
  <2>4. CASE sendBlocks(c)
    BY <2>4 DEF sendBlocks
  <2>5. CASE dsPushComplete(c)
    BY <2>5 DEF dsPushComplete, Resolvable
  <2>6. CASE PushDone(c)
    BY <2>6 DEF PushDone, SetPublishStatus
  <2>7. CASE Fail(c)
    BY <2>7 DEF Fail
  <2> QED BY <1>3, <2>1, <2>2, <2>3, <2>4, <2>5, <2>6, <2>7 DEF PushStep
<1>4. ASSUME NEW c \in Clients, RemoveStep(c)
      PROVE  removes' = 0 => LogFirst' /\ StoreNext'
  <2> USE DEF Idle, At, Go, Done, Refused
  <2>1. CASE Remove(c)
    BY <2>1 DEF Remove
  <2>2. CASE removeLog(c)
    BY <2>2 DEF removeLog
  <2>3. CASE RemoveDataset(c)
    BY <2>3 DEF RemoveDataset
  <2>4. CASE RewindDatasetRef(c)
    BY <2>4 DEF RewindDatasetRef
  <2>5. CASE DeleteRef(c)
    BY <2>5 DEF DeleteRef
  <2>6. CASE RemoveDone(c)
    BY <2>6 DEF RemoveDone, SetPublishStatus
  <2>7. CASE PutVersionInfo(c)
    BY <2>7 DEF PutVersionInfo
  <2> QED BY <1>4, <2>1, <2>2, <2>3, <2>4, <2>5, <2>6, <2>7 DEF RemoveStep
<1>5. CASE PullStep
  <2> USE DEF Idle, Asking, PullAt, At
  <2>1. CASE Feeds
    BY <2>1 DEF Feeds, Feed
  <2>2. CASE FetchLogs
    BY <2>2 DEF FetchLogs
  <2>3. CASE Preview
    BY <2>3 DEF Preview
  <2>4. CASE Pull
    BY <2>4 DEF Pull, ResolvedPath, Resolvable
  <2>5. CASE pullLogs
    BY <2>5 DEF pullLogs
  <2>6. CASE pullDatasetVersion
    BY <2>6 DEF pullDatasetVersion, dsGetDagInfo
  <2>7. CASE GetRef
    BY <2>7 DEF GetRef
  <2>8. CASE ReplaceRefIfMoreRecent
    BY <2>8 DEF ReplaceRefIfMoreRecent
  <2>9. CASE PutRef
    BY <2>9 DEF PutRef
  <2>10. CASE PullFail
    BY <2>10 DEF PullFail
  <2> QED BY <1>5, <2>1, <2>2, <2>3, <2>4, <2>5, <2>6, <2>7, <2>8, <2>9, <2>10 DEF PullStep
<1> QED BY <1>1, <1>2, <1>3, <1>4, <1>5 DEF Next

\* The reader asks for what the remote's log has, and merges that log first.
LEMMA ReaderLogStep ==
  ASSUME IInv, [Next]_vars
  PROVE  removes' = 0 => PullInLog'
<1> USE RemoteBounds DEF IInv, TypeOK, Versions, Request, PushSteps, RemoveSteps, PullSteps, Peer, NoRef, LogFirst, StoreNext, PullInLog, PullKind, CallSaved
<1>1. CASE UNCHANGED vars
  BY <1>1 DEF vars, At
<1>2. CASE Save
  BY <1>2 DEF Save, At
<1>3. ASSUME NEW c \in Clients, PushStep(c) \/ Fail(c)
      PROVE  removes' = 0 => PullInLog'
  <2> USE DEF Idle, At, Go, Done, Refused
  <2>1. CASE Push(c)
    BY <2>1 DEF Push
  <2>2. CASE pushLogs(c)
    BY <2>2 DEF pushLogs
  <2>3. CASE dsPushPreCheck(c)
    BY <2>3 DEF dsPushPreCheck
  <2>4. CASE sendBlocks(c)
    BY <2>4 DEF sendBlocks
  <2>5. CASE dsPushComplete(c)
    BY <2>5 DEF dsPushComplete, Resolvable
  <2>6. CASE PushDone(c)
    BY <2>6 DEF PushDone, SetPublishStatus
  <2>7. CASE Fail(c)
    BY <2>7 DEF Fail
  <2> QED BY <1>3, <2>1, <2>2, <2>3, <2>4, <2>5, <2>6, <2>7 DEF PushStep
<1>4. ASSUME NEW c \in Clients, RemoveStep(c)
      PROVE  removes' = 0 => PullInLog'
  <2> USE DEF Idle, At, Go, Done, Refused
  <2>1. CASE Remove(c)
    BY <2>1 DEF Remove
  <2>2. CASE removeLog(c)
    BY <2>2 DEF removeLog
  <2>3. CASE RemoveDataset(c)
    BY <2>3 DEF RemoveDataset
  <2>4. CASE RewindDatasetRef(c)
    BY <2>4 DEF RewindDatasetRef
  <2>5. CASE DeleteRef(c)
    BY <2>5 DEF DeleteRef
  <2>6. CASE RemoveDone(c)
    BY <2>6 DEF RemoveDone, SetPublishStatus
  <2>7. CASE PutVersionInfo(c)
    BY <2>7 DEF PutVersionInfo
  <2> QED BY <1>4, <2>1, <2>2, <2>3, <2>4, <2>5, <2>6, <2>7 DEF RemoveStep
<1>5. CASE PullStep
  <2> USE DEF Idle, Asking, PullAt, At
  <2>1. CASE Feeds
    BY <2>1 DEF Feeds, Feed
  <2>2. CASE FetchLogs
    BY <2>2 DEF FetchLogs
  <2>3. CASE Preview
    BY <2>3 DEF Preview
  <2>4. CASE Pull
    BY <2>4 DEF Pull, ResolvedPath, Resolvable
  <2>5. CASE pullLogs
    BY <2>5 DEF pullLogs
  <2>6. CASE pullDatasetVersion
    BY <2>6 DEF pullDatasetVersion, dsGetDagInfo
  <2>7. CASE GetRef
    BY <2>7 DEF GetRef
  <2>8. CASE ReplaceRefIfMoreRecent
    BY <2>8 DEF ReplaceRefIfMoreRecent
  <2>9. CASE PutRef
    BY <2>9 DEF PutRef
  <2>10. CASE PullFail
    BY <2>10 DEF PullFail
  <2> QED BY <1>5, <2>1, <2>2, <2>3, <2>4, <2>5, <2>6, <2>7, <2>8, <2>9, <2>10 DEF PullStep
<1> QED BY <1>1, <1>2, <1>3, <1>4, <1>5 DEF Next

\* A version is in the reader's store before the reader's refstore names it.
LEMMA ReaderStoreStep ==
  ASSUME IInv, [Next]_vars
  PROVE  PullInStore'
<1> USE RemoteBounds DEF IInv, TypeOK, Versions, Request, PushSteps, RemoveSteps, PullSteps, Peer, PullInStore, PullKind
<1>1. CASE UNCHANGED vars
  BY <1>1 DEF vars, At
<1>2. CASE Save
  BY <1>2 DEF Save, At
<1>3. ASSUME NEW c \in Clients, PushStep(c) \/ Fail(c)
      PROVE  PullInStore'
  <2> USE DEF At
  <2>1. CASE Push(c)
    BY <2>1 DEF Push
  <2>2. CASE pushLogs(c)
    BY <2>2 DEF pushLogs
  <2>3. CASE dsPushPreCheck(c)
    BY <2>3 DEF dsPushPreCheck
  <2>4. CASE sendBlocks(c)
    BY <2>4 DEF sendBlocks
  <2>5. CASE dsPushComplete(c)
    BY <2>5 DEF dsPushComplete, Resolvable
  <2>6. CASE PushDone(c)
    BY <2>6 DEF PushDone, SetPublishStatus
  <2>7. CASE Fail(c)
    BY <2>7 DEF Fail
  <2> QED BY <1>3, <2>1, <2>2, <2>3, <2>4, <2>5, <2>6, <2>7 DEF PushStep
<1>4. ASSUME NEW c \in Clients, RemoveStep(c)
      PROVE  PullInStore'
  <2> USE DEF At
  <2>1. CASE Remove(c)
    BY <2>1 DEF Remove
  <2>2. CASE removeLog(c)
    BY <2>2 DEF removeLog
  <2>3. CASE RemoveDataset(c)
    BY <2>3 DEF RemoveDataset
  <2>4. CASE RewindDatasetRef(c)
    BY <2>4 DEF RewindDatasetRef
  <2>5. CASE DeleteRef(c)
    BY <2>5 DEF DeleteRef
  <2>6. CASE RemoveDone(c)
    BY <2>6 DEF RemoveDone, SetPublishStatus
  <2>7. CASE PutVersionInfo(c)
    BY <2>7 DEF PutVersionInfo
  <2> QED BY <1>4, <2>1, <2>2, <2>3, <2>4, <2>5, <2>6, <2>7 DEF RemoveStep
<1>5. CASE PullStep
  <2> USE DEF Idle, Asking, PullAt, At
  <2>1. CASE Feeds
    BY <2>1 DEF Feeds, Feed
  <2>2. CASE FetchLogs
    BY <2>2 DEF FetchLogs
  <2>3. CASE Preview
    BY <2>3 DEF Preview
  <2>4. CASE Pull
    BY <2>4 DEF Pull, ResolvedPath, Resolvable
  <2>5. CASE pullLogs
    BY <2>5 DEF pullLogs
  <2>6. CASE pullDatasetVersion
    BY <2>6 DEF pullDatasetVersion, dsGetDagInfo
  <2>7. CASE GetRef
    BY <2>7 DEF GetRef
  <2>8. CASE ReplaceRefIfMoreRecent
    BY <2>8 DEF ReplaceRefIfMoreRecent
  <2>9. CASE PutRef
    BY <2>9 DEF PutRef
  <2>10. CASE PullFail
    BY <2>10 DEF PullFail
  <2> QED BY <1>5, <2>1, <2>2, <2>3, <2>4, <2>5, <2>6, <2>7, <2>8, <2>9, <2>10 DEF PullStep
<1> QED BY <1>1, <1>2, <1>3, <1>4, <1>5 DEF Next

-----------------------------------------------------------------------------
(* The theorems. *)

\* Log, store and reference are written in this order on both sides, so that
\* requests that overlap or fail half-way never leave a later one ahead.
THEOREM Inductive == Spec => []IInv
<1>1. Init => IInv
  BY RemoteBounds
  DEF Init, IInv, TypeOK, Versions, Request, Peer, Empty, NoRef, Idle, RefSaved, CallSaved,
      PullKind, LogFirst, StoreNext, PullInLog, PullInStore, At, PushSteps, RemoveSteps, PullSteps
<1>2. IInv /\ [Next]_vars => IInv'
  <2> SUFFICES ASSUME IInv, [Next]_vars
               PROVE  IInv'
    OBVIOUS
  <2>1. TypeOK'
    BY TypeStep DEF IInv
  <2>2. RefSaved' /\ CallSaved' /\ PullKind'
    BY SavedStep
  <2>3. removes' = 0 => LogFirst' /\ StoreNext' /\ PullInLog'
    BY RemoteStep, ReaderLogStep
  <2> QED BY <2>1, <2>2, <2>3, ReaderStoreStep DEF IInv
<1> QED BY <1>1, <1>2, PTL DEF Spec

\* Every variable holds what its comment says.
THEOREM TypeCorrect == Spec => []TypeOK
<1>1. IInv => TypeOK
  BY DEF IInv
<1> QED BY <1>1, Inductive, PTL

\* What the remote lists or stores is in its log, however pushes overlap or
\* fail: PushDataset sends the log before the blocks.
THEOREM FeedInLog == Spec => []FeedIsInLog
<1>1. IInv => FeedIsInLog
  BY DEF IInv, LogFirst, FeedIsInLog, Feed
<1> QED BY <1>1, Inductive, PTL

\* A push that is reported done is served by the remote, whichever other
\* pushes finished in between.
THEOREM PushServed == Spec => []PushedIsServed
<1>1. IInv => PushedIsServed
  BY DEF IInv, StoreNext, PushedIsServed, Resolvable, At
<1> QED BY <1>1, Inductive, PTL

\* A reader's reference names a version in the reader's store and, as long as
\* nothing was removed, in the reader's log.
THEOREM PullWhole == Spec => []PulledWhole
<1>1. IInv => PulledWhole
  BY DEF IInv, PullInLog, PullInStore, PulledWhole
<1> QED BY <1>1, Inductive, PTL

-----------------------------------------------------------------------------
(* Identity: a signup repairs what failed ones have left. *)

\* The steps of a request of each kind.
Stages(op) ==
  CASE op = "none" -> {"none"}
    [] op = "CreateProfile" -> {"post", "refs", "put", "owner", "config"}
    [] op = "SaveProfile" -> {"config1", "save", "post", "owner", "config"}
    [] op = "Photo" -> {"config", "owner"}
    [] op = "Prove" -> {"prove", "log", "config"}

Task ==
  [op : {"none", "CreateProfile", "SaveProfile", "Photo", "Prove"},
   at : {"none", "post", "refs", "put", "owner", "config", "config1", "save", "prove", "log"},
   name : Names \cup {None}, cfg : Profile \cup {None}, todo : SUBSET Datasets, live : BOOLEAN]

TaskOK(k) ==
  /\ k \in Task /\ k.at \in Stages(k.op)
  /\ k.op # "none" => k.name \in Names /\ k.cfg \in Profile

\* A repo no program has been started on.
Fresh == book.disk = None /\ \A d \in Datasets : refs[d] = None

\* The configuration on disk can be read.
Whole == disk \notin {Torn, None}

Books == [disk : Book \cup {None}, inst : Book \cup {None}, repo : Book \cup {None}, one : BOOLEAN]
Stores == [peers : [IDs -> Names \cup {None}], keys : SUBSET IDs]
Owners == [name : Names, id : IDs]

\* A program that runs has a profile, an owner and a logbook.
Running ==
  /\ cfg \in Profile /\ owner \in Owners
  /\ book.disk \in Book /\ book.inst \in Book /\ book.repo \in Book

Typed ==
  /\ disk \in Profile \cup {Torn, None} /\ refs \in [Datasets -> Names \cup {None}]
  /\ task \in [Threads -> Task] /\ \A t \in Threads : TaskOK(task[t])
  /\ book \in Books /\ (book.one => book.repo = book.inst)
  /\ store \in Stores /\ fails \in Nat
  /\ IF up THEN Running ELSE Quiet
  /\ disk = None => Fresh /\ tried = {}
  /\ mpc \notin {"down", "ready"} => Whole

\* All records but the configuration have the name n.
Renamed(n) == book.disk.author = n /\ \A d \in Datasets : refs[d] \in {None, n}

\* b and i are the name and the ID all records had when they last agreed, n the only
\* name that was asked for since.
DiskSide(n, b, i) ==
  /\ \A d \in Datasets : refs[d] \in {None, b, n}
  /\ Whole => /\ disk.name \in {b, n} /\ disk.id = i
              /\ disk.name = n => Fresh \/ Renamed(n)

\* The configuration changes last, the owner before it, and the references and the
\* logbook first.
UpSide(n, b, i) ==
  /\ cfg.name \in {b, n} /\ cfg.id = i /\ owner.name \in {b, n} /\ owner.id = i /\ book.one
  /\ book.disk.author = n => book.inst.author = n
  /\ cfg.name = n \/ (Whole /\ disk.name = n) => owner.name = n
  /\ owner.name = n => Renamed(n)

\* How far a request has come.
TaskSide(k, n, i) ==
  /\ k.op # "Prove" /\ k.name = n /\ k.cfg.id = i
  /\ k.op \in {"SaveProfile", "Photo"} => owner.name = n
  /\ k.op = "Photo" => k.cfg.name = n
  /\ k.op = "SaveProfile" /\ k.at \in {"owner", "config"} => IF k.live THEN cfg.name = n ELSE k.cfg.name = n
  /\ k.op = "CreateProfile" =>
       /\ k.at # "post" => k.cfg.name = n
       /\ k.at \in {"refs", "put"} => \A d \in Datasets : refs[d] \in {None, n} \/ d \in k.todo
       /\ k.at \in {"owner", "config"} => Renamed(n)
       /\ k.at = "config" => owner.name = n /\ store.peers[i] = n /\ i \in store.keys

Base(n, b, i) ==
  /\ DiskSide(n, b, i)
  /\ up => UpSide(n, b, i)
  /\ \A t \in Threads : task[t].op # "none" => TaskSide(task[t], n, i)

Repairing == \A n \in Names : tried \subseteq {n} => \E b \in Names, i \in IDs : Base(n, b, i)


-----------------------------------------------------------------------------
\* What a request has, at any of its steps.
LEMMA TaskHas ==
  ASSUME Typed, NEW t \in Threads
  PROVE  /\ TaskOK(task[t])
         /\ task[t].at \in {"config1", "save"} => task[t].op = "SaveProfile"
         /\ task[t].at \in {"refs", "put"} => task[t].op = "CreateProfile"
         /\ task[t].at = "post" => task[t].op \in {"CreateProfile", "SaveProfile"}
         /\ task[t].at = "owner" => task[t].op \in {"CreateProfile", "SaveProfile", "Photo"}
         /\ task[t].at \in {"prove", "log"} => task[t].op = "Prove"
         /\ task[t].at = "config" => task[t].op \in {"CreateProfile", "SaveProfile", "Photo", "Prove"}
         /\ task[t].op = "none" <=> task[t].at = "none"
         /\ task[t].op # "none" => up /\ Running
<1>1. TaskOK(task[t]) /\ (~up => task[t].op = "none") /\ (up => Running)
  BY DEF Typed, Quiet
<1> QED BY <1>1 DEF TaskOK, Stages, Task

\* A thread without a request has the right form.
LEMMA NoTaskOK == TaskOK(NoTask)
BY DEF TaskOK, NoTask, Stages, Task

\* A program that runs has a configuration file, if perhaps a torn one.
LEMMA UpHas == ASSUME Typed, up PROVE Running /\ disk # None /\ disk \in Profile \cup {Torn}
BY IdentityAssumption DEF Typed, Running, Fresh

\* What a step of a running program has to keep.
LEMMA TypedUp ==
  ASSUME Typed, up, mpc' = mpc, fails' \in Nat,
         disk' \in Profile \cup {Torn, disk}, refs' \in [Datasets -> Names \cup {None}],
         task' \in [Threads -> Task], \A t \in Threads : TaskOK(task'[t]),
         book' \in Books, book'.one => book'.repo = book'.inst, store' \in Stores, Running'
  PROVE  Typed'
<1>1. disk' # None /\ disk' \in Profile \cup {Torn, None}
  BY UpHas, IdentityAssumption
<1>2. mpc' = "ready"
  BY DEF up
<1> QED BY <1>1, <1>2 DEF Typed, up

\* One request has moved, or several have.
LEMMA TypedTask ==
  ASSUME Typed, NEW t \in Threads, DOMAIN task' = Threads, task' = [s \in Threads |-> task'[s]],
         \A s \in Threads \ {t} : task'[s] = task[s] \/ TaskOK(task'[s]), TaskOK(task'[t])
  PROVE  task' \in [Threads -> Task] /\ \A s \in Threads : TaskOK(task'[s])
<1>1. \A s \in Threads : TaskOK(task'[s])
  BY DEF Typed
<1> QED BY <1>1 DEF TaskOK

-----------------------------------------------------------------------------
\* What a step does that takes no request back: no name is given up for another.
Advance(n, i) ==
  /\ owner.name = n => owner'.name = n
  /\ cfg.name = n => cfg'.name = n
  /\ Renamed(n) => Renamed(n)'
  /\ \A d \in Datasets : refs'[d] \in {None, n} \/ refs'[d] = refs[d]
  /\ store.peers[i] = n /\ i \in store.keys => store'.peers[i] = n /\ i \in store'.keys

\* What holds of a request that is given stays so when the records advance.
LEMMA TaskAdvances ==
  ASSUME NEW n, NEW i, NEW k, TaskSide(k, n, i), Advance(n, i)
  PROVE  TaskSide(k, n, i)'
BY DEF TaskSide, Advance

\* The same of a request that does not move.
LEMMA TaskStays ==
  ASSUME NEW n, NEW i, NEW s, TaskSide(task[s], n, i), Advance(n, i), task'[s] = task[s]
  PROVE  TaskSide(task[s], n, i)'
BY DEF TaskSide, Advance

\* A step in which one request moves at most.
LEMMA BaseStep ==
  ASSUME NEW n, NEW b, NEW i, Base(n, b, i), Advance(n, i), DiskSide(n, b, i)', up' => UpSide(n, b, i)',
         NEW t, \A s \in Threads \ {t} : task'[s] = task[s], task'[t].op # "none" => TaskSide(task[t], n, i)'
  PROVE  Base(n, b, i)'
<1>1. ASSUME NEW s \in Threads, task'[s].op # "none" PROVE TaskSide(task[s], n, i)'
  <2>1. CASE s = t
    BY <1>1, <2>1
  <2>2. CASE s # t
    BY <1>1, <2>2, TaskStays DEF Base
  <2> QED BY <2>1, <2>2
<1> QED BY <1>1 DEF Base

\* Only requests move.
LEMMA BaseTask ==
  ASSUME NEW n, NEW b, NEW i, Base(n, b, i), UNCHANGED <<mpc, disk, cfg, owner, store, refs, book>>,
         NEW t, \A s \in Threads \ {t} : task'[s] = task[s], task'[t].op # "none" => TaskSide(task'[t], n, i)
  PROVE  Base(n, b, i)'
<1>1. Advance(n, i)
  BY DEF Advance, Renamed
<1>2. DiskSide(n, b, i)' /\ (up' => UpSide(n, b, i)')
  BY DEF Base, DiskSide, UpSide, Whole, Renamed, Fresh, up
<1>3. task'[t].op # "none" => TaskSide(task[t], n, i)'
  BY DEF TaskSide, Renamed
<1> QED BY <1>1, <1>2, <1>3, BaseStep

\* The names tried only grow, so it is enough to keep the name and the ID of the
\* last agreement.
LEMMA Repairs ==
  ASSUME Repairing, tried \subseteq tried',
         \A n \in Names, b \in Names, i \in IDs : tried' \subseteq {n} /\ Base(n, b, i) => Base(n, b, i)'
  PROVE  Repairing'
<1> SUFFICES ASSUME NEW n \in Names, tried' \subseteq {n} PROVE \E b \in Names, i \in IDs : Base(n, b, i)'
  BY DEF Repairing
<1>1. PICK b \in Names, i \in IDs : Base(n, b, i)
  BY DEF Repairing
<1> QED BY <1>1

-----------------------------------------------------------------------------
\* A request begins.
LEMMA BeginTyped ==
  ASSUME Typed, NEW t \in Threads, NEW op, NEW at, NEW name \in Names, NEW names, Begin(t, op, at, name, names),
         op \in {"CreateProfile", "SaveProfile", "Photo", "Prove"}, at \in Stages(op),
         UNCHANGED <<mpc, disk, owner, store, refs, book, fails>>, cfg' = cfg \/ cfg' = [cfg EXCEPT !.name = name]
  PROVE  Typed'
<1> DEFINE k == [op |-> op, at |-> at, name |-> name, cfg |-> cfg, todo |-> {}, live |-> TRUE]
<1>1. up /\ Running /\ task' = [task EXCEPT ![t] = k]
  BY UpHas DEF Begin
<1>2. TaskOK(k)
  BY <1>1 DEF TaskOK, Task, Stages, Running
<1>3. cfg' \in Profile
  BY <1>1 DEF Profile, Running
<1>4. Running'
  BY <1>1, <1>3 DEF Running
<1> HIDE DEF k
<1>5. DOMAIN task' = Threads /\ task' = [s \in Threads |-> task'[s]] /\ task'[t] = k /\ \A s \in Threads \ {t} : task'[s] = task[s]
  BY <1>1 DEF Typed
<1>6. task' \in [Threads -> Task] /\ \A s \in Threads : TaskOK(task'[s])
  BY <1>2, <1>5, TypedTask
<1> QED BY <1>1, <1>4, <1>6, TypedUp DEF Typed

\* A request that begins has the name asked for, and a SaveProfile that of the owner.
LEMMA BeginRepairs ==
  ASSUME Typed, Repairing, NEW t \in Threads, NEW op, NEW at, NEW name \in Names, NEW names,
         Begin(t, op, at, name, names), name \in names,
         UNCHANGED <<mpc, disk, owner, store, refs, book>>,
         \/ op = "CreateProfile" /\ at = "post" /\ cfg' = cfg
         \/ op = "SaveProfile" /\ at \in {"save", "config1"} /\ owner.name \in names
              /\ (cfg' = cfg \/ cfg' = [cfg EXCEPT !.name = name])
         \/ op = "Photo" /\ at = "config" /\ name = cfg.name /\ cfg' = cfg
         \/ op = "Prove" /\ Account \in names
  PROVE  Repairing'
<1> SUFFICES ASSUME NEW n \in Names, tried' \subseteq {n} PROVE \E b \in Names, i \in IDs : Base(n, b, i)'
  BY DEF Repairing
<1>1. up /\ Running /\ task[t].op = "none" /\ disk # None
  BY UpHas DEF Begin
<1>2. /\ task'[t].op = op /\ task'[t].at = at /\ task'[t].name = name /\ task'[t].cfg = cfg
      /\ \A s \in Threads \ {t} : task'[s] = task[s]
  BY DEF Begin, Typed
<1>3. name = n /\ (\A m \in names : m = n) /\ op # "Prove"
  BY IdentityAssumption DEF Begin
<1>4. cfg \in Profile /\ cfg' \in Profile /\ cfg'.id = cfg.id /\ cfg'.name \in {cfg.name, n} /\ (cfg.name = n => cfg'.name = n)
  BY <1>1, <1>3 DEF Running, Profile
<1>5. \E b \in Names, i \in IDs : Base(n, b, i)
  <2>1. CASE Quiet /\ Agree
    <3>1. DiskSide(n, cfg.name, cfg.id)
      BY <2>1 DEF Agree, DiskSide, Renamed
    <3>2. UpSide(n, cfg.name, cfg.id)
      BY <2>1 DEF Agree, UpSide, Renamed
    <3>3. \A s \in Threads : task[s].op = "none"
      BY <2>1 DEF Quiet
    <3>4. cfg.name \in Names /\ cfg.id \in IDs
      BY <1>4 DEF Profile
    <3> QED BY <3>1, <3>2, <3>3, <3>4 DEF Base
  <2>2. CASE ~(Quiet /\ Agree)
    BY <2>2 DEF Begin, Repairing
  <2> QED BY <2>1, <2>2
<1>6. PICK b \in Names, i \in IDs : Base(n, b, i)
  BY <1>5
<1>7. Advance(n, i)
  BY <1>4 DEF Advance, Renamed
<1>8. UpSide(n, b, i) /\ DiskSide(n, b, i)
  BY <1>1, <1>6 DEF Base
<1>9. DiskSide(n, b, i)'
  BY <1>8 DEF DiskSide, Renamed, Fresh, Whole
<1>10. cfg'.name # cfg.name => owner.name = n
  BY <1>3
<1>11. UpSide(n, b, i)'
  BY <1>4, <1>8, <1>10 DEF UpSide, Renamed, Whole
<1>12. TaskSide(task[t], n, i)'
  <2>1. owner.name = n \/ op = "CreateProfile"
    BY <1>3, <1>8 DEF UpSide
  <2>2. cfg.id = i /\ (op = "Photo" => cfg.name = n)
    BY <1>3, <1>8 DEF UpSide
  <2> QED BY <1>2, <1>3, <2>1, <2>2 DEF TaskSide
<1>13. Base(n, b, i)'
  BY <1>2, <1>6, <1>7, <1>9, <1>11, <1>12, BaseStep
<1> QED BY <1>13

\* A request begins.
LEMMA CallsStep ==
  ASSUME Typed, Repairing, NEW t \in Threads, Calls(t)
  PROVE  Typed' /\ Repairing'
<1>1. ASSUME NEW name \in Names, CreateProfile(t, name) PROVE Typed' /\ Repairing'
  <2>1. Begin(t, "CreateProfile", "post", name, {name}) /\ UNCHANGED <<mpc, fails, disk, cfg, owner, store, refs, book>>
    BY <1>1 DEF CreateProfile, migrateVars
  <2>2. "post" \in Stages("CreateProfile")
    BY DEF Stages
  <2> QED BY <2>1, <2>2, BeginTyped, BeginRepairs
<1>2. ASSUME NEW name \in Names, SaveProfile(t, name) PROVE Typed' /\ Repairing'
  <2>1. /\ Begin(t, "SaveProfile", "save", name, {name, owner.name})
        /\ UNCHANGED <<mpc, fails, disk, cfg, owner, store, refs, book>>
    BY <1>2 DEF SaveProfile, migrateVars
  <2>2. "save" \in Stages("SaveProfile")
    BY DEF Stages
  <2> QED BY <2>1, <2>2, BeginTyped, BeginRepairs
<1>3. ASSUME NEW name \in Names, ConfigSet(t, name) PROVE Typed' /\ Repairing'
  <2>1. /\ Begin(t, "SaveProfile", "config1", name, {name, owner.name})
        /\ UNCHANGED <<mpc, fails, disk, owner, store, refs, book>> /\ cfg' = [cfg EXCEPT !.name = name]
    BY <1>3 DEF ConfigSet, migrateVars
  <2>2. "config1" \in Stages("SaveProfile")
    BY DEF Stages
  <2> QED BY <2>1, <2>2, BeginTyped, BeginRepairs
<1>4. ASSUME NEW name \in Names, ProveProfileKey(t, name) PROVE Typed' /\ Repairing'
  <2>1. /\ Begin(t, "Prove", "prove", name, {name, Account})
        /\ UNCHANGED <<mpc, fails, disk, cfg, owner, store, refs, book>>
    BY <1>4 DEF ProveProfileKey, migrateVars
  <2>2. "prove" \in Stages("Prove")
    BY DEF Stages
  <2> QED BY <2>1, <2>2, BeginTyped, BeginRepairs
<1>5. ASSUME SetProfilePhoto(t) \/ SetPosterPhoto(t) PROVE Typed' /\ Repairing'
  <2>1. /\ Begin(t, "Photo", "config", cfg.name, {cfg.name})
        /\ UNCHANGED <<mpc, fails, disk, cfg, owner, store, refs, book>>
    BY <1>5 DEF SetProfilePhoto, SetPosterPhoto, migrateVars
  <2>2. "config" \in Stages("Photo")
    BY DEF Stages
  <2>3. cfg.name \in Names
    BY <2>1, UpHas DEF Begin, Running, Profile
  <2> QED BY <2>1, <2>2, <2>3, BeginTyped, BeginRepairs
<1> QED BY <1>1, <1>2, <1>3, <1>4, <1>5 DEF Calls

-----------------------------------------------------------------------------
\* A request that moves on, or returns, with nothing else changed but who it was.
LEMMA TaskMoves ==
  ASSUME Typed, NEW t \in Threads, task[t].op # "none", DOMAIN task' = Threads, task' = [s \in Threads |-> task'[s]],
         \A s \in Threads \ {t} : task'[s] = task[s], TaskOK(task'[t]),
         fails' \in Nat, UNCHANGED <<mpc, disk, store>>, refs' \in [Datasets -> Names \cup {None}], Running',
         book' \in Books, book'.one => book'.repo = book'.inst
  PROVE  Typed'
<1>1. task' \in [Threads -> Task] /\ \A s \in Threads : TaskOK(task'[s])
  BY TypedTask
<1>2. up
  BY TaskHas
<1> QED BY <1>1, <1>2, TypedUp DEF Typed

\* The request of t returns.
LEMMA TaskReturns ==
  ASSUME Typed, NEW t \in Threads, Returns(t)
  PROVE  /\ DOMAIN task' = Threads /\ task' = [s \in Threads |-> task'[s]]
         /\ \A s \in Threads \ {t} : task'[s] = task[s]
         /\ task'[t] = NoTask /\ TaskOK(task'[t]) /\ task'[t].op = "none"
<1>1. task' = [task EXCEPT ![t] = NoTask] /\ NoTask.op = "none"
  BY DEF Returns, NoTask
<1> QED BY <1>1, NoTaskOK DEF Typed

\* The request of t goes on.
LEMMA TaskGoes ==
  ASSUME Typed, NEW t \in Threads, NEW at, Goes(t, at)
  PROVE  /\ DOMAIN task' = Threads /\ task' = [s \in Threads |-> task'[s]]
         /\ \A s \in Threads \ {t} : task'[s] = task[s]
         /\ task'[t] = [task[t] EXCEPT !.at = at]
BY DEF Goes, Typed

\* A request that returns without having changed a record.
LEMMA TaskEnds ==
  ASSUME Typed, Repairing, NEW t \in Threads, task[t].op # "none", Returns(t), fails' \in Nat,
         UNCHANGED <<mpc, disk, cfg, owner, store, refs, book, tried>>
  PROVE  Typed' /\ Repairing'
<1>1. Running /\ up
  BY TaskHas
<1>2. Running'
  BY <1>1 DEF Running
<1>3. Typed'
  BY <1>2, TaskReturns, TaskMoves DEF Typed
<1>4. Repairing'
  BY TaskReturns, BaseTask, Repairs
<1> QED BY <1>3, <1>4

\* An error leaves the number of failures one higher.
LEMMA ErrsCounts == ASSUME Typed, NEW t, Errs(t) PROVE fails' \in Nat /\ Returns(t)
BY DEF Typed, Errs

\* The registry has refused.
LEMMA PostFailsStep ==
  ASSUME Typed, Repairing, NEW t \in Threads, PostFails(t)
  PROVE  Typed' /\ Repairing'
<1>1. task[t].op # "none"
  BY TaskHas DEF PostFails
<1>2. Returns(t) /\ fails' \in Nat /\ UNCHANGED <<mpc, disk, cfg, owner, store, refs, book, tried>>
  BY DEF PostFails, restVars, Typed
<1> QED BY <1>1, <1>2, TaskEnds

\* updateConfig lists every reference that does not have the name yet, or fails to.
LEMMA UpdateConfigStep ==
  ASSUME Typed, Repairing, NEW t \in Threads, updateConfig(t)
  PROVE  Typed' /\ Repairing'
<1>0. PICK listed \in BOOLEAN :
        LET c == [cfg EXCEPT !.name = task[t].name]
            renamed == c.name # cfg.name
        IN  /\ ~listed => renamed /\ fails < MaxFails
            /\ fails' = IF listed THEN fails ELSE fails + 1
            /\ tried' = IF listed THEN tried ELSE tried \cup {None}
            /\ task' = [task EXCEPT ![t].cfg = c,
                                    ![t].at = IF renamed THEN "refs" ELSE "owner",
                                    ![t].todo = IF renamed /\ listed THEN {d \in Datasets : refs[d] = cfg.name} ELSE {}]
  BY DEF updateConfig
<1> DEFINE c == [cfg EXCEPT !.name = task[t].name]
           renamed == c.name # cfg.name
           at == IF renamed THEN "refs" ELSE "owner"
           todo == IF renamed /\ listed THEN {d \in Datasets : refs[d] = cfg.name} ELSE {}
<1>1. /\ task[t].op = "CreateProfile" /\ task[t].at = "post" /\ up /\ Running /\ TaskOK(task[t])
      /\ task' = [task EXCEPT ![t].cfg = c, ![t].at = at, ![t].todo = todo]
      /\ UNCHANGED <<mpc, disk, cfg, owner, store, refs, book>>
      /\ fails' \in Nat /\ tried \subseteq tried' /\ (~listed => None \in tried')
  <2>1. task[t].op = "CreateProfile" /\ task[t].at = "post" /\ UNCHANGED <<mpc, disk, cfg, owner, store, refs, book>>
    BY DEF updateConfig, restVars
  <2>2. task' = [task EXCEPT ![t].cfg = c, ![t].at = at, ![t].todo = todo]
    BY <1>0
  <2>3. up /\ Running /\ TaskOK(task[t])
    BY <2>1, TaskHas
  <2>4. fails' \in Nat /\ tried \subseteq tried' /\ (~listed => None \in tried')
    BY <1>0 DEF Typed
  <2> QED BY <2>1, <2>2, <2>3, <2>4
<1>2. cfg \in Profile /\ task[t].name \in Names /\ task[t] \in Task
  BY <1>1 DEF Running, TaskOK
<1>3. c \in Profile /\ c.name = task[t].name /\ c.id = cfg.id /\ at \in {"refs", "owner"} /\ todo \in SUBSET Datasets
      /\ (at = "owner" => cfg.name = task[t].name)
      /\ (at = "refs" => cfg.name # task[t].name /\ (listed => todo = {d \in Datasets : refs[d] = cfg.name}))
  BY <1>2 DEF Profile
<1> HIDE DEF c, renamed, at, todo
<1>4. /\ DOMAIN task' = Threads /\ task' = [s \in Threads |-> task'[s]]
      /\ \A s \in Threads \ {t} : task'[s] = task[s]
      /\ task'[t] = [[[task[t] EXCEPT !.cfg = c] EXCEPT !.at = at] EXCEPT !.todo = todo]
  BY <1>1 DEF Typed
<1>5. /\ task'[t].op = "CreateProfile" /\ task'[t].at = at /\ task'[t].name = task[t].name /\ task'[t].cfg = c
      /\ task'[t].todo = todo /\ task'[t] \in Task
  BY <1>1, <1>2, <1>3, <1>4 DEF Task
<1>6. TaskOK(task'[t])
  BY <1>2, <1>3, <1>5 DEF TaskOK, Stages
<1>7. Running'
  BY <1>1 DEF Running
<1>8. Typed'
  BY <1>1, <1>4, <1>6, <1>7, TaskMoves DEF Typed
<1>9. ASSUME NEW n \in Names, NEW b \in Names, NEW i \in IDs, tried' \subseteq {n}, Base(n, b, i) PROVE Base(n, b, i)'
  <2>0. listed
    BY <1>1, <1>9, IdentityAssumption
  <2>1. task[t].name = n /\ UpSide(n, b, i) /\ DiskSide(n, b, i)
    BY <1>1, <1>9 DEF Base, TaskSide
  <2>2. at = "owner" => Renamed(n)
    BY <1>3, <2>1 DEF UpSide
  <2>3. at = "refs" => \A d \in Datasets : refs[d] \in {None, n} \/ d \in todo
    BY <1>3, <2>0, <2>1 DEF UpSide, DiskSide
  <2>4. TaskSide(task'[t], n, i)
    BY <1>3, <1>5, <2>1, <2>2, <2>3 DEF TaskSide, UpSide
  <2> QED BY <1>1, <1>4, <1>9, <2>4, BaseTask
<1>10. Repairing'
  BY <1>1, <1>9, Repairs
<1> QED BY <1>8, <1>10

\* A signup deletes a reference, or fails to.
LEMMA ModifyRefStep ==
  ASSUME Typed, Repairing, NEW t \in Threads, NEW d \in Datasets, ModifyRef(t, d)
  PROVE  Typed' /\ Repairing'
<1>1. task[t].op = "CreateProfile" /\ task[t].at = "refs" /\ up /\ Running /\ TaskOK(task[t])
  BY TaskHas DEF ModifyRef
<1>2. UNCHANGED <<mpc, disk, cfg, owner, store, book, tried>>
  BY DEF ModifyRef, restVars
<1>3. CASE Errs(t) /\ UNCHANGED refs
  BY <1>1, <1>2, <1>3, ErrsCounts, TaskEnds
<1>4. CASE refs' = [refs EXCEPT ![d] = None] /\ task' = [task EXCEPT ![t].at = "put"] /\ UNCHANGED fails
  <2>1. /\ DOMAIN task' = Threads /\ task' = [s \in Threads |-> task'[s]]
        /\ \A s \in Threads \ {t} : task'[s] = task[s]
        /\ task'[t] = [task[t] EXCEPT !.at = "put"]
    BY <1>4 DEF Typed
  <2>2. /\ task'[t].op = "CreateProfile" /\ task'[t].at = "put" /\ task'[t].name = task[t].name
        /\ task'[t].cfg = task[t].cfg /\ task'[t].todo = task[t].todo /\ task'[t] \in Task
    BY <1>1, <2>1 DEF Task, TaskOK
  <2>3. TaskOK(task'[t])
    BY <1>1, <2>2 DEF TaskOK, Stages
  <2>4. refs' \in [Datasets -> Names \cup {None}] /\ \A e \in Datasets : refs'[e] \in {None, refs[e]}
    BY <1>4 DEF Typed
  <2>5. Running'
    BY <1>1, <1>2 DEF Running
  <2>6. Typed'
    BY <1>1, <1>2, <1>4, <2>1, <2>3, <2>4, <2>5, TaskMoves DEF Typed
  <2>7. ASSUME NEW n \in Names, NEW b \in Names, NEW i \in IDs, Base(n, b, i) PROVE Base(n, b, i)'
    <3>1. TaskSide(task[t], n, i) /\ UpSide(n, b, i) /\ DiskSide(n, b, i)
      BY <1>1, <2>7 DEF Base
    <3>2. Advance(n, i)
      BY <1>2, <2>4 DEF Advance, Renamed
    <3>3. DiskSide(n, b, i)'
      BY <1>2, <2>4, <3>1 DEF DiskSide, Renamed, Fresh, Whole
    <3>4. UpSide(n, b, i)'
      BY <1>2, <2>4, <3>1 DEF UpSide, Renamed, Whole
    <3>5. TaskSide(task[t], n, i)'
      BY <1>1, <2>2, <2>4, <3>1 DEF TaskSide
    <3> QED BY <2>1, <2>7, <3>2, <3>3, <3>4, <3>5, BaseStep
  <2>8. Repairing'
    BY <1>2, <2>7, Repairs
  <2> QED BY <2>6, <2>8
<1> QED BY <1>3, <1>4 DEF ModifyRef

\* A signup puts the reference back under the new name, or fails to.
LEMMA PutModifiedStep ==
  ASSUME Typed, Repairing, NEW t \in Threads, NEW d \in Datasets, PutModified(t, d)
  PROVE  Typed' /\ Repairing'
<1>1. task[t].op = "CreateProfile" /\ task[t].at = "put" /\ up /\ Running /\ TaskOK(task[t])
  BY TaskHas DEF PutModified
<1>2. UNCHANGED <<mpc, disk, cfg, owner, store, book, tried>>
  BY DEF PutModified, restVars
<1>3. CASE Errs(t) /\ UNCHANGED refs
  BY <1>1, <1>2, <1>3, ErrsCounts, TaskEnds
<1>4. CASE /\ refs' = [refs EXCEPT ![d] = task[t].name]
           /\ task' = [task EXCEPT ![t].at = "refs", ![t].todo = @ \ {d}] /\ UNCHANGED fails
  <2>1. /\ DOMAIN task' = Threads /\ task' = [s \in Threads |-> task'[s]]
        /\ \A s \in Threads \ {t} : task'[s] = task[s]
        /\ task'[t] = [[task[t] EXCEPT !.at = "refs"] EXCEPT !.todo = task[t].todo \ {d}]
    BY <1>4 DEF Typed, Task
  <2>2. /\ task'[t].op = "CreateProfile" /\ task'[t].at = "refs" /\ task'[t].name = task[t].name
        /\ task'[t].cfg = task[t].cfg /\ task'[t].todo = task[t].todo \ {d} /\ task'[t] \in Task
    BY <1>1, <2>1 DEF Task, TaskOK
  <2>3. TaskOK(task'[t])
    BY <1>1, <2>2 DEF TaskOK, Stages
  <2>4. /\ refs' \in [Datasets -> Names \cup {None}] /\ refs'[d] = task[t].name
        /\ \A e \in Datasets \ {d} : refs'[e] = refs[e]
    BY <1>1, <1>4 DEF Typed, TaskOK
  <2>5. Running'
    BY <1>1, <1>2 DEF Running
  <2>6. Typed'
    BY <1>1, <1>2, <1>4, <2>1, <2>3, <2>4, <2>5, TaskMoves DEF Typed
  <2>7. ASSUME NEW n \in Names, NEW b \in Names, NEW i \in IDs, Base(n, b, i) PROVE Base(n, b, i)'
    <3>1. TaskSide(task[t], n, i) /\ UpSide(n, b, i) /\ DiskSide(n, b, i)
      BY <1>1, <2>7 DEF Base
    <3>2. refs'[d] = n /\ book.disk # None
      BY <1>1, <2>4, <3>1, IdentityAssumption DEF TaskSide, Running
    <3>3. Advance(n, i)
      BY <1>2, <2>4, <3>2 DEF Advance, Renamed
    <3>4. DiskSide(n, b, i)'
      BY <1>2, <2>4, <3>1, <3>2 DEF DiskSide, Renamed, Fresh, Whole
    <3>5. UpSide(n, b, i)'
      BY <1>2, <2>4, <3>1, <3>2 DEF UpSide, Renamed, Whole
    <3>6. TaskSide(task[t], n, i)'
      BY <1>1, <2>2, <2>4, <3>1, <3>2 DEF TaskSide
    <3> QED BY <2>1, <2>7, <3>3, <3>4, <3>5, <3>6, BaseStep
  <2>8. Repairing'
    BY <1>2, <2>7, Repairs
  <2> QED BY <2>6, <2>8
<1> QED BY <1>3, <1>4 DEF PutModified

\* The author's log has the new name once it is saved; in memory it has it before.
LEMMA WriteAuthorRenameStep ==
  ASSUME Typed, Repairing, NEW t \in Threads, WriteAuthorRename(t)
  PROVE  Typed' /\ Repairing'
<1> DEFINE a == [book.inst EXCEPT !.author = task[t].name]
<1>1. task[t].op = "CreateProfile" /\ task[t].at = "refs" /\ up /\ Running /\ TaskOK(task[t]) /\ task[t].todo = {}
  BY TaskHas DEF WriteAuthorRename
<1>2. UNCHANGED <<mpc, disk, cfg, owner, store, refs, tried>>
  BY DEF WriteAuthorRename, restVars
<1>3. a \in Book /\ a.author = task[t].name
  BY <1>1 DEF Running, Book, TaskOK
<1>4. /\ Saved(a, "inst").disk = a /\ Saved(a, "inst").inst = a /\ Saved(a, "inst").one = book.one
      /\ Saved(a, "inst").repo = (IF book.one THEN a ELSE book.repo) /\ Saved(a, "inst") \in Books
  BY <1>1, <1>3 DEF Saved, Running, Books, Typed
<1>5. /\ book' \in Books /\ book'.one = book.one /\ book'.inst = a /\ (book.one => book'.repo = a)
      /\ book'.disk \in {a, book.disk} /\ (book.one \/ book'.repo = book.repo)
  BY <1>3, <1>4 DEF WriteAuthorRename, Books, Typed
<1>6. Running' /\ (book'.one => book'.repo = book'.inst)
  BY <1>1, <1>2, <1>3, <1>5 DEF Running
<1>7. CASE Errs(t)
  <2>1. Typed'
    BY <1>1, <1>2, <1>5, <1>6, <1>7, ErrsCounts, TaskReturns, TaskMoves DEF Typed
  <2>2. ASSUME NEW n \in Names, NEW b \in Names, NEW i \in IDs, Base(n, b, i) PROVE Base(n, b, i)'
    <3>1. TaskSide(task[t], n, i) /\ UpSide(n, b, i) /\ DiskSide(n, b, i)
      BY <1>1, <2>2 DEF Base
    <3>2. a.author = n /\ book.disk # None /\ book'.disk # None
      BY <1>1, <1>3, <1>5, <3>1, IdentityAssumption DEF TaskSide, Running
    <3>3. Advance(n, i)
      BY <1>2, <1>5, <3>2 DEF Advance, Renamed
    <3>4. DiskSide(n, b, i)'
      BY <1>2, <1>5, <3>1, <3>2 DEF DiskSide, Renamed, Fresh, Whole
    <3>5. UpSide(n, b, i)'
      BY <1>2, <1>5, <3>1, <3>2 DEF UpSide, Renamed, Whole
    <3> QED BY <1>7, <2>2, <3>3, <3>4, <3>5, ErrsCounts, TaskReturns, BaseStep
  <2>3. Repairing'
    BY <1>2, <2>2, Repairs
  <2> QED BY <2>1, <2>3
<1>8. CASE book' = Saved(a, "inst") /\ Goes(t, "owner") /\ UNCHANGED fails
  <2>0. task'[t] = [task[t] EXCEPT !.at = "owner"]
    BY <1>8, TaskGoes
  <2>1. /\ task'[t].op = "CreateProfile" /\ task'[t].at = "owner" /\ task'[t].name = task[t].name
        /\ task'[t].cfg = task[t].cfg /\ task'[t] \in Task
    BY <1>1, <2>0 DEF Task, TaskOK
  <2>2. TaskOK(task'[t])
    BY <1>1, <2>1 DEF TaskOK, Stages
  <2>3. Typed'
    BY <1>1, <1>2, <1>5, <1>6, <1>8, <2>2, TaskGoes, TaskMoves DEF Typed
  <2>4. ASSUME NEW n \in Names, NEW b \in Names, NEW i \in IDs, Base(n, b, i) PROVE Base(n, b, i)'
    <3>1. TaskSide(task[t], n, i) /\ UpSide(n, b, i) /\ DiskSide(n, b, i)
      BY <1>1, <2>4 DEF Base
    <3>2. a.author = n /\ book'.disk = a /\ book'.disk # None /\ book.disk # None /\ \A d \in Datasets : refs[d] \in {None, n}
      BY <1>1, <1>3, <1>4, <1>8, <3>1, IdentityAssumption DEF TaskSide, Running
    <3>3. Renamed(n)'
      BY <1>2, <3>2 DEF Renamed
    <3>4. Advance(n, i)
      BY <1>2, <3>3 DEF Advance
    <3>5. DiskSide(n, b, i)'
      BY <1>2, <3>1, <3>3 DEF DiskSide, Whole
    <3>6. UpSide(n, b, i)'
      BY <1>2, <1>5, <3>1, <3>2, <3>3 DEF UpSide, Whole
    <3>7. TaskSide(task[t], n, i)'
      BY <1>1, <2>1, <3>1, <3>3 DEF TaskSide
    <3> QED BY <1>8, <2>4, <3>4, <3>5, <3>6, <3>7, TaskGoes, BaseStep
  <2>5. Repairing'
    BY <1>2, <2>4, Repairs
  <2> QED BY <2>3, <2>5
<1> QED BY <1>7, <1>8 DEF WriteAuthorRename

\* The owner is set when the references and the logbook have the name.
LEMMA SetsOwnerStep ==
  ASSUME Typed, Repairing, NEW t \in Threads, SetsOwner(t)
  PROVE  Typed' /\ Repairing'
<1> DEFINE p == OwnerToSet(t)
<1>1. /\ task[t].op \in {"CreateProfile", "SaveProfile", "Photo"} /\ task[t].at = "owner" /\ up /\ Running
      /\ TaskOK(task[t])
  BY TaskHas DEF SetsOwner
<1>2. UNCHANGED <<mpc, disk, cfg, refs, book, tried>>
  BY DEF SetsOwner, restVars
<1>3. PICK failed \in BOOLEAN :
         /\ SetOwner(p, failed) /\ fails' = (IF failed THEN fails + 1 ELSE fails)
         /\ task' = [s \in Threads |->
                       IF s = t THEN IF failed \/ task[t].op = "Photo" THEN NoTask ELSE [task[t] EXCEPT !.at = "config"]
                       ELSE IF task[s].op = "Prove" /\ task[t].op # "Photo" THEN [task[s] EXCEPT !.live = FALSE]
                       ELSE task[s]]
  BY DEF SetsOwner
<1>4. p.name \in Names /\ p.id \in IDs
  BY <1>1 DEF OwnerToSet, Running, Owners, Profile, TaskOK
<1>5. owner' = [name |-> p.name, id |-> p.id] /\ store' = (IF failed THEN store ELSE PutProfile(store, p))
  BY <1>3 DEF SetOwner
<1> HIDE DEF p
<1>6. owner' \in Owners /\ owner'.name = p.name /\ owner'.id = p.id
  BY <1>4, <1>5 DEF Owners
<1>7. PutProfile(store, p) \in Stores /\ PutProfile(store, p).peers[p.id] = p.name /\ p.id \in PutProfile(store, p).keys
  BY <1>4 DEF PutProfile, AddPrivKey, Stores, Typed
<1>8. Running' /\ store' \in Stores /\ fails' \in Nat
  BY <1>1, <1>2, <1>3, <1>5, <1>6, <1>7 DEF Running, Typed
<1>9. DOMAIN task' = Threads /\ task' = [s \in Threads |-> task'[s]]
  BY <1>3
<1>10. ASSUME NEW s \in Threads \ {t} PROVE TaskOK(task'[s]) /\ (task[s].op # "Prove" => task'[s] = task[s])
  <2>1. TaskOK(task[s])
    BY DEF Typed
  <2>2. task'[s] = task[s] \/ (task[s].op = "Prove" /\ task'[s] = [task[s] EXCEPT !.live = FALSE])
    BY <1>3
  <2> QED BY <2>1, <2>2 DEF TaskOK, Task
<1>11. \/ task'[t] = NoTask
       \/ ~failed /\ task[t].op # "Photo" /\ task'[t] = [task[t] EXCEPT !.at = "config"]
  BY <1>3
<1>12. \/ task'[t] = NoTask
       \/ /\ ~failed /\ task[t].op # "Photo" /\ task'[t] \in Task
          /\ task'[t].op = task[t].op /\ task'[t].at = "config" /\ task'[t].name = task[t].name
          /\ task'[t].cfg = task[t].cfg /\ task'[t].live = task[t].live
  BY <1>1, <1>11 DEF TaskOK, Task
<1>13. TaskOK(task'[t])
  BY <1>1, <1>12, NoTaskOK DEF TaskOK, Stages
<1>14. Typed'
  <2>1. task' \in [Threads -> Task] /\ \A s \in Threads : TaskOK(task'[s])
    BY <1>9, <1>10, <1>13, TypedTask
  <2> QED BY <1>1, <1>2, <1>8, <2>1, TypedUp DEF Typed
<1>15. ASSUME NEW n \in Names, NEW b \in Names, NEW i \in IDs, Base(n, b, i) PROVE Base(n, b, i)'
  <2>1. TaskSide(task[t], n, i) /\ UpSide(n, b, i) /\ DiskSide(n, b, i)
    BY <1>1, <1>15 DEF Base
  <2>2. p.name = n /\ p.id = i
    BY <1>1, <2>1 DEF p, OwnerToSet, TaskSide, UpSide
  <2>3. Renamed(n)
    BY <1>1, <2>1 DEF TaskSide, UpSide
  <2>4. Renamed(n)'
    BY <1>2, <2>3 DEF Renamed
  <2>5. Advance(n, i)
    BY <1>2, <1>5, <1>6, <1>7, <2>2, <2>4 DEF Advance
  <2>6. DiskSide(n, b, i)'
    BY <1>2, <2>1, <2>4 DEF DiskSide, Whole
  <2>7. UpSide(n, b, i)'
    BY <1>2, <1>6, <2>1, <2>2, <2>4 DEF UpSide, Whole
  <2>8. task'[t].op # "none" => TaskSide(task[t], n, i)'
    <3>1. NoTask.op = "none"
      BY DEF NoTask
    <3>2. SUFFICES ASSUME ~failed, task[t].op # "Photo", task'[t].op = task[t].op, task'[t].at = "config",
                          task'[t].name = task[t].name, task'[t].cfg = task[t].cfg, task'[t].live = task[t].live
                   PROVE  TaskSide(task[t], n, i)'
      BY <1>12, <3>1
    <3>3. store'.peers[i] = n /\ i \in store'.keys
      BY <1>5, <1>7, <2>2, <3>2
    <3> QED BY <1>1, <1>2, <1>6, <2>1, <2>2, <2>4, <3>2, <3>3 DEF TaskSide
  <2>9. \A s \in Threads \ {t} : task'[s] = task[s]
    <3>1. ASSUME NEW s \in Threads \ {t} PROVE task[s].op # "Prove"
      BY <1>15, <3>1 DEF Base, TaskSide
    <3> QED BY <1>10, <3>1
  <2> QED BY <1>15, <2>5, <2>6, <2>7, <2>8, <2>9, BaseStep
<1>16. Repairing'
  BY <1>2, <1>15, Repairs
<1> QED BY <1>14, <1>16

\* What a request that changes the configuration makes of it.
LEMMA HeldIs ==
  ASSUME Typed, NEW t \in Threads, task[t].at \in {"config", "config1"}
  PROVE  /\ WithPrivateValues(Held(t)) \in Profile
         /\ WithPrivateValues(Held(t)).name = Held(t).name /\ WithPrivateValues(Held(t)).id = Held(t).id
<1>1. Running /\ TaskOK(task[t]) /\ task[t].op # "none"
  BY TaskHas
<1>2. Held(t) \in Profile /\ cfg \in Profile
  BY <1>1 DEF Held, Running, TaskOK
<1> QED BY <1>2 DEF WithPrivateValues, Profile

\* The configuration is changed last.
LEMMA ChangeConfigStep ==
  ASSUME Typed, Repairing, NEW t \in Threads, ChangeConfig(t)
  PROVE  Typed' /\ Repairing'
<1> DEFINE c == WithPrivateValues(Held(t))
<1>1. /\ task[t].at \in {"config", "config1"} /\ task[t].op # "none" /\ up /\ Running /\ TaskOK(task[t])
      /\ (task[t].at = "config1" => task[t].op = "SaveProfile")
  BY TaskHas DEF ChangeConfig
<1>2. UNCHANGED <<mpc, owner, store, refs, book, tried>>
  BY DEF ChangeConfig, restVars
<1>3. c \in Profile /\ c.name = Held(t).name /\ c.id = Held(t).id
  BY <1>1, HeldIs
<1>4. CASE WriteToFileFails /\ Errs(t) /\ UNCHANGED cfg
  <2>1. disk' \in {disk, Torn}
    BY <1>4 DEF WriteToFileFails
  <2>2. Running'
    BY <1>1, <1>2, <1>4 DEF Running
  <2>3. Returns(t) /\ fails' \in Nat
    BY <1>4, ErrsCounts
  <2>4. task' \in [Threads -> Task] /\ \A s \in Threads : TaskOK(task'[s])
    BY <2>3, TaskReturns, TypedTask
  <2>5. Typed'
    BY <1>1, <1>2, <2>1, <2>2, <2>3, <2>4, TypedUp DEF Typed
  <2>6. ASSUME NEW n \in Names, NEW b \in Names, NEW i \in IDs, Base(n, b, i) PROVE Base(n, b, i)'
    <3>1. UpSide(n, b, i) /\ DiskSide(n, b, i)
      BY <1>1, <2>6 DEF Base
    <3>2. Whole' => disk' = disk /\ Whole
      BY <2>1 DEF Whole
    <3>3. Advance(n, i)
      BY <1>2, <1>4 DEF Advance, Renamed
    <3>4. DiskSide(n, b, i)'
      BY <1>2, <3>1, <3>2 DEF DiskSide, Renamed, Fresh
    <3>5. UpSide(n, b, i)'
      BY <1>2, <1>4, <3>1, <3>2 DEF UpSide, Renamed
    <3> QED BY <2>3, <2>6, <3>3, <3>4, <3>5, TaskReturns, BaseStep
  <2>7. Repairing'
    BY <1>2, <2>6, Repairs
  <2> QED BY <2>5, <2>7
<1>5. CASE /\ disk' = c /\ cfg' = c /\ UNCHANGED fails
           /\ task' = [s \in Threads |->
                        IF s = t THEN IF AfterConfig(t) = "none" THEN NoTask ELSE [task[t] EXCEPT !.at = AfterConfig(t)]
                        ELSE IF task[s].op = "SaveProfile" /\ task[s].live THEN [task[s] EXCEPT !.live = FALSE, !.cfg = cfg]
                        ELSE task[s]]
  <2>1. Running'
    BY <1>1, <1>2, <1>3, <1>5 DEF Running
  <2>2. DOMAIN task' = Threads /\ task' = [s \in Threads |-> task'[s]]
    BY <1>5
  <2>3. ASSUME NEW s \in Threads \ {t}
        PROVE  \/ task'[s] = task[s]
               \/ /\ TaskOK(task'[s]) /\ task[s].op = "SaveProfile" /\ task[s].live /\ ~task'[s].live
                  /\ task'[s].op = task[s].op /\ task'[s].at = task[s].at /\ task'[s].name = task[s].name
                  /\ task'[s].cfg = cfg
    <3>1. TaskOK(task[s]) /\ cfg \in Profile
      BY <1>1 DEF Typed, Running
    <3>2. CASE task[s].op = "SaveProfile" /\ task[s].live
      <4>1. task'[s] = [[task[s] EXCEPT !.live = FALSE] EXCEPT !.cfg = cfg]
        BY <1>5, <3>2
      <4>2. /\ task'[s].op = task[s].op /\ task'[s].at = task[s].at /\ task'[s].name = task[s].name
            /\ task'[s].cfg = cfg /\ ~task'[s].live /\ task'[s] \in Task
        BY <3>1, <4>1 DEF TaskOK, Task
      <4> QED BY <3>1, <3>2, <4>2 DEF TaskOK
    <3>3. CASE ~(task[s].op = "SaveProfile" /\ task[s].live)
      BY <1>5, <3>3
    <3> QED BY <3>2, <3>3
  <2>4. \/ task'[t] = NoTask
        \/ task[t].at = "config1" /\ task'[t] = [task[t] EXCEPT !.at = "save"]
        \/ task[t].at = "config" /\ task[t].op = "Photo" /\ task'[t] = [task[t] EXCEPT !.at = "owner"]
    BY <1>1, <1>5 DEF AfterConfig
  <2>5. \/ task'[t] = NoTask
        \/ /\ task'[t] \in Task /\ task'[t].op = task[t].op /\ task'[t].name = task[t].name
           /\ task'[t].cfg = task[t].cfg
           /\ \/ task[t].op = "SaveProfile" /\ task'[t].at = "save"
              \/ task[t].op = "Photo" /\ task'[t].at = "owner"
    BY <1>1, <2>4 DEF TaskOK, Task
  <2>6. TaskOK(task'[t])
    BY <1>1, <2>5, NoTaskOK DEF TaskOK, Stages
  <2>7. Typed'
    <3>1. task' \in [Threads -> Task] /\ \A s \in Threads : TaskOK(task'[s])
      BY <2>2, <2>3, <2>6, TypedTask
    <3> QED BY <1>1, <1>2, <1>3, <1>5, <2>1, <3>1, TypedUp DEF Typed
  <2>8. ASSUME NEW n \in Names, NEW b \in Names, NEW i \in IDs, Base(n, b, i) PROVE Base(n, b, i)'
    <3>1. TaskSide(task[t], n, i) /\ UpSide(n, b, i) /\ DiskSide(n, b, i)
      BY <1>1, <2>8 DEF Base
    <3>2. owner.name = n /\ Held(t).id = i /\ Held(t).name \in {cfg.name, n}
      BY <1>1, <3>1, TaskHas DEF TaskSide, UpSide, Held
    <3>3. Renamed(n) /\ c.id = i /\ c.name \in {b, n} /\ (cfg.name = n => c.name = n)
      BY <1>3, <3>1, <3>2 DEF UpSide
    <3>4. Renamed(n)'
      BY <1>2, <3>3 DEF Renamed
    <3>5. Advance(n, i)
      BY <1>2, <1>5, <3>3, <3>4 DEF Advance
    <3>6. DiskSide(n, b, i)'
      BY <1>2, <1>5, <3>1, <3>3, <3>4 DEF DiskSide
    <3>7. UpSide(n, b, i)'
      BY <1>2, <1>5, <3>1, <3>2, <3>3, <3>4 DEF UpSide
    <3>8. ASSUME NEW s \in Threads, task'[s].op # "none" PROVE TaskSide(task[s], n, i)'
      <4>1. CASE s = t
        <5>1. NoTask.op = "none"
          BY DEF NoTask
        <5> QED BY <1>2, <2>5, <3>1, <3>2, <3>8, <4>1, <5>1 DEF TaskSide
      <4>2. CASE s # t /\ task'[s] = task[s]
        BY <2>8, <3>5, <3>8, <4>2, TaskStays DEF Base
      <4>3. CASE s # t /\ task'[s] # task[s]
        <5>1. TaskSide(task[s], n, i)
          BY <2>3, <2>8, <4>3 DEF Base
        <5>2. cfg.id = i
          BY <3>1 DEF UpSide
        <5> QED BY <1>2, <2>3, <3>2, <4>3, <5>1, <5>2 DEF TaskSide
      <4> QED BY <4>1, <4>2, <4>3
    <3> QED BY <3>6, <3>7, <3>8 DEF Base
  <2>9. Repairing'
    BY <1>2, <2>8, Repairs
  <2> QED BY <2>7, <2>9
<1> QED BY <1>4, <1>5 DEF ChangeConfig

\* SaveProfile asks the registry for the name.
LEMMA SaveAsksStep ==
  ASSUME Typed, Repairing, NEW t \in Threads, SaveAsks(t)
  PROVE  Typed' /\ Repairing'
<1>1. task[t].op = "SaveProfile" /\ task[t].at = "save" /\ up /\ Running /\ TaskOK(task[t])
  BY TaskHas DEF SaveAsks
<1>2. UNCHANGED <<mpc, fails, disk, cfg, owner, store, refs, book, tried>>
  BY DEF SaveAsks, migrateVars
<1>3. PICK at \in {"post", "owner"} : /\ task' = [task EXCEPT ![t].at = at, ![t].live = TRUE]
                                      /\ at = "owner" => task[t].name = cfg.name
  BY DEF SaveAsks
<1>4. /\ DOMAIN task' = Threads /\ task' = [s \in Threads |-> task'[s]]
      /\ \A s \in Threads \ {t} : task'[s] = task[s]
      /\ task'[t] = [[task[t] EXCEPT !.at = at] EXCEPT !.live = TRUE]
  BY <1>3 DEF Typed
<1>5. /\ task'[t].op = "SaveProfile" /\ task'[t].at = at /\ task'[t].name = task[t].name
      /\ task'[t].cfg = task[t].cfg /\ task'[t].live /\ task'[t] \in Task
  BY <1>1, <1>4 DEF Task, TaskOK
<1>6. TaskOK(task'[t]) /\ Running'
  BY <1>1, <1>2, <1>5 DEF TaskOK, Stages, Running
<1>7. Typed'
  BY <1>1, <1>2, <1>4, <1>6, TaskMoves DEF Typed
<1>8. ASSUME NEW n \in Names, NEW b \in Names, NEW i \in IDs, Base(n, b, i) PROVE Base(n, b, i)'
  <2>1. TaskSide(task[t], n, i)
    BY <1>1, <1>8 DEF Base
  <2>2. TaskSide(task'[t], n, i)
    BY <1>1, <1>3, <1>5, <2>1 DEF TaskSide
  <2> QED BY <1>2, <1>4, <1>8, <2>2, BaseTask
<1>9. Repairing'
  BY <1>2, <1>8, Repairs
<1> QED BY <1>7, <1>9

\* SaveProfile has the name and sets it.
LEMMA SaveSetsStep ==
  ASSUME Typed, Repairing, NEW t \in Threads, SaveSets(t)
  PROVE  Typed' /\ Repairing'
<1>1. task[t].op = "SaveProfile" /\ task[t].at = "post" /\ up /\ Running /\ TaskOK(task[t])
  BY TaskHas DEF SaveSets
<1>2. UNCHANGED <<mpc, fails, disk, owner, store, refs, book, tried>>
  BY DEF SaveSets, migrateVars
<1>3. /\ task[t] \in Task /\ task[t].name \in Names /\ task[t].cfg \in Profile /\ cfg \in Profile
  BY <1>1 DEF TaskOK, Running
<1>4. /\ DOMAIN task' = Threads /\ task' = [s \in Threads |-> task'[s]] /\ \A s \in Threads \ {t} : task'[s] = task[s]
      /\ task'[t] \in Task /\ task'[t].op = "SaveProfile" /\ task'[t].at = "owner" /\ task'[t].name = task[t].name
      /\ task'[t].live = task[t].live /\ task'[t].cfg \in Profile /\ task'[t].cfg.id = task[t].cfg.id
      /\ cfg' \in Profile /\ cfg'.id = cfg.id
      /\ IF task[t].live THEN cfg'.name = task[t].name ELSE cfg' = cfg /\ task'[t].cfg.name = task[t].name
  <2>1. CASE task[t].live
    <3>1. cfg' = [cfg EXCEPT !.name = task[t].name] /\ Goes(t, "owner")
      BY <2>1 DEF SaveSets
    <3>2. cfg' \in Profile /\ cfg'.id = cfg.id /\ cfg'.name = task[t].name
      BY <1>3, <3>1 DEF Profile
    <3>3. task'[t] = [task[t] EXCEPT !.at = "owner"]
      BY <3>1, TaskGoes
    <3>4. task'[t] \in Task /\ task'[t].op = "SaveProfile" /\ task'[t].at = "owner" /\ task'[t].name = task[t].name
          /\ task'[t].live = task[t].live /\ task'[t].cfg = task[t].cfg
      BY <1>1, <1>3, <3>3 DEF Task
    <3> QED BY <3>4, <1>3, <2>1, <3>1, <3>2, <3>3, TaskGoes
  <2>2. CASE ~task[t].live
    <3> DEFINE q == [task[t].cfg EXCEPT !.name = task[t].name]
    <3>1. cfg' = cfg /\ task' = [task EXCEPT ![t].cfg.name = task[t].name, ![t].at = "owner"]
      BY <2>2 DEF SaveSets
    <3>2. q \in Profile /\ q.id = task[t].cfg.id /\ q.name = task[t].name
      BY <1>3 DEF Profile
    <3>3. /\ DOMAIN task' = Threads /\ task' = [s \in Threads |-> task'[s]] /\ \A s \in Threads \ {t} : task'[s] = task[s]
          /\ task'[t] = [[task[t] EXCEPT !.cfg = q] EXCEPT !.at = "owner"]
      BY <3>1 DEF Typed
    <3> HIDE DEF q
    <3>4. /\ task'[t] \in Task /\ task'[t].op = "SaveProfile" /\ task'[t].at = "owner" /\ task'[t].name = task[t].name
          /\ task'[t].live = task[t].live /\ task'[t].cfg = q
      BY <1>1, <1>3, <3>2, <3>3 DEF Task
    <3> QED BY <1>3, <2>2, <3>1, <3>2, <3>3, <3>4
  <2> QED BY <2>1, <2>2
<1>5. TaskOK(task'[t]) /\ Running'
  BY <1>1, <1>2, <1>3, <1>4 DEF TaskOK, Stages, Running
<1>6. Typed'
  BY <1>1, <1>2, <1>4, <1>5, TaskMoves DEF Typed
<1>7. ASSUME NEW n \in Names, NEW b \in Names, NEW i \in IDs, Base(n, b, i) PROVE Base(n, b, i)'
  <2>1. TaskSide(task[t], n, i) /\ UpSide(n, b, i) /\ DiskSide(n, b, i)
    BY <1>1, <1>7 DEF Base
  <2>2. task[t].name = n /\ owner.name = n /\ cfg'.id = i /\ cfg'.name \in {cfg.name, n}
    BY <1>1, <1>4, <2>1 DEF TaskSide, UpSide
  <2>3. Advance(n, i)
    BY <1>2, <2>2 DEF Advance, Renamed
  <2>4. DiskSide(n, b, i)'
    BY <1>2, <2>1 DEF DiskSide, Renamed, Fresh, Whole
  <2>5. UpSide(n, b, i)'
    BY <1>2, <2>1, <2>2 DEF UpSide, Renamed, Whole
  <2>6. TaskSide(task[t], n, i)'
    BY <1>1, <1>2, <1>4, <2>1, <2>2 DEF TaskSide
  <2> QED BY <1>4, <1>7, <2>3, <2>4, <2>5, <2>6, BaseStep
<1>8. Repairing'
  BY <1>2, <1>7, Repairs
<1> QED BY <1>6, <1>8

\* While a key is proved the account is in play: no name is the only one.
LEMMA ProvingIsTried ==
  ASSUME Typed, Repairing, NEW t \in Threads, task[t].op = "Prove", tried' = tried
  PROVE  Repairing'
<1>1. \A n \in Names, b \in Names, i \in IDs : ~Base(n, b, i)
  BY DEF Base, TaskSide
<1> QED BY <1>1, Repairs

\* The registry has proved the key: more than one name has been tried.
LEMMA ProvedStep ==
  ASSUME Typed, Repairing, NEW t \in Threads, Proved(t)
  PROVE  Typed' /\ Repairing'
<1> DEFINE q == [cfg EXCEPT !.name = task[t].name, !.id = Account]
<1>1. task[t].op = "Prove" /\ task[t].at = "prove" /\ up /\ Running /\ TaskOK(task[t])
  BY TaskHas DEF Proved
<1>2. UNCHANGED <<mpc, disk, cfg, store, refs, book, tried>>
  BY DEF Proved, restVars
<1>3. Repairing'
  BY <1>1, <1>2, ProvingIsTried
<1>4. CASE Errs(t) /\ UNCHANGED owner
  BY <1>1, <1>2, <1>4, ErrsCounts, TaskEnds
<1>5. CASE /\ task' = [task EXCEPT ![t].at = "log", ![t].cfg = q] /\ UNCHANGED fails
           /\ owner' = IF task[t].live THEN [owner EXCEPT !.id = Account] ELSE owner
  <2>1. q \in Profile
    BY <1>1 DEF Running, Profile, IDs, TaskOK
  <2>2. owner' \in Owners
    BY <1>1, <1>5 DEF Running, Owners, IDs
  <2> HIDE DEF q
  <2>3. /\ DOMAIN task' = Threads /\ task' = [s \in Threads |-> task'[s]] /\ \A s \in Threads \ {t} : task'[s] = task[s]
        /\ task'[t] = [[task[t] EXCEPT !.at = "log"] EXCEPT !.cfg = q]
    BY <1>5 DEF Typed
  <2>4. task'[t] \in Task /\ task'[t].op = "Prove" /\ task'[t].at = "log" /\ task'[t].name = task[t].name /\ task'[t].cfg = q
    BY <1>1, <2>1, <2>3 DEF Task, TaskOK
  <2>5. TaskOK(task'[t]) /\ Running'
    BY <1>1, <1>2, <2>1, <2>2, <2>4 DEF TaskOK, Stages, Running
  <2>6. Typed'
    BY <1>1, <1>2, <1>5, <2>3, <2>5, TaskMoves DEF Typed
  <2> QED BY <1>3, <2>6
<1> QED BY <1>4, <1>5 DEF Proved

\* The logbook is replaced by the one of the account.
LEMMA ProveReplacesLogStep ==
  ASSUME Typed, Repairing, NEW t \in Threads, NEW logbookInit \in BOOLEAN, ProveReplacesLog(t, logbookInit)
  PROVE  Typed' /\ Repairing'
<1> DEFINE a == [author |-> task[t].name, id |-> Account, has |-> {}]
<1>1. task[t].op = "Prove" /\ task[t].at = "log" /\ up /\ Running /\ TaskOK(task[t])
  BY TaskHas DEF ProveReplacesLog
<1>2. UNCHANGED <<mpc, disk, cfg, owner, store, refs, tried>>
  BY DEF ProveReplacesLog, restVars
<1>3. Repairing'
  BY <1>1, <1>2, ProvingIsTried
<1>4. CASE Errs(t) /\ UNCHANGED book
  BY <1>1, <1>2, <1>4, ErrsCounts, TaskEnds
<1>5. CASE /\ book' = IF logbookInit THEN Saved(a, "repo") ELSE [disk |-> a, inst |-> a, repo |-> book.repo, one |-> FALSE]
           /\ Goes(t, "config") /\ UNCHANGED fails
  <2>1. a \in Book
    BY <1>1 DEF Book, IDs, TaskOK
  <2> HIDE DEF a
  <2>2. book' \in Books /\ book'.disk \in Book /\ book'.inst \in Book /\ book'.repo \in Book /\ (book'.one => book'.repo = book'.inst)
    BY <1>1, <1>5, <2>1 DEF Saved, Books, Running, Typed
  <2>3. task'[t] = [task[t] EXCEPT !.at = "config"]
    BY <1>5, TaskGoes
  <2>6. task'[t] \in Task /\ task'[t].op = "Prove" /\ task'[t].at = "config" /\ task'[t].name = task[t].name
        /\ task'[t].cfg = task[t].cfg
    BY <1>1, <2>3 DEF Task, TaskOK
  <2>4. TaskOK(task'[t]) /\ Running'
    BY <1>1, <1>2, <2>2, <2>6 DEF TaskOK, Stages, Running
  <2>5. Typed'
    BY <1>1, <1>2, <1>5, <2>2, <2>4, TaskGoes, TaskMoves DEF Typed
  <2> QED BY <1>3, <2>5
<1> QED BY <1>4, <1>5 DEF ProveReplacesLog

\* A dataset is saved, under the name of the owner.
LEMMA SaveDatasetStep ==
  ASSUME Typed, Repairing, NEW d \in Datasets, SaveDataset(d)
  PROVE  Typed' /\ Repairing'
<1> DEFINE a == [book.repo EXCEPT !.has = @ \cup {d}]
<1>1. up /\ Running /\ disk # None
  BY UpHas DEF SaveDataset
<1>2. UNCHANGED <<mpc, fails, disk, cfg, owner, store, task>> /\ refs' = [refs EXCEPT ![d] = owner.name]
      /\ book' = Saved(a, "repo") /\ tried' = (IF Quiet THEN tried ELSE tried \cup {owner.name})
  BY DEF SaveDataset, migrateVars
<1>3. a \in Book /\ a.author = book.repo.author
  BY <1>1 DEF Running, Book
<1> HIDE DEF a
<1>4. /\ book' \in Books /\ book'.one = book.one /\ book'.disk = a /\ book'.repo = a
      /\ book'.inst = (IF book.one THEN a ELSE book.inst)
  BY <1>1, <1>2, <1>3 DEF Saved, Running, Books, Typed
<1>5. /\ refs' \in [Datasets -> Names \cup {None}] /\ refs'[d] = owner.name
      /\ \A e \in Datasets \ {d} : refs'[e] = refs[e]
  BY <1>1, <1>2 DEF Typed, Running, Owners
<1>6. Running' /\ (book'.one => book'.repo = book'.inst)
  BY <1>1, <1>2, <1>3, <1>4 DEF Running
<1>7. task' \in [Threads -> Task] /\ \A s \in Threads : TaskOK(task'[s])
  BY <1>2 DEF Typed
<1>8. Typed'
  BY <1>1, <1>2, <1>4, <1>5, <1>6, <1>7, TypedUp DEF Typed
<1>9. ASSUME NEW n \in Names, NEW b \in Names, NEW i \in IDs, tried' \subseteq {n}, Base(n, b, i) PROVE Base(n, b, i)'
  <2>1. UpSide(n, b, i) /\ DiskSide(n, b, i)
    BY <1>1, <1>9 DEF Base
  <2>2. Quiet \/ owner.name = n
    BY <1>2, <1>9
  <2>3. book.disk # None /\ book'.disk # None
    BY <1>1, <1>3, <1>4, IdentityAssumption DEF Running
  <2>4. book.repo = book.inst /\ book'.inst = a /\ (book.disk.author = n => book'.disk.author = n)
    BY <1>3, <1>4, <2>1 DEF UpSide, Typed
  <2>5. owner.name = n /\ Renamed(n) => Renamed(n)'
    BY <1>5, <2>4 DEF Renamed
  <2>6. \A e \in Datasets : refs'[e] \in {None, b, n}
    BY <1>5, <2>1 DEF DiskSide, UpSide
  <2>7. DiskSide(n, b, i)'
    <3>1. Whole' = Whole
      BY <1>2 DEF Whole
    <3>2. Whole /\ disk.name = n => owner.name = n /\ Renamed(n)
      BY <2>1 DEF UpSide
    <3> QED BY <1>2, <2>1, <2>5, <2>6, <3>1, <3>2 DEF DiskSide
  <2>8. UpSide(n, b, i)'
    <3>1. Whole' = Whole
      BY <1>2 DEF Whole
    <3>2. owner'.name = n => Renamed(n)'
      BY <1>2, <2>1, <2>5 DEF UpSide
    <3>3. book'.one /\ (book'.disk.author = n => book'.inst.author = n)
      BY <1>4, <2>1, <2>4 DEF UpSide
    <3> QED BY <1>2, <2>1, <3>1, <3>2, <3>3 DEF UpSide
  <2>9. ASSUME NEW s \in Threads, task'[s].op # "none" PROVE TaskSide(task[s], n, i)'
    <3>1. owner.name = n
      BY <1>2, <2>2, <2>9 DEF Quiet
    <3>2. Advance(n, i)
      BY <1>2, <1>5, <2>5, <3>1 DEF Advance
    <3> QED BY <1>2, <1>9, <2>9, <3>2, TaskStays DEF Base
  <2> QED BY <2>7, <2>8, <2>9 DEF Base
<1>10. tried \subseteq tried'
  BY <1>2
<1>11. Repairing'
  BY <1>9, <1>10, Repairs
<1> QED BY <1>8, <1>11

-----------------------------------------------------------------------------
\* The program starts: the records in memory are those on disk.
LEMMA ConstructStep ==
  ASSUME Typed, Repairing, ~up, Whole, Construct, mpc' = "ready", fails' = fails
  PROVE  Typed' /\ Repairing'
<1> DEFINE a == IF book.disk = None THEN [author |-> disk.name, id |-> disk.key, has |-> {}] ELSE book.disk
<1>1. /\ cfg' = disk /\ owner' = [name |-> disk.name, id |-> disk.id]
      /\ store' = [store EXCEPT !.keys = AddPrivKey(@, disk.id)]
      /\ book' = [disk |-> a, inst |-> a, repo |-> a, one |-> TRUE]
      /\ UNCHANGED <<disk, refs, task, tried>>
  BY DEF Construct
<1>2. disk \in Profile /\ disk.name \in Names /\ disk.id \in IDs /\ disk.key \in IDs
  BY DEF Typed, Whole, Profile, IDs
<1>3. a \in Book /\ (book.disk = None => a.author = disk.name) /\ (book.disk # None => a = book.disk)
  BY <1>2 DEF Typed, Book, Books
<1> HIDE DEF a
<1>4. /\ book' \in Books /\ book'.disk = a /\ book'.inst = a /\ book'.repo = a /\ book'.one
      /\ owner' \in Owners /\ owner'.name = disk.name /\ owner'.id = disk.id
  BY <1>1, <1>2, <1>3 DEF Books, Owners
<1>5. store' \in Stores
  BY <1>1, <1>2 DEF Stores, AddPrivKey, Typed
<1>6. up' /\ Running'
  BY <1>1, <1>2, <1>3, <1>4 DEF up, Running
<1>7. Quiet /\ Quiet'
  BY <1>1 DEF Typed, Quiet
<1>8. Typed'
  <2>1. task' \in [Threads -> Task] /\ \A t \in Threads : TaskOK(task'[t])
    BY <1>1 DEF Typed
  <2>2. disk' # None /\ disk' \in Profile \cup {Torn, None} /\ refs' \in [Datasets -> Names \cup {None}]
    BY <1>1, <1>2 DEF Typed, Whole
  <2> QED BY <1>4, <1>5, <1>6, <2>1, <2>2 DEF Typed
<1>9. ASSUME NEW n \in Names, NEW b \in Names, NEW i \in IDs, Base(n, b, i) PROVE Base(n, b, i)'
  <2>1. DiskSide(n, b, i)
    BY <1>9 DEF Base
  <2>2. disk.name = n => Renamed(n)'
    BY <1>1, <1>3, <1>4, <2>1 DEF DiskSide, Renamed, Fresh
  <2>3. DiskSide(n, b, i)'
    BY <1>1, <2>1, <2>2 DEF DiskSide
  <2>4. UpSide(n, b, i)'
    BY <1>1, <1>4, <2>1, <2>2 DEF UpSide, DiskSide
  <2> QED BY <1>7, <2>3, <2>4 DEF Base, Quiet
<1>10. Repairing'
  BY <1>1, <1>9, Repairs
<1> QED BY <1>8, <1>10

\* While the program does not run, or for steps of others, nothing changes.
LEMMA NothingMoves ==
  ASSUME Typed, Repairing, up' <=> up, fails' \in Nat, UNCHANGED <<disk, store, refs, book, task, tried>>,
         up => UNCHANGED <<cfg, owner>>, mpc' \notin {"down", "ready"} => Whole
  PROVE  Typed' /\ Repairing'
<1>1. Typed'
  <2>1. \A t \in Threads : TaskOK(task'[t])
    BY DEF Typed
  <2>2. up' => Running'
    BY DEF Typed, Running
  <2>3. ~up' => Quiet'
    BY DEF Typed, Quiet
  <2>4. disk' = None => Fresh' /\ tried' = {}
    BY DEF Typed, Fresh
  <2>5. mpc' \notin {"down", "ready"} => Whole'
    BY DEF Whole
  <2> QED BY <2>1, <2>2, <2>3, <2>4, <2>5 DEF Typed
<1>2. ASSUME NEW n \in Names, NEW b \in Names, NEW i \in IDs, Base(n, b, i) PROVE Base(n, b, i)'
  <2>1. DiskSide(n, b, i)'
    BY <1>2 DEF Base, DiskSide, Whole, Renamed, Fresh
  <2>2. up' => UpSide(n, b, i)'
    BY <1>2 DEF Base, UpSide, Whole, Renamed
  <2>3. ASSUME NEW s \in Threads, task'[s].op # "none" PROVE TaskSide(task[s], n, i)'
    <3>1. up
      BY <2>3 DEF Typed, Quiet
    <3> QED BY <1>2, <2>3, <3>1 DEF Base, TaskSide, Renamed
  <2> QED BY <2>1, <2>2, <2>3 DEF Base
<1>3. Repairing'
  BY <1>2, Repairs
<1> QED BY <1>1, <1>3

\* A migration touches no record of the identity.
LEMMA MigratesStep ==
  ASSUME Typed, Repairing, Migrates
  PROVE  Typed' /\ Repairing'
<1>1. UNCHANGED <<disk, cfg, owner, store, refs, book, task, tried>>
  BY DEF Migrates, idVars
<1>2. ~up /\ ~up' /\ fails' \in Nat
  BY DEF Migrates, Typed, up, ZeroToOne, OneToTwo, TwoToThree, WriteUpdated, RenameUpdated, AfterWrite,
         maybeRemoveIPFSRepo, DeclineMigration, MigrationFails, rollbackConfigWrite, MigrationDies
<1>3. Whole
  BY DEF Migrates, Typed, ZeroToOne, OneToTwo, TwoToThree, WriteUpdated, RenameUpdated,
         maybeRemoveIPFSRepo, DeclineMigration, MigrationFails, rollbackConfigWrite, MigrationDies
<1> QED BY <1>1, <1>2, <1>3, NothingMoves

\* The program starts: it reads all records back, and makes a logbook if there is none.
LEMMA StartStep ==
  ASSUME Typed, Repairing, NewInstance \/ Migrated
  PROVE  Typed' /\ Repairing'
<1>1. CASE NewInstance
  <2>1. ~up /\ fails' = fails /\ Whole
    BY <1>1 DEF NewInstance, LoadConfig, up, Whole
  <2>2. CASE file.rev = CurrentConfigRevision
    BY <1>1, <2>1, <2>2, ConstructStep DEF NewInstance, LoadConfig
  <2>3. CASE file.rev # CurrentConfigRevision
    <3>1. ~up' /\ UNCHANGED <<disk, cfg, owner, store, refs, book, task, tried>>
      BY <1>1, <2>3 DEF NewInstance, LoadConfig, up, idVars
    <3> QED BY <2>1, <3>1, NothingMoves DEF Typed
  <2> QED BY <2>2, <2>3
<1>2. CASE Migrated
  <2>1. PICK errorOnSuccess \in BOOLEAN : /\ RunMigrationsReturns(errorOnSuccess)
                                          /\ IF errorOnSuccess THEN UNCHANGED idVars ELSE Construct
    BY <1>2 DEF Migrated
  <2>2. ~up /\ fails' = fails /\ Whole
    BY <2>1 DEF RunMigrationsReturns, up, Typed
  <2>3. CASE errorOnSuccess
    <3>1. ~up' /\ UNCHANGED <<disk, cfg, owner, store, refs, book, task, tried>>
      BY <2>1, <2>3 DEF RunMigrationsReturns, up, idVars
    <3> QED BY <2>2, <3>1, NothingMoves DEF Typed
  <2>4. CASE ~errorOnSuccess
    BY <2>1, <2>2, <2>4, ConstructStep DEF RunMigrationsReturns
  <2> QED BY <2>3, <2>4
<1> QED BY <1>1, <1>2

\* The program stops, in the middle of its requests.
LEMMA StopsStep ==
  ASSUME Typed, Repairing, Stops
  PROVE  Typed' /\ Repairing'
<1>1. up /\ disk # None /\ disk \in Profile \cup {Torn} /\ mpc' = "down" /\ ~up' /\ fails' \in Nat
  BY UpHas DEF Stops, up, Typed
<1>2. /\ task' = [t \in Threads |-> NoTask] /\ disk' \in {disk, Torn}
      /\ UNCHANGED <<store, refs, book, tried>>
  BY DEF Stops, WriteToFileFails
<1>3. NoTask.op = "none" /\ NoTask \in Task
  BY NoTaskOK DEF NoTask, TaskOK
<1>4. task' \in [Threads -> Task] /\ \A t \in Threads : TaskOK(task'[t])
  BY <1>2, <1>3, NoTaskOK
<1>5. \A t \in Threads : task'[t].op = "none"
  BY <1>2, <1>3
<1>6. disk' # None /\ disk' \in Profile \cup {Torn, None}
  BY <1>1, <1>2, IdentityAssumption
<1>7. Typed'
  BY <1>1, <1>2, <1>4, <1>5, <1>6 DEF Typed, Quiet
<1>8. ASSUME NEW n \in Names, NEW b \in Names, NEW i \in IDs, Base(n, b, i) PROVE Base(n, b, i)'
  <2>1. Whole' => disk' = disk /\ Whole
    BY <1>2 DEF Whole
  <2>2. DiskSide(n, b, i)'
    BY <1>2, <1>8, <2>1 DEF Base, DiskSide, Renamed, Fresh
  <2> QED BY <1>1, <1>5, <2>2 DEF Base
<1>9. Repairing'
  BY <1>2, <1>8, Repairs
<1> QED BY <1>7, <1>9

\* Teardown leaves a repo no program has been started on.
LEMMA TeardownStep ==
  ASSUME Typed, Repairing, Teardown
  PROVE  Typed' /\ Repairing'
<1>1. /\ mpc' = "down" /\ ~up' /\ disk' = None /\ tried' = {} /\ UNCHANGED <<fails, task>> /\ Quiet
      /\ store' = [peers |-> [i \in IDs |-> None], keys |-> {}] /\ refs' = [d \in Datasets |-> None]
      /\ book' = [disk |-> None, inst |-> None, repo |-> None, one |-> TRUE]
  BY DEF Teardown, up
<1>2. Fresh' /\ Quiet' /\ book' \in Books /\ (book'.one => book'.repo = book'.inst) /\ store' \in Stores
  BY <1>1 DEF Fresh, Quiet, Books, Stores
<1>3. Typed'
  <2>1. task' \in [Threads -> Task] /\ \A t \in Threads : TaskOK(task'[t])
    BY <1>1 DEF Typed
  <2> QED BY <1>1, <1>2, <2>1 DEF Typed
<1>4. ASSUME NEW n \in Names PROVE \E b \in Names, i \in IDs : Base(n, b, i)'
  <2>1. Account \in IDs
    BY DEF IDs
  <2>2. DiskSide(n, n, Account)'
    BY <1>1, <1>2 DEF DiskSide, Fresh, Whole
  <2>3. Base(n, n, Account)'
    BY <1>1, <1>2, <2>2 DEF Base, Quiet
  <2> QED BY <2>1, <2>3
<1> QED BY <1>3, <1>4 DEF Repairing

\* Setup writes a new configuration.
LEMMA SetupStep ==
  ASSUME Typed, Repairing, NEW key \in Keys, NEW name \in Names, Setup(key, name)
  PROVE  Typed' /\ Repairing'
<1>1. /\ mpc = "down" /\ mpc' = mpc /\ ~up /\ ~up' /\ disk = None /\ UNCHANGED <<fails, store, refs, book, task, tried>>
      /\ disk' = [name |-> name, id |-> key, key |-> key]
  BY DEF Setup, up, migrateVars
<1>2. Fresh /\ Fresh' /\ Quiet /\ Quiet'
  BY <1>1 DEF Typed, Fresh, Quiet
<1>3. disk' \in Profile /\ disk'.name = name /\ disk'.id = key /\ disk' # None /\ key \in IDs
  BY <1>1, IdentityAssumption DEF Profile, IDs
<1>4. Typed'
  <2>1. task' \in [Threads -> Task] /\ \A t \in Threads : TaskOK(task'[t])
    BY <1>1 DEF Typed
  <2> QED BY <1>1, <1>2, <1>3, <2>1 DEF Typed
<1>5. ASSUME NEW n \in Names PROVE \E b \in Names, i \in IDs : Base(n, b, i)'
  <2>1. DiskSide(n, name, key)'
    BY <1>2, <1>3 DEF DiskSide, Fresh
  <2>2. Base(n, name, key)'
    BY <1>1, <1>2, <2>1 DEF Base, Quiet
  <2> QED BY <1>3, <2>2
<1> QED BY <1>4, <1>5 DEF Repairing

\* The registry's handlers, and stuttering, leave the node alone.
LEMMA OthersStep ==
  ASSUME Typed, Repairing,
         (\E c \in Callers : RegistryStep(c)) \/ (\E c \in Others, name \in Names : OtherRegisters(c, name))
           \/ UNCHANGED identityVars
  PROVE  Typed' /\ Repairing'
<1>1. UNCHANGED <<mpc, fails, disk, cfg, owner, store, refs, book, task, tried>>
  BY DEF RegistryStep, OtherRegisters, migrateVars, identityVars, idVars
<1>2. (up' <=> up) /\ fails' \in Nat /\ (mpc' \notin {"down", "ready"} => Whole)
  BY <1>1 DEF up, Typed
<1> QED BY <1>1, <1>2, NothingMoves

\* The invariant is inductive: what a failed signup has done is what the next one
\* need not do, and what it has not done the next one finds.
LEMMA RepairingStep ==
  ASSUME Typed, Repairing, [IdentityNext]_identityVars
  PROVE  Typed' /\ Repairing'
<1>1. ASSUME NEW t \in Threads, Steps(t) PROVE Typed' /\ Repairing'
  BY <1>1, PostFailsStep, UpdateConfigStep, ModifyRefStep, PutModifiedStep, WriteAuthorRenameStep, SetsOwnerStep,
     ChangeConfigStep, SaveAsksStep, SaveSetsStep, ProvedStep, ProveReplacesLogStep DEF Steps
<1> QED BY <1>1, CallsStep, SaveDatasetStep, StartStep, MigratesStep, StopsStep, TeardownStep, SetupStep, OthersStep
        DEF IdentityNext

\* A repo whose program is to be started has one name.
LEMMA RepairingInit ==
  ASSUME NEW rev, NEW addrs, NEW failed \in Nat, NEW key \in Keys, NEW name \in Names, NEW made,
         IdentityInit(rev, addrs, failed, key, name, made)
  PROVE  Typed /\ Repairing
<1>1. /\ mpc = "down" /\ ~up /\ fails = failed /\ tried = {} /\ refs = [d \in Datasets |-> None]
      /\ disk = [name |-> name, id |-> key, key |-> key] /\ task = [t \in Threads |-> NoTask]
      /\ book = [disk |-> None, inst |-> None, repo |-> None, one |-> TRUE]
      /\ store = [peers |-> [i \in IDs |-> None], keys |-> {}]
  BY DEF IdentityInit, MigrateInit, InitAt, up
<1>2. disk \in Profile /\ disk.name = name /\ disk.id = key /\ key \in IDs
  BY <1>1 DEF Profile, IDs
<1>3. NoTask.op = "none" /\ NoTask \in Task
  BY NoTaskOK DEF NoTask, TaskOK
<1>4. task \in [Threads -> Task] /\ (\A t \in Threads : TaskOK(task[t])) /\ \A t \in Threads : task[t].op = "none"
  BY <1>1, <1>3, NoTaskOK
<1>5. Fresh /\ book \in Books /\ (book.one => book.repo = book.inst) /\ store \in Stores
  BY <1>1 DEF Fresh, Books, Stores
<1>6. Typed
  BY <1>1, <1>2, <1>4, <1>5 DEF Typed, Quiet
<1>7. ASSUME NEW n \in Names PROVE \E b \in Names, i \in IDs : Base(n, b, i)
  <2>1. Base(n, name, key)
    BY <1>1, <1>2, <1>4, <1>5 DEF Base, DiskSide, Fresh
  <2> QED BY <1>2, <2>1
<1> QED BY <1>6, <1>7 DEF Repairing

\* Of the steps that end a signup about to change the configuration, and do not count
\* as a failure, there is one: that it is changed.
LEMMA SignupEnds ==
  ASSUME Typed, [IdentityNext]_identityVars, NEW t \in Threads, task[t].op = "CreateProfile", task[t].at = "config",
         task'[t].op = "none", fails' = fails
  PROVE  /\ disk' = WithPrivateValues(Held(t)) /\ cfg' = WithPrivateValues(Held(t))
         /\ UNCHANGED <<owner, store, refs, book>>
<1>1. fails' # fails + 1
  BY DEF Typed
<1>2. ASSUME NEW s \in Threads, ChangeConfig(s) PROVE s = t /\ ~Errs(s)
  <2>1. ~Errs(s)
    BY <1>1 DEF Errs
  <2>2. task'[t].op = task[t].op \/ s = t
    <3>1. /\ task[t] \in Task
          /\ task' = [u \in Threads |->
                       IF u = s THEN IF AfterConfig(s) = "none" THEN NoTask ELSE [task[s] EXCEPT !.at = AfterConfig(s)]
                       ELSE IF task[u].op = "SaveProfile" /\ task[u].live THEN [task[u] EXCEPT !.live = FALSE, !.cfg = cfg]
                       ELSE task[u]]
      BY <1>2, <2>1 DEF ChangeConfig, Typed
    <3> QED BY <3>1
  <2> QED BY <2>1, <2>2
<1>3. ASSUME NEW s \in Threads, Calls(s) PROVE FALSE
  <2>1. ASSUME NEW op, NEW at, NEW name, NEW names, Begin(s, op, at, name, names), op # "none" PROVE FALSE
    <3>1. task[s].op = "none" /\ task' = [task EXCEPT ![s] = [op |-> op, at |-> at, name |-> name, cfg |-> cfg,
                                                             todo |-> {}, live |-> TRUE]]
      BY <2>1 DEF Begin
    <3> QED BY <2>1, <3>1 DEF Typed
  <2> QED BY <1>3, <2>1 DEF Calls, CreateProfile, SaveProfile, ConfigSet, ProveProfileKey, SetProfilePhoto, SetPosterPhoto
<1>4. ASSUME NEW s \in Threads, Steps(s), ~ChangeConfig(s) PROVE FALSE
  <2>1. \A u \in Threads \ {s} : task'[u].op = task[u].op
    <3>1. CASE \E at : Goes(s, at)
      BY <3>1, TaskGoes
    <3>2. CASE Returns(s)
      BY <3>2, TaskReturns
    <3>3. CASE SetsOwner(s)
      BY <3>3 DEF SetsOwner, Typed, Task
    <3>4. CASE updateConfig(s) \/ SaveAsks(s)
      BY <3>4 DEF updateConfig, SaveAsks, Typed
    <3>5. CASE \E d \in Datasets : ModifyRef(s, d) \/ PutModified(s, d)
      BY <3>2, <3>5 DEF ModifyRef, PutModified, Errs, Typed
    <3>6. CASE SaveSets(s) \/ Proved(s)
      BY <3>1, <3>2, <3>6 DEF SaveSets, Proved, Errs, Typed
    <3> QED BY <1>4, <3>1, <3>2, <3>3, <3>4, <3>5, <3>6 DEF Steps, PostFails, WriteAuthorRename, ProveReplacesLog, Errs
  <2>2. s # t
    BY <1>4 DEF Steps, PostFails, updateConfig, ModifyRef, PutModified, WriteAuthorRename, SetsOwner, SaveAsks,
                SaveSets, Proved, ProveReplacesLog
  <2> QED BY <2>1, <2>2
<1>5. ASSUME task' = task PROVE FALSE
  BY <1>5
<1>6. ASSUME Stops \/ Teardown PROVE FALSE
  BY <1>1, <1>6 DEF Stops, Teardown, Quiet
<1>7. ASSUME (\E d \in Datasets : SaveDataset(d)) \/ NewInstance \/ Migrated \/ Migrates
             \/ (\E key \in Keys, name \in Names : Setup(key, name))
             \/ (\E c \in Callers : RegistryStep(c)) \/ (\E c \in Others, name \in Names : OtherRegisters(c, name))
             \/ UNCHANGED identityVars
      PROVE  FALSE
  BY <1>5, <1>7 DEF SaveDataset, NewInstance, Migrated, Migrates, Setup, RegistryStep, OtherRegisters, Construct,
                    idVars, identityVars
<1>8. ChangeConfig(t) /\ ~Errs(t)
  BY <1>2, <1>3, <1>4, <1>6, <1>7 DEF IdentityNext
<1> QED BY <1>8 DEF ChangeConfig

\* Whatever signups at one name failed, or died, before: one that returns without an
\* error leaves configuration, owner, profile store, logbook and references with the
\* name (SignupRepairs), for any requests at once, datasets, names and failures.
THEOREM SignupDoesRepair ==
  ASSUME NEW rev, NEW addrs, NEW failed \in Nat, NEW key \in Keys, NEW name \in Names, NEW made
  PROVE  IdentityInit(rev, addrs, failed, key, name, made) /\ [][IdentityNext]_identityVars => SignupRepairs
<1> DEFINE Repaired ==
      \A t \in Threads :
          LET n == task[t].name IN
          (task[t].op = "CreateProfile" /\ task[t].at = "config" /\ tried \subseteq {n}
             /\ task'[t].op = "none" /\ fails' = fails)
          => /\ cfg'.name = n /\ disk'.name = n /\ owner'.name = n
             /\ store'.peers[owner'.id] = n /\ owner'.id \in store'.keys
             /\ book'.disk.author = n
             /\ \A d \in Datasets : refs'[d] \in {None, n}
<1>1. IdentityInit(rev, addrs, failed, key, name, made) => Typed /\ Repairing
  BY RepairingInit
<1>2. (Typed /\ Repairing) /\ [IdentityNext]_identityVars => (Typed /\ Repairing)'
  BY RepairingStep
<1>3. (Typed /\ Repairing) /\ [IdentityNext]_identityVars => [Repaired]_identityVars
  <2> SUFFICES ASSUME Typed, Repairing, [IdentityNext]_identityVars, NEW t \in Threads, task[t].op = "CreateProfile",
                      task[t].at = "config", tried \subseteq {task[t].name}, task'[t].op = "none", fails' = fails
               PROVE  /\ cfg'.name = task[t].name /\ disk'.name = task[t].name /\ owner'.name = task[t].name
                      /\ store'.peers[owner'.id] = task[t].name /\ owner'.id \in store'.keys
                      /\ book'.disk.author = task[t].name
                      /\ \A d \in Datasets : refs'[d] \in {None, task[t].name}
    OBVIOUS
  <2>1. task[t].name \in Names /\ up
    BY TaskHas DEF TaskOK
  <2>2. PICK b \in Names, i \in IDs : Base(task[t].name, b, i)
    BY <2>1 DEF Repairing
  <2>3. TaskSide(task[t], task[t].name, i) /\ UpSide(task[t].name, b, i)
    BY <2>1, <2>2 DEF Base
  <2>4. disk'.name = Held(t).name /\ cfg'.name = Held(t).name /\ UNCHANGED <<owner, store, refs, book>>
    BY SignupEnds, HeldIs
  <2>5. Held(t).name = task[t].name
    BY <2>3 DEF Held, TaskSide
  <2> QED BY <2>3, <2>4, <2>5 DEF TaskSide, UpSide, Renamed
<1> QED BY <1>1, <1>2, <1>3, PTL DEF SignupRepairs

-----------------------------------------------------------------------------
(* Migrate: the store is where the configuration says. *)

\* A configuration, which a torn file is not.
Config(c) == c = [rev |-> c.rev, addrs |-> c.addrs] /\ c.rev \in 0 .. 3
TornIsNone == \A r, a : Torn # [rev |-> r, addrs |-> a]

\* How far a migration has come: what it is to write is one revision ahead of the file,
\* and from revision 2 on the copy is there.
Migrating ==
  /\ Config(file) /\ Config(mem) /\ ipfs \in [old : BOOLEAN, new : BOOLEAN] /\ foreign \in BOOLEAN
  /\ mpc \in {"migrating", "removing"} => mem.rev = file.rev
  /\ mpc = "removing" => file.rev = 2
  /\ mpc \in {"writing", "renaming"} => mem.rev = file.rev + 1 /\ (mem.rev >= 2 => ipfs.new)
  /\ mpc = "renaming" => tmp = mem
  /\ (file.rev < 2 => ipfs.old) /\ (file.rev >= 2 => ipfs.new) /\ (foreign => ipfs.old)

\* An earlier release has left the data where its configuration says.
LEMMA MigratingInit ==
  ASSUME NEW rev \in 0 .. CurrentConfigRevision, NEW addrs, NEW failed, MigrateInit(rev, addrs, failed)
  PROVE  Migrating
<1>1. file = [rev |-> rev, addrs |-> addrs] /\ mem = file /\ mpc = "down" /\ foreign \in BOOLEAN
  BY DEF MigrateInit
<1>2. rev \in 0 .. 3 /\ Config(file) /\ Config(mem) /\ file.rev = rev
  BY <1>1 DEF Config, CurrentConfigRevision
<1>3. CASE rev < 2
  <2>1. ipfs = [old |-> TRUE, new |-> FALSE]
    BY <1>3 DEF MigrateInit
  <2> QED BY <1>1, <1>2, <1>3, <2>1 DEF Migrating
<1>4. CASE ~(rev < 2)
  <2>1. ipfs \in {[old |-> o, new |-> TRUE] : o \in {foreign, TRUE}}
    BY <1>4 DEF MigrateInit
  <2>2. PICK o \in {foreign, TRUE} : ipfs = [old |-> o, new |-> TRUE]
    BY <2>1
  <2>3. o \in BOOLEAN /\ (foreign => o)
    <3>1. CASE o = foreign
      BY <1>1, <3>1
    <3>2. CASE o = TRUE
      BY <3>2
    <3> QED BY <2>2, <3>1, <3>2
  <2>4. ipfs \in [old : BOOLEAN, new : BOOLEAN]
    BY <2>2, <2>3
  <2>5. ipfs.new /\ (foreign => ipfs.old)
    BY <2>2, <2>3
  <2> QED BY <1>1, <1>2, <1>4, <2>4, <2>5 DEF Migrating
<1> QED BY <1>3, <1>4

\* The steps of a migration.
LEMMA MigratingMoves ==
  ASSUME Migrating, Migrates \/ LoadConfig \/ \E errorOnSuccess \in BOOLEAN : RunMigrationsReturns(errorOnSuccess)
  PROVE  Migrating'
<1>1. CASE LoadConfig
  BY <1>1 DEF LoadConfig, Migrating, Config, CurrentConfigRevision
<1>2. CASE DeclineMigration \/ MigrationFails \/ rollbackConfigWrite \/ MigrationDies
  BY <1>2 DEF DeclineMigration, MigrationFails, rollbackConfigWrite, MigrationDies, Migrating, Config
<1>3. CASE ZeroToOne
  BY <1>3 DEF ZeroToOne, Migrating, Config
<1>4. CASE OneToTwo
  <2>1. /\ mpc = "migrating" /\ mem.rev = 1 /\ file.rev = 1 /\ Config(file) /\ Config(mem) /\ mpc' = "writing"
        /\ ipfs' = [ipfs EXCEPT !.new = TRUE] /\ mem' = [mem EXCEPT !.rev = 2] /\ UNCHANGED <<file, tmp, foreign>>
        /\ ipfs \in [old : BOOLEAN, new : BOOLEAN]
    BY <1>4 DEF OneToTwo, Migrating
  <2>2. mem'.rev = 2 /\ Config(mem)'
    BY <2>1 DEF Config
  <2>3. ipfs' \in [old : BOOLEAN, new : BOOLEAN] /\ ipfs'.new /\ ipfs'.old = ipfs.old
    BY <2>1
  <2>4. Config(file)'
    BY <2>1
  <2> QED BY <2>1, <2>2, <2>3, <2>4 DEF Migrating
<1>5. CASE TwoToThree
  BY <1>5 DEF TwoToThree, Migrating, Config
<1>6. CASE WriteUpdated
  BY <1>6 DEF WriteUpdated, Migrating, Config
<1>7. CASE RenameUpdated
  BY <1>7 DEF RenameUpdated, AfterWrite, CurrentConfigRevision, Migrating, Config
<1>8. CASE maybeRemoveIPFSRepo
  <2>1. /\ mpc' = "migrating" /\ file.rev = 2 /\ mem.rev = 2 /\ UNCHANGED <<file, tmp, mem, foreign>>
        /\ (ipfs' = ipfs \/ (~foreign /\ ipfs' = [ipfs EXCEPT !.old = FALSE]))
        /\ ipfs \in [old : BOOLEAN, new : BOOLEAN]
    BY <1>8 DEF maybeRemoveIPFSRepo, Migrating
  <2>2. ipfs' \in [old : BOOLEAN, new : BOOLEAN] /\ ipfs'.new = ipfs.new /\ (foreign => ipfs'.old = ipfs.old)
    BY <2>1
  <2>3. Config(file)' /\ Config(mem)' /\ foreign \in BOOLEAN
    BY <2>1 DEF Migrating
  <2> QED BY <2>1, <2>2, <2>3 DEF Migrating
<1>9. CASE \E errorOnSuccess \in BOOLEAN : RunMigrationsReturns(errorOnSuccess)
  BY <1>9 DEF RunMigrationsReturns, Migrating, Config
<1> QED BY <1>1, <1>2, <1>3, <1>4, <1>5, <1>6, <1>7, <1>8, <1>9 DEF Migrates

\* Every step of the program.
LEMMA MigratingStep ==
  ASSUME Migrating, [IdentityNext]_identityVars
  PROVE  Migrating'
<1>1. ASSUME UNCHANGED restVars PROVE Migrating'
  BY <1>1 DEF restVars, Migrating, Config
<1>2. ASSUME UNCHANGED migrateVars PROVE Migrating'
  BY <1>1, <1>2 DEF restVars, migrateVars
<1>3. ASSUME UNCHANGED <<file, tmp, mem, ipfs, foreign>>, mpc' = "down" PROVE Migrating'
  BY <1>3 DEF Migrating, Config
<1>4. ASSUME NEW t \in Threads, Calls(t) PROVE Migrating'
  BY <1>2, <1>4 DEF Calls, CreateProfile, SaveProfile, ConfigSet, ProveProfileKey, SetProfilePhoto, SetPosterPhoto
<1>5. ASSUME NEW t \in Threads, Steps(t) PROVE Migrating'
  BY <1>1, <1>2, <1>5 DEF Steps, PostFails, updateConfig, ModifyRef, PutModified, WriteAuthorRename, SetsOwner,
                          ChangeConfig, SaveAsks, SaveSets, Proved, ProveReplacesLog
<1>6. ASSUME (\E c \in Callers : RegistryStep(c)) \/ (\E c \in Others, name \in Names : OtherRegisters(c, name))
             \/ (\E d \in Datasets : SaveDataset(d)) \/ (\E key \in Keys, name \in Names : Setup(key, name))
             \/ UNCHANGED identityVars
      PROVE  Migrating'
  BY <1>2, <1>6 DEF RegistryStep, OtherRegisters, SaveDataset, Setup, identityVars
<1>7. ASSUME NewInstance \/ Migrated \/ Migrates PROVE Migrating'
  BY <1>7, MigratingMoves DEF NewInstance, Migrated
<1>8. ASSUME Stops \/ Teardown PROVE Migrating'
  BY <1>3, <1>8 DEF Stops, Teardown
<1> QED BY <1>4, <1>5, <1>6, <1>7, <1>8 DEF IdentityNext

\* Whatever step of a migration fails or is the program's last: config.yaml is whole and
\* names an IPFS repository that holds the data, and one that pins what is not qri's
\* stays (StoreReachable), for any list of addresses and any number of failures. That a
\* torn file is no configuration is a hypothesis about the constant that stands for it.
THEOREM StoreStaysReachable ==
  ASSUME TornIsNone, NEW rev \in 0 .. CurrentConfigRevision, NEW addrs, NEW failed, NEW key, NEW name, NEW made
  PROVE  IdentityInit(rev, addrs, failed, key, name, made) /\ [][IdentityNext]_identityVars => []StoreReachable
<1>1. IdentityInit(rev, addrs, failed, key, name, made) => Migrating
  BY MigratingInit DEF IdentityInit
<1>2. Migrating /\ [IdentityNext]_identityVars => Migrating'
  BY MigratingStep
<1>3. Migrating => StoreReachable
  BY TornIsNone DEF TornIsNone, Migrating, Config, StoreReachable
<1> QED BY <1>1, <1>2, <1>3, PTL

=============================================================================
