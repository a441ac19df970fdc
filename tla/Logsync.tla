------------------------------ MODULE Logsync ------------------------------
(***************************************************************************)
(* Syncing the branch log of one dataset between three books: its author's *)
(* a remote's, and that of a reader who pulls from the remote.             *)
(*                                                                         *)
(* A push is recorded in the author's log before it is sent, and the       *)
(* record taken off again when the call fails (Push.Do).  The call fails   *)
(* when the remote refuses, and also when the request or the answer is     *)
(* lost or late: the remote may then have merged the log all the same, or  *)
(* may merge it later.  Merging keeps the longer of two logs (Log.Merge).  *)
(*                                                                         *)
(* The author's name goes with the log.  It is the number of operations in *)
(* the author's user log: a rename appends one.                            *)
(***************************************************************************)
EXTENDS BranchHistory

CONSTANTS Clients,      \* the author's requests that may be under way together
          MaxVersions,  \* BOUND: versions saved in a behaviour
          MaxOps,       \* BOUND: operations in the author's log
          MaxNames,     \* BOUND: names the author has had
          MaxLate       \* BOUND: requests still to arrive after a call failed

ASSUME SyncBounds == /\ MaxVersions \in Nat
                     /\ MaxOps \in Nat
                     /\ MaxNames \in Nat \ {0}
                     /\ MaxLate \in Nat

VARIABLES mine,    \* the branch log in the author's book
          theirs,  \* the branch log in the remote's book, <<>> for none
          copy,    \* the branch log in the reader's book, <<>> for none
          pulled,  \* what the reader was sent last and has not merged
          user,    \* operations in the author's user log
          parent,  \* ... in the one the dataset log points to: 0 for "the same"
          known,   \* ... in the one the remote holds
          paths,   \* versions saved so far
          call,    \* each client's call of the remote
          late     \* requests whose call has failed and which may yet arrive

far  == <<theirs, known>>
vars == <<mine, theirs, copy, pulled, user, parent, known, paths, call, late>>

\* A request: the log sent with a put and the name in it, and the name in the
\* reference it is about.
Request == [kind : {"put", "get", "del"}, log : Seq(Op), as : Nat, ref : Nat]
Nothing == [kind |-> "get", log |-> <<>>, as |-> 0, ref |-> 0]

\* "sent" until the remote has handled the request, "ok" and "failed" until
\* the client has acted on the outcome.
Call == [pc : {"idle", "sent", "ok", "failed"}, req : Request, data : Seq(Op)]
Idle == [pc |-> "idle", req |-> Nothing, data |-> <<>>]

At(c, pc) == call[c].pc = pc

Init == /\ mine = <<BranchInit>>
        /\ theirs = <<>>
        /\ copy = <<>>
        /\ pulled = <<>>
        /\ user = 1
        /\ parent = 0
        /\ known = 0
        /\ paths = 0
        /\ call = [c \in Clients |-> Idle]
        /\ late = {}

-----------------------------------------------------------------------------
(* The author's own operations. *)

Room == Len(mine) < MaxOps

WriteVersionSave(c) ==
  /\ At(c, "idle")
  /\ Room
  /\ paths < MaxVersions
  /\ paths' = paths + 1
  /\ mine' = Append(mine, Commit(paths + 1, 0))
  /\ UNCHANGED <<theirs, copy, pulled, user, parent, known, call, late>>

WriteVersionDelete(c) ==
  /\ At(c, "idle")
  /\ Room
  /\ ItemsDefined(mine)
  /\ \E k \in 1 .. MaxOps : /\ k < Len(Items(mine))
                            /\ mine' = Append(mine, Delete(k))
  /\ UNCHANGED <<theirs, copy, pulled, user, parent, known, paths, call, late>>

\* The rename is an operation of the user log in the journal.
WriteAuthorRename(c) ==
  /\ At(c, "idle")
  /\ user < MaxNames
  /\ user' = user + 1
  /\ UNCHANGED <<mine, theirs, copy, pulled, parent, known, paths, call, late>>

\* The author's process ends, and loads the journal afresh: every log points
\* to its parent in it.  Requests that were sent may still arrive.
Restart ==
  /\ parent' = 0
  /\ call' = [c \in Clients |-> Idle]
  /\ \E sent \in SUBSET {call[c].req : c \in {x \in Clients : At(x, "sent")}} :
        /\ Cardinality(late \union sent) <= MaxLate
        /\ late' = late \union sent
  /\ UNCHANGED <<mine, theirs, copy, pulled, user, known, paths>>

-----------------------------------------------------------------------------
(* Calls of the remote. *)

Send(c, kind, log, as) ==
  call' = [call EXCEPT ![c] = [pc |-> "sent", data |-> <<>>,
             req |-> [kind |-> kind, log |-> log, as |-> as, ref |-> user]]]

\* GetWithSparseAncestorsAllDescendants: the user log a dataset log is sent
\* with.  The first time it is a copy of the one in the journal, which the
\* dataset log points to from then on.
SparseParent == IF parent = 0 THEN user ELSE parent

\* Push.Do, up to the call.
Push_Do(c) ==
  /\ At(c, "idle")
  /\ Room
  /\ mine' = Append(mine, Push(1))
  /\ parent' = SparseParent
  /\ Send(c, "put", mine', SparseParent)
  /\ UNCHANGED <<theirs, copy, pulled, user, known, paths, late>>

\* Pull.Do by the author, for a dataset of his own, up to the call.
Pull_Do(c) ==
  /\ At(c, "idle")
  /\ Send(c, "get", <<>>, 0)
  /\ UNCHANGED <<mine, theirs, copy, pulled, user, parent, known, paths, late>>

\* DoRemove, up to the call.
DoRemove(c) ==
  /\ At(c, "idle")
  /\ Send(c, "del", <<>>, 0)
  /\ UNCHANGED <<mine, theirs, copy, pulled, user, parent, known, paths, late>>

(***************************************************************************)
(* The remote.                                                             *)
(***************************************************************************)
\* Slips to compare with: the incoming log always wins, or has to be longer
\* by more than one operation.
MergeAlways(here, incoming) == incoming
MergeMuchLonger(here, incoming) ==
  IF Len(incoming) > Len(here) + 1 THEN incoming ELSE here

\* Log.Merge: the longer log stays, the present one if they are equally long.
Merge(here, incoming) == IF Len(incoming) > Len(here) THEN incoming ELSE here

\* Whether the remote finds the dataset under the name in the reference.
Found(r) == theirs # <<>> /\ known = r.ref

\* put, where the name in the log is the one in the reference, and the hooks
\* and the signature check let it through.
put(r) == /\ r.kind = "put"
          /\ r.as = r.ref
          /\ theirs' = Merge(theirs, r.log)
          /\ known' = IF r.as > known THEN r.as ELSE known

get(r) == r.kind = "get" /\ Found(r) /\ UNCHANGED far

del(r) == r.kind = "del" /\ Found(r) /\ theirs' = <<>> /\ UNCHANGED known

Handle(r) == put(r) \/ get(r) \/ del(r)

Answer(c) ==
  /\ At(c, "sent")
  /\ Handle(call[c].req)
  /\ call' = [call EXCEPT ![c].pc = "ok",
                          ![c].data = IF call[c].req.kind = "get" THEN theirs ELSE @]
  /\ UNCHANGED <<mine, copy, pulled, user, parent, paths, late>>

\* The remote returns an error: the names differ, it does not find the
\* dataset, a hook or the access policy says no.
Refuse(c) ==
  /\ At(c, "sent")
  /\ call' = [call EXCEPT ![c].pc = "failed"]
  /\ UNCHANGED <<mine, theirs, copy, pulled, user, parent, known, paths, late>>

\* The client sees an error although its request is still on the way ...
GiveUp(c) ==
  /\ At(c, "sent")
  /\ Cardinality(late) < MaxLate
  /\ late' = late \union {call[c].req}
  /\ call' = [call EXCEPT ![c].pc = "failed"]
  /\ UNCHANGED <<mine, theirs, copy, pulled, user, parent, known, paths>>

\* ... or although the remote has done what it asked for.
LoseAnswer(c) ==
  /\ At(c, "ok")
  /\ call' = [call EXCEPT ![c].pc = "failed"]
  /\ UNCHANGED <<mine, theirs, copy, pulled, user, parent, known, paths, late>>

\* A request whose call has failed arrives after all.
Arrive(r) ==
  /\ Handle(r)
  /\ late' = late \ {r}
  /\ UNCHANGED <<mine, copy, pulled, user, parent, paths, call>>

-----------------------------------------------------------------------------
(* The rest of the three calls. *)

Done(c) == call' = [call EXCEPT ![c] = Idle]

Pushed(c) ==
  /\ At(c, "ok")
  /\ call[c].req.kind = "put"
  /\ Done(c)
  /\ UNCHANGED <<mine, theirs, copy, pulled, user, parent, known, paths, late>>

Pulled(c) ==
  /\ At(c, "ok")
  /\ call[c].req.kind = "get"
  /\ mine' = Merge(mine, call[c].data)
  /\ Done(c)
  /\ UNCHANGED <<theirs, copy, pulled, user, parent, known, paths, late>>

\* DoRemove records the removal of every version it lists; when listing them
\* fails (here: where Items panics) nothing is recorded.  WriteRemoteDelete
\* fetches the log it could send, as a push does.
Removed(c) ==
  /\ At(c, "ok")
  /\ call[c].req.kind = "del"
  /\ \/ /\ ItemsDefined(mine)
        /\ Room
        /\ \E k \in 0 .. MaxOps : /\ k = Len(Items(mine))
                                  /\ mine' = Append(mine, Unpush(k))
        /\ parent' = SparseParent
     \/ ~ItemsDefined(mine) /\ UNCHANGED <<mine, parent>>
  /\ Done(c)
  /\ UNCHANGED <<theirs, copy, pulled, user, known, paths, late>>

\* A failed push takes the last operation off the log.
RolledBack(c) ==
  /\ At(c, "failed")
  /\ mine' = IF call[c].req.kind = "put" THEN Upto(mine, Len(mine) - 1) ELSE mine
  /\ Done(c)
  /\ UNCHANGED <<theirs, copy, pulled, user, parent, known, paths, late>>

\* The reader pulls: it is sent what the remote holds, and merges it later.
ReaderGet ==
  /\ pulled = <<>>
  /\ theirs # <<>>
  /\ pulled' = theirs
  /\ UNCHANGED <<mine, theirs, copy, user, parent, known, paths, call, late>>

ReaderMerge ==
  /\ pulled # <<>>
  /\ copy' = Merge(copy, pulled)
  /\ pulled' = <<>>
  /\ UNCHANGED <<mine, theirs, user, parent, known, paths, call, late>>

AuthorStep(c) ==
  \/ WriteVersionSave(c) \/ WriteVersionDelete(c) \/ WriteAuthorRename(c)
  \/ Push_Do(c) \/ Pull_Do(c) \/ DoRemove(c)
  \/ Pushed(c) \/ Pulled(c) \/ Removed(c) \/ RolledBack(c)

NetworkStep(c) == Answer(c) \/ Refuse(c) \/ GiveUp(c) \/ LoseAnswer(c)

Next == \/ \E c \in Clients : AuthorStep(c) \/ NetworkStep(c)
        \/ \E r \in late : Arrive(r)
        \/ ReaderGet
        \/ ReaderMerge
        \/ Restart

Spec == Init /\ [][Next]_vars

-----------------------------------------------------------------------------
\* The types of the state: logs of operations, names by number, calls.
TypeOK ==
  /\ mine \in Seq(Op) /\ theirs \in Seq(Op) /\ copy \in Seq(Op) /\ pulled \in Seq(Op)
  /\ user \in Nat /\ parent \in Nat /\ known \in Nat /\ paths \in Nat
  /\ call \in [Clients -> Call]
  /\ late \subseteq Request

\* A log without the records of pushes: what the others are to have of it.
Strip(s) ==
  LET upto[i \in 0 .. Len(s)] ==
        IF i = 0 THEN <<>>
        ELSE IF s[i].model = "push" THEN upto[i - 1] ELSE Append(upto[i - 1], s[i])
  IN  upto[Len(s)]

\* Whatever requests and answers are lost or late, the remote and the reader
\* hold a prefix of the author's history, catch up and never fall back, and
\* neither a rolled back push nor a pull of his own log changes the author's.
\* With one request of the author at a time.
Sync == INSTANCE Replicas WITH Ops <- Op, history <- Strip(mine),
                               remote <- Strip(theirs), reader <- Strip(copy)
ImplementsReplicas == Sync!Spec

\* A push that the remote reports done is done: every commit in the log that
\* was sent is in the remote's log.
PushPlacesLog ==
  [][\A c \in Clients :
        At(c, "sent") /\ call[c].req.kind = "put" /\ At(c, "ok")' =>
           IsPrefix(Strip(call[c].req.log), Strip(theirs'))]_vars

=============================================================================
