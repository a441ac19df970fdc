--------------------------- MODULE LogsyncProofs ---------------------------
(***************************************************************************)
(* Proofs about Logsync, for one request of the author at a time and any   *)
(* bounds: what the remote and the reader hold are prefixes of the         *)
(* author's history and only catch up (the refinement of Replicas), and a  *)
(* push that is reported done is done.                                     *)
(*                                                                         *)
(* The argument: every log that is anywhere, in a book or in a message,    *)
(* agrees with the author's up to its last operation, which may be the     *)
(* record of a push that the author has taken back (Near).  While a push   *)
(* is under way nothing is longer than the author's log, so that taking    *)
(* the record off again leaves every log near to it.  Of two such logs the *)
(* longer one has at least the history of the other.                       *)
(***************************************************************************)
EXTENDS Logsync, NaturalsInduction, SequenceTheorems, WellFoundedInduction, TLAPS

-----------------------------------------------------------------------------
(* What Strip computes. *)

\* A step of Strip, and that f gives what Strip keeps of each of the first k
\* prefixes of s.
StripOp(kept, op) == IF op.model = "push" THEN kept ELSE Append(kept, op)

IsFold(f, s, k) ==
  /\ f \in [0 .. k -> Seq(Op)]
  /\ f[0] = <<>>
  /\ \A i \in 1 .. k : f[i] = StripOp(f[i - 1], s[i])

\* A set of numbers has a least one: induction, by the least counterexample.
LEMMA LessThanFounded ==
  IsWellFoundedOn({ss \in Nat \X Nat : ss[1] < ss[2]}, Nat)
BY NatLessThanWellFounded DEF OpToRel

LEMMA LeastOne ==
  ASSUME NEW S \in SUBSET Nat, S # {}
  PROVE  \E k \in S : \A j \in Nat : j < k => j \notin S
<1>1. PICK k \in S : \A y \in S : ~(<<y, k>> \in {ss \in Nat \X Nat : ss[1] < ss[2]})
  BY LessThanFounded, WFMin
<1> QED BY <1>1

LEMMA StripOpType ==
  ASSUME NEW kept \in Seq(Op), NEW op \in Op
  PROVE  StripOp(kept, op) \in Seq(Op)
BY DEF StripOp

\* The recursion has a solution for every log ...
LEMMA FoldExists ==
  ASSUME NEW s \in Seq(Op), NEW k \in 0 .. Len(s)
  PROVE  \E f : IsFold(f, s, k)
<1> DEFINE Bad == {j \in 0 .. Len(s) : ~\E f : IsFold(f, s, j)}
<1> SUFFICES ASSUME Bad # {} PROVE FALSE
  OBVIOUS
<1>1. Bad \in SUBSET Nat
  OBVIOUS
<1>2. PICK j \in Bad : \A i \in Nat : i < j => i \notin Bad
  <2> HIDE DEF Bad
  <2> QED BY <1>1, LeastOne
<1>3. j # 0
  <2>1. IsFold([i \in 0 .. 0 |-> <<>>], s, 0)
    BY DEF IsFold
  <2> QED BY <2>1, <1>2
<1>4. j - 1 \in 0 .. Len(s) /\ j - 1 \notin Bad /\ j \in 1 .. Len(s)
  BY <1>2, <1>3
<1>5. PICK f : IsFold(f, s, j - 1)
  BY <1>4
<1> DEFINE g == [i \in 0 .. j |-> IF i = j THEN StripOp(f[j - 1], s[j]) ELSE f[i]]
<1>6. s[j] \in Op /\ f[j - 1] \in Seq(Op)
  BY <1>4, <1>5 DEF IsFold
<1>7. IsFold(g, s, j)
  <2>1. g \in [0 .. j -> Seq(Op)]
    <3>1. StripOp(f[j - 1], s[j]) \in Seq(Op)
      BY <1>6, StripOpType
    <3>2. \A i \in 0 .. j : i # j => f[i] \in Seq(Op)
      BY <1>4, <1>5 DEF IsFold
    <3> QED BY <3>1, <3>2
  <2>2. g[0] = <<>>
    BY <1>4, <1>5, <1>3 DEF IsFold
  <2>3. ASSUME NEW i \in 1 .. j PROVE g[i] = StripOp(g[i - 1], s[i])
    <3>1. CASE i = j
      BY <3>1, <1>4
    <3>2. CASE i # j
      <4>1. i \in 1 .. (j - 1)
        BY <3>2, <1>4
      <4>2. f[i] = StripOp(f[i - 1], s[i])
        BY <4>1, <1>5 DEF IsFold
      <4>3. g[i] = f[i] /\ g[i - 1] = f[i - 1]
        BY <4>1, <1>4
      <4> QED BY <4>2, <4>3
    <3> QED BY <3>1, <3>2
  <2> HIDE DEF g
  <2> QED BY <2>1, <2>2, <2>3 DEF IsFold
<1> QED BY <1>7, <1>2

\* ... which Strip is ...
LEMMA StripIsFold ==
  ASSUME NEW s \in Seq(Op)
  PROVE  \E f : IsFold(f, s, Len(s)) /\ Strip(s) = f[Len(s)]
<1> DEFINE P(g) == g = [i \in 0 .. Len(s) |-> IF i = 0 THEN <<>> ELSE StripOp(g[i - 1], s[i])]
           h == CHOOSE g : P(g)
<1>1. Strip(s) = h[Len(s)]
  BY DEF Strip, StripOp
<1>2. PICK f : IsFold(f, s, Len(s))
  BY FoldExists
<1>3. P(f)
  BY <1>2 DEF IsFold
<1>4. P(h)
  <2> HIDE DEF P
  <2> QED BY <1>3
<1>5. IsFold(h, s, Len(s))
  <2> SUFFICES ASSUME TRUE PROVE h = f
    BY <1>2
  <2> DEFINE Bad == {j \in 0 .. Len(s) : h[j] # f[j]}
  <2>1. CASE Bad = {}
    <3> HIDE DEF h
    <3> QED BY <2>1, <1>3, <1>4
  <2>2. CASE Bad # {}
    <3> HIDE DEF h
    <3>1. PICK j \in Bad : \A i \in Nat : i < j => i \notin Bad
      <4>1. Bad \in SUBSET Nat
        OBVIOUS
      <4> HIDE DEF Bad
      <4> QED BY <4>1, <2>2, LeastOne
    <3>2. h[j] = IF j = 0 THEN <<>> ELSE StripOp(h[j - 1], s[j])
      BY <1>4
    <3>3. f[j] = IF j = 0 THEN <<>> ELSE StripOp(f[j - 1], s[j])
      BY <1>3
    <3>4. j # 0 => h[j - 1] = f[j - 1]
      BY <3>1
    <3> QED BY <3>1, <3>2, <3>3, <3>4
  <2> QED BY <2>1, <2>2
<1> QED BY <1>1, <1>5

\* ... and which depends on no more of the log than it has read.
LEMMA FoldsAgree ==
  ASSUME NEW s \in Seq(Op), NEW t \in Seq(Op), NEW k \in Nat, NEW l \in Nat,
         NEW f, NEW g, IsFold(f, s, k), IsFold(g, t, l),
         NEW n \in Nat, n =< k, n =< l, \A i \in 1 .. n : s[i] = t[i]
  PROVE  f[n] = g[n]
<1> DEFINE Bad == {j \in 0 .. n : f[j] # g[j]}
<1> SUFFICES ASSUME Bad # {} PROVE FALSE
  OBVIOUS
<1>1. PICK j \in Bad : \A i \in Nat : i < j => i \notin Bad
  <2>1. Bad \in SUBSET Nat
    OBVIOUS
  <2> HIDE DEF Bad
  <2> QED BY <2>1, LeastOne
<1>2. j # 0
  BY <1>1 DEF IsFold
<1>3. f[j - 1] = g[j - 1]
  BY <1>1, <1>2
<1>4. f[j] = StripOp(f[j - 1], s[j])
  BY <1>2 DEF IsFold
<1>5. g[j] = StripOp(g[j - 1], t[j])
  BY <1>2 DEF IsFold
<1> QED BY <1>1, <1>2, <1>3, <1>4, <1>5

\* Strip on the empty log, on one operation more, and on a prefix.
LEMMA StripType ==
  ASSUME NEW s \in Seq(Op)
  PROVE  Strip(s) \in Seq(Op)
<1>1. PICK f : IsFold(f, s, Len(s)) /\ Strip(s) = f[Len(s)]
  BY StripIsFold
<1> QED BY <1>1 DEF IsFold

LEMMA StripEmpty == Strip(<<>>) = <<>>
<1>1. <<>> \in Seq(Op) /\ Len(<<>>) = 0
  OBVIOUS
<1>2. PICK f : IsFold(f, <<>>, Len(<<>>)) /\ Strip(<<>>) = f[Len(<<>>)]
  BY <1>1, StripIsFold
<1> QED BY <1>1, <1>2 DEF IsFold

LEMMA StripAppend ==
  ASSUME NEW s \in Seq(Op), NEW op \in Op
  PROVE  Strip(Append(s, op)) = StripOp(Strip(s), op)
<1> DEFINE t == Append(s, op)
<1>1. /\ t \in Seq(Op) /\ Len(t) = Len(s) + 1 /\ t[Len(s) + 1] = op
      /\ \A i \in 1 .. Len(s) : s[i] = t[i]
      /\ Len(s) \in Nat
  OBVIOUS
<1> HIDE DEF t
<1>2. PICK f : IsFold(f, s, Len(s)) /\ Strip(s) = f[Len(s)]
  BY StripIsFold
<1>3. PICK g : IsFold(g, t, Len(t)) /\ Strip(t) = g[Len(t)]
  BY <1>1, StripIsFold
<1>4. f[Len(s)] = g[Len(s)]
  BY <1>1, <1>2, <1>3, FoldsAgree
<1>5. g[Len(s) + 1] = StripOp(g[Len(s)], t[Len(s) + 1])
  <2>1. Len(s) + 1 \in 1 .. Len(t) /\ (Len(s) + 1) - 1 = Len(s)
    BY <1>1
  <2> QED BY <1>3, <2>1 DEF IsFold
<1>6. Strip(t) = StripOp(Strip(s), op)
  BY <1>1, <1>2, <1>3, <1>4, <1>5
<1> QED BY <1>6 DEF t

\* a is a prefix of b.
Prefix(a, b) == Len(a) =< Len(b) /\ a = SubSeq(b, 1, Len(a))

LEMMA PrefixTransitive ==
  ASSUME NEW a \in Seq(Op), NEW b \in Seq(Op), NEW c \in Seq(Op), Prefix(a, b), Prefix(b, c)
  PROVE  Prefix(a, c)
<1>1. a = SubSeq(SubSeq(c, 1, Len(b)), 1, Len(a)) /\ Len(a) =< Len(b) /\ Len(b) =< Len(c)
  BY DEF Prefix
<1> QED BY <1>1 DEF Prefix

LEMMA StripGrows ==
  ASSUME NEW s \in Seq(Op), NEW k \in 0 .. Len(s)
  PROVE  Prefix(Strip(Upto(s, k)), Strip(s))
<1> DEFINE Bad == {d \in 0 .. Len(s) : ~Prefix(Strip(Upto(s, Len(s) - d)), Strip(s))}
<1> SUFFICES ASSUME Bad # {} PROVE FALSE
  <2>1. Len(s) - k \in 0 .. Len(s) /\ Len(s) - (Len(s) - k) = k
    OBVIOUS
  <2> QED BY <2>1
<1>1. PICK d \in Bad : \A i \in Nat : i < d => i \notin Bad
  <2>1. Bad \in SUBSET Nat
    OBVIOUS
  <2> HIDE DEF Bad
  <2> QED BY <2>1, LeastOne
<1>2. d # 0
  <2>1. Upto(s, Len(s) - 0) = s
    BY DEF Upto
  <2>2. Strip(s) \in Seq(Op)
    BY StripType
  <2>3. Prefix(Strip(s), Strip(s))
    BY <2>2 DEF Prefix
  <2> QED BY <2>1, <2>3
<1> DEFINE j == Len(s) - d
<1>3. /\ d - 1 \in 0 .. Len(s) /\ d - 1 \notin Bad
      /\ j \in 0 .. (Len(s) - 1) /\ Len(s) - (d - 1) = j + 1
  BY <1>1, <1>2
<1> HIDE DEF j
<1>4. Prefix(Strip(Upto(s, j + 1)), Strip(s))
  BY <1>3
<1>5. /\ Upto(s, j + 1) = Append(Upto(s, j), s[j + 1])
      /\ Upto(s, j) \in Seq(Op) /\ s[j + 1] \in Op
  BY <1>3 DEF Upto
<1>6. Strip(Upto(s, j + 1)) = StripOp(Strip(Upto(s, j)), s[j + 1])
  BY <1>5, StripAppend
<1>7. Strip(Upto(s, j)) \in Seq(Op) /\ Strip(s) \in Seq(Op)
  BY <1>5, StripType
<1>8. Prefix(Strip(Upto(s, j)), Strip(Upto(s, j + 1)))
  <2> DEFINE u == Strip(Upto(s, j))
             v == Append(u, s[j + 1])
  <2>1. Prefix(u, u)
    BY <1>7 DEF Prefix
  <2>2. Prefix(u, v)
    <3> HIDE DEF u
    <3> QED BY <1>5, <1>7 DEF Prefix, u
  <2> QED BY <1>6, <2>1, <2>2 DEF StripOp
<1>9. Prefix(Strip(Upto(s, j)), Strip(s))
  BY <1>4, <1>5, <1>6, <1>7, <1>8, PrefixTransitive, StripOpType
<1> QED BY <1>9, <1>1 DEF j

-----------------------------------------------------------------------------
(* The inductive invariant. *)

\* The author has one request under way at a time.
OneAtATime == \A c, d \in Clients : c = d

\* The log agrees with m up to its last operation, and there too unless that is
\* the record of a push.
Near(log, m) ==
  /\ Len(log) =< Len(m) + 1
  /\ \A i \in DOMAIN log : i < Len(log) => log[i] = m[i]
  /\ log # <<>> => \/ log[Len(log)] = Push(1)
                   \/ Len(log) =< Len(m) /\ log[Len(log)] = m[Len(log)]

\* Every log in the remote's and the reader's book, in a call or on the way.
Circulating ==
  {theirs, copy, pulled} \union {r.log : r \in late}
    \union {call[c].req.log : c \in Clients} \union {call[c].data : c \in Clients}

\* During a push the author's log is the one that was sent, ends with the
\* record of the push, and no other is longer.
Pushing(c) == call[c].pc # "idle" /\ call[c].req.kind = "put"

PushLast(c) == /\ mine # <<>>
               /\ mine[Len(mine)] = Push(1)
               /\ call[c].req.log = mine
               /\ \A log \in Circulating : Len(log) =< Len(mine)

\* The inductive invariant.
SInv == /\ TypeOK
        /\ \A log \in Circulating : Near(log, mine)
        /\ \A c \in Clients : Pushing(c) => PushLast(c)

\* How logs stay near: to a log with an operation more, to one without the
\* record of a push; and the only log longer than the author's.
LEMMA PushIsOp == Push(1) \in Op
BY DEF Push, Op

LEMMA NearEmpty == \A m \in Seq(Op) : Near(<<>>, m)
BY DEF Near

LEMMA NearSelf == \A m \in Seq(Op) : Near(m, m)
BY DEF Near

LEMMA NearAppend ==
  ASSUME NEW m \in Seq(Op), NEW op \in Op, NEW log \in Seq(Op), Near(log, m)
  PROVE  Near(log, Append(m, op)) /\ Len(log) =< Len(Append(m, op))
<1> DEFINE t == Append(m, op)
<1>1. Len(t) = Len(m) + 1 /\ \A i \in 1 .. Len(m) : t[i] = m[i]
  OBVIOUS
<1> HIDE DEF t
<1>2. Near(log, t) /\ Len(log) =< Len(t)
  BY <1>1 DEF Near
<1> QED BY <1>2 DEF t

LEMMA NearDrop ==
  ASSUME NEW m \in Seq(Op), m # <<>>, m[Len(m)] = Push(1),
         NEW log \in Seq(Op), Near(log, m), Len(log) =< Len(m)
  PROVE  Near(log, Upto(m, Len(m) - 1))
<1> DEFINE n == Len(m) - 1
           t == Upto(m, n)
<1>1. n \in 0 .. Len(m) /\ Len(m) = n + 1
  OBVIOUS
<1> HIDE DEF n
<1>2. Len(t) = n /\ \A i \in 1 .. n : t[i] = m[i]
  BY <1>1 DEF Upto
<1> HIDE DEF t
<1>3. Near(log, t)
  BY <1>1, <1>2 DEF Near
<1> QED BY <1>3 DEF t, n

LEMMA NearLonger ==
  ASSUME NEW m \in Seq(Op), NEW log \in Seq(Op), Near(log, m), Len(log) > Len(m)
  PROVE  log = Append(m, Push(1))
<1> DEFINE t == Append(m, Push(1))
<1>1. /\ t \in Seq(Op) /\ Len(t) = Len(m) + 1 /\ t[Len(m) + 1] = Push(1)
      /\ \A i \in 1 .. Len(m) : t[i] = m[i]
  BY PushIsOp
<1> HIDE DEF t
<1>2. Len(log) = Len(t) /\ \A i \in 1 .. Len(t) : log[i] = t[i]
  BY <1>1 DEF Near
<1>3. log = t
  BY <1>1, <1>2, SeqEqual
<1> QED BY <1>3 DEF t

LEMMA CirculatingTyped ==
  ASSUME TypeOK PROVE \A log \in Circulating : log \in Seq(Op)
BY DEF TypeOK, Circulating, Call, Request

\* A step that leaves the author's log alone, makes no new log and starts no
\* push keeps the invariant; so does one that appends while nobody pushes.
LEMMA Quiet ==
  ASSUME SInv, TypeOK', mine' = mine,
         \A log \in Circulating' : log \in Circulating \/ log = <<>>,
         \A d \in Clients : Pushing(d)' => Pushing(d) /\ call'[d].req = call[d].req
  PROVE  SInv'
<1>1. mine \in Seq(Op) /\ Len(mine) \in Nat /\ Len(<<>>) = 0
  BY DEF SInv, TypeOK
<1>2. ASSUME NEW log \in Circulating' PROVE Near(log, mine)'
  <2>1. Near(log, mine)
    BY <1>1, NearEmpty DEF SInv
  <2> QED BY <2>1
<1>3. ASSUME NEW d \in Clients, Pushing(d)' PROVE PushLast(d)'
  <2>1. PushLast(d) /\ call'[d].req = call[d].req
    BY <1>3 DEF SInv
  <2>2. \A log \in Circulating' : Len(log) =< Len(mine)
    BY <2>1, <1>1 DEF PushLast
  <2> QED BY <2>1, <2>2 DEF PushLast
<1> QED BY <1>2, <1>3 DEF SInv

LEMMA Longer ==
  ASSUME SInv, TypeOK', NEW op \in Op, mine' = Append(mine, op),
         \A log \in Circulating' : log \in Circulating \/ log = <<>>,
         \A d \in Clients : ~Pushing(d)'
  PROVE  SInv'
<1>1. mine \in Seq(Op) /\ mine' \in Seq(Op)
  BY DEF SInv, TypeOK
<1>2. ASSUME NEW log \in Circulating' PROVE Near(log, mine)'
  <2>1. CASE log = <<>>
    <3>1. Near(<<>>, mine')
      BY <1>1, NearEmpty
    <3> QED BY <3>1, <2>1
  <2>2. CASE log \in Circulating
    <3>1. log \in Seq(Op) /\ Near(log, mine)
      BY <2>2, CirculatingTyped DEF SInv
    <3>2. Near(log, Append(mine, op))
      BY <3>1, <1>1, NearAppend
    <3> QED BY <3>2
  <2> QED BY <2>1, <2>2
<1> QED BY <1>2 DEF SInv

-----------------------------------------------------------------------------
(* Types. *)

LEMMA OpsTyped ==
  /\ BranchInit \in Op
  /\ \A k \in Nat : Commit(k, 0) \in Op /\ Delete(k) \in Op /\ Push(k) \in Op /\ Unpush(k) \in Op
BY DEF Op, BranchInit, Commit, Delete, Push, Unpush

LEMMA CallTyped ==
  ASSUME TypeOK, NEW c \in Clients
  PROVE  /\ call[c] \in Call
         /\ call[c].pc \in {"idle", "sent", "ok", "failed"}
         /\ call[c].req \in Request
         /\ call[c].data \in Seq(Op)
         /\ call[c].req.log \in Seq(Op)
         /\ call[c].req.kind \in {"put", "get", "del"}
         /\ call[c].req.as \in Nat
BY DEF TypeOK, Call, Request

LEMMA IdleTyped == Idle \in Call
<1>1. Nothing \in Request
  BY DEF Nothing, Request
<1> QED BY <1>1 DEF Idle, Call

LEMMA MergeTyped ==
  ASSUME NEW a \in Seq(Op), NEW b \in Seq(Op)
  PROVE  Merge(a, b) \in Seq(Op)
BY DEF Merge

LEMMA SendTyped ==
  ASSUME TypeOK, NEW c \in Clients, NEW kind \in {"put", "get", "del"},
         NEW log \in Seq(Op), NEW as \in Nat, Send(c, kind, log, as)
  PROVE  call' \in [Clients -> Call]
<1> DEFINE r == [kind |-> kind, log |-> log, as |-> as, ref |-> user]
           v == [pc |-> "sent", data |-> <<>>, req |-> r]
<1>1. r \in Request
  BY DEF Request, TypeOK
<1>2. v \in Call
  <2> HIDE DEF r
  <2> QED BY <1>1 DEF Call
<1>3. call' = [call EXCEPT ![c] = v]
  BY DEF Send
<1> HIDE DEF v
<1> QED BY <1>2, <1>3 DEF TypeOK

LEMMA DoneTyped ==
  ASSUME TypeOK, NEW c \in Clients, Done(c)
  PROVE  call' \in [Clients -> Call]
BY IdleTyped DEF TypeOK, Done

LEMMA PcTyped ==
  ASSUME TypeOK, NEW c \in Clients, NEW pc \in {"idle", "sent", "ok", "failed"},
         call' = [call EXCEPT ![c].pc = pc]
  PROVE  call' \in [Clients -> Call]
<1> DEFINE v == [call[c] EXCEPT !.pc = pc]
<1>1. v \in Call
  BY CallTyped DEF Call
<1>2. call' = [call EXCEPT ![c] = v]
  OBVIOUS
<1> HIDE DEF v
<1> QED BY <1>1, <1>2 DEF TypeOK

LEMMA HandleTyped ==
  ASSUME TypeOK, NEW r \in Request, Handle(r)
  PROVE  theirs' \in Seq(Op) /\ known' \in Nat
<1>1. r.log \in Seq(Op) /\ r.as \in Nat /\ theirs \in Seq(Op) /\ known \in Nat
  BY DEF TypeOK, Request
<1>2. CASE put(r)
  BY <1>1, <1>2, MergeTyped DEF put
<1>3. CASE get(r)
  BY <1>1, <1>3 DEF get, far
<1>4. CASE del(r)
  BY <1>1, <1>4 DEF del
<1> QED BY <1>2, <1>3, <1>4 DEF Handle

LEMMA AnswerTyped ==
  ASSUME TypeOK, NEW c \in Clients, Answer(c)
  PROVE  TypeOK'
<1> DEFINE v == [call[c] EXCEPT !.pc = "ok",
                  !.data = IF call[c].req.kind = "get" THEN theirs ELSE call[c].data]
<1>1. v \in Call
  BY CallTyped DEF Call, TypeOK
<1>2. call' = [call EXCEPT ![c] = v]
  BY DEF Answer
<1>3. call' \in [Clients -> Call]
  <2> HIDE DEF v
  <2> QED BY <1>1, <1>2 DEF TypeOK
<1>4. theirs' \in Seq(Op) /\ known' \in Nat
  BY HandleTyped, CallTyped DEF Answer
<1> QED BY <1>3, <1>4 DEF Answer, TypeOK

LEMMA TypeKept ==
  ASSUME TypeOK, Next
  PROVE  TypeOK'
<1>0. mine \in Seq(Op) /\ Len(mine) \in Nat
  BY DEF TypeOK
<1>1. ASSUME NEW c \in Clients, WriteVersionSave(c) PROVE TypeOK'
  <2>1. Commit(paths + 1, 0) \in Op
    BY OpsTyped DEF TypeOK
  <2> QED BY <1>1, <2>1 DEF WriteVersionSave, TypeOK
<1>2. ASSUME NEW c \in Clients, WriteVersionDelete(c) PROVE TypeOK'
  <2>1. PICK k \in 1 .. MaxOps : mine' = Append(mine, Delete(k))
    BY <1>2 DEF WriteVersionDelete
  <2>2. Delete(k) \in Op
    BY OpsTyped, SyncBounds
  <2> QED BY <1>2, <2>1, <2>2 DEF WriteVersionDelete, TypeOK
<1>3. ASSUME NEW c \in Clients, WriteAuthorRename(c) PROVE TypeOK'
  BY <1>3 DEF WriteAuthorRename, TypeOK
<1>4. ASSUME NEW c \in Clients, Push_Do(c) PROVE TypeOK'
  <2>1. SparseParent \in Nat
    BY DEF SparseParent, TypeOK
  <2>2. mine' \in Seq(Op)
    BY <1>0, <1>4, PushIsOp DEF Push_Do
  <2>3. call' \in [Clients -> Call]
    BY <1>4, <2>1, <2>2, SendTyped DEF Push_Do
  <2> QED BY <1>4, <2>1, <2>2, <2>3 DEF Push_Do, TypeOK
<1>5. ASSUME NEW c \in Clients, Pull_Do(c) PROVE TypeOK'
  <2>1. call' \in [Clients -> Call]
    <3>1. Send(c, "get", <<>>, 0) /\ <<>> \in Seq(Op) /\ 0 \in Nat
      BY <1>5 DEF Pull_Do
    <3> QED BY <3>1, SendTyped
  <2> QED BY <1>5, <2>1 DEF Pull_Do, TypeOK
<1>6. ASSUME NEW c \in Clients, DoRemove(c) PROVE TypeOK'
  <2>1. call' \in [Clients -> Call]
    <3>1. Send(c, "del", <<>>, 0) /\ <<>> \in Seq(Op) /\ 0 \in Nat
      BY <1>6 DEF DoRemove
    <3> QED BY <3>1, SendTyped
  <2> QED BY <1>6, <2>1 DEF DoRemove, TypeOK
<1>7. ASSUME NEW c \in Clients, Pushed(c) PROVE TypeOK'
  BY <1>7, DoneTyped DEF Pushed, TypeOK
<1>8. ASSUME NEW c \in Clients, Pulled(c) PROVE TypeOK'
  <2>1. mine' \in Seq(Op)
    BY <1>0, <1>8, MergeTyped, CallTyped DEF Pulled
  <2>2. call' \in [Clients -> Call]
    BY <1>8, DoneTyped DEF Pulled
  <2> QED BY <1>8, <2>1, <2>2 DEF Pulled, TypeOK
<1>9. ASSUME NEW c \in Clients, Removed(c) PROVE TypeOK'
  <2>1. call' \in [Clients -> Call]
    BY <1>9, DoneTyped DEF Removed
  <2>2. mine' \in Seq(Op) /\ parent' \in Nat
    <3>1. CASE \E k \in 0 .. MaxOps : mine' = Append(mine, Unpush(k)) /\ parent' = SparseParent
      BY <3>1, <1>0, OpsTyped, SyncBounds DEF SparseParent, TypeOK
    <3>2. CASE UNCHANGED <<mine, parent>>
      BY <3>2 DEF TypeOK
    <3> QED BY <3>1, <3>2, <1>9 DEF Removed
  <2> QED BY <1>9, <2>1, <2>2 DEF Removed, TypeOK
<1>10. ASSUME NEW c \in Clients, RolledBack(c) PROVE TypeOK'
  <2>1. call' \in [Clients -> Call]
    BY <1>10, DoneTyped DEF RolledBack
  <2>2. mine' \in Seq(Op)
    <3>1. Upto(mine, Len(mine) - 1) \in Seq(Op)
      BY <1>0 DEF Upto
    <3> QED BY <1>0, <1>10, <3>1 DEF RolledBack
  <2> QED BY <1>10, <2>1, <2>2 DEF RolledBack, TypeOK
<1>11. ASSUME NEW c \in Clients, Refuse(c) \/ LoseAnswer(c) PROVE TypeOK'
  <2>1. call' \in [Clients -> Call]
    BY <1>11, PcTyped DEF Refuse, LoseAnswer
  <2> QED BY <1>11, <2>1 DEF Refuse, LoseAnswer, TypeOK
<1>12. ASSUME NEW c \in Clients, GiveUp(c) PROVE TypeOK'
  <2>1. call' \in [Clients -> Call]
    BY <1>12, PcTyped DEF GiveUp
  <2> QED BY <1>12, <2>1, CallTyped DEF GiveUp, TypeOK
<1>13. ASSUME NEW r \in late, Arrive(r) PROVE TypeOK'
  <2>1. theirs' \in Seq(Op) /\ known' \in Nat
    BY <1>13, HandleTyped DEF Arrive, TypeOK
  <2> QED BY <1>13, <2>1 DEF Arrive, TypeOK
<1>14. CASE ReaderGet
  BY <1>14 DEF ReaderGet, TypeOK
<1>15. CASE ReaderMerge
  BY <1>15, MergeTyped DEF ReaderMerge, TypeOK
<1>16. CASE Restart
  <2>1. call' \in [Clients -> Call]
    BY <1>16, IdleTyped DEF Restart
  <2>2. late' \subseteq Request
    <3>1. \A c \in Clients : call[c].req \in Request
      BY CallTyped
    <3> QED BY <1>16, <3>1 DEF Restart, TypeOK
  <2> QED BY <1>16, <2>1, <2>2 DEF Restart, TypeOK
<1> QED
  BY <1>1, <1>2, <1>3, <1>4, <1>5, <1>6, <1>7, <1>8, <1>9, <1>10, <1>11, <1>12, <1>13,
     <1>14, <1>15, <1>16, AnswerTyped DEF Next, AuthorStep, NetworkStep

-----------------------------------------------------------------------------
(* The invariant, action by action. *)

LEMMA InitHolds == ASSUME Init PROVE SInv
<1>1. TypeOK
  BY IdleTyped, OpsTyped DEF Init, TypeOK
<1>2. \A log \in Circulating : log = <<>>
  BY DEF Init, Circulating, Idle, Nothing
<1>3. \A c \in Clients : ~Pushing(c)
  BY DEF Init, Pushing, Idle
<1>4. Near(<<>>, mine)
  BY <1>1, NearEmpty DEF TypeOK
<1> QED BY <1>1, <1>2, <1>3, <1>4 DEF SInv

LEMMA NowOne ==
  ASSUME OneAtATime, NEW c \in Clients
  PROVE  \A d \in Clients : d = c
BY DEF OneAtATime

\* What the steps of a call do to it, and the remote's handler to its log.
LEMMA SendKeeps ==
  ASSUME TypeOK, NEW c \in Clients, NEW kind, NEW log, NEW as, Send(c, kind, log, as)
  PROVE  /\ call'[c].pc = "sent" /\ call'[c].req.kind = kind
         /\ call'[c].req.log = log /\ call'[c].data = <<>>
         /\ \A d \in Clients : d # c => call'[d] = call[d]
BY DEF Send, TypeOK

LEMMA DoneKeeps ==
  ASSUME TypeOK, NEW c \in Clients, Done(c)
  PROVE  /\ call'[c].pc = "idle" /\ call'[c].req.log = <<>> /\ call'[c].data = <<>>
         /\ \A d \in Clients : d # c => call'[d] = call[d]
BY DEF Done, TypeOK, Idle, Nothing

LEMMA AnswerKeeps ==
  ASSUME TypeOK, NEW c \in Clients, Answer(c)
  PROVE  /\ call'[c].req = call[c].req
         /\ call'[c].data = theirs \/ call'[c].data = call[c].data
         /\ \A d \in Clients : d # c => call'[d] = call[d]
BY CallTyped DEF Answer, TypeOK, Call

LEMMA PcKeeps ==
  ASSUME TypeOK, NEW c \in Clients, NEW pc, call' = [call EXCEPT ![c].pc = pc]
  PROVE  /\ call'[c].req = call[c].req /\ call'[c].data = call[c].data /\ call'[c].pc = pc
         /\ \A d \in Clients : d # c => call'[d] = call[d]
BY CallTyped DEF TypeOK, Call

LEMMA HandleKeeps ==
  ASSUME NEW r, Handle(r)
  PROVE  theirs' = theirs \/ theirs' = <<>> \/ (theirs' = r.log /\ Len(r.log) > Len(theirs))
BY DEF Handle, put, get, del, Merge, far

LEMMA RenameStep ==
  ASSUME SInv, Next, NEW c \in Clients, WriteAuthorRename(c)
  PROVE  SInv'
<1>1. TypeOK /\ TypeOK'
  BY TypeKept DEF SInv
<1>2. mine' = mine
  BY DEF WriteAuthorRename
<1>3. call' = call
  BY <1>1 DEF WriteAuthorRename
<1>4. \A log \in Circulating' : log \in Circulating \/ log = <<>>
  BY <1>3 DEF Circulating, WriteAuthorRename
<1>5. \A d \in Clients : Pushing(d)' => Pushing(d) /\ call'[d].req = call[d].req
  BY <1>3 DEF Pushing, WriteAuthorRename
<1> QED BY <1>1, <1>2, <1>4, <1>5, Quiet

LEMMA PullDoStep ==
  ASSUME SInv, Next, NEW c \in Clients, Pull_Do(c)
  PROVE  SInv'
<1>1. TypeOK /\ TypeOK'
  BY TypeKept DEF SInv
<1>2. mine' = mine
  BY DEF Pull_Do
<1>3. /\ call'[c].req.kind = "get" /\ call'[c].req.log = <<>> /\ call'[c].data = <<>>
      /\ \A d \in Clients : d # c => call'[d] = call[d]
  BY <1>1, SendKeeps DEF Pull_Do
<1>4. \A log \in Circulating' : log \in Circulating \/ log = <<>>
  BY <1>3 DEF Circulating, Pull_Do
<1>5. \A d \in Clients : Pushing(d)' => Pushing(d) /\ call'[d].req = call[d].req
  BY <1>3 DEF Pushing, Pull_Do
<1> QED BY <1>1, <1>2, <1>4, <1>5, Quiet

LEMMA DoRemoveStep ==
  ASSUME SInv, Next, NEW c \in Clients, DoRemove(c)
  PROVE  SInv'
<1>1. TypeOK /\ TypeOK'
  BY TypeKept DEF SInv
<1>2. mine' = mine
  BY DEF DoRemove
<1>3. /\ call'[c].req.kind = "del" /\ call'[c].req.log = <<>> /\ call'[c].data = <<>>
      /\ \A d \in Clients : d # c => call'[d] = call[d]
  BY <1>1, SendKeeps DEF DoRemove
<1>4. \A log \in Circulating' : log \in Circulating \/ log = <<>>
  BY <1>3 DEF Circulating, DoRemove
<1>5. \A d \in Clients : Pushing(d)' => Pushing(d) /\ call'[d].req = call[d].req
  BY <1>3 DEF Pushing, DoRemove
<1> QED BY <1>1, <1>2, <1>4, <1>5, Quiet

LEMMA PushedStep ==
  ASSUME SInv, Next, NEW c \in Clients, Pushed(c)
  PROVE  SInv'
<1>1. TypeOK /\ TypeOK'
  BY TypeKept DEF SInv
<1>2. mine' = mine
  BY DEF Pushed
<1>3. /\ call'[c].pc = "idle" /\ call'[c].req.log = <<>> /\ call'[c].data = <<>>
      /\ \A d \in Clients : d # c => call'[d] = call[d]
  BY <1>1, DoneKeeps DEF Pushed
<1>4. \A log \in Circulating' : log \in Circulating \/ log = <<>>
  BY <1>3 DEF Circulating, Pushed
<1>5. \A d \in Clients : Pushing(d)' => Pushing(d) /\ call'[d].req = call[d].req
  BY <1>3 DEF Pushing, Pushed
<1> QED BY <1>1, <1>2, <1>4, <1>5, Quiet

LEMMA RefuseStep ==
  ASSUME SInv, Next, NEW c \in Clients, Refuse(c)
  PROVE  SInv'
<1>1. TypeOK /\ TypeOK'
  BY TypeKept DEF SInv
<1>2. mine' = mine
  BY DEF Refuse
<1>3. /\ call'[c].req = call[c].req /\ call'[c].data = call[c].data
      /\ \A d \in Clients : d # c => call'[d] = call[d]
      /\ call[c].pc # "idle"
  BY <1>1, PcKeeps DEF At, Refuse
<1>4. \A log \in Circulating' : log \in Circulating \/ log = <<>>
  BY <1>3 DEF Circulating, Refuse
<1>5. \A d \in Clients : Pushing(d)' => Pushing(d) /\ call'[d].req = call[d].req
  BY <1>3 DEF Pushing, Refuse
<1> QED BY <1>1, <1>2, <1>4, <1>5, Quiet

LEMMA LoseAnswerStep ==
  ASSUME SInv, Next, NEW c \in Clients, LoseAnswer(c)
  PROVE  SInv'
<1>1. TypeOK /\ TypeOK'
  BY TypeKept DEF SInv
<1>2. mine' = mine
  BY DEF LoseAnswer
<1>3. /\ call'[c].req = call[c].req /\ call'[c].data = call[c].data
      /\ \A d \in Clients : d # c => call'[d] = call[d]
      /\ call[c].pc # "idle"
  BY <1>1, PcKeeps DEF At, LoseAnswer
<1>4. \A log \in Circulating' : log \in Circulating \/ log = <<>>
  BY <1>3 DEF Circulating, LoseAnswer
<1>5. \A d \in Clients : Pushing(d)' => Pushing(d) /\ call'[d].req = call[d].req
  BY <1>3 DEF Pushing, LoseAnswer
<1> QED BY <1>1, <1>2, <1>4, <1>5, Quiet

LEMMA GiveUpStep ==
  ASSUME SInv, Next, NEW c \in Clients, GiveUp(c)
  PROVE  SInv'
<1>1. TypeOK /\ TypeOK'
  BY TypeKept DEF SInv
<1>2. mine' = mine
  BY DEF GiveUp
<1>3. /\ call'[c].req = call[c].req /\ call'[c].data = call[c].data
      /\ \A d \in Clients : d # c => call'[d] = call[d]
      /\ call[c].pc # "idle"
  BY <1>1, PcKeeps DEF At, GiveUp
<1>4. \A log \in Circulating' : log \in Circulating \/ log = <<>>
  BY <1>3 DEF Circulating, GiveUp
<1>5. \A d \in Clients : Pushing(d)' => Pushing(d) /\ call'[d].req = call[d].req
  BY <1>3 DEF Pushing, GiveUp
<1> QED BY <1>1, <1>2, <1>4, <1>5, Quiet

LEMMA ReaderGetStep ==
  ASSUME SInv, Next, ReaderGet
  PROVE  SInv'
<1>1. TypeOK /\ TypeOK'
  BY TypeKept DEF SInv
<1>2. mine' = mine
  BY DEF ReaderGet
<1>3. call' = call
  BY <1>1 DEF ReaderGet
<1>4. \A log \in Circulating' : log \in Circulating \/ log = <<>>
  BY <1>3 DEF Circulating, ReaderGet
<1>5. \A d \in Clients : Pushing(d)' => Pushing(d) /\ call'[d].req = call[d].req
  BY <1>3 DEF Pushing, ReaderGet
<1> QED BY <1>1, <1>2, <1>4, <1>5, Quiet

LEMMA ReaderMergeStep ==
  ASSUME SInv, Next, ReaderMerge
  PROVE  SInv'
<1>1. TypeOK /\ TypeOK'
  BY TypeKept DEF SInv
<1>2. mine' = mine
  BY DEF ReaderMerge, Merge
<1>3. call' = call
  BY <1>1 DEF ReaderMerge
<1>4. \A log \in Circulating' : log \in Circulating \/ log = <<>>
  BY <1>3 DEF Circulating, ReaderMerge, Merge
<1>5. \A d \in Clients : Pushing(d)' => Pushing(d) /\ call'[d].req = call[d].req
  BY <1>3 DEF Pushing, ReaderMerge, Merge
<1> QED BY <1>1, <1>2, <1>4, <1>5, Quiet

LEMMA AnswerStep ==
  ASSUME SInv, Next, NEW c \in Clients, Answer(c)
  PROVE  SInv'
<1>1. TypeOK /\ TypeOK'
  BY TypeKept DEF SInv
<1>2. mine' = mine /\ call[c].pc # "idle"
  BY DEF Answer, At
<1>3. /\ call'[c].req = call[c].req
      /\ call'[c].data = theirs \/ call'[c].data = call[c].data
      /\ \A d \in Clients : d # c => call'[d] = call[d]
  BY <1>1, AnswerKeeps
<1>4. theirs' = theirs \/ theirs' = <<>> \/ theirs' = call[c].req.log
  BY HandleKeeps DEF Answer
<1>5. \A log \in Circulating' : log \in Circulating \/ log = <<>>
  BY <1>3, <1>4 DEF Circulating, Answer
<1>6. \A d \in Clients : Pushing(d)' => Pushing(d) /\ call'[d].req = call[d].req
  BY <1>2, <1>3 DEF Pushing
<1> QED BY <1>1, <1>2, <1>5, <1>6, Quiet

LEMMA ArriveStep ==
  ASSUME SInv, Next, NEW r \in late, Arrive(r)
  PROVE  SInv'
<1>1. TypeOK /\ TypeOK'
  BY TypeKept DEF SInv
<1>2. mine' = mine /\ call' = call /\ late' \subseteq late
  BY DEF Arrive
<1>3. theirs' = theirs \/ theirs' = <<>> \/ theirs' = r.log
  BY HandleKeeps DEF Arrive
<1>4. \A log \in Circulating' : log \in Circulating \/ log = <<>>
  BY <1>2, <1>3 DEF Circulating, Arrive
<1>5. \A d \in Clients : Pushing(d)' => Pushing(d) /\ call'[d].req = call[d].req
  BY <1>2 DEF Pushing
<1> QED BY <1>1, <1>2, <1>4, <1>5, Quiet

LEMMA RestartStep ==
  ASSUME SInv, Next, Restart
  PROVE  SInv'
<1>1. TypeOK /\ TypeOK'
  BY TypeKept DEF SInv
<1>2. mine' = mine
  BY DEF Restart
<1>3. \A d \in Clients : call'[d].pc = "idle" /\ call'[d].req.log = <<>> /\ call'[d].data = <<>>
  BY DEF Restart, Idle, Nothing
<1>4. \A r \in late' : r \in late \/ \E d \in Clients : r = call[d].req
  BY DEF Restart
<1>5. \A log \in Circulating' : log \in Circulating \/ log = <<>>
  BY <1>3, <1>4 DEF Circulating, Restart
<1>6. \A d \in Clients : ~Pushing(d)'
  BY <1>3 DEF Pushing
<1> QED BY <1>1, <1>2, <1>5, <1>6, Quiet

LEMMA SaveStep ==
  ASSUME SInv, OneAtATime, Next, NEW c \in Clients, WriteVersionSave(c) \/ WriteVersionDelete(c)
  PROVE  SInv'
<1>1. TypeOK /\ TypeOK'
  BY TypeKept DEF SInv
<1>2. PICK op \in Op : mine' = Append(mine, op)
  <2>1. CASE WriteVersionSave(c)
    BY <1>1, <2>1, OpsTyped DEF WriteVersionSave, TypeOK
  <2>2. CASE WriteVersionDelete(c)
    BY <1>1, <2>2, OpsTyped, SyncBounds DEF WriteVersionDelete, TypeOK
  <2> QED BY <2>1, <2>2
<1>3. call' = call /\ call[c].pc = "idle"
  BY DEF WriteVersionSave, WriteVersionDelete, At
<1>4. \A log \in Circulating' : log \in Circulating \/ log = <<>>
  BY <1>3 DEF Circulating, WriteVersionSave, WriteVersionDelete
<1>5. \A d \in Clients : ~Pushing(d)'
  BY <1>3, NowOne DEF Pushing
<1> QED BY <1>1, <1>2, <1>4, <1>5, Longer

LEMMA RemovedStep ==
  ASSUME SInv, OneAtATime, Next, NEW c \in Clients, Removed(c)
  PROVE  SInv'
<1>1. TypeOK /\ TypeOK'
  BY TypeKept DEF SInv
<1>3. /\ call'[c].pc = "idle" /\ call'[c].req.log = <<>> /\ call'[c].data = <<>>
      /\ \A d \in Clients : d # c => call'[d] = call[d]
  BY <1>1, DoneKeeps DEF Removed
<1>4. \A log \in Circulating' : log \in Circulating \/ log = <<>>
  BY <1>3 DEF Circulating, Removed
<1>5. \A d \in Clients : ~Pushing(d)'
  BY <1>3, NowOne DEF Pushing
<1>6. CASE \E op \in Op : mine' = Append(mine, op)
  BY <1>1, <1>4, <1>5, <1>6, Longer
<1>7. CASE mine' = mine
  BY <1>1, <1>4, <1>5, <1>7, Quiet
<1> QED BY <1>6, <1>7, OpsTyped, SyncBounds DEF Removed

LEMMA PulledStep ==
  ASSUME SInv, OneAtATime, Next, NEW c \in Clients, Pulled(c)
  PROVE  SInv'
<1>1. TypeOK /\ TypeOK'
  BY TypeKept DEF SInv
<1>3. /\ call'[c].pc = "idle" /\ call'[c].req.log = <<>> /\ call'[c].data = <<>>
      /\ \A d \in Clients : d # c => call'[d] = call[d]
  BY <1>1, DoneKeeps DEF Pulled
<1>4. \A log \in Circulating' : log \in Circulating \/ log = <<>>
  BY <1>3 DEF Circulating, Pulled
<1>5. \A d \in Clients : ~Pushing(d)'
  BY <1>3, NowOne DEF Pushing
<1>6. CASE Len(call[c].data) > Len(mine)
  <2>1. call[c].data \in Circulating
    BY DEF Circulating
  <2>2. call[c].data = Append(mine, Push(1))
    BY <1>1, <1>6, <2>1, NearLonger, CirculatingTyped DEF SInv, TypeOK
  <2>3. mine' = Append(mine, Push(1))
    BY <1>6, <2>2 DEF Pulled, Merge
  <2> QED BY <1>1, <1>4, <1>5, <2>3, PushIsOp, Longer
<1>7. CASE ~(Len(call[c].data) > Len(mine))
  <2>1. mine' = mine
    BY <1>7 DEF Pulled, Merge
  <2> QED BY <1>1, <1>4, <1>5, <2>1, Quiet
<1> QED BY <1>6, <1>7

LEMMA RolledBackStep ==
  ASSUME SInv, OneAtATime, Next, NEW c \in Clients, RolledBack(c)
  PROVE  SInv'
<1>1. TypeOK /\ TypeOK'
  BY TypeKept DEF SInv
<1>3. /\ call'[c].pc = "idle" /\ call'[c].req.log = <<>> /\ call'[c].data = <<>>
      /\ \A d \in Clients : d # c => call'[d] = call[d]
  BY <1>1, DoneKeeps DEF RolledBack
<1>4. \A log \in Circulating' : log \in Circulating \/ log = <<>>
  BY <1>3 DEF Circulating, RolledBack
<1>5. \A d \in Clients : ~Pushing(d)'
  BY <1>3, NowOne DEF Pushing
<1>6. CASE call[c].req.kind # "put"
  <2>1. mine' = mine
    BY <1>6 DEF RolledBack
  <2> QED BY <1>1, <1>4, <1>5, <2>1, Quiet
<1>7. CASE call[c].req.kind = "put"
  <2>1. PushLast(c)
    BY <1>7 DEF SInv, RolledBack, At, Pushing
  <2>2. mine' = Upto(mine, Len(mine) - 1)
    BY <1>7 DEF RolledBack
  <2>3. ASSUME NEW log \in Circulating' PROVE Near(log, mine)'
    <3>1. CASE log = <<>>
      <4>1. Near(<<>>, mine')
        BY <1>1, NearEmpty DEF TypeOK
      <4> QED BY <3>1, <4>1
    <3>2. CASE log \in Circulating
      <4>1. log \in Seq(Op) /\ Near(log, mine) /\ Len(log) =< Len(mine)
        BY <1>1, <2>1, <3>2, CirculatingTyped DEF SInv, PushLast
      <4>2. Near(log, Upto(mine, Len(mine) - 1))
        BY <1>1, <2>1, <4>1, NearDrop DEF PushLast, TypeOK
      <4> QED BY <2>2, <4>2
    <3> QED BY <1>4, <3>1, <3>2
  <2> QED BY <1>1, <1>5, <2>3 DEF SInv
<1> QED BY <1>6, <1>7

LEMMA PushDoStep ==
  ASSUME SInv, OneAtATime, Next, NEW c \in Clients, Push_Do(c)
  PROVE  SInv'
<1>1. TypeOK /\ TypeOK'
  BY TypeKept DEF SInv
<1>2. mine' = Append(mine, Push(1)) /\ mine \in Seq(Op)
  BY <1>1 DEF Push_Do, TypeOK
<1>3. /\ call'[c].req.log = mine' /\ call'[c].data = <<>>
      /\ \A d \in Clients : d # c => call'[d] = call[d]
  BY <1>1, SendKeeps DEF Push_Do
<1>4. \A log \in Circulating' : log \in Circulating \/ log = <<>> \/ log = mine'
  BY <1>3 DEF Circulating, Push_Do
<1>5. ASSUME NEW log \in Circulating' PROVE Near(log, mine') /\ Len(log) =< Len(mine')
  <2>1. CASE log = <<>>
    BY <1>1, <2>1, NearEmpty DEF TypeOK
  <2>2. CASE log \in Circulating
    BY <1>1, <1>2, <2>2, CirculatingTyped, NearAppend, PushIsOp DEF SInv
  <2>3. CASE log = mine'
    BY <1>1, <2>3, NearSelf DEF TypeOK
  <2> QED BY <1>4, <2>1, <2>2, <2>3
<1>6. mine' # <<>> /\ mine'[Len(mine')] = Push(1)
  BY <1>2, PushIsOp
<1>7. ASSUME NEW d \in Clients PROVE PushLast(d)'
  <2>1. d = c
    BY NowOne
  <2> QED BY <1>3, <1>5, <1>6, <2>1 DEF PushLast
<1> QED BY <1>1, <1>5, <1>7 DEF SInv

LEMMA SInvKept ==
  ASSUME SInv, OneAtATime, [Next]_vars
  PROVE  SInv'
<1>1. CASE Next
  BY <1>1, RenameStep, PullDoStep, DoRemoveStep, PushedStep, RefuseStep, LoseAnswerStep,
     GiveUpStep, ReaderGetStep, ReaderMergeStep, AnswerStep, ArriveStep, RestartStep,
     SaveStep, RemovedStep, PulledStep, RolledBackStep, PushDoStep
     DEF Next, AuthorStep, NetworkStep
<1>2. CASE UNCHANGED vars
  <2>1. TypeOK'
    BY <1>2 DEF SInv, TypeOK, vars
  <2>2. Circulating' = Circulating
    BY <1>2 DEF Circulating, vars
  <2>3. mine' = mine /\ call' = call
    BY <1>2 DEF vars
  <2> QED BY <2>1, <2>2, <2>3, Quiet DEF Pushing
<1> QED BY <1>1, <1>2

\* In every state, with one request of the author at a time, the logs of the
\* remote, the reader and all messages are near the author's (Push.Do with its
\* rollback, Pull.Do, Log.Merge), and types are kept.
THEOREM Inductive == OneAtATime => (Spec => []SInv)
<1> SUFFICES ASSUME OneAtATime PROVE Spec => []SInv
  OBVIOUS
<1>1. Init => SInv
  BY InitHolds
<1>2. SInv /\ [Next]_vars => SInv'
  BY SInvKept
<1> QED BY <1>1, <1>2, PTL DEF Spec

-----------------------------------------------------------------------------
(* The refinement. *)

\* A log near m has a prefix of m's history, and all of what m has before the
\* log's last operation.
LEMMA StripNear ==
  ASSUME NEW m \in Seq(Op), NEW log \in Seq(Op), Near(log, m)
  PROVE  /\ Prefix(Strip(log), Strip(m))
         /\ \A j \in 0 .. Len(m) : j < Len(log) => Prefix(Strip(Upto(m, j)), Strip(log))
<1>1. CASE log = <<>>
  <2>1. Upto(m, 0) = <<>> /\ 0 \in 0 .. Len(m) /\ Len(<<>>) = 0
    BY DEF Upto
  <2>2. Prefix(Strip(Upto(m, 0)), Strip(m))
    BY <2>1, StripGrows
  <2> QED BY <1>1, <2>1, <2>2
<1>2. CASE log # <<>>
  <2> DEFINE n == Len(log) - 1
             u == Upto(m, n)
             op == log[n + 1]
  <2>1. n \in 0 .. Len(m) /\ Len(log) = n + 1 /\ op \in Op
    BY <1>2 DEF Near
  <2> HIDE DEF n
  <2>2. u \in Seq(Op) /\ Len(u) = n /\ \A i \in 1 .. n : u[i] = m[i]
    BY <2>1 DEF Upto
  <2>3. log = Append(u, op)
    <3> DEFINE t == Append(u, op)
    <3>1. /\ t \in Seq(Op) /\ Len(t) = n + 1 /\ t[n + 1] = op
          /\ \A i \in 1 .. n : t[i] = u[i]
      <4> HIDE DEF u, op
      <4> QED BY <2>1, <2>2
    <3> HIDE DEF t
    <3>2. \A i \in 1 .. Len(log) : log[i] = t[i]
      BY <2>1, <2>2, <3>1 DEF Near
    <3>3. log = t
      BY <2>1, <3>1, <3>2, SeqEqual
    <3> QED BY <3>3 DEF t
  <2>4. Strip(log) = StripOp(Strip(u), op)
    <3> HIDE DEF u, op
    <3> QED BY <2>1, <2>2, <2>3, StripAppend
  <2>5. Prefix(Strip(u), Strip(m))
    BY <2>1, StripGrows
  <2>6. Prefix(Strip(log), Strip(m))
    <3>1. CASE op = Push(1)
      BY <2>4, <2>5, <3>1 DEF StripOp, Push
    <3>2. CASE op # Push(1)
      <4>1. n + 1 =< Len(m) /\ op = m[n + 1]
        BY <1>2, <2>1, <3>2 DEF Near
      <4>2. n + 1 \in 0 .. Len(m) /\ Upto(m, n + 1) = log
        <5>1. n + 1 \in 0 .. Len(m)
          BY <2>1, <4>1
        <5>2. Upto(m, n + 1) = Append(Upto(m, n), m[n + 1])
          BY <2>1, <4>1 DEF Upto
        <5> QED BY <5>1, <5>2, <4>1, <2>3
      <4>3. Prefix(Strip(Upto(m, n + 1)), Strip(m))
        BY <4>2, StripGrows
      <4> QED BY <4>2, <4>3
    <3> QED BY <3>1, <3>2
  <2>7. ASSUME NEW j \in 0 .. Len(m), j < Len(log) PROVE Prefix(Strip(Upto(m, j)), Strip(log))
    <3>1. j \in 0 .. Len(log) /\ Upto(log, j) = Upto(m, j)
      <4>1. j \in 0 .. Len(log) /\ j =< n
        BY <2>1, <2>7
      <4>2. \A i \in 1 .. j : log[i] = m[i]
        BY <2>1, <4>1 DEF Near
      <4>3. /\ Upto(log, j) \in Seq(Op) /\ Len(Upto(log, j)) = j
            /\ \A i \in 1 .. j : Upto(log, j)[i] = log[i]
        BY <4>1 DEF Upto
      <4>4. /\ Upto(m, j) \in Seq(Op) /\ Len(Upto(m, j)) = j
            /\ \A i \in 1 .. j : Upto(m, j)[i] = m[i]
        BY DEF Upto
      <4> QED BY <4>1, <4>2, <4>3, <4>4, SeqEqual
    <3>2. Prefix(Strip(Upto(log, j)), Strip(log))
      BY <3>1, StripGrows
    <3> QED BY <3>1, <3>2
  <2> QED BY <2>6, <2>7
<1> QED BY <1>1, <1>2

\* Of two logs near m the longer one has the history of the other.
LEMMA StripCatchesUp ==
  ASSUME NEW m \in Seq(Op), NEW here \in Seq(Op), NEW log \in Seq(Op),
         Near(here, m), Near(log, m), Len(log) > Len(here)
  PROVE  Prefix(Strip(here), Strip(log)) /\ Prefix(Strip(log), Strip(m))
<1>1. /\ Strip(here) \in Seq(Op) /\ Strip(log) \in Seq(Op) /\ Strip(m) \in Seq(Op)
      /\ Prefix(Strip(log), Strip(m))
  BY StripNear, StripType
<1>2. Prefix(Strip(here), Strip(log))
  <2>1. Len(here) \in 0 .. Len(m) /\ Len(here) < Len(log)
    BY DEF Near
  <2> DEFINE u == Upto(m, Len(here))
  <2>2. u \in Seq(Op) /\ Strip(u) \in Seq(Op)
    <3>1. u \in Seq(Op)
      BY <2>1 DEF Upto
    <3> HIDE DEF u
    <3> QED BY <3>1, StripType
  <2>3. Prefix(Strip(u), Strip(log))
    BY <2>1, StripNear
  <2>4. Near(here, u)
    BY <2>1 DEF Near, Upto
  <2>5. Prefix(Strip(here), Strip(u))
    <3> HIDE DEF u
    <3> QED BY <2>2, <2>4, StripNear
  <2> QED BY <1>1, <2>2, <2>3, <2>5, PrefixTransitive
<1> QED BY <1>1, <1>2

\* What a step may do to the three books.
Effect ==
  \/ UNCHANGED <<mine, theirs, copy>>
  \/ /\ \E op \in Op : mine' = Append(mine, op)
     /\ UNCHANGED <<theirs, copy>>
  \/ /\ mine # <<>> /\ mine[Len(mine)] = Push(1)
     /\ mine' = Upto(mine, Len(mine) - 1)
     /\ UNCHANGED <<theirs, copy>>
  \/ /\ \E log \in Circulating : Len(log) > Len(theirs) /\ theirs' = log
     /\ UNCHANGED <<mine, copy>>
  \/ theirs' = <<>> /\ UNCHANGED <<mine, copy>>
  \/ /\ \E log \in Circulating : Len(log) > Len(copy) /\ copy' = log
     /\ UNCHANGED <<mine, theirs>>

LEMMA Effects ==
  ASSUME SInv, OneAtATime, Next
  PROVE  Effect
<1>0. TypeOK
  BY DEF SInv
<1>1. ASSUME NEW c \in Clients, AuthorStep(c) PROVE Effect
  <2>1. CASE WriteVersionSave(c)
    BY <1>0, <2>1, OpsTyped DEF WriteVersionSave, TypeOK, Effect
  <2>2. CASE WriteVersionDelete(c)
    BY <2>2, OpsTyped, SyncBounds DEF WriteVersionDelete, Effect
  <2>3. CASE WriteAuthorRename(c) \/ Pull_Do(c) \/ DoRemove(c) \/ Pushed(c)
    BY <2>3 DEF WriteAuthorRename, Pull_Do, DoRemove, Pushed, Effect
  <2>4. CASE Push_Do(c)
    BY <2>4, PushIsOp DEF Push_Do, Effect
  <2>5. CASE Pulled(c)
    <3>1. CASE Len(call[c].data) > Len(mine)
      <4>1. call[c].data \in Circulating
        BY DEF Circulating
      <4>2. call[c].data = Append(mine, Push(1))
        BY <1>0, <3>1, <4>1, NearLonger, CirculatingTyped DEF SInv, TypeOK
      <4> QED BY <2>5, <3>1, <4>2, PushIsOp DEF Pulled, Merge, Effect
    <3>2. CASE ~(Len(call[c].data) > Len(mine))
      BY <2>5, <3>2 DEF Pulled, Merge, Effect
    <3> QED BY <3>1, <3>2
  <2>6. CASE Removed(c)
    BY <2>6, OpsTyped, SyncBounds DEF Removed, Effect
  <2>7. CASE RolledBack(c)
    <3>1. CASE call[c].req.kind = "put"
      <4>1. PushLast(c)
        BY <2>7, <3>1 DEF SInv, RolledBack, At, Pushing
      <4> QED BY <2>7, <3>1, <4>1 DEF RolledBack, PushLast, Effect
    <3>2. CASE call[c].req.kind # "put"
      BY <2>7, <3>2 DEF RolledBack, Effect
    <3> QED BY <3>1, <3>2
  <2> QED BY <1>1, <2>1, <2>2, <2>3, <2>4, <2>5, <2>6, <2>7 DEF AuthorStep
<1>2. ASSUME NEW c \in Clients, NetworkStep(c) PROVE Effect
  <2>1. CASE Answer(c)
    <3>1. call[c].req.log \in Circulating
      BY DEF Circulating
    <3> QED BY <2>1, <3>1, HandleKeeps DEF Answer, Effect
  <2> QED BY <1>2, <2>1 DEF NetworkStep, Refuse, GiveUp, LoseAnswer, Effect
<1>3. ASSUME NEW r \in late, Arrive(r) PROVE Effect
  <2>1. r.log \in Circulating
    BY DEF Circulating
  <2> QED BY <1>3, <2>1, HandleKeeps DEF Arrive, Effect
<1>4. CASE ReaderMerge
  <2>1. pulled \in Circulating
    BY DEF Circulating
  <2> QED BY <1>4, <2>1 DEF ReaderMerge, Merge, Effect
<1>5. CASE ReaderGet \/ Restart
  BY <1>5 DEF ReaderGet, Restart, Effect
<1> QED BY <1>1, <1>2, <1>3, <1>4, <1>5 DEF Next

LEMMA InitRefines == ASSUME Init PROVE Sync!Init
<1>1. Strip(mine) \in Seq(Op)
  <2>1. mine \in Seq(Op)
    BY OpsTyped DEF Init
  <2> QED BY <2>1, StripType
<1> QED BY <1>1, StripEmpty DEF Sync!Init, Init

LEMMA StepRefines ==
  ASSUME SInv, SInv', OneAtATime, [Next]_vars
  PROVE  [Sync!Next]_<<Strip(mine), Strip(theirs), Strip(copy)>>
<1>0. TypeOK /\ TypeOK' /\ Strip(mine) \in Seq(Op)
  BY StripType DEF SInv, TypeOK
<1>1. CASE UNCHANGED vars
  BY <1>1 DEF vars
<1>2. CASE UNCHANGED <<mine, theirs, copy>>
  BY <1>2
<1>3. ASSUME NEW op \in Op, mine' = Append(mine, op), UNCHANGED <<theirs, copy>>
      PROVE  [Sync!Next]_<<Strip(mine), Strip(theirs), Strip(copy)>>
  <2>1. Strip(mine)' = StripOp(Strip(mine), op)
    BY <1>0, <1>3, StripAppend DEF TypeOK
  <2>2. CASE op.model = "push"
    BY <1>3, <2>1, <2>2 DEF StripOp
  <2>3. CASE op.model # "push"
    <3> DEFINE h == Strip(mine)
               hh == Append(h, op)
    <3>1. /\ Len(hh) = Len(h) + 1 /\ hh[Len(hh)] \in Op
          /\ SubSeq(hh, 1, Len(h)) = h
      <4> HIDE DEF h
      <4> QED BY <1>0 DEF h
    <3>2. Strip(mine)' = hh
      BY <2>1, <2>3 DEF StripOp
    <3>3. Sync!Record
      BY <1>3, <3>1, <3>2 DEF Sync!Record
    <3> QED BY <3>3 DEF Sync!Next
  <2> QED BY <2>2, <2>3
<1>4. CASE /\ mine # <<>> /\ mine[Len(mine)] = Push(1)
           /\ mine' = Upto(mine, Len(mine) - 1)
           /\ UNCHANGED <<theirs, copy>>
  <2>1. mine = Append(mine', Push(1)) /\ mine' \in Seq(Op)
    BY <1>0, <1>4 DEF Upto, TypeOK
  <2>2. Strip(mine) = StripOp(Strip(mine'), Push(1))
    BY <2>1, StripAppend, PushIsOp
  <2>3. Strip(mine)' = Strip(mine)
    BY <2>2 DEF StripOp, Push
  <2> QED BY <2>3, <1>4
<1>5. ASSUME NEW log \in Circulating, Len(log) > Len(theirs), theirs' = log, UNCHANGED <<mine, copy>>
      PROVE  Sync!Next
  <2>1. Near(log, mine) /\ Near(theirs, mine) /\ log \in Seq(Op)
    BY <1>0, CirculatingTyped DEF SInv, Circulating
  <2>2. Prefix(Strip(theirs), Strip(log)) /\ Prefix(Strip(log), Strip(mine))
    BY <1>0, <1>5, <2>1, StripCatchesUp DEF TypeOK
  <2>3. Strip(theirs)' = Strip(log) /\ Strip(mine)' = Strip(mine) /\ Strip(copy)' = Strip(copy)
    BY <1>5
  <2>4. Sync!CatchUp(Strip(theirs), Strip(theirs)')
    <3>1. /\ Strip(log) = SubSeq(Strip(mine), 1, Len(Strip(log)))
          /\ Len(Strip(log)) \in Len(Strip(theirs)) .. Len(Strip(mine))
      BY <1>0, <2>1, <2>2, StripType DEF Prefix, TypeOK
    <3> QED BY <2>3, <3>1 DEF Sync!CatchUp
  <2> QED BY <2>3, <2>4 DEF Sync!Next
<1>6. CASE theirs' = <<>> /\ UNCHANGED <<mine, copy>>
  BY <1>6, StripEmpty DEF Sync!Next
<1>7. ASSUME NEW log \in Circulating, Len(log) > Len(copy), copy' = log, UNCHANGED <<mine, theirs>>
      PROVE  Sync!Next
  <2>1. Near(log, mine) /\ Near(copy, mine) /\ log \in Seq(Op)
    BY <1>0, CirculatingTyped DEF SInv, Circulating
  <2>2. Prefix(Strip(copy), Strip(log)) /\ Prefix(Strip(log), Strip(mine))
    BY <1>0, <1>7, <2>1, StripCatchesUp DEF TypeOK
  <2>3. Strip(copy)' = Strip(log) /\ Strip(mine)' = Strip(mine) /\ Strip(theirs)' = Strip(theirs)
    BY <1>7
  <2>4. Sync!CatchUp(Strip(copy), Strip(copy)')
    <3>1. /\ Strip(log) = SubSeq(Strip(mine), 1, Len(Strip(log)))
          /\ Len(Strip(log)) \in Len(Strip(copy)) .. Len(Strip(mine))
      BY <1>0, <2>1, <2>2, StripType DEF Prefix, TypeOK
    <3> QED BY <2>3, <3>1 DEF Sync!CatchUp
  <2> QED BY <2>3, <2>4 DEF Sync!Next
<1> QED BY <1>1, <1>2, <1>3, <1>4, <1>5, <1>6, <1>7, Effects DEF Effect

\* Whatever requests and answers are lost or late, the remote (put, del) and
\* the reader hold prefixes of the author's history that only catch up, and
\* neither the rollback of a push nor a pull of his own log changes it.
THEOREM Refines == OneAtATime => (Spec => ImplementsReplicas)
<1> SUFFICES ASSUME OneAtATime PROVE Spec => ImplementsReplicas
  OBVIOUS
<1>1. Init => Sync!Init
  BY InitRefines
<1>2. SInv /\ SInv' /\ [Next]_vars => [Sync!Next]_<<Strip(mine), Strip(theirs), Strip(copy)>>
  BY StepRefines
<1>3. Spec => []SInv
  BY Inductive
<1> QED BY <1>1, <1>2, <1>3, PTL DEF Spec, ImplementsReplicas, Sync!Spec

\* A push that the remote reports done is done: Log.Merge has kept a log with
\* every commit of the one that was sent (Push.Do, put).
THEOREM PushDone == OneAtATime => (Spec => PushPlacesLog)
<1> SUFFICES ASSUME OneAtATime PROVE Spec => PushPlacesLog
  OBVIOUS
<1> DEFINE P == \A c \in Clients :
                  At(c, "sent") /\ call[c].req.kind = "put" /\ At(c, "ok")' =>
                     IsPrefix(Strip(call[c].req.log), Strip(theirs'))
<1>1. SInv /\ SInv' /\ [Next]_vars => [P]_vars
  <2> SUFFICES ASSUME SInv, SInv', Next, NEW c \in Clients,
                      At(c, "sent"), call[c].req.kind = "put", At(c, "ok")'
               PROVE  IsPrefix(Strip(call[c].req.log), Strip(theirs'))
    BY Zenon
  <2>1. TypeOK /\ TypeOK'
    BY DEF SInv
  <2>2. Answer(c)
    <3>1. call[c].pc = "sent" /\ call'[c].pc = "ok"
      BY DEF At
    <3>2. ASSUME NEW d \in Clients, AuthorStep(d) PROVE FALSE
      <4>1. d = c
        BY NowOne
      <4> QED BY <3>1, <3>2, <4>1 DEF AuthorStep, WriteVersionSave, WriteVersionDelete,
               WriteAuthorRename, Push_Do, Pull_Do, DoRemove, Pushed, Pulled, Removed,
               RolledBack, At
    <3>3. ASSUME NEW d \in Clients, NetworkStep(d) PROVE Answer(c)
      <4>1. d = c
        BY NowOne
      <4>2. ~Refuse(c) /\ ~GiveUp(c) /\ ~LoseAnswer(c)
        BY <2>1, <3>1, PcKeeps DEF Refuse, GiveUp, LoseAnswer, At
      <4> QED BY <3>3, <4>1, <4>2 DEF NetworkStep
    <3>4. ~ReaderGet /\ ~ReaderMerge /\ ~\E r \in late : Arrive(r)
      BY <3>1 DEF ReaderGet, ReaderMerge, Arrive
    <3>5. ~Restart
      BY <3>1 DEF Restart, Idle
    <3> QED BY <3>2, <3>3, <3>4, <3>5 DEF Next
  <2>3. PushLast(c)
    BY DEF SInv, Pushing, At
  <2>4. theirs' = Merge(theirs, call[c].req.log)
    BY <2>2 DEF Answer, Handle, put, get, del
  <2>5. theirs' = call[c].req.log
    <3>1. CASE Len(call[c].req.log) > Len(theirs)
      BY <2>4, <3>1 DEF Merge
    <3>2. CASE ~(Len(call[c].req.log) > Len(theirs))
      <4>1. theirs \in Circulating
        BY DEF Circulating
      <4>2. /\ theirs \in Seq(Op) /\ mine \in Seq(Op) /\ Near(theirs, mine)
            /\ Len(theirs) = Len(mine) /\ mine # <<>> /\ mine[Len(mine)] = Push(1)
        BY <2>1, <2>3, <3>2, <4>1 DEF SInv, TypeOK, PushLast
      <4>3. \A i \in 1 .. Len(theirs) : theirs[i] = mine[i]
        BY <4>2 DEF Near
      <4>4. theirs = mine
        BY <4>2, <4>3, SeqEqual
      <4> QED BY <2>3, <2>4, <3>2, <4>4 DEF Merge, PushLast
    <3> QED BY <3>1, <3>2
  <2>6. Strip(theirs') \in Seq(Op)
    BY <2>1, StripType DEF TypeOK
  <2> QED BY <2>5, <2>6 DEF IsPrefix
<1>2. Spec => []SInv
  BY Inductive
<1>3. Spec => [][P]_vars
  BY <1>1, <1>2, PTL DEF Spec
<1> QED BY <1>3 DEF PushPlacesLog
=============================================================================
