-------------------------- MODULE TransformProofs --------------------------
(***************************************************************************)
(* Proofs about transforms, for any number of runs that share the bus and  *)
(* the network guard, any plans, and scripts that make any calls.          *)
(***************************************************************************)
EXTENDS Transform, TLAPS

-----------------------------------------------------------------------------
(* Records. *)

\* Where a runner is at work.
Working == {"loop", "exec", "script", "failed", "stepEnd"}

\* Where a runner is, or will be when its event has been taken.
Pc(m) == IF m.pc = "send" THEN m.then ELSE m.pc

\* What runners of two states have in common.
SameBody(m, n) ==
  /\ m.mod = n.mod /\ m.cached = n.cached /\ m.plan = n.plan /\ m.phase = n.phase
  /\ m.status = n.status /\ m.err = n.err /\ m.calls = n.calls
SameWork(m, n) == SameBody(m, n) /\ m.i = n.i /\ m.did = n.did

\* A runner that sends an event keeps the rest of its state.
LEMMA SendFacts ==
  ASSUME NEW m \in RunnerState, NEW e \in EventRecord, NEW p \in RunnerPcs
  PROVE  /\ Send(m, e, p) \in RunnerState
         /\ Send(m, e, p).pc = "send" /\ Send(m, e, p).out = e /\ Send(m, e, p).then = p
         /\ SameWork(Send(m, e, p), m)
BY DEF Send, SameWork, SameBody, RunnerState, RunnerPcs

\* Replacing the reported steps, and the count of steps, leaves a runner.
LEMMA DidFacts ==
  ASSUME NEW m \in RunnerState, NEW d \in Seq(StepState), NEW n \in Nat
  PROVE  LET x == [m EXCEPT !.did = d]
             y == [m EXCEPT !.i = n, !.did = d]
         IN  /\ x \in RunnerState /\ y \in RunnerState
             /\ x.did = d /\ y.did = d /\ x.i = m.i /\ y.i = n
             /\ x.pc = m.pc /\ y.pc = m.pc
             /\ SameBody(x, m) /\ SameBody(y, m)
BY DEF SameBody, RunnerState

\* Counting an output changes no step's place.
LEMMA CountFacts ==
  ASSUME NEW did \in Seq(StepState)
  PROVE  CountOutput(did) \in Seq(StepState) /\ Len(CountOutput(did)) = Len(did)
<1>1. CASE did = <<>>
  BY <1>1 DEF CountOutput
<1>2. CASE did # <<>>
  <2> DEFINE x == [did[Len(did)] EXCEPT !.output = @ + 1]
  <2>1. Len(did) \in 1 .. Len(did) /\ did[Len(did)] \in StepState
    BY <1>2
  <2>2. x \in StepState
    BY <2>1 DEF StepState
  <2> HIDE DEF x
  <2>3. /\ [did EXCEPT ![Len(did)] = x] \in Seq(StepState)
        /\ Len([did EXCEPT ![Len(did)] = x]) = Len(did)
    BY <2>1, <2>2
  <2> QED BY <1>2, <2>3 DEF CountOutput, x
<1> QED BY <1>1, <1>2

\* Giving the last step its status changes no step's place.
LEMMA StatusFacts ==
  ASSUME NEW did \in Seq(StepState), NEW s \in Outcomes
  PROVE  LET d == [did EXCEPT ![Len(did)].status = s]
         IN  d \in Seq(StepState) /\ Len(d) = Len(did)
<1>1. CASE did = <<>>
  <2>1. [did EXCEPT ![Len(did)].status = s] = did
    BY <1>1
  <2> QED BY <2>1
<1>2. CASE did # <<>>
  <2> DEFINE x == [did[Len(did)] EXCEPT !.status = s]
  <2>1. Len(did) \in 1 .. Len(did) /\ did[Len(did)] \in StepState
    BY <1>2
  <2>2. x \in StepState
    BY <2>1 DEF StepState, Outcomes
  <2> HIDE DEF x
  <2>3. /\ [did EXCEPT ![Len(did)] = x] \in Seq(StepState)
        /\ Len([did EXCEPT ![Len(did)] = x]) = Len(did)
    BY <2>1, <2>2
  <2> QED BY <1>2, <2>3 DEF x
<1> QED BY <1>1, <1>2

\* A runner that sends an output counts it first.
LEMMA OutputFacts ==
  ASSUME NEW m \in RunnerState, NEW type \in {"print", "error", "preview"}, NEW p \in RunnerPcs
  PROVE  LET x == Output(m, type, p)
         IN  /\ x \in RunnerState
             /\ x.pc = "send" /\ x.out = Event(type, "none") /\ x.then = p
             /\ SameBody(x, m) /\ x.i = m.i /\ x.did = CountOutput(m.did)
<1> DEFINE d  == CountOutput(m.did)
           m1 == [m EXCEPT !.did = d]
           e  == Event(type, "none")
<1>1. m.did \in Seq(StepState) /\ m.i \in Nat
  BY DEF RunnerState
<1>2. d \in Seq(StepState)
  BY <1>1, CountFacts
<1>3. e \in EventRecord
  BY DEF Event, EventRecord
<1>4. Output(m, type, p) = Send(m1, e, p)
  BY Zenon DEF Output
<1> HIDE DEF d, e
<1>5. m1 \in RunnerState /\ m1.did = d /\ m1.i = m.i /\ SameBody(m1, m)
  BY <1>1, <1>2, DidFacts
<1> HIDE DEF m1
<1>6. /\ Send(m1, e, p) \in RunnerState
      /\ Send(m1, e, p).pc = "send" /\ Send(m1, e, p).out = e /\ Send(m1, e, p).then = p
      /\ SameWork(Send(m1, e, p), m1)
  BY <1>3, <1>5, SendFacts
<1> QED BY <1>4, <1>5, <1>6 DEF SameWork, SameBody, d, e

\* A call that is counted changes nothing else.
LEMMA CalledFacts ==
  ASSUME NEW m \in RunnerState
  PROVE  Called(m) \in RunnerState /\ Called(m) = [m EXCEPT !.calls = m.calls + 1]
BY DEF Called, RunnerState

\* Nor does one that tells what the script has of the body.
LEMMA CalledBodyFacts ==
  ASSUME NEW m \in RunnerState, NEW mod \in BOOLEAN, NEW cached \in BOOLEAN
  PROVE  LET n == [Called(m) EXCEPT !.mod = mod, !.cached = cached]
         IN  /\ n \in RunnerState /\ n.mod = mod /\ n.cached = cached
             /\ n.pc = m.pc /\ n.phase = m.phase /\ n.plan = m.plan /\ n.status = m.status
             /\ n.out = m.out /\ n.did = m.did /\ n.i = m.i
<1> DEFINE x == Called(m)
<1>1. x \in RunnerState /\ x = [m EXCEPT !.calls = m.calls + 1]
  BY CalledFacts
<1> HIDE DEF x
<1>2. /\ x.pc = m.pc /\ x.phase = m.phase /\ x.plan = m.plan /\ x.status = m.status
      /\ x.out = m.out /\ x.did = m.did /\ x.i = m.i
  BY <1>1 DEF RunnerState
<1> DEFINE n == [x EXCEPT !.mod = mod, !.cached = cached]
<1>3. /\ n \in RunnerState /\ n.mod = mod /\ n.cached = cached
      /\ n.pc = x.pc /\ n.phase = x.phase /\ n.plan = x.plan /\ n.status = x.status
      /\ n.out = x.out /\ n.did = x.did /\ n.i = x.i
  BY <1>1 DEF RunnerState
<1> QED BY <1>2, <1>3 DEF x

\* Putting a record back changes the run's state alone.
LEMMA PutFacts ==
  ASSUME NEW S, NEW f \in [Runs -> S], NEW r \in Runs, NEW x \in S
  PROVE  /\ [f EXCEPT ![r] = x] \in [Runs -> S]
         /\ [f EXCEPT ![r] = x][r] = x
         /\ \A q \in Runs \ {r} : [f EXCEPT ![r] = x][q] = f[q]
OBVIOUS

-----------------------------------------------------------------------------
(* What a script can do: the inductive invariant. *)

\* The body a step has set is the dataset's, and what get_body keeps is that
\* body; what the user supplied is there.
BodyMeant(m, t) ==
  /\ m.mod => t.now["body"] = "script"
  /\ m.mod /\ m.cached => t.read = "script"
  /\ \A k \in t.user : t.now[k] = "user"

\* The end of a step comes with its outcome.
EventMeant(e) == e.type = "stepStop" => e.status \in Outcomes

\* Of one run, by its caller, runner, forwarder and dataset: who has an event in
\* his hands, when the runner exists, and where its bodies come from.
SafeRun(c, m, f, t) ==
  /\ m.pc = "send" => m.then \in Working \union {"done"}
  /\ m.pc # "send" => m.out = NoEvent
  /\ m.pc \in {"none", "early", "fork"} => f.pc = "none"
  /\ f.pc \in {"none", "select", "exit"} => f.event = NoEvent
  /\ EventMeant(m.out) /\ EventMeant(f.event)
  /\ c.pc \in {"idle", "subscribe", "apply"} => m.pc = "none" /\ ~m.mod
  /\ BodyMeant(m, t)

AllSafe == \A r \in Runs : SafeRun(caller[r], runner[r], fwd[r], target[r])

\* A runner in its download function will turn the network off.
Downloading(m) == m.phase = "download" /\ Pc(m) = "script"
NetForDownload == net => \E r \in Runs : Downloading(runner[r])

SandboxInv == TypeOK /\ AllSafe /\ NetForDownload

\* The network after a step of a runner: on only if it was before, or if this
\* runner is in its download function.
NetMeant(m, n) ==
  net' \in BOOLEAN /\ (net' => Downloading(n) \/ (net /\ ~Downloading(m)))

-----------------------------------------------------------------------------
(* The moves of a runner between two events, by what they tell the world. *)

\* Nothing is told.
Quiet(m, n) ==
  /\ m.pc \in {"exec", "script"} /\ n.pc \in {"script", "failed", "stepEnd"}
  /\ n.out = m.out /\ n.did = m.did /\ n.i = m.i /\ n.status = m.status

Sends(n, e, p) == n.pc = "send" /\ n.out = e /\ n.then = p

\* An output of the script, or the error that ends it.
Tells(m, n) ==
  /\ n.did = CountOutput(m.did) /\ n.i = m.i
  /\ \/ /\ m.pc = "script" /\ n.status = m.status
        /\ Sends(n, Event("print", "none"), "script") \/ Sends(n, Event("preview", "none"), "stepEnd")
     \/ m.pc = "failed" /\ n.status = "failed" /\ Sends(n, Event("error", "none"), "stepEnd")

\* A step begins or is skipped.
Begins(m, n) ==
  /\ m.pc = "loop" /\ m.i <= Len(m.plan) /\ n.status = m.status
  /\ \/ /\ n.i = m.i /\ n.did = Append(m.did, [status |-> "running", output |-> 0])
        /\ Sends(n, Event("stepStart", "none"), "exec")
     \/ /\ n.i = m.i + 1 /\ n.did = Append(m.did, [status |-> "skipped", output |-> 0])
        /\ Sends(n, Event("stepSkip", "none"), "loop")

\* A step ends.
Ends(m, n) ==
  /\ m.pc = "stepEnd" /\ m.plan # <<>> /\ n.status = m.status
  /\ n.i = m.i + 1 /\ n.did = [m.did EXCEPT ![Len(m.did)].status = m.status]
  /\ Sends(n, Event("stepStop", m.status), "loop")

\* The run ends.
Stops(m, n) ==
  /\ (m.pc = "loop" /\ m.i > Len(m.plan)) \/ (m.pc = "stepEnd" /\ m.plan = <<>>)
  /\ n.i = m.i /\ n.did = m.did /\ n.status = m.status
  /\ Sends(n, Event("stop", m.status), "done")

Works(m, n) ==
  n.plan = m.plan /\ (Quiet(m, n) \/ Tells(m, n) \/ Begins(m, n) \/ Ends(m, n) \/ Stops(m, n))

\* A step of the runner of r, in its own state, its dataset and the network.
Move(r) ==
  /\ runner' \in [Runs -> RunnerState] /\ target' \in [Runs -> TargetState]
  /\ \A q \in Runs \ {r} : runner'[q] = runner[q] /\ target'[q] = target[q]
  /\ Works(runner[r], runner'[r])
  /\ BodyMeant(runner'[r], target'[r])
  /\ NetMeant(runner[r], runner'[r])
  /\ Others(r)

\* A step that leaves the dataset alone, and keeps or forgets what the script
\* has of its body.
LEMMA PlainMove ==
  ASSUME TypeOK, NEW r \in Runs, BodyMeant(runner[r], target[r]),
         NEW n \in RunnerState, runner' = [runner EXCEPT ![r] = n],
         Works(runner[r], n),
         ~n.mod \/ (n.mod = runner[r].mod /\ n.cached = runner[r].cached),
         NetMeant(runner[r], n),
         UNCHANGED target, Others(r)
  PROVE  Move(r)
<1>1. /\ runner' \in [Runs -> RunnerState] /\ runner'[r] = n
      /\ \A q \in Runs \ {r} : runner'[q] = runner[q]
  BY DEF TypeOK
<1>2. BodyMeant(n, target[r])
  BY DEF BodyMeant
<1>3. target' \in [Runs -> TargetState] /\ target' = target
  BY DEF TypeOK
<1> QED BY <1>1, <1>2, <1>3 DEF Move

\* A runner that is not in its download function leaves the network alone.
LEMMA NetKept ==
  ASSUME net \in BOOLEAN, UNCHANGED net, NEW m, NEW n, Downloading(m) => Downloading(n)
  PROVE  NetMeant(m, n)
BY DEF NetMeant

\* A script that fails leaves its download function, if it was in it.
LEMMA FailsMoves ==
  ASSUME TypeOK, NEW r \in Runs, BodyMeant(runner[r], target[r]),
         runner[r].pc = "script", Fails(r), UNCHANGED target
  PROVE  Move(r)
<1> DEFINE n == [runner[r] EXCEPT !.pc = "failed", !.err = TRUE]
<1>1. runner[r] \in RunnerState /\ net \in BOOLEAN
  BY DEF TypeOK
<1>2. /\ n \in RunnerState /\ n.mod = runner[r].mod
      /\ n.cached = runner[r].cached /\ Works(runner[r], n)
  BY <1>1 DEF RunnerState, RunnerPcs, Works, Quiet
<1>3. runner' = [runner EXCEPT ![r] = n]
  BY DEF Fails, TypeOK
<1>4. Others(r) /\ net' = IF runner[r].phase = "download" THEN FALSE ELSE net
  BY DEF Fails
<1>5. NetMeant(runner[r], n)
  BY <1>1, <1>4 DEF Downloading, NetMeant
<1> HIDE DEF n
<1> QED BY <1>2, <1>3, <1>4, <1>5, PlainMove

\* A call that only counts.
LEMMA CalledMoves ==
  ASSUME TypeOK, NEW r \in Runs, BodyMeant(runner[r], target[r]),
         runner[r].pc = "script", runner' = [runner EXCEPT ![r] = Called(@)],
         UNCHANGED <<target, net>>, Others(r)
  PROVE  Move(r)
<1> DEFINE n == Called(runner[r])
<1>1. runner[r] \in RunnerState /\ net \in BOOLEAN
  BY DEF TypeOK
<1>2. n \in RunnerState /\ n = [runner[r] EXCEPT !.calls = runner[r].calls + 1]
  BY <1>1, CalledFacts
<1>3. runner' = [runner EXCEPT ![r] = n]
  OBVIOUS
<1> HIDE DEF n
<1>4. /\ n.mod = runner[r].mod /\ n.cached = runner[r].cached /\ n.pc = "script"
      /\ Works(runner[r], n) /\ n.phase = runner[r].phase
  BY <1>1, <1>2 DEF RunnerState, Works, Quiet
<1>5. NetMeant(runner[r], n)
  BY <1>1, <1>4, NetKept DEF Downloading, Pc
<1> QED BY <1>2, <1>3, <1>4, <1>5, PlainMove

\* The loop over the steps, and the end of each.
LEMMA LoopMoves ==
  ASSUME TypeOK, NEW r \in Runs, BodyMeant(runner[r], target[r]),
         NextStep(r) \/ StepEnd(r)
  PROVE  Move(r)
<1> DEFINE m == runner[r]
           k == m.i + 1
           stop == Event("stop", m.status)
           stepStop == Event("stepStop", m.status)
<1>1. m \in RunnerState /\ net \in BOOLEAN /\ m.did \in Seq(StepState) /\ k \in Nat /\ m.i \in Nat
      /\ m.plan \in Seq(StepKinds)
  BY DEF TypeOK, RunnerState
<1>2. \A s \in {"none", "succeeded", "failed"} :
         /\ Event("stop", s) \in EventRecord /\ Event("stepStop", s) \in EventRecord
         /\ Event("stepSkip", s) \in EventRecord /\ Event("stepStart", s) \in EventRecord
  BY DEF Event, EventRecord, Outcomes
<1>3. /\ stop \in EventRecord /\ Event("stepSkip", "none") \in EventRecord
      /\ Event("stepStart", "none") \in EventRecord /\ stepStop \in EventRecord
      /\ "done" \in RunnerPcs /\ "loop" \in RunnerPcs /\ "exec" \in RunnerPcs
  BY <1>1, <1>2 DEF RunnerState, Outcomes, RunnerPcs
<1>4. ASSUME NEW x \in RunnerState, NEW e \in EventRecord, NEW p \in RunnerPcs, SameBody(x, m),
             runner' = [runner EXCEPT ![r] = Send(x, e, p)], Others(r), UNCHANGED <<target, net>>,
             m.pc \in {"loop", "stepEnd"},
             Works(m, Send(x, e, p))
      PROVE  Move(r)
  <2> DEFINE n == Send(x, e, p)
  <2>1. n \in RunnerState /\ SameWork(n, x)
    BY SendFacts
  <2>2. n.mod = m.mod /\ n.cached = m.cached
    BY <1>4, <2>1 DEF SameWork, SameBody
  <2>3. NetMeant(m, n)
    BY <1>1, <1>4, NetKept DEF Downloading, Pc
  <2> HIDE DEF n
  <2> QED BY <1>4, <2>1, <2>2, <2>3, PlainMove DEF n
<1> HIDE DEF k, stop, stepStop
<1>5. CASE NextStep(r) /\ m.i > Len(m.plan)
  <2>1. runner' = [runner EXCEPT ![r] = Send(m, stop, "done")]
    BY <1>5 DEF NextStep, Plan, k, stop
  <2>2. Works(m, Send(m, stop, "done"))
    <3> DEFINE n == Send(m, stop, "done")
    <3>1. /\ n.pc = "send" /\ n.out = stop /\ n.then = "done"
          /\ SameWork(n, m)
      BY <1>1, <1>3, SendFacts
    <3> HIDE DEF n
    <3>2. n.plan = m.plan /\ n.status = m.status /\ n.i = m.i /\ n.did = m.did
      BY <3>1 DEF SameWork, SameBody
    <3>3. Stops(m, n)
      BY <1>5, <3>1, <3>2 DEF Stops, Sends, NextStep, stop
    <3> QED BY <3>2, <3>3 DEF Works, n
  <2> QED BY <1>1, <1>3, <1>4, <1>5, <2>1, <2>2 DEF NextStep, SameBody
<1>6. CASE NextStep(r) /\ m.i <= Len(m.plan) /\ m.status # "succeeded"
  <2> DEFINE d == Append(m.did, [status |-> "skipped", output |-> 0])
             x == [m EXCEPT !.i = k, !.did = d]
  <2>1. d \in Seq(StepState)
    BY <1>1 DEF StepState
  <2>2. runner' = [runner EXCEPT ![r] = Send(x, Event("stepSkip", "none"), "loop")]
    <3>1. ~(m.i > Len(m.plan))
      BY <1>1, <1>6
    <3> QED BY <1>6, <3>1, Zenon DEF NextStep, Plan, k, stop
  <2> HIDE DEF d
  <2>3. x \in RunnerState /\ SameBody(x, m) /\ x.did = d /\ x.i = k
    BY <1>1, <2>1 DEF RunnerState, SameBody
  <2> HIDE DEF x
  <2>4. Works(m, Send(x, Event("stepSkip", "none"), "loop"))
    <3> DEFINE n == Send(x, Event("stepSkip", "none"), "loop")
    <3>1. /\ n.pc = "send" /\ n.out = Event("stepSkip", "none") /\ n.then = "loop"
          /\ SameWork(n, x)
      BY <1>3, <2>3, SendFacts
    <3> HIDE DEF n
    <3>2. n.plan = m.plan /\ n.status = m.status /\ n.i = k /\ n.did = d
      BY <2>3, <3>1 DEF SameWork, SameBody
    <3>3. Begins(m, n)
      BY <1>6, <3>1, <3>2 DEF Begins, Sends, NextStep, d, k
    <3> QED BY <3>2, <3>3 DEF Works, n
  <2> QED BY <1>3, <1>4, <1>6, <2>2, <2>3, <2>4 DEF NextStep
<1>7. CASE NextStep(r) /\ m.i <= Len(m.plan) /\ m.status = "succeeded"
  <2> DEFINE d == Append(m.did, [status |-> "running", output |-> 0])
             x == [m EXCEPT !.did = d]
  <2>1. d \in Seq(StepState)
    BY <1>1 DEF StepState
  <2>2. runner' = [runner EXCEPT ![r] = Send(x, Event("stepStart", "none"), "exec")]
    <3>1. ~(m.i > Len(m.plan))
      BY <1>1, <1>7
    <3> QED BY <1>7, <3>1, Zenon DEF NextStep, Plan, k, stop
  <2> HIDE DEF d
  <2>3. x \in RunnerState /\ SameBody(x, m) /\ x.did = d /\ x.i = m.i
    BY <1>1, <2>1, DidFacts
  <2> HIDE DEF x
  <2>4. Works(m, Send(x, Event("stepStart", "none"), "exec"))
    <3> DEFINE n == Send(x, Event("stepStart", "none"), "exec")
    <3>1. /\ n.pc = "send" /\ n.out = Event("stepStart", "none") /\ n.then = "exec"
          /\ SameWork(n, x)
      BY <1>3, <2>3, SendFacts
    <3> HIDE DEF n
    <3>2. n.plan = m.plan /\ n.status = m.status /\ n.i = m.i /\ n.did = d
      BY <2>3, <3>1 DEF SameWork, SameBody
    <3>3. Begins(m, n)
      BY <1>7, <3>1, <3>2 DEF Begins, Sends, NextStep, d, k
    <3> QED BY <3>2, <3>3 DEF Works, n
  <2> QED BY <1>3, <1>4, <1>7, <2>2, <2>3, <2>4 DEF NextStep
<1>8. CASE StepEnd(r) /\ m.plan = <<>>
  <2>1. runner' = [runner EXCEPT ![r] = Send(m, stop, "done")]
    BY <1>8 DEF StepEnd, Plan, stop
  <2>2. Works(m, Send(m, stop, "done"))
    <3> DEFINE n == Send(m, stop, "done")
    <3>1. /\ n.pc = "send" /\ n.out = stop /\ n.then = "done"
          /\ SameWork(n, m)
      BY <1>1, <1>3, SendFacts
    <3> HIDE DEF n
    <3>2. n.plan = m.plan /\ n.status = m.status /\ n.i = m.i /\ n.did = m.did
      BY <3>1 DEF SameWork, SameBody
    <3>3. Stops(m, n)
      BY <1>8, <3>1, <3>2 DEF Stops, Sends, StepEnd, stop
    <3> QED BY <3>2, <3>3 DEF Works, n
  <2> QED BY <1>1, <1>3, <1>4, <1>8, <2>1, <2>2 DEF StepEnd, SameBody
<1>9. CASE StepEnd(r) /\ m.plan # <<>>
  <2> DEFINE d == [m.did EXCEPT ![Len(m.did)].status = m.status]
             x == [m EXCEPT !.i = k, !.did = d]
  <2>1. d \in Seq(StepState)
    BY <1>1, StatusFacts DEF RunnerState
  <2>2. runner' = [runner EXCEPT ![r] = Send(x, stepStop, "loop")]
    BY <1>1, <1>9 DEF StepEnd, Plan, RunnerState, k, stepStop
  <2> HIDE DEF d
  <2>3. x \in RunnerState /\ SameBody(x, m) /\ x.did = d /\ x.i = k
    BY <1>1, <2>1 DEF RunnerState, SameBody
  <2> HIDE DEF x
  <2>4. Works(m, Send(x, stepStop, "loop"))
    <3> DEFINE n == Send(x, stepStop, "loop")
    <3>1. /\ n.pc = "send" /\ n.out = stepStop /\ n.then = "loop"
          /\ SameWork(n, x)
      BY <1>3, <2>3, SendFacts
    <3> HIDE DEF n
    <3>2. n.plan = m.plan /\ n.status = m.status /\ n.i = k /\ n.did = d
      BY <2>3, <3>1 DEF SameWork, SameBody
    <3>3. Ends(m, n)
      BY <1>9, <3>1, <3>2 DEF Ends, Sends, StepEnd, d, k, stepStop
    <3> QED BY <3>2, <3>3 DEF Works, n
  <2> QED BY <1>3, <1>4, <1>9, <2>2, <2>3, <2>4 DEF StepEnd
<1>10. m.i > Len(m.plan) \/ m.i <= Len(m.plan)
  BY <1>1
<1> QED BY <1>5, <1>6, <1>7, <1>8, <1>9, <1>10

\* A step is dispatched, or a script without steps begins.
LEMMA DispatchMoves ==
  ASSUME TypeOK, NEW r \in Runs, BodyMeant(runner[r], target[r]),
         RunStep(r) \/ ExecScript(r)
  PROVE  Move(r)
<1> DEFINE m == runner[r]
           a == [m EXCEPT !.pc = "stepEnd"]
           b == [m EXCEPT !.pc = "failed"]
           c == [m EXCEPT !.pc = "failed", !.err = TRUE]
           d == [m EXCEPT !.pc = "script", !.phase = "top"]
<1>1. m \in RunnerState /\ net \in BOOLEAN
  BY DEF TypeOK
<1>2. m.pc = "exec" /\ Others(r) /\ UNCHANGED target /\ UNCHANGED net
  BY DEF RunStep, ExecScript
<1>3. PICK n \in {a, b, c, d} : runner' = [runner EXCEPT ![r] = n]
  <2>1. CASE RunStep(r)
    BY <2>1, Zenon DEF RunStep
  <2>2. CASE ExecScript(r)
    BY <2>2 DEF ExecScript, TypeOK
  <2> QED BY <2>1, <2>2
<1>4. /\ n \in RunnerState /\ n.mod = m.mod /\ n.cached = m.cached
      /\ Works(m, n)
  BY <1>1, <1>2 DEF RunnerState, RunnerPcs, Works, Quiet
<1>5. NetMeant(m, n)
  BY <1>1, <1>2, NetKept DEF Downloading, Pc
<1> HIDE DEF m
<1> QED BY <1>2, <1>3, <1>4, <1>5, PlainMove DEF m

\* A script prints, and a step that fails tells so.
LEMMA TellMoves ==
  ASSUME TypeOK, NEW r \in Runs, BodyMeant(runner[r], target[r]),
         ScriptPrint(r) \/ Failed(r)
  PROVE  Move(r)
<1> DEFINE m == runner[r]
<1>1. m \in RunnerState /\ net \in BOOLEAN
  BY DEF TypeOK
<1>2. Others(r) /\ UNCHANGED target /\ UNCHANGED net
  BY DEF ScriptPrint, Failed
<1>3. CASE ScriptPrint(r)
  <2> DEFINE x == Called(m)
             n == Output(x, "print", "script")
  <2>1. runner' = [runner EXCEPT ![r] = n] /\ m.pc = "script"
    BY <1>3 DEF ScriptPrint, Calling
  <2>2. x \in RunnerState /\ x = [m EXCEPT !.calls = m.calls + 1]
    BY <1>1, CalledFacts
  <2> HIDE DEF x
  <2>3. x.mod = m.mod /\ x.cached = m.cached /\ x.phase = m.phase /\ x.plan = m.plan
        /\ x.did = m.did /\ x.i = m.i /\ x.status = m.status
    BY <1>1, <2>2 DEF RunnerState
  <2>4. /\ n \in RunnerState
        /\ n.pc = "send" /\ n.out = Event("print", "none") /\ n.then = "script"
        /\ SameBody(n, x) /\ n.i = x.i /\ n.did = CountOutput(x.did)
    <3>1. "print" \in {"print", "error", "preview"} /\ "script" \in RunnerPcs
      BY DEF RunnerPcs
    <3> QED BY <2>2, <3>1, OutputFacts
  <2> HIDE DEF n
  <2>5. Works(m, n) /\ n.mod = m.mod /\ n.cached = m.cached /\ n.phase = m.phase
    BY <2>1, <2>3, <2>4 DEF Works, Tells, Sends, SameBody
  <2>6. NetMeant(m, n)
    BY <1>1, <1>2, <2>1, <2>4, <2>5, NetKept DEF Downloading, Pc
  <2> QED BY <1>2, <2>1, <2>4, <2>5, <2>6, PlainMove
<1>4. CASE Failed(r)
  <2> DEFINE x == [m EXCEPT !.status = "failed"]
             n == Output(x, "error", "stepEnd")
  <2>1. runner' = [runner EXCEPT ![r] = n] /\ m.pc = "failed"
    BY <1>4 DEF Failed
  <2>2. /\ x \in RunnerState /\ x.mod = m.mod /\ x.cached = m.cached /\ x.plan = m.plan
        /\ x.did = m.did /\ x.i = m.i /\ x.status = "failed"
    BY <1>1 DEF RunnerState, Outcomes
  <2> HIDE DEF x
  <2>3. /\ n \in RunnerState
        /\ n.pc = "send" /\ n.out = Event("error", "none") /\ n.then = "stepEnd"
        /\ SameBody(n, x) /\ n.i = x.i /\ n.did = CountOutput(x.did)
    <3>1. "error" \in {"print", "error", "preview"} /\ "stepEnd" \in RunnerPcs
      BY DEF RunnerPcs
    <3> QED BY <2>2, <3>1, OutputFacts
  <2> HIDE DEF n
  <2>4. Works(m, n) /\ n.mod = m.mod /\ n.cached = m.cached
    BY <2>1, <2>2, <2>3 DEF Works, Tells, Sends, SameBody
  <2>5. NetMeant(m, n)
    BY <1>1, <1>2, <2>1, NetKept DEF Downloading, Pc
  <2> QED BY <1>2, <2>1, <2>3, <2>4, <2>5, PlainMove
<1> QED BY <1>3, <1>4

\* The phases of a script.
LEMMA PhaseMoves ==
  ASSUME TypeOK, NEW r \in Runs, BodyMeant(runner[r], target[r]),
         CallStepFunc(r) \/ LeaveDownload(r) \/ ScriptDownload(r) \/ ScriptTransform(r) \/ ScriptEnd(r)
  PROVE  Move(r)
<1> DEFINE m == runner[r]
           a == [m EXCEPT !.pc = "stepEnd"]
           b == [m EXCEPT !.pc = "failed", !.err = TRUE]
           c == [m EXCEPT !.phase = "download", !.mod = FALSE, !.cached = FALSE]
           d == [m EXCEPT !.phase = "transform", !.mod = FALSE, !.cached = FALSE]
           e == [m EXCEPT !.phase = "download"]
           f == [m EXCEPT !.phase = "transform"]
<1>1. m \in RunnerState /\ net \in BOOLEAN
  BY DEF TypeOK
<1>2. m.pc = "script" /\ Others(r) /\ UNCHANGED target
  BY DEF CallStepFunc, LeaveDownload, ScriptDownload, ScriptTransform, ScriptEnd
<1>3. PICK n \in {a, b, c, d, e, f} :
         /\ runner' = [runner EXCEPT ![r] = n]
         /\ \/ n \in {a, b} /\ (net' = FALSE \/ (net' = net /\ m.phase # "download"))
            \/ n \in {c, e} /\ net' \in BOOLEAN
            \/ n \in {d, f} /\ (net' = FALSE \/ (net' = net /\ m.phase # "download"))
  <2>1. CASE CallStepFunc(r)
    BY <1>1, <2>1 DEF CallStepFunc, TypeOK
  <2>2. CASE LeaveDownload(r)
    BY <1>1, <2>2 DEF LeaveDownload, TypeOK
  <2>3. CASE ScriptDownload(r)
    BY <1>1, <2>3 DEF ScriptDownload, TypeOK
  <2>4. CASE ScriptTransform(r)
    BY <1>1, <2>4 DEF ScriptTransform, TypeOK
  <2>5. CASE ScriptEnd(r)
    BY <1>1, <2>5 DEF ScriptEnd, TypeOK
  <2> QED BY <2>1, <2>2, <2>3, <2>4, <2>5
<1>4. /\ n \in RunnerState /\ Works(m, n)
      /\ ~n.mod \/ (n.mod = m.mod /\ n.cached = m.cached)
  BY <1>1, <1>2, <1>3 DEF RunnerState, RunnerPcs, Works, Quiet
<1>5. NetMeant(m, n)
  <2>1. /\ a.pc = "stepEnd" /\ b.pc = "failed"
        /\ c.pc = "script" /\ c.phase = "download" /\ e.pc = "script" /\ e.phase = "download"
    BY <1>1, <1>2 DEF RunnerState
  <2> HIDE DEF a, b, c, d, e, f
  <2>2. CASE n \in {c, e}
    BY <1>1, <1>3, <2>1, <2>2 DEF Downloading, Pc, NetMeant
  <2>3. CASE n \notin {c, e}
    <3>1. net' = FALSE \/ (net' = net /\ m.phase # "download")
      BY <1>3, <2>3
    <3>2. net' \in BOOLEAN /\ (net' => net /\ m.phase # "download")
      <4>1. CASE net' = FALSE
        BY <4>1
      <4>2. CASE net' = net /\ m.phase # "download"
        BY <1>1, <4>2
      <4> QED BY <3>1, <4>1, <4>2
    <3> QED BY <3>2, Zenon DEF Downloading, NetMeant
  <2> QED BY <2>2, <2>3
<1> HIDE DEF m
<1> QED BY <1>2, <1>3, <1>4, <1>5, PlainMove DEF m

\* A step that changes the dataset too.
LEMMA TargetMove ==
  ASSUME TypeOK, NEW r \in Runs, NEW n \in RunnerState, NEW t \in TargetState,
         runner' = [runner EXCEPT ![r] = n], target' = [target EXCEPT ![r] = t],
         Works(runner[r], n), BodyMeant(n, t), NetMeant(runner[r], n), Others(r)
  PROVE  Move(r)
<1>1. /\ runner' \in [Runs -> RunnerState] /\ runner'[r] = n
      /\ \A q \in Runs \ {r} : runner'[q] = runner[q]
  BY DEF TypeOK
<1>2. /\ target' \in [Runs -> TargetState] /\ target'[r] = t
      /\ \A q \in Runs \ {r} : target'[q] = target[q]
  BY DEF TypeOK
<1> QED BY <1>1, <1>2 DEF Move

\* Calls that change nothing, or end the script.
LEMMA CallMoves ==
  ASSUME TypeOK, NEW r \in Runs, BodyMeant(runner[r], target[r]),
         LoadDataset(r) \/ Error(r) \/ HTTPGet(r)
  PROVE  Move(r)
<1>1. runner[r].pc = "script" /\ UNCHANGED target
  BY DEF LoadDataset, Error, HTTPGet, Calling
<1>2. \/ runner' = [runner EXCEPT ![r] = Called(@)] /\ UNCHANGED net /\ Others(r)
      \/ Fails(r)
  BY Zenon DEF LoadDataset, Error, HTTPGet
<1> QED BY <1>1, <1>2, CalledMoves, FailsMoves

\* set_meta and set_structure: what the user supplied is not set.
LEMMA SetMoves ==
  ASSUME TypeOK, NEW r \in Runs, BodyMeant(runner[r], target[r]),
         SetMeta(r) \/ SetStructure(r)
  PROVE  Move(r)
<1> DEFINE m == runner[r]
           t == target[r]
<1>1. m \in RunnerState /\ net \in BOOLEAN /\ m.pc = "script" /\ t \in TargetState
  BY DEF TypeOK, SetMeta, SetStructure, InTransform, Calling
<1>2. CASE Fails(r) /\ UNCHANGED target
  BY <1>1, <1>2, FailsMoves
<1>3. CASE ~(Fails(r) /\ UNCHANGED target)
  <2>1. PICK k \in {"meta", "structure"} :
          /\ k \notin t.user
          /\ target' = [target EXCEPT ![r].now[k] = "script"]
          /\ runner' = [runner EXCEPT ![r] = Called(@)] /\ UNCHANGED net /\ Others(r)
    BY <1>3, Zenon DEF SetMeta, SetStructure, MutateCheck
  <2> DEFINE n == Called(m)
             u == [t EXCEPT !.now = [t.now EXCEPT ![k] = "script"]]
  <2>2. n \in RunnerState /\ n = [m EXCEPT !.calls = m.calls + 1]
    BY <1>1, CalledFacts
  <2>3. target' = [target EXCEPT ![r] = u] /\ runner' = [runner EXCEPT ![r] = n]
    BY <2>1 DEF TypeOK
  <2>4. u \in TargetState
    BY <1>1, <2>1 DEF TargetState, Components, Makers
  <2>5. u.now["body"] = t.now["body"] /\ u.read = t.read /\ \A j \in t.user : u.now[j] = t.now[j]
    BY <1>1, <2>1 DEF TargetState, Components
  <2>6. u.user = t.user
    BY <1>1 DEF TargetState
  <2> HIDE DEF u, n
  <2>7. n.mod = m.mod /\ n.cached = m.cached /\ n.phase = m.phase /\ n.pc = m.pc /\ Works(m, n)
    BY <1>1, <2>2 DEF RunnerState, Works, Quiet
  <2>8. BodyMeant(n, u)
    BY <2>5, <2>6, <2>7 DEF BodyMeant
  <2>9. NetMeant(m, n)
    BY <1>1, <2>1, <2>7, NetKept DEF Downloading, Pc
  <2> QED BY <2>1, <2>2, <2>3, <2>4, <2>7, <2>8, <2>9, TargetMove
<1> QED BY <1>2, <1>3

\* set_body: the body is the script's, and a body that was kept is forgotten.
LEMMA SetBodyMoves ==
  ASSUME TypeOK, NEW r \in Runs, BodyMeant(runner[r], target[r]), SetBody(r)
  PROVE  Move(r)
<1> DEFINE m == runner[r]
           t == target[r]
<1>1. m \in RunnerState /\ net \in BOOLEAN /\ m.pc = "script" /\ t \in TargetState
  BY DEF TypeOK, SetBody, InTransform, Calling
<1>2. CASE Fails(r) /\ UNCHANGED target
  BY <1>1, <1>2, FailsMoves
<1>3. CASE ~(Fails(r) /\ UNCHANGED target)
  <2>1. /\ "body" \notin t.user /\ "structure" \notin t.user
        /\ \E parse \in BOOLEAN :
             target' = [target EXCEPT
               ![r].now["body"] = "script",
               ![r].now["structure"] = IF parse \/ @ # "none" THEN @
                                       ELSE IF target[r].head["structure"] # "none" THEN "head"
                                       ELSE "script"]
        /\ runner' = [runner EXCEPT ![r] = [Called(@) EXCEPT !.mod = TRUE, !.cached = FALSE]]
        /\ UNCHANGED net /\ Others(r)
    BY <1>3, Zenon DEF SetBody, MutateCheck
  <2> DEFINE n == [Called(m) EXCEPT !.mod = TRUE, !.cached = FALSE]
             u(s) == [t EXCEPT !.now = [t.now EXCEPT !["body"] = "script", !["structure"] = s]]
  <2>2. PICK s \in Makers : target' = [target EXCEPT ![r] = u(s)]
    <3>1. PICK parse \in BOOLEAN :
             target' = [target EXCEPT
               ![r].now["body"] = "script",
               ![r].now["structure"] = IF parse \/ @ # "none" THEN @
                                       ELSE IF target[r].head["structure"] # "none" THEN "head"
                                       ELSE "script"]
      BY <2>1
    <3> DEFINE s == IF parse \/ t.now["structure"] # "none" THEN t.now["structure"]
                    ELSE IF t.head["structure"] # "none" THEN "head" ELSE "script"
    <3>2. target' = [target EXCEPT ![r] = u(s)]
      BY <1>1, <3>1 DEF TypeOK, TargetState, Components
    <3>3. s \in Makers
      BY <1>1 DEF TargetState, Components, Makers
    <3> QED BY <3>2, <3>3
  <2>3. /\ n \in RunnerState /\ n.mod = TRUE /\ n.cached = FALSE /\ n.phase = m.phase /\ n.pc = m.pc
        /\ Works(m, n)
    <3>1. /\ n \in RunnerState /\ n.mod = TRUE /\ n.cached = FALSE
          /\ n.pc = m.pc /\ n.phase = m.phase /\ n.plan = m.plan /\ n.status = m.status
          /\ n.out = m.out /\ n.did = m.did /\ n.i = m.i
      BY <1>1, CalledBodyFacts
    <3> HIDE DEF n
    <3> QED BY <1>1, <3>1 DEF Works, Quiet
  <2>4. /\ u(s) \in TargetState /\ u(s).now["body"] = "script" /\ u(s).user = t.user
        /\ \A j \in t.user : u(s).now[j] = t.now[j]
    BY <1>1, <2>1, <2>2 DEF TargetState, Components, Makers
  <2>5. runner' = [runner EXCEPT ![r] = n]
    BY <2>1
  <2> HIDE DEF u, n
  <2>6. BodyMeant(n, u(s))
    BY <2>3, <2>4 DEF BodyMeant
  <2>7. NetMeant(m, n)
    BY <1>1, <2>1, <2>3, NetKept DEF Downloading, Pc
  <2> QED BY <2>1, <2>2, <2>3, <2>4, <2>5, <2>6, <2>7, TargetMove
<1> QED BY <1>2, <1>3

\* get_body: what it gives once the step has set a body is that body.
LEMMA GetBodyMoves ==
  ASSUME TypeOK, NEW r \in Runs, BodyMeant(runner[r], target[r]), GetBody(r)
  PROVE  Move(r)
<1> DEFINE m == runner[r]
           t == target[r]
           from == IF m.mod THEN t.now ELSE t.head
<1>1. m \in RunnerState /\ net \in BOOLEAN /\ m.pc = "script" /\ t \in TargetState
  BY DEF TypeOK, GetBody, InTransform, Calling
<1>2. CASE Fails(r) /\ UNCHANGED target
  BY <1>1, <1>2, FailsMoves
<1>3. CASE runner' = [runner EXCEPT ![r] = Called(@)] /\ UNCHANGED <<target, net>> /\ Others(r)
  BY <1>1, <1>3, CalledMoves
<1>4. CASE /\ ~m.cached /\ from["body"] = "none"
           /\ runner' = [runner EXCEPT ![r] = Called(@)]
           /\ target' = [target EXCEPT ![r].read = "none"] /\ UNCHANGED net /\ Others(r)
  <2> DEFINE n == Called(m)
             u == [t EXCEPT !.read = "none"]
  <2>1. n = [m EXCEPT !.calls = m.calls + 1] /\ n \in RunnerState
    BY <1>1, CalledFacts
  <2>2. u \in TargetState /\ u.now = t.now /\ u.user = t.user
    BY <1>1 DEF TargetState, Makers
  <2>3. target' = [target EXCEPT ![r] = u] /\ runner' = [runner EXCEPT ![r] = n]
    BY <1>4
  <2> HIDE DEF n, u
  <2>4. /\ n.mod = m.mod /\ n.cached = m.cached /\ n.phase = m.phase /\ n.pc = m.pc /\ Works(m, n)
    BY <1>1, <2>1 DEF RunnerState, Works, Quiet
  <2>5. BodyMeant(n, u)
    BY <1>4, <2>2, <2>4 DEF BodyMeant
  <2>6. NetMeant(m, n)
    BY <1>1, <1>4, <2>4, NetKept DEF Downloading, Pc
  <2> QED BY <1>4, <2>1, <2>2, <2>3, <2>4, <2>5, <2>6, TargetMove
<1>5. CASE /\ runner' = [runner EXCEPT ![r] = [Called(@) EXCEPT !.cached = TRUE]]
           /\ target' = [target EXCEPT ![r].read = from["body"]] /\ UNCHANGED net /\ Others(r)
  <2> DEFINE n == [Called(m) EXCEPT !.cached = TRUE]
             u == [t EXCEPT !.read = from["body"]]
  <2>1. /\ n \in RunnerState /\ n.mod = m.mod
        /\ n.pc = m.pc /\ n.phase = m.phase /\ n.plan = m.plan /\ n.status = m.status
        /\ n.out = m.out /\ n.did = m.did /\ n.i = m.i
    <3>1. n = [Called(m) EXCEPT !.mod = m.mod, !.cached = TRUE] /\ m.mod \in BOOLEAN
      BY <1>1 DEF Called, RunnerState
    <3> HIDE DEF n, m, t, from, u
    <3> QED BY <1>1, <3>1, CalledBodyFacts
  <2>2. u \in TargetState /\ u.now = t.now /\ u.user = t.user /\ u.read = from["body"]
    BY <1>1 DEF TargetState, Makers, Components
  <2>3. target' = [target EXCEPT ![r] = u] /\ runner' = [runner EXCEPT ![r] = n]
    BY <1>5
  <2> HIDE DEF n, u
  <2>4. /\ n \in RunnerState
        /\ n.mod = m.mod /\ n.phase = m.phase /\ n.pc = m.pc /\ Works(m, n)
    BY <1>1, <2>1 DEF Works, Quiet
  <2>5. BodyMeant(n, u)
    BY <2>2, <2>4 DEF BodyMeant
  <2>6. NetMeant(m, n)
    BY <1>1, <1>5, <2>4, NetKept DEF Downloading, Pc
  <2> QED BY <1>5, <2>2, <2>3, <2>4, <2>5, <2>6, TargetMove
<1> QED BY <1>2, <1>3, <1>4, <1>5, Zenon DEF GetBody

\* After a transform function a structure is inferred where there is none.
LEMMA LeaveTransformMoves ==
  ASSUME TypeOK, NEW r \in Runs, BodyMeant(runner[r], target[r]), LeaveTransform(r)
  PROVE  Move(r)
<1> DEFINE m == runner[r]
           t == target[r]
<1>1. /\ m \in RunnerState /\ net \in BOOLEAN /\ m.pc = "script" /\ m.phase = "transform"
      /\ t \in TargetState /\ UNCHANGED net /\ Others(r)
  BY DEF TypeOK, LeaveTransform
<1>2. CASE /\ runner' = [runner EXCEPT ![r].pc = "failed", ![r].err = TRUE]
           /\ UNCHANGED target
  <2>1. Fails(r)
    BY <1>1, <1>2 DEF Fails
  <2> QED BY <1>1, <1>2, <2>1, FailsMoves
<1>3. CASE /\ target' = [target EXCEPT ![r].now["structure"] =
                           IF target[r].now["body"] # "none" /\ @ = "none" THEN "inferred" ELSE @]
           /\ runner' = [runner EXCEPT ![r] = Output(@, "preview", "stepEnd")]
  <2> DEFINE n == Output(m, "preview", "stepEnd")
             s == IF t.now["body"] # "none" /\ t.now["structure"] = "none" THEN "inferred"
                  ELSE t.now["structure"]
             u == [t EXCEPT !.now = [t.now EXCEPT !["structure"] = s]]
  <2>1. target' = [target EXCEPT ![r] = u] /\ runner' = [runner EXCEPT ![r] = n]
    BY <1>1, <1>3 DEF TypeOK, TargetState, Components
  <2>2. s \in Makers /\ ("structure" \in t.user => s = t.now["structure"])
    BY <1>1 DEF TargetState, Components, Makers, BodyMeant
  <2> HIDE DEF s
  <2>3. /\ u \in TargetState /\ u.now["body"] = t.now["body"] /\ u.read = t.read /\ u.user = t.user
        /\ \A j \in t.user : u.now[j] = t.now[j]
    BY <1>1, <2>2 DEF TargetState, Components
  <2>4. "preview" \in {"print", "error", "preview"} /\ "stepEnd" \in RunnerPcs
    BY DEF RunnerPcs
  <2>5. /\ n \in RunnerState
        /\ n.pc = "send" /\ n.out = Event("preview", "none") /\ n.then = "stepEnd"
        /\ SameBody(n, m) /\ n.i = m.i /\ n.did = CountOutput(m.did)
    BY <1>1, <2>4, OutputFacts
  <2> HIDE DEF n, u
  <2>6. Works(m, n) /\ n.mod = m.mod /\ n.cached = m.cached
    BY <1>1, <2>5 DEF Works, Tells, Sends, SameBody
  <2>7. BodyMeant(n, u)
    BY <2>3, <2>6 DEF BodyMeant
  <2>8. NetMeant(m, n)
    BY <1>1, NetKept DEF Downloading
  <2> QED BY <1>1, <2>1, <2>3, <2>5, <2>6, <2>7, <2>8, TargetMove
<1> QED BY <1>2, <1>3 DEF LeaveTransform

\* Every step of a runner is a move, but for those that other goroutines take
\* part in.
LEMMA RunnerMoves ==
  ASSUME TypeOK, NEW r \in Runs, BodyMeant(runner[r], target[r]), RunnerStep(r)
  PROVE  LetGo(r) \/ Fork(r) \/ Finish(r) \/ Move(r)
BY LoopMoves, DispatchMoves, TellMoves, PhaseMoves, CallMoves, SetMoves, SetBodyMoves,
   GetBodyMoves, LeaveTransformMoves, Zenon DEF RunnerStep, ScriptCall

-----------------------------------------------------------------------------
(* Every step keeps the invariant. *)

LEMMA MoveSafe ==
  ASSUME SandboxInv, NEW r \in Runs, Move(r)
  PROVE  SandboxInv'
<1> DEFINE m == runner[r]
           n == runner'[r]
<1>1. TypeOK'
  BY DEF SandboxInv, TypeOK, Move, NetMeant, Others
<1>2. AllSafe'
  <2>1. \A q \in Runs \ {r} : SafeRun(caller[q], runner[q], fwd[q], target[q])'
    BY DEF SandboxInv, AllSafe, Move, Others
  <2>2. SafeRun(caller[r], m, fwd[r], target[r]) /\ caller'[r] = caller[r] /\ fwd'[r] = fwd[r]
    BY DEF SandboxInv, AllSafe, Move, Others
  <2>3. /\ n.pc = "send" => n.then \in Working \union {"done"}
        /\ n.pc # "send" => n.out = m.out
        /\ n.pc \in Working \union {"send"}
        /\ m.pc \in Working
        /\ n.pc = "send" => EventMeant(n.out)
    <3>1. m.status \in Outcomes /\ Works(m, n)
      BY DEF SandboxInv, TypeOK, RunnerState, Move
    <3> HIDE DEF m, n
    <3> QED BY <3>1 DEF Works, Quiet, Tells, Begins, Ends, Stops, Sends, Working, EventMeant, Event
  <2>4. BodyMeant(n, target'[r])
    BY DEF Move
  <2>5. SafeRun(caller[r], runner[r], fwd[r], target[r])'
    BY <2>2, <2>3, <2>4 DEF SafeRun, Working
  <2> QED BY <2>1, <2>5 DEF AllSafe
<1>3. NetForDownload'
  <2> SUFFICES ASSUME net' PROVE \E q \in Runs : Downloading(runner'[q])
    BY DEF NetForDownload, Downloading, Pc
  <2>1. CASE Downloading(n)
    BY <2>1
  <2>2. CASE ~Downloading(n)
    <3>1. net /\ ~Downloading(m)
      BY <2>2 DEF Move, NetMeant
    <3>2. PICK q \in Runs : Downloading(runner[q])
      BY <3>1 DEF SandboxInv, NetForDownload
    <3>3. q # r /\ runner'[q] = runner[q]
      BY <3>1, <3>2 DEF Move
    <3> QED BY <3>2, <3>3
  <2> QED BY <2>1, <2>2
<1> QED BY <1>1, <1>2, <1>3 DEF SandboxInv

\* A step that concerns one run and not the network.
LEMMA FrameSafe ==
  ASSUME SandboxInv, NEW r \in Runs, TypeOK', UNCHANGED net,
         \A q \in Runs \ {r} : /\ caller'[q] = caller[q] /\ runner'[q] = runner[q]
                               /\ fwd'[q] = fwd[q] /\ target'[q] = target[q],
         SafeRun(caller'[r], runner'[r], fwd'[r], target'[r]),
         Downloading(runner[r]) => Downloading(runner'[r])
  PROVE  SandboxInv'
<1>1. AllSafe'
  BY DEF SandboxInv, AllSafe
<1>2. NetForDownload'
  <2> SUFFICES ASSUME net' PROVE \E q \in Runs : Downloading(runner'[q])
    BY DEF NetForDownload, Downloading, Pc
  <2>1. PICK q \in Runs : Downloading(runner[q])
    BY DEF SandboxInv, NetForDownload
  <2> QED BY <2>1
<1> QED BY <1>1, <1>2 DEF SandboxInv

\* What a subscriber has collected is a state of a run.
LEMMA AddType ==
  ASSUME NEW s \in RunState, NEW e \in EventRecord, EventMeant(e)
  PROVE  AddTransformEvent(s, e) \in RunState
<1>1. s.steps \in Seq(StepState)
  BY DEF RunState
<1>2. CASE e.type \in {"start", "stop"}
  BY <1>2 DEF AddTransformEvent, RunState, EventRecord
<1>3. CASE e.type \in {"stepStart", "stepSkip"}
  <2> DEFINE a == [status |-> "running", output |-> 0]
             b == [status |-> "skipped", output |-> 0]
  <2>1. a \in StepState /\ b \in StepState
    BY DEF StepState
  <2> HIDE DEF a, b
  <2>2. Append(s.steps, a) \in Seq(StepState) /\ Append(s.steps, b) \in Seq(StepState)
    BY <1>1, <2>1
  <2>3. /\ [s EXCEPT !.steps = Append(s.steps, a)] \in RunState
        /\ [s EXCEPT !.steps = Append(s.steps, b)] \in RunState
    BY <2>2 DEF RunState
  <2> QED BY <1>3, <2>3 DEF AddTransformEvent, a, b
<1>4. CASE e.type = "stepStop"
  <2> DEFINE d == [s.steps EXCEPT ![Len(s.steps)].status = e.status]
  <2>1. d \in Seq(StepState)
    BY <1>1, <1>4, StatusFacts DEF EventMeant
  <2> HIDE DEF d
  <2>2. [s EXCEPT !.steps = d] \in RunState
    BY <2>1 DEF RunState
  <2> QED BY <1>4, <2>2 DEF AddTransformEvent, d
<1>5. CASE e.type \in {"print", "error", "preview"}
  <2> DEFINE d == CountOutput(s.steps)
  <2>1. d \in Seq(StepState)
    BY <1>1, CountFacts
  <2> HIDE DEF d
  <2>2. [s EXCEPT !.steps = d] \in RunState
    BY <2>1 DEF RunState
  <2> QED BY <1>5, <2>2 DEF AddTransformEvent, d
<1>6. CASE e.type = "none"
  BY <1>6 DEF AddTransformEvent
<1> QED BY <1>2, <1>3, <1>4, <1>5, <1>6 DEF EventRecord

\* A run that has not begun has an empty hand: its caller may be changed.
LEMMA RequestSafe ==
  ASSUME SandboxInv, NEW r \in Runs, Request(r)
  PROVE  SandboxInv'
<1>1. PICK save \in BOOLEAN, wait \in BOOLEAN, user \in Users, plan \in Plans,
           head \in {Nobody, [c \in Components |-> "head"]} :
        /\ save => wait
        /\ caller' = [caller EXCEPT ![r].pc = "subscribe", ![r].save = save, ![r].wait = wait]
        /\ target' = [target EXCEPT ![r].head = head, ![r].user = user,
                        ![r].now = [c \in Components |-> IF c \in user THEN "user" ELSE "none"]]
        /\ runner' = [runner EXCEPT ![r].plan = plan]
  BY DEF Request
<1> DEFINE now == [k \in Components |-> IF k \in user THEN "user" ELSE "none"]
           c == [caller[r] EXCEPT !.pc = "subscribe", !.save = save, !.wait = wait]
           m == [runner[r] EXCEPT !.plan = plan]
           t == [target[r] EXCEPT !.head = head, !.user = user, !.now = now]
<1>2. /\ caller[r] \in CallerState /\ runner[r] \in RunnerState /\ target[r] \in TargetState
      /\ plan \in Seq(StepKinds) /\ user \subseteq Components
  BY PlansAssumption, UsersAssumption DEF SandboxInv, TypeOK
<1>3. head \in [Components -> Makers] /\ now \in [Components -> Makers] /\ \A k \in user : now[k] = "user"
  BY <1>2 DEF Nobody, Makers
<1>4. /\ caller' = [caller EXCEPT ![r] = c] /\ runner' = [runner EXCEPT ![r] = m]
      /\ target' = [target EXCEPT ![r] = t]
  BY <1>1 DEF SandboxInv, TypeOK
<1> HIDE DEF now
<1>5. c \in CallerState /\ c.pc = "subscribe"
  BY <1>2 DEF CallerState
<1>6. /\ m \in RunnerState /\ m.pc = runner[r].pc /\ m.mod = runner[r].mod
      /\ m.out = runner[r].out /\ m.phase = runner[r].phase
  BY <1>2 DEF RunnerState
<1>7. t \in TargetState /\ \A k \in t.user : t.now[k] = "user"
  BY <1>2, <1>3 DEF TargetState
<1> HIDE DEF c, m, t
<1>8. bus' \in BusState
  BY DEF Request, SandboxInv, TypeOK, BusState
<1>9. /\ caller' \in [Runs -> CallerState] /\ caller'[r] = c
      /\ runner' \in [Runs -> RunnerState] /\ runner'[r] = m
      /\ target' \in [Runs -> TargetState] /\ target'[r] = t
      /\ \A q \in Runs \ {r} : caller'[q] = caller[q] /\ runner'[q] = runner[q] /\ target'[q] = target[q]
  BY <1>4, <1>5, <1>6, <1>7, PutFacts DEF SandboxInv, TypeOK
<1>10. UNCHANGED <<fwd, runState, logged, net>>
  BY DEF Request
<1>11. TypeOK'
  BY <1>8, <1>9, <1>10 DEF SandboxInv, TypeOK
<1>12. SafeRun(caller[r], runner[r], fwd[r], target[r]) /\ caller[r].pc = "idle"
  BY DEF SandboxInv, AllSafe, Request
<1>13. SafeRun(c, m, fwd[r], t)
  BY <1>5, <1>6, <1>7, <1>12 DEF SafeRun, BodyMeant
<1>14. ~Downloading(runner[r])
  BY <1>12 DEF SafeRun, Downloading, Pc
<1> QED BY <1>9, <1>10, <1>11, <1>13, <1>14, FrameSafe

\* The steps of the caller that leave the runner alone.
LEMMA CallerSafe ==
  ASSUME SandboxInv, NEW r \in Runs,
         SubscribeID(r) \/ WriteTransformRun(r) \/ SaveFails(r) \/ ApplyResult(r) \/ Cancel(r)
  PROVE  SandboxInv'
<1>1. UNCHANGED <<runner, fwd, target, net>>
  BY DEF SubscribeID, WriteTransformRun, SaveFails, ApplyResult, Cancel, NoWork
<1>2. caller[r] \in CallerState
  BY DEF SandboxInv, TypeOK
<1>3. PICK c \in CallerState :
        /\ caller' = [caller EXCEPT ![r] = c]
        /\ c.pc \in {"idle", "subscribe", "apply"} => caller[r].pc \in {"idle", "subscribe", "apply"}
  <2>1. CASE SubscribeID(r)
    <3> DEFINE c == [caller[r] EXCEPT !.pc = "apply"]
    <3>1. c \in CallerState /\ caller' = [caller EXCEPT ![r] = c] /\ caller[r].pc = "subscribe"
      BY <1>2, <2>1 DEF SubscribeID, CallerState
    <3> QED BY <3>1
  <2>2. CASE WriteTransformRun(r) \/ SaveFails(r) \/ ApplyResult(r)
    <3> DEFINE c == [caller[r] EXCEPT !.pc = "end"]
    <3>1. c \in CallerState /\ caller' = [caller EXCEPT ![r] = c] /\ c.pc = "end"
      BY <1>2, <2>2 DEF WriteTransformRun, SaveFails, ApplyResult, CallerState
    <3> QED BY <3>1
  <2>3. CASE Cancel(r)
    <3> DEFINE c == [caller[r] EXCEPT !.ctx = "cancelled"]
    <3>1. c \in CallerState /\ caller' = [caller EXCEPT ![r] = c] /\ c.pc = caller[r].pc
      BY <1>2, <2>3 DEF Cancel, CallerState
    <3> QED BY <3>1
  <2> QED BY <2>1, <2>2, <2>3
<1>4. /\ caller' \in [Runs -> CallerState] /\ caller'[r] = c
      /\ \A q \in Runs \ {r} : caller'[q] = caller[q]
  BY <1>3, PutFacts DEF SandboxInv, TypeOK
<1>5. bus' \in BusState /\ runState' \in [Runs -> RunState] /\ logged' \in [Runs -> RunState]
  <2>1. CASE SubscribeID(r)
    BY <2>1 DEF SandboxInv, TypeOK, SubscribeID, BusState
  <2>2. CASE WriteTransformRun(r)
    <3>1. runState' \in [Runs -> RunState] /\ bus' = bus
      BY <2>2 DEF SandboxInv, TypeOK, WriteTransformRun, RunState
    <3>2. logged' = [logged EXCEPT ![r] = runState'[r]]
      BY <2>2 DEF WriteTransformRun
    <3> QED BY <3>1, <3>2 DEF SandboxInv, TypeOK
  <2>3. CASE SaveFails(r) \/ ApplyResult(r) \/ Cancel(r)
    BY <2>3 DEF SandboxInv, TypeOK, SaveFails, ApplyResult, Cancel
  <2> QED BY <2>1, <2>2, <2>3
<1>6. TypeOK'
  BY <1>1, <1>4, <1>5 DEF SandboxInv, TypeOK
<1>7. SafeRun(caller'[r], runner'[r], fwd'[r], target'[r])
  BY <1>1, <1>3, <1>4 DEF SandboxInv, AllSafe, SafeRun
<1> QED BY <1>1, <1>4, <1>6, <1>7, FrameSafe

\* Apply starts the runner, or not.
LEMMA ApplySafe ==
  ASSUME SandboxInv, NEW r \in Runs, Apply(r)
  PROVE  SandboxInv'
<1>1. UNCHANGED <<fwd, target, net, runState, logged, bus>> /\ caller[r].pc = "apply"
  BY DEF Apply, NoWork
<1>2. caller[r] \in CallerState /\ runner[r] \in RunnerState
  BY DEF SandboxInv, TypeOK
<1>3. PICK c \in CallerState, m \in RunnerState :
        /\ caller' = [caller EXCEPT ![r] = c] /\ c.pc \in {"returned", "wait"}
        /\ runner' = [runner EXCEPT ![r] = m]
        /\ m.pc \in {runner[r].pc, "fork", "early"}
        /\ SameBody(m, runner[r]) /\ m.out = runner[r].out
  <2>1. CASE caller' = [caller EXCEPT ![r].pc = "returned", ![r].err = TRUE] /\ UNCHANGED runner
    <3> DEFINE c == [caller[r] EXCEPT !.pc = "returned", !.err = TRUE]
    <3>1. c \in CallerState /\ caller' = [caller EXCEPT ![r] = c] /\ c.pc = "returned"
      BY <1>2, <2>1 DEF CallerState, SandboxInv, TypeOK
    <3>2. runner' = [runner EXCEPT ![r] = runner[r]]
      BY <2>1 DEF SandboxInv, TypeOK
    <3> QED BY <1>2, <3>1, <3>2 DEF SameBody
  <2>2. CASE /\ caller' = [caller EXCEPT ![r].pc = "wait"]
             /\ runner' = [runner EXCEPT ![r].pc = IF caller[r].wait THEN "fork" ELSE "early"]
    <3> DEFINE c == [caller[r] EXCEPT !.pc = "wait"]
               m == [runner[r] EXCEPT !.pc = IF caller[r].wait THEN "fork" ELSE "early"]
    <3>1. c \in CallerState /\ caller' = [caller EXCEPT ![r] = c] /\ c.pc = "wait"
      BY <1>2, <2>2 DEF CallerState
    <3>2. /\ m \in RunnerState /\ m.pc \in {"fork", "early"}
          /\ SameBody(m, runner[r]) /\ m.out = runner[r].out
      BY <1>2 DEF RunnerState, SameBody, RunnerPcs
    <3>3. runner' = [runner EXCEPT ![r] = m]
      BY <2>2
    <3> HIDE DEF m, c
    <3> QED BY <3>1, <3>2, <3>3
  <2> QED BY <2>1, <2>2 DEF Apply
<1>4. /\ caller' \in [Runs -> CallerState] /\ caller'[r] = c
      /\ runner' \in [Runs -> RunnerState] /\ runner'[r] = m
      /\ \A q \in Runs \ {r} : caller'[q] = caller[q] /\ runner'[q] = runner[q]
  BY <1>3, PutFacts DEF SandboxInv, TypeOK
<1>5. TypeOK'
  BY <1>1, <1>4 DEF SandboxInv, TypeOK
<1>6. SafeRun(caller[r], runner[r], fwd[r], target[r])
  BY DEF SandboxInv, AllSafe
<1>7. SafeRun(c, m, fwd[r], target[r])
  BY <1>1, <1>3, <1>6 DEF SafeRun, BodyMeant, SameBody
<1>8. ~Downloading(runner[r])
  BY <1>1, <1>6 DEF SafeRun, Downloading, Pc
<1> QED BY <1>1, <1>4, <1>5, <1>7, <1>8, FrameSafe

\* The forwarder takes an event from the runner.
LEMMA ReceiveSafe ==
  ASSUME SandboxInv, NEW r \in Runs, Receive(r)
  PROVE  SandboxInv'
<1> DEFINE m == [runner[r] EXCEPT !.pc = runner[r].then, !.out = NoEvent]
           f == [pc |-> "publish", event |-> runner[r].out]
<1>1. UNCHANGED <<caller, target, net, runState, logged, bus>> /\ runner[r].pc = "send"
  BY DEF Receive
<1>2. runner[r] \in RunnerState /\ SafeRun(caller[r], runner[r], fwd[r], target[r])
  BY DEF SandboxInv, TypeOK, AllSafe
<1>3. NoEvent \in EventRecord /\ EventMeant(NoEvent)
  BY DEF NoEvent, EventRecord, EventMeant
<1>4. /\ m \in RunnerState /\ m.pc = runner[r].then /\ m.out = NoEvent
      /\ SameWork(m, runner[r])
  BY <1>2, <1>3 DEF RunnerState, SameWork, SameBody
<1>5. f \in FwdState /\ f.pc = "publish" /\ f.event = runner[r].out
  BY <1>2 DEF FwdState, RunnerState
<1>6. runner' = [runner EXCEPT ![r] = m] /\ fwd' = [fwd EXCEPT ![r] = f]
  BY DEF Receive, SandboxInv, TypeOK
<1> HIDE DEF m, f
<1>7. /\ fwd' \in [Runs -> FwdState] /\ fwd'[r] = f
      /\ runner' \in [Runs -> RunnerState] /\ runner'[r] = m
      /\ \A q \in Runs \ {r} : fwd'[q] = fwd[q] /\ runner'[q] = runner[q]
  BY <1>4, <1>5, <1>6, PutFacts DEF SandboxInv, TypeOK
<1>8. TypeOK'
  BY <1>1, <1>7 DEF SandboxInv, TypeOK
<1>9. SafeRun(caller[r], m, f, target[r])
  BY <1>1, <1>2, <1>3, <1>4, <1>5 DEF SafeRun, BodyMeant, SameWork, SameBody, Working
<1>10. Downloading(runner[r]) => Downloading(m)
  BY <1>1, <1>2, <1>4 DEF SafeRun, Downloading, Pc, SameWork, SameBody, Working
<1> QED BY <1>1, <1>7, <1>8, <1>9, <1>10, FrameSafe

\* The forwarder's other steps.
LEMMA ForwardSafe ==
  ASSUME SandboxInv, NEW r \in Runs, Publish(r) \/ Handlers(r) \/ Stop(r)
  PROVE  SandboxInv'
<1>1. UNCHANGED <<caller, runner, target, net, logged>>
  BY DEF Publish, Handlers, Stop
<1>2. fwd[r] \in FwdState /\ SafeRun(caller[r], runner[r], fwd[r], target[r])
  BY DEF SandboxInv, TypeOK, AllSafe
<1>3. NoEvent \in EventRecord /\ EventMeant(NoEvent)
  BY DEF NoEvent, EventRecord, EventMeant
<1>4. PICK f \in FwdState :
        /\ fwd' = [fwd EXCEPT ![r] = f] /\ EventMeant(f.event)
        /\ f.pc \in {"none", "select", "exit"} => f.event = NoEvent
        /\ fwd[r].pc # "none"
  <2>1. CASE fwd' = [fwd EXCEPT ![r] = [pc |-> "select", event |-> NoEvent]] /\ fwd[r].pc # "none"
    <3> DEFINE f == [pc |-> "select", event |-> NoEvent]
    <3>1. f \in FwdState /\ f.event = NoEvent
      BY <1>3 DEF FwdState
    <3> QED BY <1>3, <2>1, <3>1
  <2>2. CASE fwd' = [fwd EXCEPT ![r].pc = "handlers"] /\ fwd[r].pc # "none"
    <3> DEFINE f == [fwd[r] EXCEPT !.pc = "handlers"]
    <3>1. f \in FwdState /\ f.event = fwd[r].event /\ f.pc = "handlers"
      BY <1>2 DEF FwdState
    <3> HIDE DEF f
    <3>2. fwd' = [fwd EXCEPT ![r] = f]
      BY <2>2 DEF f
    <3> QED BY <1>2, <2>2, <3>1, <3>2 DEF SafeRun
  <2>3. CASE fwd[r].pc = "select" /\ fwd' = [fwd EXCEPT ![r].pc = "exit"]
    <3> DEFINE f == [fwd[r] EXCEPT !.pc = "exit"]
    <3>1. f \in FwdState /\ f.event = fwd[r].event
      BY <1>2 DEF FwdState
    <3> HIDE DEF f
    <3>2. fwd' = [fwd EXCEPT ![r] = f]
      BY <2>3 DEF f
    <3> QED BY <1>2, <2>3, <3>1, <3>2 DEF SafeRun
  <2>4. fwd[r].pc # "none"
    BY DEF Publish, Handlers, Stop
  <2> QED BY <2>1, <2>2, <2>3, <2>4, Zenon DEF Publish, Handlers, Stop
<1>5. /\ fwd' \in [Runs -> FwdState] /\ fwd'[r] = f
      /\ \A q \in Runs \ {r} : fwd'[q] = fwd[q]
  BY <1>4, PutFacts DEF SandboxInv, TypeOK
<1>6. runState' \in [Runs -> RunState]
  <2>1. CASE Handlers(r)
    <3>1. AddTransformEvent(runState[r], fwd[r].event) \in RunState
      BY <1>2, AddType DEF SafeRun, SandboxInv, TypeOK, FwdState
    <3> QED BY <2>1, <3>1 DEF Handlers, SandboxInv, TypeOK
  <2>2. CASE Publish(r) \/ Stop(r)
    BY <2>2 DEF Publish, Stop, SandboxInv, TypeOK
  <2> QED BY <2>1, <2>2
<1>7. bus' \in BusState
  <2>1. bus \in BusState
    BY DEF SandboxInv, TypeOK
  <2>2. /\ [bus EXCEPT !.readers = bus.readers \union {r}] \in BusState
        /\ [bus EXCEPT !.readers = bus.readers \ {r}] \in BusState
    BY <2>1 DEF BusState
  <2> QED BY <2>1, <2>2 DEF Publish, Handlers, Stop, RLock, RUnlock
<1>8. TypeOK'
  BY <1>1, <1>5, <1>6, <1>7 DEF SandboxInv, TypeOK
<1>9. SafeRun(caller[r], runner[r], f, target[r])
  BY <1>2, <1>4 DEF SafeRun
<1> QED BY <1>1, <1>5, <1>8, <1>9, FrameSafe

\* The runner's steps that its caller or its forwarder takes part in.
LEMMA MeetSafe ==
  ASSUME SandboxInv, NEW r \in Runs, LetGo(r) \/ Fork(r) \/ Finish(r)
  PROVE  SandboxInv'
<1>1. UNCHANGED <<target, net, runState, logged, bus>> /\ runner[r].pc \in {"early", "fork", "done"}
  BY DEF LetGo, Fork, Finish
<1>2. /\ caller[r] \in CallerState /\ runner[r] \in RunnerState /\ fwd[r] \in FwdState
      /\ SafeRun(caller[r], runner[r], fwd[r], target[r])
  BY DEF SandboxInv, TypeOK, AllSafe
<1>3. PICK c \in CallerState, m \in RunnerState, f \in FwdState :
        /\ caller' = [caller EXCEPT ![r] = c] /\ runner' = [runner EXCEPT ![r] = m]
        /\ fwd' = [fwd EXCEPT ![r] = f]
        /\ c.pc \in {caller[r].pc, "returned"} /\ m.mod = runner[r].mod /\ m.cached = runner[r].cached
        /\ \/ m.pc = "send" /\ m.then \in {"exec", "loop"} /\ m.out = Event("start", "none")
           \/ m.pc = "fork" /\ m.out = runner[r].out /\ runner[r].pc = "early"
           \/ m.pc = "exit" /\ m.out = runner[r].out
        /\ f.event = fwd[r].event /\ (f = fwd[r] \/ (runner[r].pc = "fork" /\ m.pc = "send"))
  <2>1. CASE LetGo(r)
    <3> DEFINE c == [caller[r] EXCEPT !.pc = "returned"]
               m == [runner[r] EXCEPT !.pc = "fork"]
    <3>1. c \in CallerState /\ c.pc = "returned"
      BY <1>2 DEF CallerState
    <3>2. /\ m \in RunnerState /\ m.pc = "fork" /\ m.out = runner[r].out
          /\ m.mod = runner[r].mod /\ m.cached = runner[r].cached
      BY <1>2 DEF RunnerState, RunnerPcs
    <3>3. /\ caller' = [caller EXCEPT ![r] = c] /\ runner' = [runner EXCEPT ![r] = m]
          /\ fwd' = [fwd EXCEPT ![r] = fwd[r]] /\ runner[r].pc = "early"
      BY <2>1 DEF LetGo, SandboxInv, TypeOK
    <3> HIDE DEF c, m
    <3> QED BY <1>2, <3>1, <3>2, <3>3
  <2>2. CASE Fork(r)
    <3> DEFINE x == [runner[r] EXCEPT !.i = 1]
               p == IF Plan(r) = <<>> THEN "exec" ELSE "loop"
               m == Send(x, Event("start", "none"), p)
               f == [fwd[r] EXCEPT !.pc = "select"]
    <3>1. x \in RunnerState /\ x.mod = runner[r].mod /\ x.cached = runner[r].cached
      BY <1>2 DEF RunnerState
    <3>2. p \in RunnerPcs /\ p \in {"exec", "loop"} /\ Event("start", "none") \in EventRecord
      BY DEF RunnerPcs, Event, EventRecord
    <3>3. /\ caller' = [caller EXCEPT ![r] = caller[r]] /\ runner' = [runner EXCEPT ![r] = m]
          /\ fwd' = [fwd EXCEPT ![r] = f] /\ runner[r].pc = "fork"
      BY <2>2 DEF Fork, SandboxInv, TypeOK
    <3>4. f \in FwdState /\ f.event = fwd[r].event
      BY <1>2 DEF FwdState
    <3> HIDE DEF x, p, f
    <3>5. /\ m \in RunnerState /\ m.pc = "send" /\ m.then = p /\ m.out = Event("start", "none")
          /\ SameWork(m, x)
      BY <3>1, <3>2, SendFacts
    <3> HIDE DEF m
    <3>6. m.mod = runner[r].mod /\ m.cached = runner[r].cached
      BY <3>1, <3>5 DEF SameWork, SameBody
    <3> QED BY <1>2, <3>2, <3>3, <3>4, <3>5, <3>6
  <2>3. CASE Finish(r)
    <3> DEFINE c == [caller[r] EXCEPT !.pc = "returned", !.err = runner[r].err]
               m == [runner[r] EXCEPT !.pc = "exit"]
    <3>1. c \in CallerState /\ c.pc = "returned"
      BY <1>2 DEF CallerState, RunnerState
    <3>2. /\ m \in RunnerState /\ m.pc = "exit" /\ m.out = runner[r].out
          /\ m.mod = runner[r].mod /\ m.cached = runner[r].cached
      BY <1>2 DEF RunnerState, RunnerPcs
    <3>3. /\ caller' = [caller EXCEPT ![r] = c] /\ runner' = [runner EXCEPT ![r] = m]
          /\ fwd' = [fwd EXCEPT ![r] = fwd[r]]
      BY <2>3 DEF Finish, SandboxInv, TypeOK
    <3> HIDE DEF c, m
    <3> QED BY <1>2, <3>1, <3>2, <3>3
  <2> QED BY <2>1, <2>2, <2>3
<1>4. /\ caller' \in [Runs -> CallerState] /\ caller'[r] = c
      /\ runner' \in [Runs -> RunnerState] /\ runner'[r] = m
      /\ fwd' \in [Runs -> FwdState] /\ fwd'[r] = f
      /\ \A q \in Runs \ {r} : caller'[q] = caller[q] /\ runner'[q] = runner[q] /\ fwd'[q] = fwd[q]
  BY <1>3, PutFacts DEF SandboxInv, TypeOK
<1>5. TypeOK'
  BY <1>1, <1>4 DEF SandboxInv, TypeOK
<1>6. EventMeant(Event("start", "none"))
  BY DEF EventMeant, Event
<1>7. SafeRun(c, m, f, target[r])
  BY <1>1, <1>2, <1>3, <1>6 DEF SafeRun, BodyMeant, Working
<1>8. ~Downloading(runner[r])
  BY <1>1 DEF Downloading, Pc
<1> QED BY <1>1, <1>4, <1>5, <1>7, <1>8, FrameSafe

\* At the start nobody has done anything.
LEMMA InitSafe ==
  ASSUME Init
  PROVE  SandboxInv
<1> DEFINE c == [pc |-> "idle", wait |-> TRUE, save |-> TRUE, ctx |-> "open", err |-> FALSE]
           m == [pc |-> "none", plan |-> <<>>, i |-> 0, phase |-> "none", calls |-> 0,
                 status |-> "succeeded", err |-> FALSE, out |-> NoEvent, then |-> "none",
                 did |-> <<>>, mod |-> FALSE, cached |-> FALSE]
           f == [pc |-> "none", event |-> NoEvent]
           t == [head |-> Nobody, user |-> {}, now |-> Nobody, read |-> "none"]
<1>1. NoEvent \in EventRecord /\ EventMeant(NoEvent)
  BY DEF NoEvent, EventRecord, EventMeant
<1>2. c \in CallerState /\ c.pc = "idle"
  BY DEF CallerState
<1>3. <<>> \in Seq(StepKinds) /\ <<>> \in Seq(StepState)
  OBVIOUS
<1>4. m \in RunnerState
  BY <1>1, <1>3 DEF RunnerState, RunnerPcs, Outcomes
<1>5. m.pc = "none" /\ m.out = NoEvent
  OBVIOUS
<1>6. ~m.mod
  BY Zenon
<1>7. f \in FwdState /\ f.pc = "none" /\ f.event = NoEvent
  BY <1>1 DEF FwdState
<1>8. t \in TargetState /\ t.user = {}
  BY DEF TargetState, Nobody, Makers
<1>9. NewState \in RunState
  BY <1>3 DEF NewState, RunState
<1>10. bus \in BusState /\ net = FALSE
  BY DEF Init, BusState
<1>11. /\ caller = [r \in Runs |-> c] /\ runner = [r \in Runs |-> m] /\ fwd = [r \in Runs |-> f]
       /\ target = [r \in Runs |-> t] /\ runState = [r \in Runs |-> NewState]
       /\ logged = [r \in Runs |-> NewState]
  BY Zenon DEF Init
<1> HIDE DEF c, m, f, t
<1>12. TypeOK
  BY <1>2, <1>4, <1>7, <1>8, <1>9, <1>10, <1>11 DEF TypeOK
<1>13. SafeRun(c, m, f, t)
  BY <1>1, <1>2, <1>5, <1>6, <1>7, <1>8 DEF SafeRun, BodyMeant
<1>14. AllSafe
  BY <1>11, <1>13 DEF AllSafe
<1>15. NetForDownload
  BY <1>10 DEF NetForDownload
<1> QED BY <1>12, <1>14, <1>15 DEF SandboxInv

\* Closing the bus concerns no run.
LEMMA CloseSafe ==
  ASSUME SandboxInv, ShutDown \/ CloseBus \/ UNCHANGED vars
  PROVE  SandboxInv'
<1>1. UNCHANGED <<caller, runner, fwd, target, runState, logged, net>>
  BY DEF ShutDown, CloseBus, NoWork, vars
<1>2. bus' \in BusState
  BY DEF ShutDown, CloseBus, vars, SandboxInv, TypeOK, BusState
<1>3. TypeOK'
  BY <1>1, <1>2 DEF SandboxInv, TypeOK
<1>4. AllSafe' /\ NetForDownload'
  BY <1>1 DEF SandboxInv, AllSafe, NetForDownload, Downloading, Pc
<1> QED BY <1>3, <1>4 DEF SandboxInv

\* The steps of all goroutines, in any interleaving, keep the invariant.
THEOREM SandboxInductive == Spec => []SandboxInv
<1>1. Init => SandboxInv
  BY InitSafe
<1>2. SandboxInv /\ [Next]_vars => SandboxInv'
  <2> SUFFICES ASSUME SandboxInv, [Next]_vars PROVE SandboxInv'
    OBVIOUS
  <2>1. CASE ShutDown \/ CloseBus \/ UNCHANGED vars
    BY <2>1, CloseSafe
  <2>2. ASSUME NEW r \in Runs, Request(r) PROVE SandboxInv'
    BY <2>2, RequestSafe
  <2>3. ASSUME NEW r \in Runs, Cancel(r) \/ CallerStep(r) PROVE SandboxInv'
    BY <2>3, CallerSafe, ApplySafe DEF CallerStep
  <2>4. ASSUME NEW r \in Runs, ForwarderStep(r) PROVE SandboxInv'
    BY <2>4, ReceiveSafe, ForwardSafe DEF ForwarderStep
  <2>5. ASSUME NEW r \in Runs, RunnerStep(r) PROVE SandboxInv'
    <3>1. TypeOK /\ BodyMeant(runner[r], target[r])
      BY DEF SandboxInv, AllSafe, SafeRun
    <3>2. LetGo(r) \/ Fork(r) \/ Finish(r) \/ Move(r)
      BY <2>5, <3>1, RunnerMoves
    <3> QED BY <3>2, MeetSafe, MoveSafe
  <2> QED BY <2>1, <2>2, <2>3, <2>4, <2>5 DEF Next
<1> QED BY <1>1, <1>2, PTL DEF Spec

\* Every goroutine holds what it should, in every state.
THEOREM TypeCorrect == Spec => []TypeOK
<1>1. SandboxInv => TypeOK
  BY DEF SandboxInv
<1> QED BY <1>1, SandboxInductive, PTL

\* Whatever the scripts of whatever runs call, what a user supplied comes out
\* (MutatedComponentsFunc).
THEOREM UserKept == Spec => []UserComponentsKept
<1>1. SandboxInv => UserComponentsKept
  BY DEF SandboxInv, AllSafe, SafeRun, BodyMeant, UserComponentsKept
<1> QED BY <1>1, SandboxInductive, PTL

\* A script reads back the body it has set, and the network that the runs share
\* is on only while one of them downloads, however the others end (HTTPGuard).
THEOREM Sandboxed == Spec => []ScriptSandboxed
<1>1. SandboxInv => BodyReadBack
  BY DEF SandboxInv, AllSafe, SafeRun, BodyMeant, BodyReadBack
<1>2. SandboxInv => NetworkOffAtRest
  BY DEF SandboxInv, NetForDownload, Downloading, Pc, NetworkOffAtRest
<1>3. SandboxInv => ScriptSandboxed
  BY <1>1, <1>2 DEF ScriptSandboxed
<1> QED BY <1>3, SandboxInductive, PTL

-----------------------------------------------------------------------------
(* What the subscriber of a run learns: the inductive invariant.  It rests on *)
(* SandboxInv for who holds an event when.                                    *)

Ended(m) == Pc(m) \in {"done", "exit"}

\* The step a runner is in is the last it has reported; at the end it has
\* reported all.
InStep(m) ==
  LET n == Len(m.plan)
  IN  /\ Pc(m) \in {"none", "early", "fork"} => m.did = <<>>
      /\ Pc(m) = "loop" => m.i \in 1 .. n + 1 /\ Len(m.did) = m.i - 1 /\ n # 0
      /\ Pc(m) \in {"exec", "script", "failed", "stepEnd"} =>
            IF n = 0 THEN m.did = <<>> ELSE m.i \in 1 .. n /\ Len(m.did) = m.i
      /\ Ended(m) => Len(m.did) = n

\* A save waits: it returns when its runner is through or was never started.
Waits(c, m) ==
  /\ c.save => c.wait
  /\ c.wait => m.pc # "early"
  /\ c.pc \in {"returned", "end"} /\ c.wait => m.pc \in {"none", "exit"}

\* A status that tells the end of a run is that of its runner.
Meant(m, st) == st \in {"none", "running", "unchanged"} \/ (Ended(m) /\ st = m.status)
StopMeant(m, e) == e.type = "stop" => Meant(m, e.status)

\* Of one run, by its caller, its runner, its forwarder, what the subscriber has
\* collected and what the logbook has.
Known(c, m, f, s, l) ==
  /\ InStep(m) /\ Waits(c, m)
  /\ Meant(m, s.status) /\ Meant(m, l.status) /\ StopMeant(m, f.event) /\ StopMeant(m, m.out)
  /\ m.pc \in {"done", "exit"} => f.event.type \in {"none", "stop"}
  /\ m.pc = "send" /\ m.then = "done" => m.out.type = "stop"
  /\ c.pc = "idle" => s.steps = <<>>

\* The run as its subscriber will have it once the events under way are handled.
Heard(m, f, s) == AddTransformEvent(AddTransformEvent(s, f.event), m.out)

\* Nothing is lost between the runner and the subscriber.
Follows(c, m, f, s) ==
  /\ Heard(m, f, s).steps = m.did
  /\ Ended(m) => Heard(m, f, s).status \in {m.status, "unchanged"}
  /\ f.pc = "exit" => m.pc = "exit"

FollowInv ==
  /\ bus.closed => bus.closing
  /\ \A r \in Runs :
       /\ Known(caller[r], runner[r], fwd[r], runState[r], logged[r])
       /\ caller[r].save /\ Undisturbed(r) => Follows(caller[r], runner[r], fwd[r], runState[r])

\* What AddTransformEvent makes of each event.
LEMMA AddFacts ==
  ASSUME NEW s \in RunState, NEW e \in EventRecord
  PROVE  LET x == AddTransformEvent(s, e)
         IN  /\ e.type = "none" => x = s
             /\ e.type \in {"start", "stop", "none"} => x.steps = s.steps
             /\ e.type = "start" => x.status = "running"
             /\ e.type = "stop" => x.status = e.status
             /\ e.type \notin {"start", "stop"} => x.status = s.status
             /\ e.type = "stepStart" => x.steps = Append(s.steps, [status |-> "running", output |-> 0])
             /\ e.type = "stepSkip" => x.steps = Append(s.steps, [status |-> "skipped", output |-> 0])
             /\ e.type = "stepStop" /\ s.steps # <<>> =>
                  x.steps = [s.steps EXCEPT ![Len(s.steps)].status = e.status]
             /\ e.type \in {"print", "error", "preview"} => x.steps = CountOutput(s.steps)
<1> DEFINE x == AddTransformEvent(s, e)
           d == [s.steps EXCEPT ![Len(s.steps)].status = e.status]
<1>1. s.steps \in Seq(StepState)
  BY DEF RunState
<1>2. CASE e.type \in {"start", "stop"}
  BY <1>2 DEF AddTransformEvent, RunState
<1>3. CASE e.type \in {"stepStart", "stepSkip"}
  BY <1>3 DEF AddTransformEvent, RunState
<1>4. CASE e.type = "stepStop" /\ s.steps # <<>>
  <2>1. x = [s EXCEPT !.steps = d]
    BY <1>4 DEF AddTransformEvent
  <2> HIDE DEF x, d
  <2>2. x.steps = d /\ x.status = s.status
    BY <2>1 DEF RunState
  <2> QED BY <1>4, <2>2 DEF x, d
<1>5. CASE e.type = "stepStop" /\ s.steps = <<>>
  BY <1>5 DEF AddTransformEvent
<1>6. CASE e.type \in {"print", "error", "preview"}
  <2> DEFINE k == CountOutput(s.steps)
  <2>1. x = [s EXCEPT !.steps = k]
    BY <1>6 DEF AddTransformEvent
  <2> HIDE DEF x, k
  <2>2. x.steps = k /\ x.status = s.status
    BY <2>1 DEF RunState
  <2> QED BY <1>6, <2>2 DEF x, k
<1>7. CASE e.type = "none"
  BY <1>7 DEF AddTransformEvent
<1> QED BY <1>2, <1>3, <1>4, <1>5, <1>6, <1>7 DEF EventRecord

LEMMA NoEventAdds ==
  ASSUME NEW s \in RunState
  PROVE  AddTransformEvent(s, NoEvent) = s
<1>1. NoEvent \in EventRecord /\ NoEvent.type = "none"
  BY DEF NoEvent, EventRecord
<1> QED BY <1>1, AddFacts

\* A step of one run leaves the others where they are.
LEMMA FrameFollows ==
  ASSUME FollowInv, NEW r \in Runs,
         \A q \in Runs \ {r} : /\ caller'[q] = caller[q] /\ runner'[q] = runner[q] /\ fwd'[q] = fwd[q]
                               /\ runState'[q] = runState[q] /\ logged'[q] = logged[q],
         bus.closing => bus'.closing, bus'.closed => bus'.closing,
         Known(caller'[r], runner'[r], fwd'[r], runState'[r], logged'[r]),
         caller'[r].save /\ ~bus'.closing /\ caller'[r].ctx = "open" =>
            Follows(caller'[r], runner'[r], fwd'[r], runState'[r])
  PROVE  FollowInv'
<1> SUFFICES ASSUME NEW q \in Runs
    PROVE /\ Known(caller'[q], runner'[q], fwd'[q], runState'[q], logged'[q])
          /\ caller'[q].save /\ ~bus'.closing /\ caller'[q].ctx = "open" =>
                Follows(caller'[q], runner'[q], fwd'[q], runState'[q])
  BY DEF FollowInv, Undisturbed
<1>1. CASE q = r
  BY <1>1
<1>2. CASE q # r
  BY <1>2 DEF FollowInv, Undisturbed
<1> QED BY <1>1, <1>2

\* A runner at work reports the steps of its plan one by one.
LEMMA WorksInStep ==
  ASSUME NEW m \in RunnerState, NEW n \in RunnerState, InStep(m), Works(m, n)
  PROVE  InStep(n)
<1> DEFINE k == Len(m.plan)
<1>1. /\ m.did \in Seq(StepState) /\ n.did \in Seq(StepState) /\ m.i \in Nat /\ n.i \in Nat
      /\ m.plan \in Seq(StepKinds) /\ n.plan = m.plan /\ m.status \in Outcomes
  BY DEF RunnerState, Works
<1>2. k \in Nat /\ Len(n.plan) = k /\ (k = 0 <=> m.plan = <<>>) /\ Len(m.did) \in Nat
  BY <1>1
<1>3. CASE Quiet(m, n)
  BY <1>1, <1>2, <1>3 DEF Quiet, InStep, Pc, Ended
<1>4. CASE Tells(m, n)
  <2>1. Len(n.did) = Len(m.did) /\ (m.did = <<>> => n.did = <<>>)
    BY <1>1, <1>4, CountFacts DEF Tells
  <2>2. /\ m.pc \in {"script", "failed"} /\ n.pc = "send" /\ n.then \in {"script", "stepEnd"}
        /\ n.i = m.i
    BY <1>4 DEF Tells, Sends
  <2> QED BY <1>1, <1>2, <2>1, <2>2 DEF InStep, Pc, Ended
<1>5. CASE Begins(m, n)
  <2>1. Len(n.did) = Len(m.did) + 1
    BY <1>1, <1>5 DEF Begins
  <2>2. /\ m.pc = "loop" /\ m.i <= k /\ n.pc = "send"
        /\ \/ n.then = "exec" /\ n.i = m.i
           \/ n.then = "loop" /\ n.i = m.i + 1
    BY <1>5 DEF Begins, Sends
  <2>3. m.i \in 1 .. k + 1 /\ Len(m.did) = m.i - 1 /\ k # 0
    BY <2>2 DEF InStep, Pc
  <2> QED BY <1>1, <1>2, <2>1, <2>2, <2>3 DEF InStep, Pc, Ended
<1>6. CASE Ends(m, n)
  <2>1. Len(n.did) = Len(m.did)
    BY <1>1, <1>6, StatusFacts DEF Ends
  <2>2. /\ m.pc = "stepEnd" /\ k # 0 /\ n.pc = "send" /\ n.then = "loop" /\ n.i = m.i + 1
    BY <1>2, <1>6 DEF Ends, Sends
  <2>3. m.i \in 1 .. k /\ Len(m.did) = m.i
    BY <2>2 DEF InStep, Pc
  <2> QED BY <1>1, <1>2, <2>1, <2>2, <2>3 DEF InStep, Pc, Ended
<1>7. CASE Stops(m, n)
  <2>1. n.pc = "send" /\ n.then = "done" /\ n.did = m.did
    BY <1>7 DEF Stops, Sends
  <2>2. Len(m.did) = k
    BY <1>1, <1>2, <1>7 DEF Stops, InStep, Pc
  <2> QED BY <1>2, <2>1, <2>2 DEF InStep, Pc, Ended
<1> QED BY <1>3, <1>4, <1>5, <1>6, <1>7 DEF Works

\* What a runner at work does is what it tells.
LEMMA WorksHeard ==
  ASSUME NEW m \in RunnerState, NEW n \in RunnerState, InStep(m), Works(m, n), m.out = NoEvent,
         NEW x \in RunState, x.steps = m.did
  PROVE  /\ AddTransformEvent(x, n.out).steps = n.did
         /\ Ended(n) => AddTransformEvent(x, n.out).status = n.status
<1>1. n.out \in EventRecord /\ m.status \in Outcomes /\ m.plan \in Seq(StepKinds)
  BY DEF RunnerState
<1>2. CASE Quiet(m, n)
  <2>1. n.out.type = "none" /\ ~Ended(n)
    BY <1>2 DEF Quiet, NoEvent, Ended, Pc
  <2> QED BY <1>1, <1>2, <2>1, AddFacts DEF Quiet
<1>3. CASE Tells(m, n)
  <2>1. n.out.type \in {"print", "error", "preview"} /\ ~Ended(n)
    BY <1>3 DEF Tells, Sends, Event, Ended, Pc
  <2> QED BY <1>1, <1>3, <2>1, AddFacts DEF Tells
<1>4. CASE Begins(m, n)
  <2>1. CASE Sends(n, Event("stepStart", "none"), "exec") /\ n.did = Append(m.did, [status |-> "running", output |-> 0])
    <3>1. n.out.type = "stepStart" /\ ~Ended(n)
      BY <2>1 DEF Sends, Event, Ended, Pc
    <3> QED BY <1>1, <2>1, <3>1, AddFacts
  <2>2. CASE Sends(n, Event("stepSkip", "none"), "loop") /\ n.did = Append(m.did, [status |-> "skipped", output |-> 0])
    <3>1. n.out.type = "stepSkip" /\ ~Ended(n)
      BY <2>2 DEF Sends, Event, Ended, Pc
    <3> QED BY <1>1, <2>2, <3>1, AddFacts
  <2> QED BY <1>4, <2>1, <2>2 DEF Begins
<1>5. CASE Ends(m, n)
  <2>1. n.out.type = "stepStop" /\ n.out.status = m.status /\ ~Ended(n)
    BY <1>5 DEF Ends, Sends, Event, Ended, Pc
  <2>2. m.did # <<>>
    <3>1. m.pc = "stepEnd" /\ Len(m.plan) # 0
      BY <1>1, <1>5 DEF Ends
    <3>2. m.i \in 1 .. Len(m.plan) /\ Len(m.did) = m.i
      BY <3>1 DEF InStep, Pc
    <3> QED BY <1>1, <3>2
  <2> QED BY <1>1, <1>5, <2>1, <2>2, AddFacts DEF Ends
<1>6. CASE Stops(m, n)
  <2>1. n.out.type = "stop" /\ n.out.status = n.status /\ n.did = m.did
    BY <1>6 DEF Stops, Sends, Event
  <2> QED BY <1>1, <2>1, AddFacts
<1> QED BY <1>2, <1>3, <1>4, <1>5, <1>6 DEF Works

LEMMA MoveFollows ==
  ASSUME SandboxInv, FollowInv, NEW r \in Runs, Move(r)
  PROVE  FollowInv'
<1> DEFINE c == caller[r]
           m == runner[r]
           n == runner'[r]
           f == fwd[r]
           s == runState[r]
           l == logged[r]
<1>1. /\ m \in RunnerState /\ n \in RunnerState /\ s \in RunState /\ f.event \in EventRecord
      /\ Works(m, n) /\ m.status \in Outcomes
  BY DEF SandboxInv, TypeOK, Move, FwdState, RunnerState
<1>2. SafeRun(c, m, f, target[r]) /\ Known(c, m, f, s, l)
  BY DEF SandboxInv, AllSafe, FollowInv
<1>3. UNCHANGED <<caller, fwd, runState, logged, bus>>
  BY DEF Move, Others
<1>4. m.pc \in Working /\ n.pc \in Working \union {"send"}
  BY <1>1 DEF Works, Quiet, Tells, Begins, Ends, Stops, Sends, Working
<1>5. /\ n.pc # "send" => n.out = m.out
      /\ n.pc = "send" => /\ n.out.type = "stop" <=> n.then = "done"
                          /\ n.out.type = "stop" => n.out.status = n.status
  BY <1>1 DEF Works, Quiet, Tells, Begins, Ends, Stops, Sends, Event
<1>6. m.out = NoEvent /\ ~Ended(m)
  BY <1>2, <1>4 DEF SafeRun, Working, Ended, Pc
<1> HIDE DEF c, m, n, f, s, l
<1>7. Known(c, n, f, s, l)
  <2>1. InStep(n)
    BY <1>1, <1>2, WorksInStep DEF Known
  <2>2. Waits(c, n)
    BY <1>2, <1>4 DEF Known, Waits, Working
  <2>3. \A st : Meant(m, st) => Meant(n, st)
    BY <1>6 DEF Meant
  <2>4. StopMeant(n, f.event) /\ Meant(n, s.status) /\ Meant(n, l.status)
    BY <1>2, <2>3 DEF Known, StopMeant
  <2>5. StopMeant(n, n.out)
    BY <1>4, <1>5, <1>6 DEF StopMeant, Meant, Ended, Pc, NoEvent, Working
  <2> QED BY <1>2, <1>4, <1>5, <2>1, <2>2, <2>4, <2>5 DEF Known, Working
<1>8. ASSUME Follows(c, m, f, s)
      PROVE  Follows(c, n, f, s)
  <2> DEFINE x == AddTransformEvent(s, f.event)
  <2>1. x \in RunState
    BY <1>1, <1>2, AddType DEF SafeRun
  <2> HIDE DEF x
  <2>2. x.steps = m.did /\ Heard(n, f, s) = AddTransformEvent(x, n.out)
    <3>1. Heard(m, f, s) = AddTransformEvent(x, m.out) /\ Heard(n, f, s) = AddTransformEvent(x, n.out)
      BY DEF Heard, x
    <3>2. AddTransformEvent(x, m.out) = x
      BY <1>6, <2>1, NoEventAdds
    <3> QED BY <1>8, <3>1, <3>2 DEF Follows
  <2>3. Heard(n, f, s).steps = n.did /\ (Ended(n) => Heard(n, f, s).status = n.status)
    BY <1>1, <1>2, <1>6, <2>1, <2>2, WorksHeard DEF Known
  <2>4. f.pc # "exit"
    BY <1>4, <1>8 DEF Follows, Working
  <2> QED BY <2>3, <2>4 DEF Follows
<1>9. /\ caller'[r] = c /\ fwd'[r] = f /\ runState'[r] = s /\ logged'[r] = l /\ bus' = bus
      /\ \A q \in Runs \ {r} : /\ caller'[q] = caller[q] /\ runner'[q] = runner[q] /\ fwd'[q] = fwd[q]
                               /\ runState'[q] = runState[q] /\ logged'[q] = logged[q]
  BY <1>3 DEF Move, c, f, s, l
<1>10. c.save /\ ~bus.closing /\ c.ctx = "open" => Follows(c, m, f, s)
  BY DEF FollowInv, Undisturbed, c, m, f, s
<1>11. bus.closed => bus.closing
  BY DEF FollowInv
<1> QED BY <1>7, <1>8, <1>9, <1>10, <1>11, FrameFollows DEF n

\* A step of the caller, with one of the runner that tells nothing, or alone.
LEMMA PcFollows ==
  ASSUME SandboxInv, FollowInv, NEW r \in Runs, NEW d \in CallerState, NEW n \in RunnerState,
         caller' = [caller EXCEPT ![r] = d], runner' = [runner EXCEPT ![r] = n],
         UNCHANGED <<fwd, runState, logged>>, bus'.closing = bus.closing, bus'.closed = bus.closed,
         d.save = caller[r].save, d.ctx = "open" => caller[r].ctx = "open", d.pc # "idle",
         Waits(d, n), SameWork(n, runner[r]), n.out = runner[r].out, n.then = runner[r].then,
         \/ n.pc = runner[r].pc
         \/ runner[r].pc \in {"none", "early"} /\ n.pc \in {"early", "fork"}
         \/ runner[r].pc = "done" /\ n.pc = "exit"
  PROVE  FollowInv'
<1> DEFINE c == caller[r]
           m == runner[r]
           f == fwd[r]
           s == runState[r]
           l == logged[r]
<1>1. SafeRun(c, m, f, target[r]) /\ Known(c, m, f, s, l)
  BY DEF SandboxInv, AllSafe, FollowInv
<1>2. c.save /\ ~bus.closing /\ c.ctx = "open" => Follows(c, m, f, s)
  BY DEF FollowInv, Undisturbed
<1>3. /\ caller'[r] = d /\ runner'[r] = n /\ fwd'[r] = f /\ runState'[r] = s /\ logged'[r] = l
      /\ \A q \in Runs \ {r} : /\ caller'[q] = caller[q] /\ runner'[q] = runner[q] /\ fwd'[q] = fwd[q]
                               /\ runState'[q] = runState[q] /\ logged'[q] = logged[q]
  BY PutFacts DEF SandboxInv, TypeOK
<1>4. Ended(n) <=> Ended(m)
  BY DEF Ended, Pc
<1>5. n.did = m.did /\ n.plan = m.plan /\ n.i = m.i /\ n.status = m.status /\ n.out = m.out
  BY DEF SameWork, SameBody
<1> HIDE DEF c, m, f, s, l
<1>6. InStep(n)
  <2>1. InStep(m)
    BY <1>1 DEF Known
  <2>2. Pc(n) = Pc(m) \/ (Pc(m) \in {"none", "early"} /\ Pc(n) \in {"early", "fork"})
        \/ (Pc(m) = "done" /\ Pc(n) = "exit")
    BY DEF Pc, m
  <2> QED BY <1>5, <2>1, <2>2 DEF InStep, Ended
<1>7. Known(d, n, f, s, l)
  <2>1. \A st : Meant(m, st) => Meant(n, st)
    BY <1>4, <1>5 DEF Meant
  <2>2. /\ n.pc \in {"done", "exit"} => m.pc \in {"done", "exit"}
        /\ n.pc = "send" => m.pc = "send"
    BY DEF m
  <2> QED BY <1>1, <1>5, <1>6, <2>1, <2>2 DEF Known, StopMeant, m
<1>8. d.save /\ ~bus'.closing /\ d.ctx = "open" => Follows(d, n, f, s)
  <2>1. Heard(n, f, s) = Heard(m, f, s)
    BY <1>5 DEF Heard
  <2>2. m.pc = "exit" => n.pc = "exit"
    BY DEF m
  <2> QED BY <1>2, <1>4, <1>5, <2>1, <2>2 DEF Follows, c
<1>9. bus'.closed => bus'.closing
  BY DEF FollowInv
<1> QED BY <1>3, <1>7, <1>8, <1>9, FrameFollows

\* The steps of the caller, alone or with its runner.
LEMMA CallerFollows ==
  ASSUME SandboxInv, FollowInv, NEW r \in Runs,
         SubscribeID(r) \/ Apply(r) \/ SaveFails(r) \/ ApplyResult(r) \/ Cancel(r) \/ LetGo(r) \/ Finish(r)
  PROVE  FollowInv'
<1> DEFINE c == caller[r]
           m == runner[r]
           at(p) == [m EXCEPT !.pc = p]
<1>1. c \in CallerState /\ m \in RunnerState
  BY DEF SandboxInv, TypeOK
<1>2. SafeRun(c, m, fwd[r], target[r]) /\ Waits(c, m)
  BY DEF SandboxInv, AllSafe, FollowInv, Known
<1>3. UNCHANGED <<fwd, runState, logged>> /\ bus'.closing = bus.closing /\ bus'.closed = bus.closed
  BY DEF SubscribeID, Apply, SaveFails, ApplyResult, Cancel, LetGo, Finish, SandboxInv, TypeOK, BusState
<1>4. runner = [runner EXCEPT ![r] = m] /\ SameWork(m, m)
  BY DEF SandboxInv, TypeOK, SameWork, SameBody
<1>5. ASSUME NEW p \in RunnerPcs
      PROVE  /\ at(p) \in RunnerState /\ at(p).pc = p /\ SameWork(at(p), m)
             /\ at(p).out = m.out /\ at(p).then = m.then
             /\ [runner EXCEPT ![r].pc = p] = [runner EXCEPT ![r] = at(p)]
  BY <1>1 DEF RunnerState, SameWork, SameBody
<1>6. CASE SubscribeID(r)
  <2> DEFINE d == [c EXCEPT !.pc = "apply"]
  <2>1. d \in CallerState /\ d.pc = "apply" /\ d.save = c.save /\ d.wait = c.wait /\ d.ctx = c.ctx
    BY <1>1 DEF CallerState
  <2>2. caller' = [caller EXCEPT ![r] = d] /\ runner' = [runner EXCEPT ![r] = m]
    BY <1>4, <1>6 DEF SubscribeID
  <2> HIDE DEF d
  <2>3. Waits(d, m)
    BY <1>2, <2>1 DEF Waits
  <2> QED BY <1>1, <1>3, <1>4, <2>1, <2>2, <2>3, PcFollows
<1>7. CASE Apply(r) /\ UNCHANGED runner
  <2> DEFINE d == [c EXCEPT !.pc = "returned", !.err = TRUE]
  <2>1. d \in CallerState /\ d.pc = "returned" /\ d.save = c.save /\ d.wait = c.wait /\ d.ctx = c.ctx
    BY <1>1 DEF CallerState
  <2>2. m.pc = "none"
    BY <1>2, <1>7 DEF SafeRun, Apply
  <2>3. caller' = [caller EXCEPT ![r] = d] /\ runner' = [runner EXCEPT ![r] = m]
    <3>1. \A p \in {"fork", "early"} : runner # [runner EXCEPT ![r].pc = p]
      BY <2>2 DEF SandboxInv, TypeOK, RunnerState
    <3> QED BY <1>4, <1>7, <3>1 DEF Apply
  <2> HIDE DEF d
  <2>4. Waits(d, m)
    BY <1>2, <2>1, <2>2 DEF Waits
  <2> QED BY <1>1, <1>3, <1>4, <2>1, <2>3, <2>4, PcFollows
<1>8. CASE Apply(r) /\ ~UNCHANGED runner
  <2> DEFINE d == [c EXCEPT !.pc = "wait"]
             p == IF c.wait THEN "fork" ELSE "early"
  <2>1. d \in CallerState /\ d.pc = "wait" /\ d.save = c.save /\ d.wait = c.wait /\ d.ctx = c.ctx
    BY <1>1 DEF CallerState
  <2>2. m.pc = "none" /\ p \in {"fork", "early"} /\ p \in RunnerPcs /\ (c.wait => p = "fork")
    BY <1>2, <1>8 DEF SafeRun, Apply, RunnerPcs
  <2>3. caller' = [caller EXCEPT ![r] = d] /\ runner' = [runner EXCEPT ![r].pc = p]
    BY <1>8 DEF Apply
  <2> HIDE DEF d, p
  <2>4. runner' = [runner EXCEPT ![r] = at(p)] /\ at(p) \in RunnerState /\ at(p).pc = p
        /\ SameWork(at(p), m) /\ at(p).out = m.out /\ at(p).then = m.then
    BY <1>5, <2>2, <2>3
  <2> HIDE DEF at
  <2>5. Waits(d, at(p))
    BY <1>2, <2>1, <2>2, <2>4 DEF Waits
  <2> QED BY <1>3, <2>1, <2>2, <2>3, <2>4, <2>5, PcFollows
<1>9. CASE SaveFails(r) \/ ApplyResult(r)
  <2> DEFINE d == [c EXCEPT !.pc = "end"]
  <2>1. d \in CallerState /\ d.pc = "end" /\ d.save = c.save /\ d.wait = c.wait /\ d.ctx = c.ctx
    BY <1>1 DEF CallerState
  <2>2. caller' = [caller EXCEPT ![r] = d] /\ runner' = [runner EXCEPT ![r] = m] /\ c.pc = "returned"
    BY <1>4, <1>9 DEF SaveFails, ApplyResult
  <2> HIDE DEF d
  <2>3. Waits(d, m)
    BY <1>2, <2>1, <2>2 DEF Waits
  <2> QED BY <1>1, <1>3, <1>4, <2>1, <2>2, <2>3, PcFollows
<1>10. CASE Cancel(r)
  <2> DEFINE d == [c EXCEPT !.ctx = "cancelled"]
  <2>1. d \in CallerState /\ d.pc = c.pc /\ d.save = c.save /\ d.wait = c.wait /\ d.ctx # "open"
    BY <1>1 DEF CallerState
  <2>2. caller' = [caller EXCEPT ![r] = d] /\ runner' = [runner EXCEPT ![r] = m] /\ c.pc = "wait"
    BY <1>4, <1>10 DEF Cancel
  <2> HIDE DEF d
  <2>3. Waits(d, m)
    BY <1>2, <2>1 DEF Waits
  <2> QED BY <1>1, <1>3, <1>4, <2>1, <2>2, <2>3, PcFollows
<1>11. CASE LetGo(r)
  <2> DEFINE d == [c EXCEPT !.pc = "returned"]
  <2>1. d \in CallerState /\ d.pc = "returned" /\ d.save = c.save /\ d.wait = c.wait /\ d.ctx = c.ctx
    BY <1>1 DEF CallerState
  <2>2. caller' = [caller EXCEPT ![r] = d] /\ runner' = [runner EXCEPT ![r].pc = "fork"] /\ m.pc = "early"
    BY <1>11 DEF LetGo
  <2> HIDE DEF d
  <2>3. /\ runner' = [runner EXCEPT ![r] = at("fork")] /\ at("fork") \in RunnerState /\ at("fork").pc = "fork"
        /\ SameWork(at("fork"), m) /\ at("fork").out = m.out /\ at("fork").then = m.then
    BY <1>5, <2>2 DEF RunnerPcs
  <2> HIDE DEF at
  <2>4. Waits(d, at("fork"))
    BY <1>2, <2>1, <2>2, <2>3 DEF Waits
  <2> QED BY <1>3, <2>1, <2>2, <2>3, <2>4, PcFollows
<1>12. CASE Finish(r)
  <2> DEFINE d == [c EXCEPT !.pc = "returned", !.err = m.err]
  <2>1. d \in CallerState /\ d.pc = "returned" /\ d.save = c.save /\ d.wait = c.wait /\ d.ctx = c.ctx
    BY <1>1 DEF CallerState, RunnerState
  <2>2. /\ caller' = [caller EXCEPT ![r] = d] /\ runner' = [runner EXCEPT ![r].pc = "exit"]
        /\ m.pc = "done" /\ c.pc = "wait"
    BY <1>12 DEF Finish, SandboxInv, TypeOK
  <2> HIDE DEF d
  <2>3. /\ runner' = [runner EXCEPT ![r] = at("exit")] /\ at("exit") \in RunnerState /\ at("exit").pc = "exit"
        /\ SameWork(at("exit"), m) /\ at("exit").out = m.out /\ at("exit").then = m.then
    BY <1>5, <2>2 DEF RunnerPcs
  <2> HIDE DEF at
  <2>4. Waits(d, at("exit"))
    BY <1>2, <2>1, <2>2, <2>3 DEF Waits
  <2> QED BY <1>3, <2>1, <2>2, <2>3, <2>4, PcFollows
<1> QED BY <1>6, <1>7, <1>8, <1>9, <1>10, <1>11, <1>12

\* A request begins with nothing told.
LEMMA RequestFollows ==
  ASSUME SandboxInv, FollowInv, NEW r \in Runs, Request(r)
  PROVE  FollowInv'
<1>1. PICK save \in BOOLEAN, wait \in BOOLEAN, user \in Users, plan \in Plans,
           head \in {Nobody, [c \in Components |-> "head"]} :
        /\ save => wait
        /\ caller' = [caller EXCEPT ![r].pc = "subscribe", ![r].save = save, ![r].wait = wait]
        /\ target' = [target EXCEPT ![r].head = head, ![r].user = user,
                        ![r].now = [c \in Components |-> IF c \in user THEN "user" ELSE "none"]]
        /\ runner' = [runner EXCEPT ![r].plan = plan]
  BY DEF Request
<1> DEFINE c == caller[r]
           m == runner[r]
           f == fwd[r]
           s == runState[r]
           l == logged[r]
           d == [c EXCEPT !.pc = "subscribe", !.save = save, !.wait = wait]
           n == [m EXCEPT !.plan = plan]
<1>2. c \in CallerState /\ m \in RunnerState /\ s \in RunState /\ plan \in Seq(StepKinds) /\ c.pc = "idle"
  BY PlansAssumption DEF SandboxInv, TypeOK, Request
<1>3. SafeRun(c, m, f, target[r]) /\ Known(c, m, f, s, l)
  BY DEF SandboxInv, AllSafe, FollowInv
<1>4. /\ caller' = [caller EXCEPT ![r] = d] /\ runner' = [runner EXCEPT ![r] = n]
  BY <1>1 DEF SandboxInv, TypeOK
<1>5. UNCHANGED <<fwd, runState, logged>> /\ bus'.closing = bus.closing /\ bus'.closed = bus.closed
  BY DEF Request, SandboxInv, TypeOK, BusState
<1>6. d \in CallerState /\ d.pc = "subscribe" /\ d.save = save /\ d.wait = wait
  BY <1>2 DEF CallerState
<1>7. /\ n \in RunnerState /\ n.pc = m.pc /\ n.then = m.then /\ n.out = m.out /\ n.did = m.did
      /\ n.status = m.status
  BY <1>2 DEF RunnerState
<1>8. /\ caller'[r] = d /\ runner'[r] = n /\ fwd'[r] = f /\ runState'[r] = s /\ logged'[r] = l
      /\ \A q \in Runs \ {r} : /\ caller'[q] = caller[q] /\ runner'[q] = runner[q] /\ fwd'[q] = fwd[q]
                               /\ runState'[q] = runState[q] /\ logged'[q] = logged[q]
  BY <1>4, <1>5, <1>6, <1>7, PutFacts DEF SandboxInv, TypeOK
<1> HIDE DEF c, m, f, s, l, d, n
<1>9. m.pc = "none" /\ m.out = NoEvent /\ f.pc = "none" /\ f.event = NoEvent /\ s.steps = <<>>
  BY <1>2, <1>3 DEF SafeRun, Known
<1>10. m.did = <<>> /\ Pc(n) = "none" /\ Pc(m) = "none"
  BY <1>3, <1>7, <1>9 DEF Known, InStep, Pc
<1>11. InStep(n) /\ Waits(d, n) /\ \A st : Meant(m, st) => Meant(n, st)
  BY <1>1, <1>6, <1>7, <1>9, <1>10 DEF InStep, Ended, Waits, Meant
<1>12. Known(d, n, f, s, l)
  BY <1>3, <1>6, <1>7, <1>9, <1>11 DEF Known, StopMeant
<1>13. Follows(d, n, f, s)
  <2>1. Heard(n, f, s) = s
    BY <1>2, <1>7, <1>9, NoEventAdds DEF Heard
  <2> QED BY <1>7, <1>9, <1>10, <2>1 DEF Follows, Ended
<1>14. bus.closed => bus.closing
  BY DEF FollowInv
<1> QED BY <1>5, <1>8, <1>12, <1>13, <1>14, FrameFollows

\* The run is written when it is over, and only its stop event may be missing.
LEMMA WriteFollows ==
  ASSUME SandboxInv, FollowInv, NEW r \in Runs, WriteTransformRun(r)
  PROVE  FollowInv'
<1> DEFINE c == caller[r]
           m == runner[r]
           f == fwd[r]
           s == runState[r]
           l == logged[r]
           d == [c EXCEPT !.pc = "end"]
           t == runState'[r]
<1>1. /\ c \in CallerState /\ m \in RunnerState /\ s \in RunState /\ f.event \in EventRecord
      /\ c.pc = "returned" /\ c.save
  BY DEF SandboxInv, TypeOK, FwdState, WriteTransformRun
<1>2. SafeRun(c, m, f, target[r]) /\ Known(c, m, f, s, l)
  BY DEF SandboxInv, AllSafe, FollowInv
<1>3. UNCHANGED <<runner, fwd, bus>> /\ caller' = [caller EXCEPT ![r] = d]
  BY DEF WriteTransformRun
<1>4. d \in CallerState /\ d.pc = "end" /\ d.save = c.save /\ d.wait = c.wait /\ d.ctx = c.ctx
  BY <1>1 DEF CallerState
<1>5. /\ t \in RunState /\ t.steps = s.steps /\ t.status \in {s.status, "unchanged"}
      /\ \A q \in Runs \ {r} : runState'[q] = runState[q]
  BY DEF WriteTransformRun, SandboxInv, TypeOK, RunState
<1>6. logged'[r] = t /\ \A q \in Runs \ {r} : logged'[q] = logged[q]
  BY DEF WriteTransformRun, SandboxInv, TypeOK
<1>7. /\ caller'[r] = d /\ runner'[r] = m /\ fwd'[r] = f
      /\ \A q \in Runs \ {r} : /\ caller'[q] = caller[q] /\ runner'[q] = runner[q] /\ fwd'[q] = fwd[q]
  BY <1>3, <1>4, PutFacts DEF SandboxInv, TypeOK
<1>8. c.save /\ ~bus.closing /\ c.ctx = "open" => Follows(c, m, f, s)
  BY DEF FollowInv, Undisturbed
<1> HIDE DEF c, m, f, s, l, d, t
<1>9. m.pc \in {"none", "exit"}
  BY <1>1, <1>2 DEF Known, Waits
<1>10. m.out = NoEvent /\ f.event.type \in {"none", "stop"}
  BY <1>2, <1>9 DEF SafeRun, Known, NoEvent
<1>11. Waits(d, m)
  BY <1>1, <1>2, <1>4, <1>9 DEF Known, Waits
<1>12. Known(d, m, f, t, t)
  BY <1>2, <1>4, <1>5, <1>11 DEF Known, Meant
<1>13. ASSUME Follows(c, m, f, s)
       PROVE  Follows(d, m, f, t)
  <2> DEFINE x == AddTransformEvent(s, f.event)
             y == AddTransformEvent(t, f.event)
  <2>1. x \in RunState /\ y \in RunState
    BY <1>1, <1>2, <1>5, AddType DEF SafeRun
  <2>2. /\ x.steps = s.steps /\ y.steps = t.steps
        /\ f.event.type = "stop" => x.status = y.status
        /\ f.event.type = "none" => x = s /\ y = t
    <3>1. /\ x.steps = s.steps /\ (f.event.type = "stop" => x.status = f.event.status)
          /\ f.event.type = "none" => x = s
      BY <1>1, <1>10, AddFacts
    <3>2. /\ y.steps = t.steps /\ (f.event.type = "stop" => y.status = f.event.status)
          /\ f.event.type = "none" => y = t
      BY <1>1, <1>5, <1>10, AddFacts
    <3> HIDE DEF x, y
    <3> QED BY <3>1, <3>2
  <2>3. Heard(m, f, s) = x /\ Heard(m, f, t) = y
    <3>1. Heard(m, f, s) = AddTransformEvent(x, NoEvent) /\ Heard(m, f, t) = AddTransformEvent(y, NoEvent)
      BY <1>10 DEF Heard
    <3> HIDE DEF x, y
    <3> QED BY <2>1, <3>1, NoEventAdds
  <2> HIDE DEF x, y
  <2> QED BY <1>5, <1>10, <1>13, <2>2, <2>3 DEF Follows
<1>14. bus.closed => bus.closing
  BY DEF FollowInv
<1>15. d.save /\ ~bus'.closing /\ d.ctx = "open" => Follows(d, m, f, t)
  BY <1>3, <1>4, <1>8, <1>13
<1> QED BY <1>3, <1>5, <1>6, <1>7, <1>12, <1>14, <1>15, FrameFollows DEF t

\* An event that changes hands is still under way.
LEMMA ReceiveFollows ==
  ASSUME SandboxInv, FollowInv, NEW r \in Runs, Receive(r)
  PROVE  FollowInv'
<1> DEFINE c == caller[r]
           m == runner[r]
           f == fwd[r]
           s == runState[r]
           l == logged[r]
           n == [m EXCEPT !.pc = m.then, !.out = NoEvent]
           g == [pc |-> "publish", event |-> m.out]
<1>1. m \in RunnerState /\ s \in RunState /\ m.pc = "send" /\ f.pc = "select" /\ m.out \in EventRecord
  BY DEF SandboxInv, TypeOK, RunnerState, Receive
<1>2. SafeRun(c, m, f, target[r]) /\ Known(c, m, f, s, l)
  BY DEF SandboxInv, AllSafe, FollowInv
<1>3. NoEvent \in EventRecord /\ NoEvent.type = "none"
  BY DEF NoEvent, EventRecord
<1>4. /\ n.pc = m.then /\ n.out = NoEvent /\ n.did = m.did /\ n.i = m.i /\ n.plan = m.plan
      /\ n.status = m.status
  BY <1>1 DEF RunnerState
<1>5. g.pc = "publish" /\ g.event = m.out
  OBVIOUS
<1>6. runner' = [runner EXCEPT ![r] = n] /\ fwd' = [fwd EXCEPT ![r] = g]
      /\ UNCHANGED <<caller, runState, logged, bus>>
  BY DEF Receive, SandboxInv, TypeOK
<1> HIDE DEF g, n
<1>7. /\ caller'[r] = c /\ runner'[r] = n /\ fwd'[r] = g /\ runState'[r] = s /\ logged'[r] = l
      /\ \A q \in Runs \ {r} : /\ caller'[q] = caller[q] /\ runner'[q] = runner[q] /\ fwd'[q] = fwd[q]
                               /\ runState'[q] = runState[q] /\ logged'[q] = logged[q]
  BY <1>6 DEF SandboxInv, TypeOK
<1>8. c.save /\ ~bus.closing /\ c.ctx = "open" => Follows(c, m, f, s)
  BY DEF FollowInv, Undisturbed
<1> HIDE DEF c, m, f, s, l
<1>9. m.then \in Working \union {"done"} /\ f.event = NoEvent
  BY <1>1, <1>2 DEF SafeRun
<1>10. Pc(n) = Pc(m) /\ n.pc # "send" /\ Pc(m) = m.then
  BY <1>1, <1>4, <1>9 DEF Pc, Working
<1>11. InStep(n) /\ \A st : Meant(m, st) => Meant(n, st)
  BY <1>2, <1>4, <1>10 DEF Known, InStep, Meant, Ended
<1>12. Waits(c, n)
  BY <1>1, <1>2, <1>4, <1>9 DEF Known, Waits, Working
<1>13. Known(c, n, g, s, l)
  BY <1>1, <1>2, <1>3, <1>4, <1>5, <1>9, <1>10, <1>11, <1>12 DEF Known, StopMeant, Working
<1>14. ASSUME Follows(c, m, f, s)
       PROVE  Follows(c, n, g, s)
  <2>1. AddTransformEvent(s, m.out) \in RunState
    BY <1>1, <1>2, AddType DEF SafeRun
  <2>2. Heard(m, f, s) = AddTransformEvent(s, m.out)
    BY <1>1, <1>9, NoEventAdds DEF Heard
  <2>3. Heard(n, g, s) = AddTransformEvent(s, m.out)
    BY <1>4, <1>5, <2>1, NoEventAdds DEF Heard
  <2> QED BY <1>4, <1>5, <1>10, <1>14, <2>2, <2>3 DEF Follows, Ended
<1>15. bus.closed => bus.closing
  BY DEF FollowInv
<1> QED BY <1>6, <1>7, <1>8, <1>13, <1>14, <1>15, FrameFollows

\* The forwarder handles the event, or drops it when the bus is closed.
LEMMA ForwardFollows ==
  ASSUME SandboxInv, FollowInv, NEW r \in Runs, Publish(r) \/ Handlers(r) \/ Stop(r)
  PROVE  FollowInv'
<1> DEFINE c == caller[r]
           m == runner[r]
           f == fwd[r]
           s == runState[r]
           l == logged[r]
<1>1. m \in RunnerState /\ s \in RunState /\ f \in FwdState /\ f.event \in EventRecord
  BY DEF SandboxInv, TypeOK, FwdState
<1>2. SafeRun(c, m, f, target[r]) /\ Known(c, m, f, s, l)
  BY DEF SandboxInv, AllSafe, FollowInv
<1>3. UNCHANGED <<caller, runner, logged>> /\ bus'.closing = bus.closing /\ bus'.closed = bus.closed
  BY DEF Publish, Handlers, Stop, RLock, RUnlock, SandboxInv, TypeOK, BusState
<1>4. bus.closed => bus.closing
  BY DEF FollowInv
<1>5. NoEvent \in EventRecord /\ NoEvent.type = "none"
  BY DEF NoEvent, EventRecord
<1>6. c.save /\ ~bus.closing /\ c.ctx = "open" => Follows(c, m, f, s)
  BY DEF FollowInv, Undisturbed
<1>7. ASSUME NEW g \in FwdState, NEW t \in RunState,
             fwd' = [fwd EXCEPT ![r] = g], runState' = [runState EXCEPT ![r] = t],
             Known(c, m, g, t, l),
             c.save /\ ~bus.closing /\ c.ctx = "open" => Follows(c, m, g, t)
      PROVE  FollowInv'
  <2>1. /\ caller'[r] = c /\ runner'[r] = m /\ fwd'[r] = g /\ runState'[r] = t /\ logged'[r] = l
        /\ \A q \in Runs \ {r} : /\ caller'[q] = caller[q] /\ runner'[q] = runner[q] /\ fwd'[q] = fwd[q]
                                 /\ runState'[q] = runState[q] /\ logged'[q] = logged[q]
    BY <1>3, <1>7, PutFacts DEF SandboxInv, TypeOK
  <2> HIDE DEF c, m, f, s, l
  <2> QED BY <1>3, <1>4, <1>7, <2>1, FrameFollows
<1> DEFINE idle == [pc |-> "select", event |-> NoEvent]
<1>8. idle \in FwdState /\ idle.pc = "select" /\ idle.event = NoEvent
  BY <1>5 DEF FwdState
<1>9. runState = [runState EXCEPT ![r] = s]
  BY DEF SandboxInv, TypeOK
<1>10. CASE Handlers(r)
  <2> DEFINE t == IF c.save THEN AddTransformEvent(s, f.event) ELSE s
  <2>1. t \in RunState
    BY <1>1, <1>2, AddType DEF SafeRun
  <2>2. fwd' = [fwd EXCEPT ![r] = idle] /\ runState' = [runState EXCEPT ![r] = t]
    BY <1>9, <1>10 DEF Handlers
  <2>3. /\ t.status \in {s.status, "running"} \/ (f.event.type = "stop" /\ t.status = f.event.status)
        /\ f.event.type \in {"none", "stop"} => t.steps = s.steps
    BY <1>1, AddFacts DEF EventRecord
  <2>4. c.save => t = AddTransformEvent(s, f.event)
    OBVIOUS
  <2>5. c.pc # "idle"
    <3>1. f.pc = "handlers"
      BY <1>10 DEF Handlers
    <3> QED BY <1>2, <3>1 DEF SafeRun
  <2> HIDE DEF c, m, f, s, l, t, idle
  <2>6. Known(c, m, idle, t, l)
    BY <1>2, <1>5, <1>8, <2>3, <2>5 DEF Known, Meant, StopMeant
  <2>7. ASSUME c.save, Follows(c, m, f, s)
        PROVE  Follows(c, m, idle, t)
    <3>1. Heard(m, idle, t) = AddTransformEvent(t, m.out)
      BY <1>8, <2>1, NoEventAdds DEF Heard
    <3>2. Heard(m, f, s) = Heard(m, idle, t)
      BY <2>4, <2>7, <3>1 DEF Heard
    <3> QED BY <1>8, <2>7, <3>2 DEF Follows
  <2> QED BY <1>6, <1>7, <1>8, <2>1, <2>2, <2>6, <2>7 DEF c, m, f, s, l
<1>11. CASE Publish(r) /\ bus.closed
  <2>1. fwd' = [fwd EXCEPT ![r] = idle] /\ runState' = [runState EXCEPT ![r] = s]
    BY <1>9, <1>11 DEF Publish
  <2> HIDE DEF c, m, f, s, l, idle
  <2>2. Known(c, m, idle, s, l)
    BY <1>2, <1>5, <1>8 DEF Known, StopMeant
  <2> QED BY <1>1, <1>4, <1>7, <1>8, <1>11, <2>1, <2>2 DEF c, m, f, s, l
<1>12. CASE Publish(r) /\ ~bus.closed
  <2> DEFINE g == [f EXCEPT !.pc = "handlers"]
  <2>1. fwd' = [fwd EXCEPT ![r] = g] /\ runState' = [runState EXCEPT ![r] = s]
    BY <1>9, <1>12 DEF Publish
  <2>2. g \in FwdState /\ g.event = f.event /\ g.pc = "handlers"
    BY <1>1 DEF FwdState
  <2> HIDE DEF g, c, m, f, s, l
  <2>3. Known(c, m, g, s, l)
    BY <1>2, <2>2 DEF Known, StopMeant
  <2>4. Follows(c, m, f, s) => Follows(c, m, g, s)
    BY <2>2 DEF Follows, Heard
  <2> QED BY <1>1, <1>6, <1>7, <2>1, <2>2, <2>3, <2>4 DEF c, m, f, s, l
<1>13. CASE Stop(r)
  <2> DEFINE g == [f EXCEPT !.pc = "exit"]
  <2>1. fwd' = [fwd EXCEPT ![r] = g] /\ runState' = [runState EXCEPT ![r] = s]
    BY <1>9, <1>13 DEF Stop
  <2>2. g \in FwdState /\ g.event = f.event /\ g.pc = "exit"
    BY <1>1 DEF FwdState
  <2>3. c.ctx = "open" => m.pc = "exit"
    BY <1>13 DEF Stop, CtxDone
  <2> HIDE DEF g, c, m, f, s, l
  <2>4. Known(c, m, g, s, l)
    BY <1>2, <2>2 DEF Known, StopMeant
  <2>5. c.ctx = "open" /\ Follows(c, m, f, s) => Follows(c, m, g, s)
    BY <2>2, <2>3 DEF Follows, Heard
  <2> QED BY <1>1, <1>6, <1>7, <2>1, <2>2, <2>4, <2>5 DEF c, m, f, s, l
<1> QED BY <1>10, <1>11, <1>12, <1>13

\* The runner begins to tell.
LEMMA ForkFollows ==
  ASSUME SandboxInv, FollowInv, NEW r \in Runs, Fork(r)
  PROVE  FollowInv'
<1> DEFINE c == caller[r]
           m == runner[r]
           f == fwd[r]
           s == runState[r]
           l == logged[r]
           x == [m EXCEPT !.i = 1]
           p == IF m.plan = <<>> THEN "exec" ELSE "loop"
           e == Event("start", "none")
           n == Send(x, e, p)
           g == [f EXCEPT !.pc = "select"]
<1>1. m \in RunnerState /\ s \in RunState /\ f \in FwdState /\ m.pc = "fork" /\ m.plan \in Seq(StepKinds)
  BY DEF SandboxInv, TypeOK, RunnerState, Fork
<1>2. SafeRun(c, m, f, target[r]) /\ Known(c, m, f, s, l)
  BY DEF SandboxInv, AllSafe, FollowInv
<1>3. e \in EventRecord /\ e.type = "start"
  BY DEF Event, EventRecord
<1>4. /\ x \in RunnerState /\ x.i = 1 /\ x.did = m.did /\ x.plan = m.plan /\ x.status = m.status
  BY <1>1 DEF RunnerState
<1>5. p \in RunnerPcs /\ p \in {"exec", "loop"} /\ (p = "exec" <=> m.plan = <<>>)
  BY DEF RunnerPcs
<1>6. /\ runner' = [runner EXCEPT ![r] = n] /\ fwd' = [fwd EXCEPT ![r] = g]
      /\ UNCHANGED <<caller, runState, logged, bus>>
  BY DEF Fork, SandboxInv, TypeOK, Plan
<1>7. g \in FwdState /\ g.event = f.event /\ g.pc = "select"
  BY <1>1 DEF FwdState
<1> HIDE DEF x, p, e, g
<1>8. n \in RunnerState /\ n.pc = "send" /\ n.then = p /\ n.out = e /\ SameWork(n, x)
  BY <1>3, <1>4, <1>5, SendFacts
<1> HIDE DEF n
<1>9. n.i = 1 /\ n.did = m.did /\ n.plan = m.plan /\ n.status = m.status
  BY <1>4, <1>8 DEF SameWork, SameBody
<1>10. /\ caller'[r] = c /\ runner'[r] = n /\ fwd'[r] = g /\ runState'[r] = s /\ logged'[r] = l
       /\ \A q \in Runs \ {r} : /\ caller'[q] = caller[q] /\ runner'[q] = runner[q] /\ fwd'[q] = fwd[q]
                                /\ runState'[q] = runState[q] /\ logged'[q] = logged[q]
  BY <1>6, <1>7, <1>8, PutFacts DEF SandboxInv, TypeOK
<1>11. c.save /\ ~bus.closing /\ c.ctx = "open" => Follows(c, m, f, s)
  BY DEF FollowInv, Undisturbed
<1> HIDE DEF c, m, f, s, l
<1>12. m.out = NoEvent /\ f.event = NoEvent /\ m.did = <<>> /\ ~Ended(m) /\ NoEvent.type = "none"
  BY <1>1, <1>2 DEF SafeRun, Known, InStep, Pc, Ended, NoEvent
<1>13. InStep(n)
  BY <1>1, <1>5, <1>8, <1>9, <1>12 DEF InStep, Pc, Ended
<1>14. Known(c, n, g, s, l)
  BY <1>1, <1>2, <1>3, <1>5, <1>7, <1>8, <1>9, <1>12, <1>13 DEF Known, Meant, StopMeant, Waits
<1>15. ASSUME Follows(c, m, f, s)
       PROVE  Follows(c, n, g, s)
  <2>1. Heard(m, f, s) = s
    BY <1>1, <1>12, NoEventAdds DEF Heard
  <2>2. Heard(n, g, s) = AddTransformEvent(s, e)
    BY <1>1, <1>7, <1>8, <1>12, NoEventAdds DEF Heard
  <2>3. AddTransformEvent(s, e).steps = s.steps
    BY <1>1, <1>3, AddFacts
  <2>4. ~Ended(n)
    BY <1>5, <1>8 DEF Ended, Pc
  <2> QED BY <1>7, <1>9, <1>15, <2>1, <2>2, <2>3, <2>4 DEF Follows
<1>16. bus.closed => bus.closing
  BY DEF FollowInv
<1> QED BY <1>6, <1>10, <1>11, <1>14, <1>15, <1>16, FrameFollows

LEMMA InitFollows ==
  ASSUME Init
  PROVE  FollowInv
<1> SUFFICES ASSUME NEW r \in Runs
    PROVE /\ Known(caller[r], runner[r], fwd[r], runState[r], logged[r])
          /\ Follows(caller[r], runner[r], fwd[r], runState[r])
  BY DEF FollowInv, Init
<1>1. /\ caller[r].pc = "idle" /\ caller[r].wait = TRUE
      /\ runner[r].pc = "none" /\ runner[r].did = <<>> /\ runner[r].out = NoEvent
      /\ fwd[r].pc = "none" /\ fwd[r].event = NoEvent
      /\ runState[r] = NewState /\ logged[r] = NewState
  BY Zenon DEF Init
<1>2. NewState \in RunState /\ NewState.status = "none" /\ NewState.steps = <<>> /\ NoEvent.type = "none"
  BY DEF NewState, RunState, NoEvent
<1>3. Pc(runner[r]) = "none" /\ ~Ended(runner[r])
  BY <1>1 DEF Pc, Ended
<1>4. InStep(runner[r])
  BY <1>1, <1>3 DEF InStep
<1>5. Known(caller[r], runner[r], fwd[r], runState[r], logged[r])
  BY <1>1, <1>2, <1>4 DEF Known, Waits, Meant, StopMeant
<1>6. Heard(runner[r], fwd[r], runState[r]) = NewState
  BY <1>1, <1>2, NoEventAdds DEF Heard
<1> QED BY <1>1, <1>2, <1>3, <1>5, <1>6 DEF Follows

\* Closing the bus ends what can be promised.
LEMMA CloseFollows ==
  ASSUME SandboxInv, FollowInv, ShutDown \/ CloseBus \/ UNCHANGED vars
  PROVE  FollowInv'
<1>1. UNCHANGED <<caller, runner, fwd, runState, logged>>
  BY DEF ShutDown, CloseBus, vars
<1>2. (bus.closing => bus'.closing) /\ (bus'.closed => bus'.closing)
  BY DEF ShutDown, CloseBus, vars, SandboxInv, TypeOK, BusState, FollowInv
<1> QED BY <1>1, <1>2 DEF FollowInv, Undisturbed

\* The events of a run are kept, in order, by the steps of all goroutines.
THEOREM FollowInductive == Spec => []FollowInv
<1>1. Init => FollowInv
  BY InitFollows
<1>2. SandboxInv /\ FollowInv /\ [Next]_vars => FollowInv'
  <2> SUFFICES ASSUME SandboxInv, FollowInv, [Next]_vars PROVE FollowInv'
    OBVIOUS
  <2>1. CASE ShutDown \/ CloseBus \/ UNCHANGED vars
    BY <2>1, CloseFollows
  <2>2. ASSUME NEW r \in Runs, Request(r) PROVE FollowInv'
    BY <2>2, RequestFollows
  <2>3. ASSUME NEW r \in Runs, Cancel(r) \/ CallerStep(r) PROVE FollowInv'
    BY <2>3, CallerFollows, WriteFollows DEF CallerStep
  <2>4. ASSUME NEW r \in Runs, ForwarderStep(r) PROVE FollowInv'
    BY <2>4, ReceiveFollows, ForwardFollows DEF ForwarderStep
  <2>5. ASSUME NEW r \in Runs, RunnerStep(r) PROVE FollowInv'
    <3>1. TypeOK /\ BodyMeant(runner[r], target[r])
      BY DEF SandboxInv, AllSafe, SafeRun
    <3>2. LetGo(r) \/ Fork(r) \/ Finish(r) \/ Move(r)
      BY <2>5, <3>1, RunnerMoves
    <3> QED BY <3>2, CallerFollows, ForkFollows, MoveFollows
  <2> QED BY <2>1, <2>2, <2>3, <2>4, <2>5 DEF Next
<1> QED BY <1>1, <1>2, SandboxInductive, PTL DEF Spec

\* What Save has collected when the last step is over is what the runner did, but
\* for the stop event (State.AddTransformEvent), whatever the other runs do on
\* the bus they share.
THEOREM StateFollows == Spec => []RunStateFollows
<1>1. SandboxInv /\ FollowInv => RunStateFollows
  <2> SUFFICES ASSUME SandboxInv, FollowInv, NEW r \in Runs,
                      caller[r].save, runner[r].pc \in {"done", "exit"}, Undisturbed(r)
      PROVE  /\ runState[r].steps = runner[r].did
             /\ Len(runner[r].did) = Len(Plan(r))
             /\ fwd[r].pc \in {"select", "exit"} => runState[r].status \in {runner[r].status, "unchanged"}
             /\ logged[r].status \in {"none", "running", runner[r].status, "unchanged"}
    BY DEF RunStateFollows
  <2> DEFINE c == caller[r]
             m == runner[r]
             f == fwd[r]
             s == runState[r]
             l == logged[r]
             x == AddTransformEvent(s, f.event)
  <2>1. s \in RunState /\ f.event \in EventRecord
    BY DEF SandboxInv, TypeOK, FwdState
  <2>2. SafeRun(c, m, f, target[r]) /\ Known(c, m, f, s, l) /\ Follows(c, m, f, s)
    BY DEF SandboxInv, AllSafe, FollowInv
  <2>3. m.pc \in {"done", "exit"} /\ Ended(m)
    BY DEF Ended, Pc
  <2> HIDE DEF c, m, f, s, l
  <2>4. m.out = NoEvent /\ f.event.type \in {"none", "stop"}
    BY <2>2, <2>3 DEF SafeRun, Known
  <2>5. x \in RunState /\ x.steps = s.steps /\ (f.event.type = "none" => x = s)
    <3>1. x \in RunState
      BY <2>1, <2>2, AddType DEF SafeRun
    <3>2. x.steps = s.steps /\ (f.event.type = "none" => x = s)
      BY <2>1, <2>4, AddFacts
    <3> QED BY <3>1, <3>2
  <2>6. Heard(m, f, s) = x
    BY <2>4, <2>5, NoEventAdds DEF Heard
  <2>7. f.pc \in {"select", "exit"} => x = s
    BY <2>2, <2>5 DEF SafeRun, NoEvent
  <2> HIDE DEF x
  <2>8. s.steps = m.did /\ (f.pc \in {"select", "exit"} => s.status \in {m.status, "unchanged"})
    BY <2>2, <2>3, <2>5, <2>6, <2>7 DEF Follows
  <2>9. Len(m.did) = Len(m.plan) /\ l.status \in {"none", "running", m.status, "unchanged"}
    BY <2>2, <2>3 DEF Known, InStep, Meant
  <2> QED BY <2>8, <2>9 DEF c, m, f, s, l, Plan
<1> QED BY <1>1, SandboxInductive, FollowInductive, PTL

=============================================================================
