------------------------------ MODULE Transform ------------------------------
(***************************************************************************)
(* Transforms applied by Save and by TransformMethods.Apply.  For each run *)
(* there are three goroutines: the caller of transform.Service.Apply, the  *)
(* runner, which executes the steps, and the forwarder, which takes the    *)
(* runner's events from an unbuffered channel and publishes them on the    *)
(* event bus.  The runs share the bus, with its read-write lock, and the   *)
(* guard that lets scripts use the network while they download.            *)
(*                                                                         *)
(* A script is what it calls, one step per call.  The components of a      *)
(* dataset are abstracted to who made them: the user, the script, the head *)
(* version, or nobody.                                                     *)
(***************************************************************************)
EXTENDS Integers, Sequences

CONSTANTS Runs,
          Plans,     \* the steps of a transform; <<>> is a single script
          Users,     \* the sets of components a user supplies
          MaxCalls,  \* BOUND: calls a script makes
          MaxCancel  \* BOUND: requests that are cancelled, and closings of the bus

StepKinds == {"setup", "download", "transform", "odd", "unscripted", "save", "unknown"}

Components == {"meta", "structure", "body"}

ASSUME PlansAssumption == \A p \in Plans : p \in Seq(StepKinds)

ASSUME UsersAssumption == \A u \in Users : u \subseteq Components

VARIABLES caller,   \* the goroutine that called Apply
          runner,   \* the goroutine that executes the steps
          fwd,      \* the goroutine that forwards events
          target,   \* the dataset being built, and the one it starts from
          runState, \* what the subscriber of the run has collected
          logged,   \* the run as Save wrote it to the logbook
          bus,      \* the event bus
          net,      \* HTTPGuard.NetworkEnabled
          cancels

vars == <<caller, runner, fwd, target, runState, logged, bus, net, cancels>>

Nobody     == [c \in Components |-> "none"]
NoEvent    == [type |-> "none", status |-> "none"]
NewState   == [status |-> "none", steps |-> <<>>]

Init ==
  /\ caller = [r \in Runs |-> [pc |-> "idle", wait |-> TRUE, save |-> TRUE, ctx |-> "open", err |-> FALSE]]
  /\ runner = [r \in Runs |-> [pc |-> "none", plan |-> <<>>, i |-> 0, phase |-> "none", calls |-> 0,
                               status |-> "succeeded", err |-> FALSE, out |-> NoEvent, then |-> "none",
                               did |-> <<>>, mod |-> FALSE, cached |-> FALSE]]
  /\ fwd = [r \in Runs |-> [pc |-> "none", event |-> NoEvent]]
  /\ target = [r \in Runs |-> [head |-> Nobody, user |-> {}, now |-> Nobody, read |-> "none"]]
  /\ runState = [r \in Runs |-> NewState]
  /\ logged = [r \in Runs |-> NewState]
  /\ bus = [closed |-> FALSE, closing |-> FALSE, readers |-> {}, waiting |-> {}, idSubs |-> {}]
  /\ net = FALSE
  /\ cancels = 0

-----------------------------------------------------------------------------
(***************************************************************************)
(* The bus.  sync.RWMutex makes new readers wait for a waiting writer.     *)
(***************************************************************************)
WritersDone == bus.waiting = {} /\ (bus.closing => bus.closed)
RLock(r) == WritersDone /\ bus' = [bus EXCEPT !.readers = @ \union {r}]
RUnlock(r) == bus' = [bus EXCEPT !.readers = @ \ {r}]

\* An output belongs to the last step; without one there is nowhere to put it.
CountOutput(steps) ==
  IF steps = <<>> THEN steps ELSE [steps EXCEPT ![Len(steps)].output = @ + 1]

\* run.State.AddTransformEvent; without a step there is nowhere to put an
\* output, and the error is dropped by the subscriber.
AddTransformEvent(s, e) ==
  CASE e.type = "start"     -> [s EXCEPT !.status = "running"]
    [] e.type = "stop"      -> [s EXCEPT !.status = e.status]
    [] e.type = "stepStart" -> [s EXCEPT !.steps = Append(@, [status |-> "running", output |-> 0])]
    [] e.type = "stepSkip"  -> [s EXCEPT !.steps = Append(@, [status |-> "skipped", output |-> 0])]
    [] e.type = "stepStop" /\ s.steps # <<>> ->
         [s EXCEPT !.steps[Len(s.steps)].status = e.status]
    [] e.type \in {"print", "error", "preview"} -> [s EXCEPT !.steps = CountOutput(@)]
    [] OTHER -> s

-----------------------------------------------------------------------------
(***************************************************************************)
(* The caller: DatasetMethods.Save, which waits, and TransformMethods.     *)
(* Apply, which may not.                                                   *)
(***************************************************************************)
NoWork   == UNCHANGED <<target, net>>

\* A request comes with the components the user supplies and subscribes to the
\* events of the run: SubscribeID waits for the write lock.
Request(r) ==
  /\ caller[r].pc = "idle"
  /\ \E save, wait \in BOOLEAN, user \in Users, plan \in Plans,
        head \in {Nobody, [c \in Components |-> "head"]} :
       /\ save => wait
       /\ caller' = [caller EXCEPT ![r].pc = "subscribe", ![r].save = save, ![r].wait = wait]
       /\ target' = [target EXCEPT ![r].head = head, ![r].user = user,
                       ![r].now = [c \in Components |-> IF c \in user THEN "user" ELSE "none"]]
       /\ runner' = [runner EXCEPT ![r].plan = plan]
  /\ bus' = [bus EXCEPT !.waiting = @ \union {r}]
  /\ UNCHANGED <<fwd, runState, logged, net, cancels>>

SubscribeID(r) ==
  /\ caller[r].pc = "subscribe" /\ bus.readers = {}
  /\ bus' = [bus EXCEPT !.waiting = @ \ {r}, !.idSubs = @ \union {r}]
  /\ caller' = [caller EXCEPT ![r].pc = "apply"]
  /\ UNCHANGED <<runner, fwd, target, runState, logged, net, cancels>>

\* Service.Apply returns early when the head version cannot be loaded, else
\* it starts the runner and waits on doneCh.
Apply(r) ==
  /\ caller[r].pc = "apply"
  /\ \/ /\ caller' = [caller EXCEPT ![r].pc = "returned", ![r].err = TRUE]
        /\ UNCHANGED runner
     \/ /\ caller' = [caller EXCEPT ![r].pc = "wait"]
        /\ runner' = [runner EXCEPT ![r].pc = IF caller[r].wait THEN "fork" ELSE "early"]
  /\ NoWork /\ UNCHANGED <<fwd, runState, logged, bus, cancels>>

\* A run that failed is written to the logbook at once, one that succeeded with
\* the version, or as unchanged when there is none to save.
WriteTransformRun(r) ==
  /\ caller[r].pc = "returned" /\ caller[r].save
  /\ caller' = [caller EXCEPT ![r].pc = "end"]
  /\ \/ runState' = runState
     \/ ~caller[r].err /\ runState' = [runState EXCEPT ![r].status = "unchanged"]
  /\ logged' = [logged EXCEPT ![r] = runState'[r]]
  /\ NoWork /\ UNCHANGED <<runner, fwd, bus, cancels>>

\* A save that fails for another reason than that nothing has changed writes no
\* run, nor does one whose logbook cannot be written.
SaveFails(r) ==
  /\ caller[r].pc = "returned" /\ caller[r].save
  /\ caller' = [caller EXCEPT ![r].pc = "end"]
  /\ NoWork /\ UNCHANGED <<runner, fwd, runState, logged, bus, cancels>>

ApplyResult(r) ==
  /\ caller[r].pc = "returned" /\ ~caller[r].save
  /\ caller' = [caller EXCEPT ![r].pc = "end"]
  /\ NoWork /\ UNCHANGED <<runner, fwd, runState, logged, bus, cancels>>

\* The client goes away while Apply waits.
Cancel(r) ==
  /\ caller[r].pc = "wait" /\ caller[r].ctx = "open" /\ cancels < MaxCancel
  /\ caller' = [caller EXCEPT ![r].ctx = "cancelled"]
  /\ cancels' = cancels + 1
  /\ NoWork /\ UNCHANGED <<runner, fwd, runState, logged, bus>>

\* The goroutine of NewBus closes the bus when the instance shuts down; it
\* waits for the write lock like a subscriber.
ShutDown ==
  /\ ~bus.closing /\ cancels < MaxCancel
  /\ bus' = [bus EXCEPT !.closing = TRUE]
  /\ cancels' = cancels + 1
  /\ NoWork /\ UNCHANGED <<caller, runner, fwd, runState, logged>>

CloseBus ==
  /\ bus.closing /\ ~bus.closed /\ bus.readers = {}
  /\ bus' = [bus EXCEPT !.closed = TRUE]
  /\ NoWork /\ UNCHANGED <<caller, runner, fwd, runState, logged, cancels>>

-----------------------------------------------------------------------------
(***************************************************************************)
(* The forwarder.                                                          *)
(***************************************************************************)
\* The runner's own cancel, or the request's unless the run is detached.
CtxDone(r) == runner[r].pc = "exit" \/ (caller[r].wait /\ caller[r].ctx = "cancelled")

\* eventsCh is unbuffered: the send and the receive are one step.
Receive(r) ==
  /\ runner[r].pc = "send" /\ fwd[r].pc = "select"
  /\ fwd' = [fwd EXCEPT ![r] = [pc |-> "publish", event |-> runner[r].out]]
  /\ runner' = [runner EXCEPT ![r].pc = runner[r].then, ![r].out = NoEvent]
  /\ UNCHANGED <<caller, target, runState, logged, bus, net, cancels>>

\* MUTANT: the forwarder gives up when the bus is closed.
PublishGivesUp(r) ==
  /\ fwd[r].pc = "publish" /\ WritersDone
  /\ IF bus.closed THEN bus' = bus /\ fwd' = [fwd EXCEPT ![r].pc = "exit"]
                   ELSE RLock(r) /\ fwd' = [fwd EXCEPT ![r].pc = "handlers"]
  /\ UNCHANGED <<caller, runner, target, runState, logged, net, cancels>>

\* bus.publish: a closed bus drops the event.
Publish(r) ==
  /\ fwd[r].pc = "publish"
  /\ IF bus.closed
       THEN /\ WritersDone /\ bus' = bus
            /\ fwd' = [fwd EXCEPT ![r] = [pc |-> "select", event |-> NoEvent]]
       ELSE RLock(r) /\ fwd' = [fwd EXCEPT ![r].pc = "handlers"]
  /\ UNCHANGED <<caller, runner, target, runState, logged, net, cancels>>

\* The handlers run under the read lock.
Handlers(r) ==
  /\ fwd[r].pc = "handlers"
  /\ runState' = IF caller[r].save THEN [runState EXCEPT ![r] = AddTransformEvent(@, fwd[r].event)] ELSE runState
  /\ fwd' = [fwd EXCEPT ![r] = [pc |-> "select", event |-> NoEvent]]
  /\ RUnlock(r)
  /\ UNCHANGED <<caller, runner, target, logged, net, cancels>>

Stop(r) ==
  /\ fwd[r].pc = "select" /\ CtxDone(r)
  /\ fwd' = [fwd EXCEPT ![r].pc = "exit"]
  /\ UNCHANGED <<caller, runner, target, runState, logged, bus, net, cancels>>

-----------------------------------------------------------------------------
(***************************************************************************)
(* The runner.                                                             *)
(***************************************************************************)
Event(type, status) == [type |-> type, status |-> status]
Plan(r) == runner[r].plan
Kind(r) == runner[r].plan[runner[r].i]
Others(r) == UNCHANGED <<caller, fwd, runState, logged, bus, cancels>>

Send(rec, e, p) == [rec EXCEPT !.pc = "send", !.out = e, !.then = p]

\* A run nobody waits for lets the caller go first.
LetGo(r) ==
  /\ runner[r].pc = "early" /\ caller[r].pc = "wait"
  /\ runner' = [runner EXCEPT ![r].pc = "fork"]
  /\ caller' = [caller EXCEPT ![r].pc = "returned"]
  /\ UNCHANGED <<fwd, target, runState, logged, bus, net, cancels>>

Fork(r) ==
  /\ runner[r].pc = "fork"
  /\ fwd' = [fwd EXCEPT ![r].pc = "select"]
  /\ runner' = [runner EXCEPT ![r] = Send([@ EXCEPT !.i = 1], Event("start", "none"),
                                          IF Plan(r) = <<>> THEN "exec" ELSE "loop")]
  /\ UNCHANGED <<caller, target, runState, logged, bus, net, cancels>>

\* MUTANT: the steps after one that failed are not reported.
NextStepNoSkip(r) ==
  /\ runner[r].pc = "loop"
  /\ LET me == runner[r] IN
     runner' = [runner EXCEPT ![r] =
       IF me.i > Len(Plan(r)) \/ me.status # "succeeded" THEN Send(me, Event("stop", me.status), "done")
       ELSE Send([me EXCEPT !.did = Append(@, [status |-> "running", output |-> 0])],
                 Event("stepStart", "none"), "exec")]
  /\ UNCHANGED <<target, net>> /\ Others(r)

\* The loop over the steps: what comes after a failed step is skipped.
NextStep(r) ==
  /\ runner[r].pc = "loop"
  /\ LET me == runner[r] IN
     runner' = [runner EXCEPT ![r] =
       IF me.i > Len(Plan(r)) THEN Send(me, Event("stop", me.status), "done")
       ELSE IF me.status # "succeeded"
         THEN Send([me EXCEPT !.i = @ + 1, !.did = Append(@, [status |-> "skipped", output |-> 0])],
                   Event("stepSkip", "none"), "loop")
         ELSE Send([me EXCEPT !.did = Append(@, [status |-> "running", output |-> 0])],
                   Event("stepStart", "none"), "exec")]
  /\ UNCHANGED <<target, net>> /\ Others(r)

\* An output event, counted with the step it belongs to.
Output(rec, type, p) == Send([rec EXCEPT !.did = CountOutput(@)], Event(type, "none"), p)

\* A step is dispatched on its syntax: qri save is ignored and what is no
\* starlark fails the run, though Apply returns no error for it.
RunStep(r) ==
  /\ runner[r].pc = "exec" /\ Plan(r) # <<>>
  /\ runner' = [runner EXCEPT ![r] =
       CASE Kind(r) = "save"       -> [@ EXCEPT !.pc = "stepEnd"]
         [] Kind(r) = "unknown"    -> [@ EXCEPT !.pc = "failed"]
         [] Kind(r) = "unscripted" -> [@ EXCEPT !.pc = "failed", !.err = TRUE]
         [] OTHER                  -> [@ EXCEPT !.pc = "script", !.phase = "top"]]
  /\ UNCHANGED <<target, net>> /\ Others(r)

ExecScript(r) ==
  /\ runner[r].pc = "exec" /\ Plan(r) = <<>>
  /\ runner' = [runner EXCEPT ![r].pc = "script", ![r].phase = "top"]
  /\ UNCHANGED <<target, net>> /\ Others(r)

\* MUTANT: only a download that succeeds closes the network again.
FailsOpen(r) ==
  /\ runner' = [runner EXCEPT ![r].pc = "failed", ![r].err = TRUE]
  /\ UNCHANGED net
  /\ Others(r)

\* A call of the script that ends it: an error of its own, a component that
\* the user supplied, a refused request ...
Fails(r) ==
  /\ runner' = [runner EXCEPT ![r].pc = "failed", ![r].err = TRUE]
  /\ net' = IF runner[r].phase = "download" THEN FALSE ELSE net
  /\ Others(r)

Calling(r) == runner[r].pc = "script" /\ runner[r].calls < MaxCalls
Called(rec) == [rec EXCEPT !.calls = @ + 1]

ScriptPrint(r) ==
  /\ Calling(r)
  /\ runner' = [runner EXCEPT ![r] = Output(Called(@), "print", "script")]
  /\ UNCHANGED <<target, net>> /\ Others(r)

\* load_dataset resolves and loads, and may fail.
LoadDataset(r) ==
  /\ Calling(r)
  /\ \/ runner' = [runner EXCEPT ![r] = Called(@)] /\ UNCHANGED net /\ Others(r)
     \/ Fails(r)
  /\ UNCHANGED target

Error(r) == Calling(r) /\ Fails(r) /\ UNCHANGED target

\* HTTPGuard.Allowed
HTTPGet(r) ==
  /\ Calling(r)
  /\ \/ net /\ runner' = [runner EXCEPT ![r] = Called(@)] /\ UNCHANGED net /\ Others(r)
     \/ ~net /\ Fails(r)
  /\ UNCHANGED target

InTransform(r) == Calling(r) /\ runner[r].phase = "transform"

\* MUTANT: a component the user supplied may be set.
MutateCheckNot(r, c) == TRUE

\* MutatedComponentsFunc refuses what the user supplied.
MutateCheck(r, c) == c \notin target[r].user

SetMeta(r) ==
  /\ InTransform(r)
  /\ \/ /\ MutateCheck(r, "meta")
        /\ target' = [target EXCEPT ![r].now["meta"] = "script"]
        /\ runner' = [runner EXCEPT ![r] = Called(@)] /\ UNCHANGED net /\ Others(r)
     \/ ~MutateCheck(r, "meta") /\ Fails(r) /\ UNCHANGED target

SetStructure(r) ==
  /\ InTransform(r)
  /\ \/ /\ MutateCheck(r, "structure")
        /\ target' = [target EXCEPT ![r].now["structure"] = "script"]
        /\ runner' = [runner EXCEPT ![r] = Called(@)] /\ UNCHANGED net /\ Others(r)
     \/ ~MutateCheck(r, "structure") /\ Fails(r) /\ UNCHANGED target

\* MUTANT: set_body keeps what get_body cached.
SetBodyKeepsCache(r) ==
  /\ InTransform(r) /\ MutateCheck(r, "body") /\ MutateCheck(r, "structure")
  /\ target' = [target EXCEPT ![r].now["body"] = "script"]
  /\ runner' = [runner EXCEPT ![r] = [Called(@) EXCEPT !.mod = TRUE]]
  /\ UNCHANGED net /\ Others(r)

\* set_body, from a string to be parsed or from data; data needs a structure
\* to be written with: the one there is, the head's or a default.
SetBody(r) ==
  /\ InTransform(r)
  /\ \/ /\ MutateCheck(r, "body") /\ MutateCheck(r, "structure")
        /\ \E parse \in BOOLEAN :
             target' = [target EXCEPT
               ![r].now["body"] = "script",
               ![r].now["structure"] = IF parse \/ @ # "none" THEN @
                                       ELSE IF target[r].head["structure"] # "none" THEN "head"
                                       ELSE "script"]
        /\ runner' = [runner EXCEPT ![r] = [Called(@) EXCEPT !.mod = TRUE, !.cached = FALSE]]
        /\ UNCHANGED net /\ Others(r)
     \/ ~(MutateCheck(r, "body") /\ MutateCheck(r, "structure")) /\ Fails(r) /\ UNCHANGED target

\* get_body gives the head's body until the step has set one, and keeps what
\* it gave.  A body without a structure cannot be read.
GetBody(r) ==
  LET t == target[r]
      from == IF runner[r].mod THEN t.now ELSE t.head
  IN
  /\ InTransform(r)
  /\ \/ /\ runner[r].cached
        /\ runner' = [runner EXCEPT ![r] = Called(@)] /\ UNCHANGED <<target, net>> /\ Others(r)
     \/ /\ ~runner[r].cached /\ from["body"] = "none"
        /\ runner' = [runner EXCEPT ![r] = Called(@)]
        /\ target' = [target EXCEPT ![r].read = "none"] /\ UNCHANGED net /\ Others(r)
     \/ ~runner[r].cached /\ from["body"] # "none" /\ from["structure"] = "none" /\ Fails(r) /\ UNCHANGED target
     \/ /\ ~runner[r].cached /\ from["body"] # "none" /\ from["structure"] # "none"
        /\ runner' = [runner EXCEPT ![r] = [Called(@) EXCEPT !.cached = TRUE]]
        /\ target' = [target EXCEPT ![r].read = from["body"]] /\ UNCHANGED net /\ Others(r)

\* StepRunner.callStepFunc: the category names the function, which may not be
\* defined; setup has none.
CallStepFunc(r) ==
  /\ runner[r].pc = "script" /\ runner[r].phase = "top" /\ Plan(r) # <<>>
  /\ \/ /\ Kind(r) = "setup"
        /\ runner' = [runner EXCEPT ![r].pc = "stepEnd"] /\ UNCHANGED net
     \/ /\ Kind(r) # "setup"
        /\ runner' = [runner EXCEPT ![r].pc = "failed", ![r].err = TRUE] /\ UNCHANGED net
     \/ /\ Kind(r) \in {"download", "transform"}
        /\ runner' = [runner EXCEPT ![r].phase = Kind(r), ![r].mod = FALSE, ![r].cached = FALSE]
        /\ net' = (net \/ Kind(r) = "download")
  /\ UNCHANGED target /\ Others(r)

\* The deferred DisableNtwk.
LeaveDownload(r) ==
  /\ runner[r].pc = "script" /\ runner[r].phase = "download" /\ Plan(r) # <<>>
  /\ runner' = [runner EXCEPT ![r].pc = "stepEnd"] /\ net' = FALSE
  /\ UNCHANGED target /\ Others(r)

\* After a transform function the structure of a body is inferred and a preview
\* is sent; both may fail.
LeaveTransform(r) ==
  /\ runner[r].pc = "script" /\ runner[r].phase = "transform" /\ Plan(r) # <<>>
  /\ \/ /\ target' = [target EXCEPT ![r].now["structure"] =
                           IF target[r].now["body"] # "none" /\ @ = "none" THEN "inferred" ELSE @]
        /\ runner' = [runner EXCEPT ![r] = Output(@, "preview", "stepEnd")]
     \/ /\ runner' = [runner EXCEPT ![r].pc = "failed", ![r].err = TRUE]
        /\ UNCHANGED target
  /\ UNCHANGED net /\ Others(r)

\* ExecScript calls download, if the script defines it, ...
ScriptDownload(r) ==
  /\ runner[r].pc = "script" /\ runner[r].phase = "top" /\ Plan(r) = <<>>
  /\ runner' = [runner EXCEPT ![r].phase = "download"] /\ net' = TRUE
  /\ UNCHANGED target /\ Others(r)

\* ... and transform.
ScriptTransform(r) ==
  /\ runner[r].pc = "script" /\ runner[r].phase \in {"top", "download"} /\ Plan(r) = <<>>
  /\ runner' = [runner EXCEPT ![r].phase = "transform"]
  /\ net' = (net /\ runner[r].phase # "download")
  /\ UNCHANGED target /\ Others(r)

ScriptEnd(r) ==
  /\ runner[r].pc = "script" /\ Plan(r) = <<>>
  /\ runner' = [runner EXCEPT ![r].pc = "stepEnd"]
  /\ net' = (net /\ runner[r].phase # "download")
  /\ UNCHANGED target /\ Others(r)

\* The error is reported and fails the run.
Failed(r) ==
  /\ runner[r].pc = "failed"
  /\ runner' = [runner EXCEPT ![r] = Output([@ EXCEPT !.status = "failed"], "error", "stepEnd")]
  /\ UNCHANGED <<target, net>> /\ Others(r)

\* A script without steps is over, a step reports its status.
StepEnd(r) ==
  /\ runner[r].pc = "stepEnd"
  /\ LET me == runner[r] IN
     runner' = [runner EXCEPT ![r] =
       IF Plan(r) = <<>> THEN Send(me, Event("stop", me.status), "done")
       ELSE Send([me EXCEPT !.i = @ + 1, !.did[Len(me.did)].status = me.status],
                 Event("stepStop", me.status), "loop")]
  /\ UNCHANGED <<target, net>> /\ Others(r)

\* doneCh <- runErr is a rendezvous too; then the context is cancelled.
Finish(r) ==
  /\ runner[r].pc = "done" /\ caller[r].pc = "wait"
  /\ runner' = [runner EXCEPT ![r].pc = "exit"]
  /\ caller' = [caller EXCEPT ![r].pc = "returned", ![r].err = runner[r].err]
  /\ UNCHANGED <<fwd, target, runState, logged, bus, net, cancels>>

-----------------------------------------------------------------------------
CallerStep(r)    == SubscribeID(r) \/ Apply(r) \/ WriteTransformRun(r) \/ SaveFails(r)
                    \/ ApplyResult(r)
ForwarderStep(r) == Receive(r) \/ Publish(r) \/ Handlers(r) \/ Stop(r)
ScriptCall(r)    == ScriptPrint(r) \/ LoadDataset(r) \/ Error(r) \/ HTTPGet(r) \/ SetMeta(r) \/ SetStructure(r)
                    \/ SetBody(r) \/ GetBody(r)
RunnerStep(r)    == LetGo(r) \/ Fork(r) \/ NextStep(r) \/ RunStep(r) \/ ExecScript(r) \/ ScriptCall(r)
                    \/ CallStepFunc(r) \/ LeaveDownload(r) \/ LeaveTransform(r) \/ ScriptDownload(r)
                    \/ ScriptTransform(r) \/ ScriptEnd(r) \/ Failed(r) \/ StepEnd(r) \/ Finish(r)

Next ==
  \/ \E r \in Runs : Request(r) \/ Cancel(r) \/ CallerStep(r) \/ ForwarderStep(r) \/ RunnerStep(r)
  \/ ShutDown \/ CloseBus

Spec == Init /\ [][Next]_vars

\* The goroutines go on: the Go scheduler runs every goroutine that can run, and
\* a waiting writer gets the lock.  A script makes finitely many calls.
Fairness ==
  /\ \A r \in Runs : WF_vars(CallerStep(r)) /\ WF_vars(ForwarderStep(r)) /\ WF_vars(RunnerStep(r))
  /\ WF_vars(CloseBus)

FairSpec == Spec /\ Fairness

-----------------------------------------------------------------------------
Undisturbed(r) == ~bus.closing /\ caller[r].ctx = "open"

Outcomes    == {"succeeded", "failed"}
StepState   == [status : {"running", "skipped"} \union Outcomes, output : Nat]
EventRecord == [type : {"none", "start", "stop", "stepStart", "stepStop", "stepSkip",
                        "print", "error", "preview"},
                status : {"none"} \union Outcomes]
CallerState == [pc : {"idle", "subscribe", "apply", "wait", "returned", "end"},
                wait : BOOLEAN, save : BOOLEAN, ctx : {"open", "cancelled"}, err : BOOLEAN]
RunnerPcs   == {"none", "early", "fork", "loop", "exec", "script", "failed", "stepEnd",
                "send", "done", "exit"}
RunnerState == [pc : RunnerPcs, plan : Seq(StepKinds), i : Nat,
                phase : {"none", "top", "download", "transform"}, calls : Nat,
                status : Outcomes, err : BOOLEAN, out : EventRecord, then : RunnerPcs,
                did : Seq(StepState), mod : BOOLEAN, cached : BOOLEAN]
FwdState    == [pc : {"none", "select", "publish", "handlers", "exit"}, event : EventRecord]
Makers      == {"none", "user", "script", "head", "inferred"}
TargetState == [head : [Components -> Makers], user : SUBSET Components,
                now : [Components -> Makers], read : Makers]
RunState    == [status : {"none", "running", "unchanged"} \union Outcomes, steps : Seq(StepState)]
BusState    == [closed : BOOLEAN, closing : BOOLEAN, readers : SUBSET Runs,
                waiting : SUBSET Runs, idSubs : SUBSET Runs]

\* What the variables hold.
TypeOK ==
  /\ caller \in [Runs -> CallerState]
  /\ runner \in [Runs -> RunnerState]
  /\ fwd \in [Runs -> FwdState]
  /\ target \in [Runs -> TargetState]
  /\ runState \in [Runs -> RunState] /\ logged \in [Runs -> RunState]
  /\ bus \in BusState
  /\ net \in BOOLEAN

\* What a subscriber has collected when the last step is over is what happened:
\* one entry per step, in order, with its status and its outputs, and only the
\* stop event may still be on its way (State.AddTransformEvent).  Apply may
\* return before the stop event is handled, so that Save reads, and records, a
\* run that is still "running".
RunStateFollows ==
  \A r \in Runs :
    caller[r].save /\ runner[r].pc \in {"done", "exit"} /\ Undisturbed(r) =>
      /\ runState[r].steps = runner[r].did
      /\ Len(runner[r].did) = Len(Plan(r))
      /\ fwd[r].pc \in {"select", "exit"} => runState[r].status \in {runner[r].status, "unchanged"}
      /\ logged[r].status \in {"none", "running", runner[r].status, "unchanged"}

\* Whatever a script calls, in whatever step, the components the user supplied
\* are the ones that come out (MutatedComponentsFunc).
UserComponentsKept ==
  \A r \in Runs : \A c \in target[r].user : target[r].now[c] = "user"

\* Within a step, get_body gives the body that set_body has set, also when a
\* body was read and cached before.
BodyReadBack ==
  \A r \in Runs : runner[r].mod /\ runner[r].cached => target[r].read = "script"

\* The network is on only while some script is in its download function, however
\* earlier ones have ended, and whichever runs overlapped (HTTPGuard).
NetworkOffAtRest ==
  net => \E r \in Runs : runner[r].phase = "download" /\ runner[r].pc \in {"script", "send"}

\* What a script sees of the world: the body it has set (BodyReadBack), and no
\* network that an earlier script, or its own download function, has left on
\* (NetworkOffAtRest).  The guard is one for the process: where runs overlap a
\* script may find the network on in another's download, though the error it
\* would otherwise get says that only the download step has it (sandbox.go:13).
ScriptSandboxed == BodyReadBack /\ NetworkOffAtRest

\* A run comes to the point where it signals its end, whatever the script does,
\* the bus being closed included, unless its request is cancelled: then the
\* forwarder leaves and the runner waits forever on the channel of events.
RunsFinish ==
  \A r \in Runs :
    runner[r].pc = "fork" ~> runner[r].pc \in {"done", "exit"} \/ (caller[r].wait /\ caller[r].ctx = "cancelled")

=============================================================================
