------------------------------ MODULE Instance ------------------------------
(***************************************************************************)
(* A lib.Instance over a node: construction, Connect, Shutdown, and the    *)
(* goroutines that report when what the instance holds has been released.  *)
(***************************************************************************)
EXTENDS Node

CONSTANTS MaxClients    \* bound: remote clients made by an instance

VARIABLES
    inst,     \* [at, client, nil, done, waiter, cancelled]: the instance and its doneCh
    holders   \* holders[k]: [at, of], the goroutine that holds the WaitGroup for k

vars == <<nodeVars, inst, holders>>

\* What an instance holds: its filesystem (0) and the remote clients it has had, or
\* has tried to make.
Held == 0..MaxClients

Running == inst.at \notin {"none", "crashed"}
Started == [at |-> "started", of |-> 0]

-----------------------------------------------------------------------------
\* NewInstance: the filesystem's and the client's goroutines and the one that
\* waits for them are started, in no order.
NewInstance ==
    /\ inst.at = "none"
    /\ inst' = [inst EXCEPT !.at = "up", !.client = 1, !.waiter = "waits"]
    /\ holders' = [holders EXCEPT ![0] = Started, ![1] = Started]
    /\ UNCHANGED nodeVars

\* Connect takes the node online, shuts the client down ...
Connect(outcome) ==
    /\ inst.at = "up" /\ inst.client < MaxClients
    /\ GoOnline(outcome)
    /\ inst' = [inst EXCEPT !.at = IF outcome = "ok" \/ net.online THEN "connecting" ELSE "up"]
    /\ UNCHANGED holders

\* ... and makes another one on the node's new context, and the goroutine that
\* holds the group until it is done; or NewClient fails, and there is none.  What
\* Connect does for a remote after that may fail as well, and leaves the client.
Reconnects(made) ==
    /\ inst.at = "connecting"
    /\ inst' = [inst EXCEPT !.at = "up", !.client = @ + 1, !.nil = ~made]
    /\ holders' = [holders EXCEPT ![inst.client + 1] = IF made THEN Started ELSE @]
    /\ UNCHANGED nodeVars

\* MUTANT: the context of the instance is not cancelled.
ShutdownKeepsContext ==
    /\ Called /\ inst.at = "up" /\ GoOffline
    /\ inst' = [inst EXCEPT !.at = "closing"]
    /\ UNCHANGED <<dials, loops, peers, open, last, stored, user, rslv, holders>>

\* Shutdown: the client, the node, and the context of the instance.
Shutdown ==
    /\ Called /\ inst.at = "up"
    /\ GoOffline
    /\ inst' = [inst EXCEPT !.at = "closing", !.cancelled = TRUE]
    /\ UNCHANGED <<dials, loops, peers, open, last, stored, user, rslv, holders>>

\* A goroutine adds itself to the group once it runs, and waits for the client the
\* instance has by then; for none it panics.
HolderAdds(k) ==
    /\ Running /\ holders[k].at = "started" /\ ~(k # 0 /\ inst.nil)
    /\ holders' = [holders EXCEPT ![k] = [at |-> "added", of |-> inst.client]]
    /\ UNCHANGED <<nodeVars, inst>>

HolderPanics(k) ==
    /\ Running /\ holders[k].at = "started" /\ k # 0 /\ inst.nil
    /\ inst' = [inst EXCEPT !.at = "crashed"]
    /\ UNCHANGED <<nodeVars, holders>>

\* What a goroutine waits for: the filesystem goes with the instance's context;
\* a client is done when it has been shut down.
Released(k) == IF k = 0 THEN inst.cancelled
               ELSE holders[k].of < inst.client \/ inst.at \in {"connecting", "closing", "closed"}

HolderLeaves(k) ==
    /\ Running /\ holders[k].at = "added" /\ Released(k)
    /\ holders' = [holders EXCEPT ![k].at = "gone"]
    /\ UNCHANGED <<nodeVars, inst>>

\* waitForAllDone: nobody in the group, so doneCh is closed.
waitForAllDone ==
    /\ Running /\ inst.waiter = "waits" /\ \A k \in Held : holders[k].at # "added"
    /\ inst' = [inst EXCEPT !.waiter = "gone", !.done = TRUE]
    /\ UNCHANGED <<nodeVars, holders>>

\* The goroutine of Shutdown passes the closing error on.
ShutdownReported ==
    /\ inst.at = "closing" /\ inst.done /\ inst' = [inst EXCEPT !.at = "closed"]
    /\ UNCHANGED <<nodeVars, holders>>

-----------------------------------------------------------------------------
Init ==
    /\ NodeInit
    /\ inst = [at |-> "none", client |-> 0, nil |-> FALSE, done |-> FALSE, waiter |-> "none", cancelled |-> FALSE]
    /\ holders = [k \in Held |-> [at |-> "none", of |-> 0]]

Serving == Running /\ NodeSteps /\ UNCHANGED <<inst, holders>>

Next ==
    \/ NewInstance \/ Shutdown \/ waitForAllDone \/ ShutdownReported
    \/ \E o \in {"ok", "hostFails", "ownerFails"} : Connect(o)
    \/ \E made \in BOOLEAN : Reconnects(made)
    \/ \E k \in Held : HolderAdds(k) \/ HolderPanics(k) \/ HolderLeaves(k)
    \/ Serving

\* The goroutines of the instance run when they can.  The network, the users and
\* the other nodes are not obliged to anything.
Goroutines ==
    /\ WF_vars(waitForAllDone) /\ WF_vars(ShutdownReported)
    /\ \A k \in Held : WF_vars(HolderAdds(k) \/ HolderPanics(k)) /\ WF_vars(HolderLeaves(k))

Spec == Init /\ [][Next]_vars /\ Goroutines

-----------------------------------------------------------------------------

\* A reference is reported unknown to the peers only after every peer that was asked
\* has answered and does not have it, or could not be reached or went away before it
\* answered, which ResolveRef cannot tell from an answer; whatever connects and
\* disconnects meanwhile, and never while an answer is still out
\* (p2pRefResolver.ResolveRef, resolveRefRequest).
NotFoundMeansAll ==
    rslv.at = "notfound" =>
      \A p \in rslv.asked : rslv.answer[p] = "wasLost" \/ (rslv.answer[p] = "wasEmpty" /\ p \notin Holders)

\* Nobody waits for a profile that nobody fetches any more: as long as the channel
\* that an event loop, a user or the handler of a disconnect waits on is open, the
\* profileRequest that closes it is running, however often the peer comes and goes
\* and whatever channel the map has for it by then (profileWait, profileRequest,
\* HandleQriPeerDisconnect).  How long that may run is not bounded: nothing uses
\* ProfileTimeout (profile_service.go:22-24).
WaitsAreServed ==
    \A w \in {loops[i].wait : i \in DOMAIN loops} \cup {user.wait} \cup {d.wait : d \in discs} :
      w \in open => \E r \in reqs : r.wait = w

\* A shutdown is reported, after any number of connects and failed connects, unless
\* a goroutine that runs late finds no client and panics (Instance.Shutdown,
\* waitForAllDone).
ShutdownIsReported == inst.at = "closing" ~> inst.at \in {"closed", "crashed"}

=============================================================================
