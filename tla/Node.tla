-------------------------------- MODULE Node --------------------------------
(***************************************************************************)
(* A qri node on the peer-to-peer network (p2p/): going online and         *)
(* offline, the profile exchange that follows every connection, the user's *)
(* requests to peers, and resolving a reference by asking the connected    *)
(* peers.  libp2p (the host, its connections and streams, the identify     *)
(* protocol and its events) is external and modelled from how the node     *)
(* uses it.  Publishing on the event bus changes nothing here and is left  *)
(* out; so are addresses and the bytes on the wire.                        *)
(***************************************************************************)
EXTENDS Naturals, Sequences, FiniteSets

CONSTANTS Peers,       \* the other nodes
          Qri,         \* those that speak this version's qri protocols
          Holders,     \* those of Qri whose local resolver knows the reference
          MaxDials,    \* bound: connections made in all
          MaxCalls,    \* bound: calls users make of the node
          MaxOnline    \* bound: calls of GoOnline

\* A node knows finitely many others.
ASSUME NodeAssumption == IsFiniteSet(Peers) /\ Holders \subseteq Qri /\ Qri \subseteq Peers

VARIABLES
    net,     \* [online, host, shutdown, live, calls]: the node and its contexts
    conn,    \* conn[p]: [at, id], at "no", "new" (not yet identified) or "yes"
    dials,   \* connections made so far
    calls,   \* calls made by users so far
    loops,   \* one per libp2pSubscribe: [queue, wait]
    peers,   \* QriProfileService.peers: the wait channel of p, or 0
    open,    \* the wait channels not yet closed
    last,    \* the channels made so far
    reqs,    \* running profileRequests: [peer, wait, at]
    discs,   \* running HandleQriPeerDisconnects: [id, peer, at, wait]
    stored,  \* the peers whose profile is in the profile store
    user,    \* a user's request to a peer: [op, peer, at, wait]
    rslv     \* the reference being resolved: [at, asked, answer, left]

qis == <<peers, open, last, reqs>>
nodeVars == <<net, conn, dials, calls, loops, qis, discs, stored, user, rslv>>

Wait == 0..(2 * MaxDials + 2)
\* A user calls a method of the node.
Called == calls < MaxCalls /\ calls' = calls + 1

Idle == [op |-> "none", peer |-> CHOOSE p \in Peers : TRUE, at |-> "idle", wait |-> 0]
NoRef == [at |-> "idle", asked |-> {}, answer |-> [p \in {} |-> "none"], left |-> 0]

TypeOK ==
    /\ net.online \in BOOLEAN /\ net.host \in {"nil", "open", "closed"}
    /\ net.calls \in 0..MaxOnline /\ net.shutdown \in 0..net.calls /\ net.live \subseteq 1..net.calls
    /\ conn \in [Peers -> [at : {"no", "new", "yes"}, id : 0..dials]] /\ dials \in 0..MaxDials /\ calls \in 0..MaxCalls
    /\ \A i \in DOMAIN loops : loops[i].wait \in Wait /\ loops[i].queue \in Seq(Peers)
    /\ peers \in [Peers -> Wait] /\ open \subseteq 1..last /\ last \in Wait
    /\ reqs \subseteq [peer : Peers, wait : 1..last, at : {"start", "stream", "reset"}]
    /\ discs \subseteq [id : 1..MaxDials, peer : Peers, at : {"look", "wait"}, wait : Wait]
    /\ stored \subseteq Peers
    /\ user.op \in {"none", "connect", "list", "sync"} /\ user.peer \in Peers
    /\ rslv.at \in {"idle", "asking", "found", "notfound", "timeout"}

-----------------------------------------------------------------------------
(* The host.                                                               *)

\* The protocols identify reports for a peer: no node registers a handler for
\* QriProtocolID, so a qri peer has one of the two expected ones.
Speaks(p) == IF p \in Qri THEN {"profile"} ELSE {}
expectedProtocols == {"qri", "profile"}

\* A connection opens; identify starts on it.
Opened(p) == conn' = [conn EXCEPT ![p] = [at |-> "new", id |-> dials + 1]] /\ dials' = dials + 1
CanDial(p) == net.host = "open" /\ dials < MaxDials

\* The connections to ps close: their streams are reset and the notifee runs
\* disconnected for each.
Closed(ps) ==
    /\ conn' = [p \in Peers |-> IF p \in ps THEN [at |-> "no", id |-> 0] ELSE conn[p]]
    /\ reqs' = {IF r.peer \in ps /\ r.at = "stream" THEN [r EXCEPT !.at = "reset"] ELSE r : r \in reqs}
    /\ discs' = discs \cup {[id |-> conn[p].id, peer |-> p, at |-> "look", wait |-> 0] : p \in ps}

IsOpen(p) == conn[p].at # "no"
Connected == {p \in Peers : IsOpen(p)}

-----------------------------------------------------------------------------
(* Going online and offline.                                               *)

\* The early returns of GoOnline have replaced n.shutdown by then.
OnlineFails(ctx) == net' = [net EXCEPT !.shutdown = ctx, !.calls = ctx]

\* A host is made only when there is none: the one GoOffline or a failed
\* attempt closed is used again.
makeBasicHost(ctx) == IF net.host = "nil" THEN "open" ELSE net.host

\* libp2pSubscribe starts a goroutine that reads the host's identify events.
libp2pSubscribe == loops' = Append(loops, [queue |-> <<>>, wait |-> 0])

\* GoOnline: already online; the host cannot be made; storing the owner's new
\* addresses fails (cancel() takes the host down with its context); or all is well.
GoOnline(outcome) ==
    LET ctx == net.calls + 1 IN
    /\ Called /\ net.calls < MaxOnline
    /\ \/ net.online /\ OnlineFails(ctx) /\ UNCHANGED <<conn, reqs, discs, loops>>
       \/ ~net.online /\ outcome = "hostFails" /\ net.host = "nil"
          /\ OnlineFails(ctx) /\ UNCHANGED <<conn, reqs, discs, loops>>
       \/ ~net.online /\ outcome = "ownerFails"
          /\ net' = [net EXCEPT !.shutdown = ctx, !.calls = ctx, !.host = "closed"]
          /\ libp2pSubscribe /\ Closed(Connected)
       \/ ~net.online /\ outcome = "ok"
          /\ net' = [online |-> TRUE, host |-> makeBasicHost(ctx), shutdown |-> ctx,
                     live |-> net.live \cup {ctx}, calls |-> ctx]
          /\ libp2pSubscribe /\ UNCHANGED <<conn, reqs, discs>>
    /\ UNCHANGED <<dials, peers, open, last, stored, user, rslv>>

\* GoOffline closes the host and cancels the context of the last GoOnline call.
GoOffline ==
    IF net.online
    THEN /\ net' = [net EXCEPT !.online = FALSE, !.host = "closed", !.live = @ \ {net.shutdown}]
         /\ Closed(Connected)
    ELSE UNCHANGED <<net, conn, reqs, discs>>

\* Bootstrap, HandlePeerFound and peers that dial this node all open a connection.
Dial(p) ==
    /\ CanDial(p) /\ ~IsOpen(p) /\ Opened(p)
    /\ UNCHANGED <<calls, net, loops, qis, discs, stored, user, rslv>>

\* Identify completes on a new connection: every subscription gets the event.
Identified(p) ==
    /\ conn[p].at = "new" /\ conn' = [conn EXCEPT ![p].at = "yes"]
    /\ loops' = [i \in DOMAIN loops |-> [loops[i] EXCEPT !.queue = Append(@, p)]]
    /\ UNCHANGED <<calls, net, dials, qis, discs, stored, user, rslv>>

\* Identify fails: the event is only logged.
IdentifyFails(p) ==
    /\ conn[p].at = "new" /\ conn' = [conn EXCEPT ![p].at = "yes"]
    /\ UNCHANGED <<calls, net, dials, loops, qis, discs, stored, user, rslv>>

\* The other side, or the network, closes a connection.
Drop(p) ==
    /\ IsOpen(p) /\ Closed({p})
    /\ UNCHANGED <<calls, net, dials, loops, peers, open, last, stored, user, rslv>>

-----------------------------------------------------------------------------
(* The profile service.                                                    *)

\* profileWait: the channel in the map, or a new one and a request.
profileWait(p) ==
    IF peers[p] # 0
    THEN UNCHANGED qis
    ELSE /\ last' = last + 1
         /\ peers' = [peers EXCEPT ![p] = last + 1]
         /\ open' = open \cup {last + 1}
         /\ reqs' = reqs \cup {[peer |-> p, wait |-> last + 1, at |-> "start"]}
WaitOf(p) == IF peers[p] # 0 THEN peers[p] ELSE last + 1

\* The test is on the number of protocols the peer has, and lets every peer
\* through that does not have both.
Refused(p) == Cardinality(Speaks(p) \cap expectedProtocols) = Cardinality(expectedProtocols)

\* A subscription's goroutine takes the next event and waits for the profile.
QriProfileRequest(i) ==
    /\ loops[i].wait = 0 /\ loops[i].queue # <<>>
    /\ LET p == Head(loops[i].queue) IN
       IF Refused(p)
       THEN loops' = [loops EXCEPT ![i].queue = Tail(@)] /\ UNCHANGED qis
       ELSE /\ loops' = [loops EXCEPT ![i] = [queue |-> Tail(loops[i].queue), wait |-> WaitOf(p)]]
            /\ profileWait(p)
    /\ UNCHANGED <<calls, net, conn, dials, discs, stored, user, rslv>>

LoopResumes(i) ==
    /\ loops[i].wait # 0 /\ loops[i].wait \notin open
    /\ loops' = [loops EXCEPT ![i].wait = 0]
    /\ UNCHANGED <<calls, net, conn, dials, qis, discs, stored, user, rslv>>

\* MUTANT: the channel is closed only when a profile was received.
ClosesOnProfile(r) == open' = (IF r.at = "stream" THEN open \ {r.wait} ELSE open) /\ reqs' = reqs \ {r}

\* profileRequest ends: the deferred function closes the channel whatever
\* happened, and leaves the peer in the map.
RequestEnds(r) == open' = open \ {r.wait} /\ reqs' = reqs \ {r}

\* NewStream opens a stream on the connection, or dials; a peer that does not
\* speak the protocol, or cannot be reached, makes it fail.
NewStream(r) ==
    /\ r.at = "start"
    /\ \/ IsOpen(r.peer) /\ r.peer \in Qri
          /\ reqs' = (reqs \ {r}) \cup {[r EXCEPT !.at = "stream"]} /\ UNCHANGED <<conn, dials, open>>
       \/ ~IsOpen(r.peer) /\ r.peer \in Qri /\ CanDial(r.peer) /\ Opened(r.peer)
          /\ reqs' = (reqs \ {r}) \cup {[r EXCEPT !.at = "stream"]} /\ UNCHANGED open
       \/ (~IsOpen(r.peer) \/ r.peer \notin Qri) /\ RequestEnds(r) /\ UNCHANGED <<conn, dials>>
    /\ UNCHANGED <<calls, net, loops, peers, last, discs, stored, user, rslv>>

\* receiveAndStoreProfile: the peer's ProfileHandler answers, or the stream is reset.
\* (A peer is not obliged to answer, and then this never happens.)
receiveAndStoreProfile(r) ==
    /\ \/ r.at = "stream" /\ stored' = stored \cup {r.peer}
       \/ r.at = "reset" /\ UNCHANGED stored
    /\ RequestEnds(r)
    /\ UNCHANGED <<calls, net, conn, dials, loops, peers, last, discs, user, rslv>>

\* HandleQriPeerDisconnect: a peer in the map is waited for ...
DisconnectLooks(d) ==
    /\ d.at = "look"
    /\ discs' = IF peers[d.peer] = 0 THEN discs \ {d}
                ELSE (discs \ {d}) \cup {[d EXCEPT !.at = "wait", !.wait = peers[d.peer]]}
    /\ UNCHANGED <<calls, net, conn, dials, loops, qis, stored, user, rslv>>

\* ... and then removed, whatever channel the map has for it by now.
DisconnectRemoves(d) ==
    /\ d.at = "wait" /\ d.wait \notin open
    /\ peers' = [peers EXCEPT ![d.peer] = 0] /\ discs' = discs \ {d}
    /\ UNCHANGED <<calls, net, conn, dials, loops, open, last, reqs, stored, user, rslv>>

-----------------------------------------------------------------------------
(* What users ask of peers.                                                *)

\* A peer is named by an address or a peer ID, which can always be dialled, or
\* by its user's name, which takes a profile in the store.
peerConnectionParamsToPeerInfo(p, by) == by = "name" => p \in stored

\* ConnectToPeer dials, or finds the connection, and asks for the profile.
ConnectToPeer(p, by) ==
    /\ Called /\ user = Idle /\ net.host # "nil" /\ peerConnectionParamsToPeerInfo(p, by)
    /\ (IsOpen(p) \/ CanDial(p))
    /\ IF ~IsOpen(p) THEN Opened(p) ELSE UNCHANGED <<conn, dials>>
    /\ IF Refused(p)
       THEN UNCHANGED <<qis, user>>
       ELSE /\ profileWait(p)
            /\ user' = [op |-> "connect", peer |-> p, at |-> "wait", wait |-> WaitOf(p)]
    /\ UNCHANGED <<net, loops, discs, stored, rslv>>

\* It answers with an error even when the exchange went well: the test after
\* ConnectedPeerProfile is on the error of the steps before it.
ConnectReturns ==
    /\ user.op = "connect" /\ user.wait \notin open /\ user' = Idle
    /\ UNCHANGED <<calls, net, conn, dials, loops, qis, discs, stored, rslv>>

DisconnectFromPeer(p, by) ==
    /\ Called /\ user = Idle /\ net.host # "nil" /\ peerConnectionParamsToPeerInfo(p, by) /\ IsOpen(p) /\ Closed({p})
    /\ UNCHANGED <<net, dials, loops, peers, open, last, stored, user, rslv>>

\* RequestDatasetsList over the old protocol: the peer's handler answers and
\* closes the stream; a reset stream ends it too.
RequestDatasetsList(p) ==
    /\ Called /\ user = Idle /\ net.online /\ IsOpen(p) /\ p \in Qri
    /\ user' = [op |-> "list", peer |-> p, at |-> "stream", wait |-> 0]
    /\ UNCHANGED <<net, conn, dials, loops, qis, discs, stored, rslv>>

DatasetsListed ==
    /\ user.op = "list" /\ user' = Idle
    /\ UNCHANGED <<calls, net, conn, dials, loops, qis, discs, stored, rslv>>

\* Logsync's messages to a peer (put, get, del): the caller waits for a reply.
sendMessage(p) ==
    /\ Called /\ user = Idle /\ net.online /\ IsOpen(p) /\ p \in Qri
    /\ user' = [op |-> "sync", peer |-> p, at |-> "stream", wait |-> 0]
    /\ UNCHANGED <<net, conn, dials, loops, qis, discs, stored, rslv>>

\* The peer's handlers reply when the request went well, and hang up without a
\* word when it was refused or failed.
HandlePut == {TRUE, FALSE}

\* The reading side of sendMessage's stream: a reply is handed to the caller; a
\* stream that ends without one leaves it waiting.
handleStream ==
    /\ user.op = "sync" /\ user.at = "stream"
    /\ \E replied \in IF IsOpen(user.peer) THEN HandlePut ELSE {FALSE} :
         user' = IF replied THEN Idle ELSE [user EXCEPT !.at = "stuck"]
    /\ UNCHANGED <<calls, net, conn, dials, loops, qis, discs, stored, rslv>>

-----------------------------------------------------------------------------
(* Resolving a reference with the connected peers.                         *)

ConnectedQriPeers == {p \in Peers : peers[p] # 0}

\* ResolveRef: one goroutine for each peer of the map.
ResolveRef ==
    /\ Called /\ rslv.at = "idle"
    /\ rslv' = IF ConnectedQriPeers = {}
               THEN [NoRef EXCEPT !.at = "notfound"]
               ELSE [at |-> "asking", asked |-> ConnectedQriPeers,
                     answer |-> [p \in ConnectedQriPeers |-> "none"],
                     left |-> Cardinality(ConnectedQriPeers)]
    /\ UNCHANGED <<net, conn, dials, loops, qis, discs, stored, user>>

\* A peer's resolveRefHandler resolves the reference locally and sends it back,
\* completed or as it came.
resolveRefHandler(p) == IF p \in Holders THEN "full" ELSE "empty"

\* resolveRefRequest: a peer that answers; no stream, no answer or a broken one give
\* the reference back as it was, and the caller cannot tell ("lost").
resolveRefRequest(p) ==
    /\ rslv.at = "asking" /\ p \in rslv.asked /\ rslv.answer[p] = "none"
    /\ \/ IsOpen(p) /\ p \in Qri
          /\ rslv' = [rslv EXCEPT !.answer[p] = resolveRefHandler(p)]
       \/ (~IsOpen(p) \/ p \notin Qri) /\ rslv' = [rslv EXCEPT !.answer[p] = "lost"]
    /\ UNCHANGED <<calls, net, conn, dials, loops, qis, discs, stored, user>>

\* An answer that has been read.
Was(answer) == CASE answer = "full" -> "wasFull" [] answer = "empty" -> "wasEmpty" [] OTHER -> "wasLost"

\* MUTANT: the first answer decides.
FirstAnswerDecides(p) ==
    /\ rslv.at = "asking" /\ p \in rslv.asked /\ rslv.answer[p] \in {"full", "empty", "lost"}
    /\ rslv' = [rslv EXCEPT !.left = @ - 1, !.answer[p] = Was(@),
                  !.at = IF rslv.answer[p] = "full" THEN "found" ELSE "notfound"]
    /\ UNCHANGED <<calls, net, conn, dials, loops, qis, discs, stored, user>>

\* The loop of ResolveRef reads an answer from the buffered channel.
ReadAnswer(p) ==
    /\ rslv.at = "asking" /\ p \in rslv.asked /\ rslv.answer[p] \in {"full", "empty", "lost"}
    /\ LET left == rslv.left - 1 IN
       rslv' = [rslv EXCEPT !.left = left, !.answer[p] = Was(@),
                  !.at = IF rslv.answer[p] = "full" THEN "found"
                         ELSE IF left = 0 THEN "notfound" ELSE "asking"]
    /\ UNCHANGED <<calls, net, conn, dials, loops, qis, discs, stored, user>>

\* p2pRefResolverTimeout passes.
ResolveTimesOut ==
    /\ rslv.at = "asking" /\ rslv' = [rslv EXCEPT !.at = "timeout"]
    /\ UNCHANGED <<calls, net, conn, dials, loops, qis, discs, stored, user>>

ResolveReturns ==
    /\ rslv.at \in {"found", "notfound", "timeout"} /\ rslv' = NoRef
    /\ UNCHANGED <<calls, net, conn, dials, loops, qis, discs, stored, user>>

-----------------------------------------------------------------------------
\* Nothing has been heard of any peer, and nobody asks anything.
NodeRest ==
    /\ conn = [p \in Peers |-> [at |-> "no", id |-> 0]]
    /\ discs = {} /\ stored = {} /\ user = Idle /\ rslv = NoRef
    /\ peers = [p \in Peers |-> 0] /\ open = {} /\ last = 0 /\ reqs = {}

\* NewQriNode: a node is offline and has no host (dials counts from any number
\* up to its bound, so that fewer connections may be left).
NodeInit ==
    /\ net = [online |-> FALSE, host |-> "nil", shutdown |-> 0, live |-> {}, calls |-> 0]
    /\ loops = <<>> /\ calls = 0 /\ dials \in {0, MaxDials}
    /\ NodeRest

\* The steps of the network and of the node's own goroutines and callers.
NodeSteps ==
    \/ \E p \in Peers : Dial(p) \/ Identified(p) \/ IdentifyFails(p) \/ Drop(p)
                         \/ resolveRefRequest(p) \/ ReadAnswer(p)
    \/ \E i \in DOMAIN loops : QriProfileRequest(i) \/ LoopResumes(i)
    \/ \E r \in reqs : NewStream(r) \/ receiveAndStoreProfile(r)
    \/ \E d \in discs : DisconnectLooks(d) \/ DisconnectRemoves(d)
    \/ \E p \in Peers, by \in {"address", "name"} : ConnectToPeer(p, by) \/ DisconnectFromPeer(p, by)
    \/ \E p \in Peers : RequestDatasetsList(p) \/ sendMessage(p)
    \/ handleStream
    \/ ConnectReturns \/ DatasetsListed
    \/ ResolveRef \/ ResolveTimesOut \/ ResolveReturns
=============================================================================
