----------------------------- MODULE MCInstance -----------------------------
(* Two families of behaviours, to keep the product of the goroutines of the  *)
(* instance and of the network small: an instance from its construction on,  *)
(* with no peer about; and one that is connected, its goroutines running,    *)
(* among a qri peer that has the reference and one that does not.            *)
EXTENDS Instance

Alone == Init /\ dials = MaxDials

AmongPeers ==
    /\ inst = [at |-> "up", client |-> MaxClients, nil |-> FALSE, done |-> FALSE, waiter |-> "waits", cancelled |-> FALSE]
    /\ holders = [k \in Held |-> [at |-> IF k \in {0, MaxClients} THEN "added" ELSE "gone", of |-> k]]
    /\ net = [online |-> TRUE, host |-> "open", shutdown |-> 1, live |-> {1}, calls |-> 1]
    /\ loops = << [queue |-> <<>>, wait |-> 0] >>
    /\ calls = 1 /\ dials = 0
    /\ NodeRest

MCSpec == (Alone \/ AmongPeers) /\ [][Next]_vars /\ Goroutines
=============================================================================
