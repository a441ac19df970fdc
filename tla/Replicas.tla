------------------------------ MODULE Replicas ------------------------------
(***************************************************************************)
(* What syncing promises about the history of a dataset: the author's is   *)
(* append-only, and every other book holds a prefix of it.  A book may     *)
(* catch up, to any later prefix; only the remote's may be taken away, and *)
(* only as a whole.                                                        *)
(***************************************************************************)
EXTENDS Naturals, Sequences

CONSTANT Ops

VARIABLES history,  \* what the author recorded
          remote,   \* what the remote holds of it
          reader    \* what someone who pulls from the remote holds of it

Init == /\ history \in Seq(Ops)
        /\ remote = <<>>
        /\ reader = <<>>

Record == /\ Len(history') = Len(history) + 1
          /\ history'[Len(history')] \in Ops
          /\ SubSeq(history', 1, Len(history)) = history
          /\ UNCHANGED <<remote, reader>>

CatchUp(held, next) ==
  \E k \in Len(held) .. Len(history) : next = SubSeq(history, 1, k)

Next == \/ Record
        \/ CatchUp(remote, remote') /\ UNCHANGED <<history, reader>>
        \/ remote' = <<>> /\ UNCHANGED <<history, reader>>
        \/ CatchUp(reader, reader') /\ UNCHANGED <<history, remote>>

Spec == Init /\ [][Next]_<<history, remote, reader>>
=============================================================================
