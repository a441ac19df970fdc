---------------------------- MODULE VersionStack ----------------------------
(***************************************************************************)
(* What the logbook promises about the versions of a dataset, whatever     *)
(* operations it records along the way: a stack per dataset, which grows   *)
(* by one new version, loses its newest ones only to a delete, which is    *)
(* counted, and is never changed by a push, a rolled back push, a run, a   *)
(* rename or a dataset's removal.  A dataset is forgotten only when it has *)
(* no versions, was removed, or shares its name with another, which the    *)
(* clean-up by name cannot tell from it.  A restart goes back to the       *)
(* stacks made stable last.                                                *)
(***************************************************************************)
EXTENDS Naturals, Sequences

CONSTANTS Datasets, Paths

VARIABLES stacks,  \* every dataset's versions, newest last, its deletes, and
                   \* whether it was removed
          stable,  \* the stacks a restart goes back to
          shared   \* the datasets that share their name: nothing is said of
                   \* how this changes

None == [live |-> <<>>, deletes |-> 0, removed |-> FALSE]

Init == /\ stacks = [d \in Datasets |-> None]
        /\ stable = stacks

Fresh(p) ==
  \A d \in Datasets : \A i \in 1 .. Len(stacks[d].live) : stacks[d].live[i] # p

Grow(d, p) == /\ Fresh(p)
              /\ stacks' = [stacks EXCEPT ![d].live = Append(@, p)]
              /\ UNCHANGED stable

Shrink(d, k) == /\ stacks' = [stacks EXCEPT ![d].live = SubSeq(@, 1, k),
                                            ![d].deletes = @ + 1]
                /\ UNCHANGED stable

Remove(d) == /\ stacks' = [stacks EXCEPT ![d].removed = TRUE]
             /\ UNCHANGED stable

Forget(d) == /\ stacks[d].live = <<>> \/ stacks[d].removed \/ d \in shared
             /\ stacks' = [stacks EXCEPT ![d] = None]
             /\ UNCHANGED stable

Persist == stable' = stacks /\ UNCHANGED stacks

Recover == stacks' = stable /\ UNCHANGED stable

Next == \/ \E d \in Datasets, p \in Paths : Grow(d, p)
        \/ \E d \in Datasets : \E k \in 0 .. Len(stacks[d].live) : Shrink(d, k)
        \/ \E d \in Datasets : Remove(d) \/ Forget(d)
        \/ Persist
        \/ Recover

Spec == Init /\ [][Next]_<<stacks, stable>>
=============================================================================
