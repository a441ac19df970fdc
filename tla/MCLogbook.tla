----------------------------- MODULE MCLogbook -----------------------------
(***************************************************************************)
(* The logbook on small instances.  Clients are interchangeable, and no    *)
(* step depends on the event the step before it published.                 *)
(***************************************************************************)
EXTENDS Logbook, TLC

ClientSymmetry == Permutations(Clients)

WithoutBus == <<mem, disk, located, used, paths, runs, req>>
=============================================================================
