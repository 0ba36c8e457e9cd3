------------------------------ MODULE MCWorker ------------------------------
(***************************************************************************)
(* The worker on small instances.  The periods keep their order, cache age *)
(* < recheck interval < TTL, in a few ticks; the thresholds are those of   *)
(* the shipped settings, and the scores lie on both sides of BLOCK.        *)
(***************************************************************************)
EXTENDS WorkerInvariants, TLC

\* Addresses are interchangeable, and so are item ids.
Symmetry == Permutations(IP) \cup Permutations(ItemId)
=============================================================================
