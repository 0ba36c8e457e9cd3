------------------------------ MODULE MCQueries ------------------------------
(***************************************************************************)
(* The worker and its queries on small instances.                          *)
(***************************************************************************)
EXTENDS WorkerQueries, TLC

\* Addresses are interchangeable, and so are item ids.
Symmetry == Permutations(IP) \cup Permutations(ItemId)
=============================================================================
