---------------------------- MODULE MCCollector ----------------------------
(***************************************************************************)
(* The collector on small instances.                                       *)
(***************************************************************************)
EXTENDS CollectorInvariants
=============================================================================
