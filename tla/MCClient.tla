------------------------------ MODULE MCClient ------------------------------
(***************************************************************************)
(* The client on small instances: pauses and timeouts keep their order in  *)
(* a few seconds, and the list may or may not fit on one page.             *)
(***************************************************************************)
EXTENDS ClientInvariants
=============================================================================
