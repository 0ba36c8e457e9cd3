------------------------------- MODULE Domain -------------------------------
(***************************************************************************)
(* The sets every module of the project speaks about.                      *)
(*                                                                         *)
(* An address, a Cloudflare item id and "no value" (Python's None, SQL's   *)
(* NULL) are abstract: no rule of the program looks inside an address or   *)
(* an id, it only compares them.                                           *)
(***************************************************************************)
EXTENDS Integers

CONSTANTS
    IP,       \* the addresses that may appear in the access log
    ItemId,   \* the ids Cloudflare gives to list items
    NULL      \* None / NULL

\* NULL is told apart from every value it stands beside.
ASSUME NullAssumption ==
    /\ NULL \notin Int
    /\ NULL \notin IP
    /\ NULL \notin ItemId

Time == Int
MaybeTime == Time \cup {NULL}
MaybeItem == ItemId \cup {NULL}
=============================================================================
