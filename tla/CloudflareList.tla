--------------------------- MODULE CloudflareList ---------------------------
(***************************************************************************)
(* The Cloudflare IP list and its bulk operations (a service outside the   *)
(* repository, modelled from how src/app/enforcement/cloudflare.py uses    *)
(* it).                                                                    *)
(*                                                                         *)
(* A POST or DELETE on the list is only accepted by the request: it takes  *)
(* effect later, as a bulk operation that can be polled.  An operation     *)
(* whose submitter gave up, died or never saw the response is still under  *)
(* way: it moves to "late" and may take effect at any later time, in any   *)
(* order.                                                                  *)
(***************************************************************************)
EXTENDS Domain

VARIABLES
    items,   \* the list: the item of each address, NULL when not listed
    op,      \* the operation the worker holds the id of, NULL when none
    late     \* operations under way that nobody polls any more

listVars == <<items, op, late>>

\* ip and item are what the request named: an add names an address; a delete
\* names an item, and ip is the address it was submitted for.
Operation ==
    [kind   : {"add", "delete"},
     ip     : IP,
     item   : MaybeItem,
     status : {"pending", "completed", "failed"}]

ASSUME OperationAssumption == NULL \notin Operation

ListTypeOK ==
    /\ items \in [IP -> MaybeItem]
    /\ op \in Operation \cup {NULL}
    /\ late \subseteq Operation

ListInit ==
    /\ items = [ip \in IP |-> NULL]
    /\ op = NULL
    /\ late = {}

Listed(id) == id # NULL /\ \E ip \in IP : items[ip] = id

AddOf(ip) == [kind |-> "add", ip |-> ip, item |-> NULL, status |-> "pending"]

DeleteOf(ip, id) ==
    [kind |-> "delete", ip |-> ip, item |-> id, status |-> "pending"]

\* Adding an address that is already listed keeps its item.
AddTakesEffect(ip, id) ==
    items' = [items EXCEPT ![ip] = IF @ = NULL THEN id ELSE @]

DeleteTakesEffect(id) ==
    items' = [ip \in IP |-> IF items[ip] = id THEN NULL ELSE items[ip]]

\* What is still under way once the worker stops polling its operation.
Abandoned ==
    IF op # NULL /\ op.status = "pending" THEN late \cup {op} ELSE late
=============================================================================
