----------------------------- MODULE Enforcement -----------------------------
(***************************************************************************)
(* What the worker promises about the list and the table as long as no     *)
(* enforcement fails: they are two copies of one set of blocked addresses, *)
(* changed one address at a time, an entry of the table after the item it  *)
(* speaks of: put on the list before it is entered, taken off before it is *)
(* struck.                                                                 *)
(***************************************************************************)
CONSTANTS IP, NULL

VARIABLES
    list,   \* the addresses Cloudflare blocks
    book,   \* the addresses the table knows as blocked
    busy    \* the address whose block is being changed, NULL when none

bookVars == <<list, book, busy>>

Init ==
    /\ list = {}
    /\ book = {}
    /\ busy = NULL

Take(ip) ==
    /\ busy = NULL
    /\ busy' = ip
    /\ UNCHANGED <<list, book>>

Add(ip) ==
    /\ busy = ip
    /\ ip \notin list \cup book
    /\ list' = list \cup {ip}
    /\ UNCHANGED <<book, busy>>

EnterInBook(ip) ==
    /\ busy = ip
    /\ ip \in list \ book
    /\ book' = book \cup {ip}
    /\ UNCHANGED <<list, busy>>

Remove(ip) ==
    /\ busy = ip
    /\ ip \in list \cap book
    /\ list' = list \ {ip}
    /\ UNCHANGED <<book, busy>>

Strike(ip) ==
    /\ busy = ip
    /\ ip \in book \ list
    /\ book' = book \ {ip}
    /\ busy' = NULL
    /\ UNCHANGED list

\* An address is only left when both copies agree about it.
Leave(ip) ==
    /\ busy = ip
    /\ ip \in list <=> ip \in book
    /\ busy' = NULL
    /\ UNCHANGED <<list, book>>

Next ==
    \E ip \in IP :
        Take(ip) \/ Add(ip) \/ EnterInBook(ip) \/ Remove(ip) \/ Strike(ip) \/ Leave(ip)

Spec == Init /\ [][Next]_bookVars
=============================================================================
