----------------------------- MODULE RequestLog -----------------------------
(***************************************************************************)
(* What reading the access log promises: an address that made a request is *)
(* not forgotten before a batch that holds it was committed, as long as    *)
(* the log only grows.                                                     *)
(*                                                                         *)
(* NginxCollector, file by file and line by line, implements it.           *)
(***************************************************************************)
CONSTANT IP

VARIABLES
    watching,   \* has a position in the log ever been saved?
    intact,     \* has the log only grown so far?
    unread,     \* addresses with a request after the saved position
    batch       \* addresses recorded since the last commit

logVars == <<watching, intact, unread, batch>>

Init ==
    /\ watching = FALSE
    /\ intact = TRUE
    /\ unread = {}
    /\ batch = {}

Request(ip) ==
    /\ watching
    /\ unread' = unread \cup {ip}
    /\ UNCHANGED <<watching, intact, batch>>

Record(ip) ==
    /\ ip \in unread
    /\ batch' = batch \cup {ip}
    /\ UNCHANGED <<watching, intact, unread>>

\* What is no longer unread was in the batch.
Commit ==
    /\ unread' \subseteq unread
    /\ unread \ unread' \subseteq batch
    /\ batch' = {}
    /\ UNCHANGED <<watching, intact>>

\* The reader dies: nothing was committed.
Abort ==
    /\ batch' = {}
    /\ UNCHANGED <<watching, intact, unread>>

\* The first position is saved; requests before it do not count.
Watch ==
    /\ ~watching
    /\ watching' = TRUE
    /\ unread' \subseteq IP
    /\ batch' = {}
    /\ UNCHANGED intact

\* The log was replaced, truncated or read in pieces: nothing is promised.
Damaged ==
    /\ intact' = FALSE
    /\ watching' \in BOOLEAN
    /\ unread' \subseteq IP
    /\ batch' \subseteq IP

Next ==
    \/ /\ intact
       /\ \/ \E ip \in IP : Request(ip) \/ Record(ip)
          \/ Commit
          \/ Abort
          \/ Watch
    \/ Damaged

Spec == Init /\ [][Next]_logVars
=============================================================================
