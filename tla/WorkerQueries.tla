---------------------------- MODULE WorkerQueries ----------------------------
(***************************************************************************)
(* The worker with a memory of its own: which addresses the current run    *)
(* has asked AbuseIPDB about.  The program keeps no such record, a failed  *)
(* query leaves no trace in the columns its rules read (sqlite.py:         *)
(* set_error); asked is a history variable, and Next does not depend on it.*)
(***************************************************************************)
EXTENDS WorkerInvariants

VARIABLE asked   \* when this run last asked about an address, NULL before

QInit ==
    /\ Init
    /\ asked = [ip \in IP |-> NULL]

Remembered(ip) ==
    IF phase' = "idle" THEN NULL
    ELSE IF Asks(ip) THEN now
    ELSE asked[ip]

QNext ==
    /\ Next
    /\ asked' = [ip \in IP |-> Remembered(ip)]

QSpec == QInit /\ [][QNext]_<<vars, asked>>
-----------------------------------------------------------------------------
\* A run does not spend the quota twice on one address: what the recheck loop
\* asked about, main does not ask about again within the cache age, although it
\* visits the address too and although the first query may have failed and left
\* nothing but an error behind (processor.py:268-286, main.py:225-341).
AskedOncePerRun ==
    [][\A ip \in IP :
        Asks(ip) /\ asked[ip] # NULL => now - asked[ip] >= CacheAge]_<<vars, asked>>

\* The table has an answer at least as recent as the query.
Answered(ip) ==
    /\ db[ip].checked_at # NULL
    /\ db[ip].checked_at >= asked[ip]

\* The strengthening of AskedOncePerRun: an address that was asked about is no
\* longer in the loop, and what keeps the next loop from asking is either the
\* active block, if the query failed, or the date of the answer, if the block is
\* being released.
QueryInv ==
    \A ip \in IP : asked[ip] # NULL =>
        /\ asked[ip] \in Time
        /\ asked[ip] <= now
        /\ phase \in {"recheck", "collect", "check"}
        /\ phase = "recheck" =>
            /\ ip \notin todo
            /\ pc # "pick" /\ cur = ip => Answered(ip)
        /\ phase \in {"recheck", "collect"} \/ ip \in todo =>
            ActiveBlock(db[ip]) \/ Answered(ip)
=============================================================================
