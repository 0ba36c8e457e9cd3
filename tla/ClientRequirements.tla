------------------------- MODULE ClientRequirements -------------------------
(***************************************************************************)
(* What the callers of CloudflareClient rely on when they treat a call as  *)
(* one step.                                                               *)
(***************************************************************************)
EXTENDS CloudflareClient

(* The variables of the client and of Cloudflare have their types.         *)
TypeOK ==
    /\ list \subseteq IP
    /\ ops \in Seq(Operation)
    /\ calls \in Nat
    /\ method \in Method
    /\ ip \in IP
    /\ operation_id \in 0 .. Len(ops)
    /\ pc \in {"idle", "request", "sleep"}
    /\ attempt \in 0 .. MaxRetries
    /\ reply \in Reply \cup {NULL}
    /\ delay \in Nat
    /\ clock \in Nat
    /\ outcome \in Outcome
    /\ moments \subseteq BOOLEAN
-----------------------------------------------------------------------------
\* The time of one run of the retry loop, and of a whole call.
RequestBound == MaxRetries * (MaxRequestTime + MaxDelay) + MaxRequestTime

Lead == IF method = "wait_for_operation" THEN TimeoutSeconds + PollInterval ELSE 0

\* No call takes forever: a wait may outlast timeout_seconds, because the
\* deadline is only tested between polls and a poll retries (cloudflare.py:450,
\* :68-162), but by no more than a poll interval and one run of the retry loop.
CallsAreBounded == clock <= Lead + RequestBound

\* "Get all items currently present in the Cloudflare IP list"
\* (cloudflare.py:187): what find_ip returns about an address was true at some
\* moment of the call, however often it was retried while operations landed.
FindIsRight ==
    method = "find_ip" /\ outcome = "returned" => reply.found \in moments

\* wait_for_operation returns only when the operation has completed, and tells
\* a failure from a timeout (cloudflare.py:440-466).
WaitIsTrue ==
    method = "wait_for_operation" =>
        /\ outcome = "returned" => ops[operation_id].status = "completed"
        /\ outcome = "failed" => ops[operation_id].status = "failed"
        /\ outcome = "timeout" => clock >= TimeoutSeconds

\* The operations that the call being made, or made last, has started.
Started == {i \in DOMAIN ops : ops[i].call = calls}

\* A call that submits starts at most one operation per attempt, for its own
\* address; the one whose id it returns is among them, and when the first
\* attempt is refused there is none (cloudflare.py:68-162).  The others are
\* those nobody polls: they are why Worker lets operations take effect late.
OneOperationPerAttempt ==
    /\ Cardinality(Started) <= attempt + 1
    /\ \A i \in Started : ops[i].kind = method /\ ops[i].ip = ip
    /\ method \in Submits /\ outcome = "returned" => operation_id \in Started
    /\ attempt = 0 /\ outcome = "refused" => Started = {}
-----------------------------------------------------------------------------
\* When the next request of the call can begin, and how many seconds a wait has
\* then left before it is not polled again.
NextRequest == clock + (IF pc = "sleep" THEN delay ELSE 0)
TimeLeft == IF NextRequest < Lead THEN Lead - NextRequest ELSE 0

\* The requests and pauses left to this run of the retry loop.
TurnsLeft == 2 * (MaxRetries - attempt) + (IF pc = "sleep" THEN 1 ELSE 0)

\* Every turn brings a call nearer to its end: it uses up an attempt or a pause
\* of the retry loop without giving a wait back its time, and where a poll
\* starts the attempts again it uses up the time of the wait.  While the client
\* waits for an answer nothing is given back either (cloudflare.py:68-162,
\* 440-466).
CallsProgress ==
    [][pc # "idle" /\ pc' # "idle" =>
        IF pc' = pc
        THEN UNCHANGED <<TimeLeft, TurnsLeft>>
        ELSE \/ TimeLeft' < TimeLeft
             \/ TimeLeft' = TimeLeft /\ TurnsLeft' < TurnsLeft]_clientVars

\* Whatever Cloudflare answers, and however often, a call returns or raises.
CallsEnd == pc # "idle" ~> pc = "idle"
=============================================================================
