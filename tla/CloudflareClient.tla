-------------------------- MODULE CloudflareClient --------------------------
(***************************************************************************)
(* src/app/enforcement/cloudflare.py: CloudflareClient, one call after the *)
(* other, against the list and the bulk operations of Cloudflare.          *)
(*                                                                         *)
(* Worker treats a call as one step; here it is what the code makes of it: *)
(* up to MaxRetries + 1 HTTP requests with pauses between them, each       *)
(* handled or not, answered or not.  wait_for_operation polls in a loop of *)
(* such requests.  Operations take effect at any time meanwhile.           *)
(*                                                                         *)
(* An item is identified with its address, and an operation id with the    *)
(* position of the operation in ops.                                       *)
(***************************************************************************)
EXTENDS Domain, Sequences, FiniteSets

CONSTANTS
    MaxRetries,      \* max_retries
    PollInterval,    \* poll_interval, in seconds
    TimeoutSeconds,  \* timeout_seconds
    PageSize,        \* per_page
    MaxRequestTime,  \* bound: what one HTTP request may take
    RetryAfters,     \* the numbers a Retry-After header may hold
    MaxDelay,        \* bound: the longest pause before a retry
    MaxCalls         \* bound: how many calls are made

ASSUME ClientAssumption ==
    /\ MaxRetries \in Nat
    /\ PollInterval \in Nat \ {0}
    /\ TimeoutSeconds \in Nat
    /\ PageSize \in Nat \ {0}
    /\ MaxRequestTime \in Nat
    /\ MaxDelay \in Nat
    /\ RetryAfters \subseteq 0 .. MaxDelay
    /\ \A n \in 0 .. MaxRetries - 1 : 2^n \in 0 .. MaxDelay
    /\ MaxCalls \in Nat

VARIABLES
    list,          \* the addresses on the list
    ops,           \* the bulk operations Cloudflare has accepted
    calls,         \* how many calls have begun
    method,        \* the call being made, or made last
    ip,            \* its argument, an address
    operation_id,  \* the id returned last, 0 when none: the argument of a wait
    pc,            \* "idle", or where in the retry loop the call is
    attempt,       \* the variable of the retry loop
    reply,         \* Cloudflare's answer to the request, NULL while none
    delay,         \* the pause being slept
    clock,         \* seconds since the call began
    outcome,       \* how the call ended, "none" while it is being made
    moments        \* history: the values of ip \in list since find_ip began

cloudVars == <<list, ops, moments>>
callVars == <<calls, method, ip>>
loopVars == <<pc, attempt, reply, delay, clock, outcome>>
clientVars == <<cloudVars, callVars, operation_id, loopVars>>

Submits == {"add_ip", "delete_item"}
Method == Submits \cup {"find_ip", "wait_for_operation"}

\* "none": neither completed nor failed, whatever the text.
OperationStatus == {"none", "completed", "failed"}

Operation ==
    [kind : Submits, ip : IP, status : OperationStatus, call : Nat]

\* "malformed": HTTP success, but without success = true or a field needed.
Reply ==
    [code   : {"ok", "malformed", "refused", "limited", "error"},
     found  : BOOLEAN,
     id     : Nat,
     status : OperationStatus]

ASSUME ReplyAssumption == NULL \notin Reply

Outcome == {"none", "returned", "refused", "malformed", "gave_up", "failed", "timeout"}

Ok == [code |-> "ok", found |-> FALSE, id |-> 0, status |-> "none"]

Init ==
    /\ list \in SUBSET IP
    /\ ops = <<>>
    /\ calls = 0
    /\ method = "find_ip"
    /\ ip \in IP
    /\ operation_id = 0
    /\ pc = "idle"
    /\ attempt = 0
    /\ reply = NULL
    /\ delay = 0
    /\ clock = 0
    /\ outcome = "none"
    /\ moments = {}
-----------------------------------------------------------------------------
(* Cloudflare.                                                             *)

Handles(m) == pc = "request" /\ reply = NULL /\ method \in m

\* The first page of a list, in an order only Cloudflare knows.
FirstItems(size) ==
    {page \in SUBSET list :
        Cardinality(page) = IF Cardinality(list) <= size THEN Cardinality(list) ELSE size}

\* Mutation: the page is one item too short.
Page_Short == FirstItems(PageSize - 1)

Page == FirstItems(PageSize)

\* What find_ip makes of the page: is the address on it?
ServeItems ==
    /\ Handles({"find_ip"})
    /\ \E page \in Page : reply' = [Ok EXCEPT !.found = ip \in page]
    /\ UNCHANGED <<cloudVars, callVars, operation_id, pc, attempt, delay, clock, outcome>>

\* The operation is accepted, whatever is then answered.
ServeSubmission ==
    /\ Handles(Submits)
    /\ ops' = Append(ops, [kind |-> method, ip |-> ip, status |-> "none", call |-> calls])
    /\ reply' \in {[Ok EXCEPT !.id = Len(ops) + 1],
                   [Ok EXCEPT !.code = "error"],
                   [Ok EXCEPT !.code = "malformed"]}
    /\ UNCHANGED <<list, moments, callVars, operation_id, pc, attempt, delay, clock, outcome>>

ServeStatus ==
    /\ Handles({"wait_for_operation"})
    /\ reply' = [Ok EXCEPT !.status = ops[operation_id].status]
    /\ UNCHANGED <<cloudVars, callVars, operation_id, pc, attempt, delay, clock, outcome>>

\* Answered without having done anything.
ServeNothing ==
    /\ Handles(Method)
    /\ \E code \in {"malformed", "refused", "limited", "error"} :
        reply' = [Ok EXCEPT !.code = code]
    /\ UNCHANGED <<cloudVars, callVars, operation_id, pc, attempt, delay, clock, outcome>>

\* Only find_ip asks about the list.
Finds == pc # "idle" /\ method = "find_ip"

OperationEnds(i) ==
    /\ ops[i].status = "none"
    /\ \/ /\ ops' = [ops EXCEPT ![i].status = "completed"]
          /\ list' = IF ops[i].kind = "add_ip"
                     THEN list \cup {ops[i].ip}
                     ELSE list \ {ops[i].ip}
       \/ /\ ops' = [ops EXCEPT ![i].status = "failed"]
          /\ UNCHANGED list
    /\ moments' = IF Finds THEN moments \cup {(ip \in list')} ELSE moments
    /\ UNCHANGED <<callVars, operation_id, loopVars>>

Cloudflare ==
    \/ ServeItems
    \/ ServeSubmission
    \/ ServeStatus
    \/ ServeNothing
    \/ \E i \in DOMAIN ops : OperationEnds(i)
-----------------------------------------------------------------------------
(* The retry loop, _request, and what the methods make of its result.      *)

Begins(m) ==
    /\ pc = "idle"
    /\ calls < MaxCalls
    /\ calls' = calls + 1
    /\ method' = m
    /\ pc' = "request"
    /\ attempt' = 0
    /\ reply' = NULL
    /\ clock' = 0
    /\ outcome' = "none"
    /\ UNCHANGED <<delay, operation_id, list, ops>>

Call(m, address) ==
    /\ Begins(m)
    /\ ip' = address
    /\ moments' = IF m = "find_ip" THEN {(address \in list)} ELSE {}

\* An id is only waited for after a call returned it.
CallWait ==
    /\ operation_id # 0
    /\ Begins("wait_for_operation")
    /\ moments' = {}
    /\ UNCHANGED ip

Takes(seconds) == clock' = clock + seconds

\* return, or raise.
Ends(how) ==
    /\ pc' = "idle"
    /\ outcome' = how
    /\ UNCHANGED <<attempt, reply, delay>>

Sleeps(seconds, next) ==
    /\ pc' = "sleep"
    /\ delay' = seconds
    /\ attempt' = next
    /\ reply' = NULL
    /\ UNCHANGED outcome

\* Mutation: one attempt too many.
TryAgain_OneMore(pauses) ==
    \/ attempt > MaxRetries /\ Ends("gave_up")
    \/ attempt <= MaxRetries /\ \E pause \in pauses : Sleeps(pause, attempt + 1)

TryAgain(pauses) ==
    \/ attempt >= MaxRetries /\ Ends("gave_up")
    \/ attempt < MaxRetries /\ \E pause \in pauses : Sleeps(pause, attempt + 1)

\* requests.RequestException: nobody knows what became of the request.
RequestException ==
    /\ pc = "request"
    /\ \E seconds \in 0 .. MaxRequestTime : Takes(seconds)
    /\ TryAgain({2^attempt})
    /\ UNCHANGED <<cloudVars, callVars, operation_id>>

Response(code) ==
    /\ pc = "request"
    /\ reply # NULL
    /\ reply.code = code
    /\ \E seconds \in 0 .. MaxRequestTime : Takes(seconds)
    /\ UNCHANGED <<cloudVars, callVars>>

\* Retry-After may be missing, or hold a date.
RateLimited ==
    /\ Response("limited")
    /\ TryAgain(RetryAfters \cup {2^attempt})
    /\ UNCHANGED operation_id

\* Mutation: the attempt is not counted.
ServerError_Uncounted ==
    /\ Response("error")
    /\ Sleeps(2^attempt, attempt)
    /\ UNCHANGED operation_id

ServerError ==
    /\ Response("error")
    /\ TryAgain({2^attempt})
    /\ UNCHANGED operation_id

Refused ==
    /\ Response("refused")
    /\ Ends("refused")
    /\ UNCHANGED operation_id

Malformed ==
    /\ Response("malformed")
    /\ Ends("malformed")
    /\ UNCHANGED operation_id

Returned ==
    /\ method # "wait_for_operation"
    /\ Response("ok")
    /\ Ends("returned")
    /\ operation_id' = IF method \in Submits THEN reply.id ELSE operation_id

\* Mutation: whatever is not a failure is a success.
Polled_Optimist ==
    /\ method = "wait_for_operation"
    /\ Response("ok")
    /\ IF reply.status = "failed" THEN Ends("failed") ELSE Ends("returned")
    /\ UNCHANGED operation_id

\* Mutation: nobody looks at the clock.
Polled_NoDeadline ==
    /\ method = "wait_for_operation"
    /\ Response("ok")
    /\ \/ reply.status = "completed" /\ Ends("returned")
       \/ reply.status = "failed" /\ Ends("failed")
       \/ reply.status = "none" /\ Sleeps(PollInterval, 0)
    /\ UNCHANGED operation_id

\* Mutation: start_time is read inside the loop.
Polled_Restarts ==
    /\ method = "wait_for_operation"
    /\ pc = "request"
    /\ reply # NULL
    /\ reply.code = "ok"
    /\ clock' = 0
    /\ \/ reply.status = "completed" /\ Ends("returned")
       \/ reply.status = "failed" /\ Ends("failed")
       \/ reply.status = "none" /\ Sleeps(PollInterval, 0)
    /\ UNCHANGED <<cloudVars, callVars, operation_id>>

\* The deadline is only looked at after a poll.
Polled ==
    /\ method = "wait_for_operation"
    /\ Response("ok")
    /\ \/ reply.status = "completed" /\ Ends("returned")
       \/ reply.status = "failed" /\ Ends("failed")
       \/ reply.status = "none" /\ clock' >= TimeoutSeconds /\ Ends("timeout")
       \/ reply.status = "none" /\ clock' < TimeoutSeconds /\ Sleeps(PollInterval, 0)
    /\ UNCHANGED operation_id

Wake ==
    /\ pc = "sleep"
    /\ Takes(delay)
    /\ pc' = "request"
    /\ delay' = 0
    /\ UNCHANGED <<attempt, reply, outcome, cloudVars, callVars, operation_id>>

ClientStep ==
    \/ RequestException
    \/ RateLimited
    \/ ServerError
    \/ Refused
    \/ Malformed
    \/ Returned
    \/ Polled
    \/ Wake
-----------------------------------------------------------------------------
Next ==
    \/ Cloudflare
    \/ \E m \in Method \ {"wait_for_operation"}, address \in IP : Call(m, address)
    \/ CallWait
    \/ ClientStep

Spec == Init /\ [][Next]_clientVars

\* A request is answered or times out, and a sleep ends.
FairSpec == Spec /\ WF_clientVars(ClientStep)
=============================================================================
