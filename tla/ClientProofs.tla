---------------------------- MODULE ClientProofs ----------------------------
(***************************************************************************)
(* What callers may rely on, for any set of addresses, any list and any    *)
(* number of retries, pauses, timeouts and calls: the time a call takes,   *)
(* the operations it may start, and the truth of what it returns.          *)
(***************************************************************************)
EXTENDS ClientInvariants, FiniteSetTheorems, TLAPS

(* Before the first call the variables have their types.                   *)
LEMMA TypeInit == Init => TypeOK
<1> SUFFICES ASSUME Init PROVE TypeOK
  OBVIOUS
<1>1. ops = <<>> /\ Len(ops) = 0 /\ ops \in Seq(Operation)
  BY DEF Init
<1>2. 0 \in 0 .. MaxRetries
  BY ClientAssumption
<1> QED
  BY <1>1, <1>2 DEF Init, TypeOK, Method, Submits, Outcome

(* What Cloudflare answers is a reply.                                     *)
LEMMA ReplyTypes ==
    /\ Ok \in Reply
    /\ \A found \in BOOLEAN : [Ok EXCEPT !.found = found] \in Reply
    /\ \A id \in Nat : [Ok EXCEPT !.id = id] \in Reply
    /\ \A status \in OperationStatus : [Ok EXCEPT !.status = status] \in Reply
    /\ \A code \in {"malformed", "refused", "limited", "error"} :
        [Ok EXCEPT !.code = code] \in Reply
BY DEF Ok, Reply, OperationStatus

(* Cloudflare keeps the types.                                             *)
LEMMA CloudflareTypes == 
    ASSUME TypeOK, Watching, Cloudflare
    PROVE  TypeOK'
<1> USE DEF TypeOK, cloudVars, callVars, loopVars
<1>1. CASE ServeItems
  <2>1. PICK page \in Page : reply' = [Ok EXCEPT !.found = ip \in page]
    BY <1>1 DEF ServeItems
  <2>2. (ip \in page) \in BOOLEAN
    OBVIOUS
  <2>3. reply' \in Reply
    BY <2>1, <2>2, ReplyTypes
  <2> QED
    BY <1>1, <2>3 DEF ServeItems
<1>2. CASE ServeSubmission
  <2>1. /\ method \in Submits /\ calls \in Nat /\ ip \in IP
        /\ ops' = Append(ops, [kind |-> method, ip |-> ip, status |-> "none", call |-> calls])
    BY <1>2 DEF ServeSubmission, Handles
  <2>2. [kind |-> method, ip |-> ip, status |-> "none", call |-> calls] \in Operation
    BY <2>1 DEF Operation, OperationStatus
  <2>3. ops' \in Seq(Operation) /\ Len(ops') = Len(ops) + 1 /\ Len(ops) \in Nat
    BY <2>1, <2>2
  <2>4. reply' \in Reply
    <3>1. reply' \in {[Ok EXCEPT !.id = Len(ops) + 1],
                      [Ok EXCEPT !.code = "error"],
                      [Ok EXCEPT !.code = "malformed"]}
      BY <1>2 DEF ServeSubmission
    <3>2. Len(ops) + 1 \in Nat
      BY <2>3
    <3>3. /\ [Ok EXCEPT !.id = Len(ops) + 1] \in Reply
          /\ [Ok EXCEPT !.code = "error"] \in Reply
          /\ [Ok EXCEPT !.code = "malformed"] \in Reply
      BY <3>2, ReplyTypes
    <3> QED
      BY <3>1, <3>3
  <2>5. operation_id' \in 0 .. Len(ops')
    BY <1>2, <2>3 DEF ServeSubmission
  <2> QED
    BY <1>2, <2>3, <2>4, <2>5 DEF ServeSubmission
<1>3. CASE ServeStatus
  <2>1. operation_id \in 1 .. Len(ops)
    BY <1>3 DEF ServeStatus, Handles, Watching
  <2>2. ops[operation_id] \in Operation
    BY <2>1
  <2>3. ops[operation_id].status \in OperationStatus
    BY <2>2 DEF Operation
  <2> QED
    BY <1>3, <2>3, ReplyTypes DEF ServeStatus
<1>4. CASE ServeNothing
  BY <1>4, ReplyTypes DEF ServeNothing
<1>5. ASSUME NEW i \in DOMAIN ops, OperationEnds(i)
      PROVE  TypeOK'
  <2>1. i \in 1 .. Len(ops) /\ ops[i] \in Operation
    OBVIOUS
  <2>2. ops' \in Seq(Operation) /\ Len(ops') = Len(ops)
    <3>1. PICK status \in OperationStatus : ops' = [ops EXCEPT ![i].status = status]
      BY <1>5 DEF OperationEnds, OperationStatus
    <3>2. [ops[i] EXCEPT !.status = status] \in Operation
      BY <2>1 DEF Operation
    <3>3. ops' = [ops EXCEPT ![i] = [ops[i] EXCEPT !.status = status]]
      BY <3>1
    <3> QED
      BY <2>1, <3>2, <3>3
  <2>3. list' \subseteq IP
    BY <1>5, <2>1 DEF OperationEnds, Operation
  <2>4. moments' \subseteq BOOLEAN
    <3>1. {(ip \in list')} \subseteq BOOLEAN
      OBVIOUS
    <3>2. moments' = IF Finds THEN moments \cup {(ip \in list')} ELSE moments
      BY <1>5 DEF OperationEnds
    <3>3. moments \subseteq BOOLEAN
      BY DEF TypeOK
    <3> QED
      BY <3>1, <3>2, <3>3, Zenon
  <2> QED
    BY <1>5, <2>2, <2>3, <2>4 DEF OperationEnds
<1> QED
  BY <1>1, <1>2, <1>3, <1>4, <1>5 DEF Cloudflare
-----------------------------------------------------------------------------
(* The four ways a step of the client may go.                              *)

Retries ==
    /\ pc = "request" /\ pc' = "sleep"
    /\ attempt < MaxRetries /\ attempt' = attempt + 1
    /\ delay' \in 0 .. MaxDelay
    /\ reply' = NULL
    /\ outcome' = outcome
    /\ operation_id' = operation_id

PollsAgain ==
    /\ pc = "request" /\ pc' = "sleep"
    /\ method = "wait_for_operation"
    /\ clock' < TimeoutSeconds
    /\ attempt' = 0
    /\ delay' = PollInterval
    /\ reply' = NULL
    /\ outcome' = outcome
    /\ operation_id' = operation_id

Raises ==
    /\ \/ outcome' \in {"gave_up", "malformed"}
       \/ /\ outcome' = "refused"
          /\ reply # NULL
          /\ reply.code = "refused"
    /\ operation_id' = operation_id

Returns ==
    /\ method # "wait_for_operation"
    /\ outcome' = "returned"
    /\ reply # NULL
    /\ reply.code = "ok"
    /\ operation_id' = IF method \in Submits THEN reply.id ELSE operation_id

StopsPolling ==
    /\ method = "wait_for_operation"
    /\ reply # NULL
    /\ reply.code = "ok"
    /\ \/ reply.status = "completed" /\ outcome' = "returned"
       \/ reply.status = "failed" /\ outcome' = "failed"
       \/ reply.status = "none" /\ outcome' = "timeout" /\ clock' >= TimeoutSeconds
    /\ operation_id' = operation_id

CallEnds ==
    /\ pc = "request" /\ pc' = "idle"
    /\ Raises \/ Returns \/ StopsPolling
    /\ UNCHANGED <<attempt, reply, delay>>

(* What all steps of the client but Wake share.                            *)
Turn ==
    /\ Retries \/ PollsAgain \/ CallEnds
    /\ clock' \in clock .. clock + MaxRequestTime

(* Another attempt, or the end of them.                                    *)
LEMMA TryAgainTurns ==
    ASSUME TypeOK, NEW pauses, pauses \subseteq 0 .. MaxDelay \/ attempt >= MaxRetries,
           pc = "request", operation_id' = operation_id, TryAgain(pauses)
    PROVE  Retries \/ CallEnds
<1>1. attempt \in Nat /\ MaxRetries \in Nat
  BY ClientAssumption DEF TypeOK
<1>2. CASE attempt >= MaxRetries
  BY <1>1, <1>2 DEF TryAgain, Ends, CallEnds, Raises
<1>3. CASE attempt < MaxRetries
  <2>1. PICK pause \in pauses : Sleeps(pause, attempt + 1)
    BY <1>1, <1>3 DEF TryAgain
  <2>2. pause \in 0 .. MaxDelay
    BY <1>1, <1>3, <2>1
  <2> QED
    BY <1>3, <2>1, <2>2 DEF Sleeps, Retries
<1> QED
  BY <1>1, <1>2, <1>3

(* The pauses before a retry are bounded.                                  *)
LEMMA Pauses ==
    ASSUME TypeOK
    PROVE  {2^attempt} \subseteq 0 .. MaxDelay \/ attempt >= MaxRetries
<1>1. attempt \in Nat /\ MaxRetries \in Nat
  BY ClientAssumption DEF TypeOK
<1>2. CASE attempt < MaxRetries
  <2>1. attempt \in 0 .. MaxRetries - 1
    BY <1>1, <1>2
  <2>2. 2^attempt \in 0 .. MaxDelay
    BY <2>1, ClientAssumption
  <2> QED
    BY <2>2
<1> QED
  BY <1>1, <1>2

(* A request takes bounded time.                                           *)
LEMMA RequestTime ==
    ASSUME TypeOK, \E seconds \in 0 .. MaxRequestTime : Takes(seconds)
    PROVE  clock' \in clock .. clock + MaxRequestTime
BY ClientAssumption DEF TypeOK, Takes

(* Every step of the client is a turn of the loop, or the end of a pause.  *)
LEMMA ClientTurns ==
    ASSUME TypeOK, ClientStep
    PROVE  /\ Wake \/ Turn
           /\ UNCHANGED <<list, ops, moments, calls, method, ip>>
<1> USE DEF cloudVars, callVars
<1>1. CASE RequestException
  <2>1. Retries \/ CallEnds
    BY <1>1, Pauses, TryAgainTurns DEF RequestException
  <2> QED
    BY <1>1, <2>1, RequestTime DEF RequestException, Turn
<1>2. CASE RateLimited
  <2>1. RetryAfters \cup {2^attempt} \subseteq 0 .. MaxDelay \/ attempt >= MaxRetries
    BY Pauses, ClientAssumption
  <2>2. Retries \/ CallEnds
    BY <1>2, <2>1, TryAgainTurns DEF RateLimited, Response
  <2> QED
    BY <1>2, <2>2, RequestTime DEF RateLimited, Response, Turn
<1>3. CASE ServerError
  <2>1. Retries \/ CallEnds
    BY <1>3, Pauses, TryAgainTurns DEF ServerError, Response
  <2> QED
    BY <1>3, <2>1, RequestTime DEF ServerError, Response, Turn
<1>4. CASE Refused \/ Malformed
  <2>1. CallEnds
    BY <1>4 DEF Refused, Malformed, Response, Ends, CallEnds, Raises
  <2> QED
    BY <1>4, <2>1, RequestTime DEF Refused, Malformed, Response, Turn
<1>5. CASE Returned
  <2>1. CallEnds
    BY <1>5 DEF Returned, Response, Ends, CallEnds, Returns
  <2> QED
    BY <1>5, <2>1, RequestTime DEF Returned, Response, Turn
<1>6. CASE Polled
  <2>1. PollsAgain \/ CallEnds
    BY <1>6 DEF Polled, Response, Ends, Sleeps, CallEnds, StopsPolling, PollsAgain
  <2> QED
    BY <1>6, <2>1, RequestTime DEF Polled, Response, Turn
<1>7. CASE Wake
  BY <1>7 DEF Wake
<1> QED
  BY <1>1, <1>2, <1>3, <1>4, <1>5, <1>6, <1>7 DEF ClientStep

(* The client keeps the types.                                             *)
LEMMA ClientTypes ==
    ASSUME TypeOK, Submitting, ClientStep
    PROVE  TypeOK'
<1>1. Wake \/ Turn
  BY ClientTurns
<1>2. UNCHANGED <<list, ops, moments, calls, method, ip>>
  BY ClientTurns
<1>3. /\ attempt \in 0 .. MaxRetries /\ MaxRetries \in Nat /\ MaxDelay \in Nat
      /\ MaxRequestTime \in Nat /\ PollInterval \in Nat
      /\ clock \in Nat /\ delay \in Nat
  BY ClientAssumption DEF TypeOK
<1>4. CASE Wake
  <2>1. clock' \in Nat
    BY <1>3, <1>4 DEF Wake, Takes
  <2> QED
    BY <1>2, <1>4, <2>1 DEF Wake, TypeOK
<1>5. CASE Turn
  <2>1. clock' \in Nat
    BY <1>3, <1>5 DEF Turn
  <2>2. CASE Retries
    <3>1. attempt' \in 0 .. MaxRetries /\ delay' \in Nat
      BY <1>3, <2>2 DEF Retries
    <3> QED
      BY <1>2, <2>1, <2>2, <3>1 DEF Retries, TypeOK
  <2>3. CASE PollsAgain
    <3>1. attempt' \in 0 .. MaxRetries
      BY <1>3, <2>3 DEF PollsAgain
    <3> QED
      BY <1>2, <1>3, <2>1, <2>3, <3>1 DEF PollsAgain, TypeOK
  <2>4. CASE CallEnds
    <3>1. outcome' \in Outcome
      BY <2>4 DEF CallEnds, Raises, Returns, StopsPolling, Outcome
    <3>2. operation_id' \in 0 .. Len(ops)
      <4>1. CASE Returns /\ method \in Submits
        <5>1. reply.id \in DOMAIN ops
          BY <2>4, <4>1 DEF Submitting, Answered, Returns, CallEnds, Started
        <5> QED
          BY <4>1, <5>1 DEF Returns, TypeOK
      <4> QED
        BY <2>4, <4>1 DEF CallEnds, Raises, Returns, StopsPolling, TypeOK
    <3> QED
      BY <1>2, <2>1, <2>4, <3>1, <3>2 DEF CallEnds, TypeOK
  <2> QED
    BY <1>5, <2>2, <2>3, <2>4 DEF Turn
<1> QED
  BY <1>1, <1>4, <1>5

(* A call begins with the types in place.                                  *)
LEMMA CallTypes ==
    ASSUME TypeOK,
           \/ \E m \in Method \ {"wait_for_operation"}, address \in IP : Call(m, address)
           \/ CallWait
    PROVE  TypeOK'
<1>1. 0 \in 0 .. MaxRetries
  BY ClientAssumption
<1>2. ASSUME NEW m \in Method, Begins(m), ip' \in IP, moments' \subseteq BOOLEAN
      PROVE  TypeOK'
  BY <1>1, <1>2 DEF Begins, TypeOK, Outcome
<1>3. ASSUME NEW m \in Method \ {"wait_for_operation"}, NEW address \in IP, Call(m, address)
      PROVE  TypeOK'
  <2>1. {(address \in list)} \subseteq BOOLEAN
    OBVIOUS
  <2>2. moments' = IF m = "find_ip" THEN {(address \in list)} ELSE {}
    BY <1>3 DEF Call
  <2>3. moments' \subseteq BOOLEAN
    BY <2>1, <2>2, Zenon
  <2> QED
    BY <1>2, <1>3, <2>3 DEF Call
<1> QED
  BY <1>2, <1>3 DEF CallWait, TypeOK, Method
-----------------------------------------------------------------------------
(* The time of a call.                                                     *)

(* The turns of the loop add up.                                           *)
LEMMA SpentGrows ==
    /\ Spent(0) = 0
    /\ \A n \in Nat : Spent(n) \in Nat
    /\ \A n \in Nat : Spent(n + 1) = Spent(n) + MaxRequestTime + MaxDelay
    /\ \A n \in 0 .. MaxRetries : Spent(n) <= Spent(MaxRetries)
    /\ RequestBound = Spent(MaxRetries) + MaxRequestTime
<1> DEFINE C == MaxRequestTime + MaxDelay
<1>1. C \in Nat /\ MaxRetries \in Nat /\ MaxRequestTime \in Nat /\ MaxDelay \in Nat
  BY ClientAssumption
<1>2. \A n \in Nat : n * C \in Nat /\ (n + 1) * C = n * C + C
  BY <1>1
<1>3. \A n \in 0 .. MaxRetries : n * C <= MaxRetries * C
  <2> SUFFICES ASSUME NEW n \in 0 .. MaxRetries
               PROVE  n * C <= MaxRetries * C
    OBVIOUS
  <2>1. MaxRetries - n \in Nat
    BY <1>1
  <2>2. MaxRetries * C = n * C + (MaxRetries - n) * C
    BY <1>1, <2>1
  <2>3. (MaxRetries - n) * C \in Nat /\ n * C \in Nat /\ MaxRetries * C \in Nat
    BY <1>1, <2>1
  <2> QED
    BY <2>2, <2>3
<1>4. 0 * C = 0
  BY <1>1
<1> QED
  BY <1>1, <1>2, <1>3, <1>4 DEF Spent, RequestBound

(* A call that begins has taken no time.                                   *)
LEMMA FreshTiming ==
    ASSUME clock' = 0, attempt' = 0, pc' \in {"idle", "request"}
    PROVE  Timing'
<1>1. Lead' \in Nat
  BY ClientAssumption DEF Lead
<1>2. Spent(0) = 0 /\ RequestBound \in Nat
  BY SpentGrows, ClientAssumption
<1>3. (Lead + RequestBound)' \in Nat
  BY <1>1, <1>2 DEF RequestBound
<1>4. Spent(attempt)' = 0
  BY <1>2 DEF Spent
<1>5. CallsAreBounded'
  BY <1>3 DEF CallsAreBounded
<1>6. (pc = "request" => clock <= Lead + Spent(attempt))'
  BY <1>1, <1>4
<1>7. (pc = "sleep" => clock + delay <= Lead + Spent(attempt))'
  OBVIOUS
<1> QED
  BY <1>5, <1>6, <1>7 DEF Timing

(* Every turn of the loop ends in time.                                    *)
LEMMA ClientTiming ==
    ASSUME TypeOK, Timing, ClientStep
    PROVE  Timing'
<1>1. /\ attempt \in 0 .. MaxRetries /\ attempt \in Nat /\ MaxRetries \in Nat
      /\ MaxDelay \in Nat /\ MaxRequestTime \in Nat /\ PollInterval \in Nat
      /\ TimeoutSeconds \in Nat /\ clock \in Nat /\ delay \in Nat
  BY ClientAssumption DEF TypeOK
<1>2. (Wake \/ Turn) /\ method' = method
  BY ClientTurns
<1>3. Lead' = Lead /\ Lead \in Nat /\ RequestBound' = RequestBound
  BY <1>1, <1>2 DEF Lead, RequestBound
<1>4. /\ Spent(attempt) \in Nat /\ Spent(attempt) <= Spent(MaxRetries)
      /\ Spent(attempt + 1) = Spent(attempt) + MaxRequestTime + MaxDelay
      /\ Spent(0) = 0 /\ Spent(MaxRetries) \in Nat
      /\ RequestBound = Spent(MaxRetries) + MaxRequestTime
  BY <1>1, SpentGrows
<1>5. CASE Wake
  <2>1. /\ pc = "sleep" /\ pc' = "request" /\ attempt' = attempt
        /\ clock' = clock + delay
    BY <1>5 DEF Wake, Takes
  <2>2. clock' <= Lead + Spent(attempt)
    BY <2>1 DEF Timing
  <2>3. clock' <= Lead + RequestBound
    BY <1>1, <1>3, <1>4, <2>1, <2>2
  <2> QED
    BY <1>3, <2>1, <2>2, <2>3 DEF Timing, CallsAreBounded, Spent
<1>6. CASE Turn
  <2>1. pc = "request" /\ clock' \in clock .. clock + MaxRequestTime
    BY <1>6 DEF Turn, Retries, PollsAgain, CallEnds
  <2>2. clock <= Lead + Spent(attempt)
    BY <2>1 DEF Timing
  <2>3. clock' <= Lead + RequestBound
    BY <1>1, <1>3, <1>4, <2>1, <2>2
  <2>4. CASE Retries
    <3>1. clock' + delay' <= Lead + Spent(attempt + 1)
      BY <1>1, <1>3, <1>4, <2>1, <2>2, <2>4 DEF Retries
    <3> QED
      BY <1>3, <2>3, <2>4, <3>1 DEF Timing, CallsAreBounded, Retries, Spent
  <2>5. CASE PollsAgain
    <3>1. clock' + delay' <= Lead + Spent(0)
      BY <1>1, <1>4, <2>1, <2>5 DEF PollsAgain, Lead
    <3> QED
      BY <1>3, <2>3, <2>5, <3>1 DEF Timing, CallsAreBounded, PollsAgain, Spent
  <2>6. CASE CallEnds
    BY <1>3, <2>3, <2>6 DEF Timing, CallsAreBounded, CallEnds
  <2> QED
    BY <1>6, <2>4, <2>5, <2>6 DEF Turn
<1> QED
  BY <1>2, <1>5, <1>6

(* Every step keeps the timing.                                            *)
LEMMA TimingStep ==
    ASSUME TypeOK, Timing, [Next]_clientVars
    PROVE  Timing'
<1>1. CASE \/ \E m \in Method \ {"wait_for_operation"}, address \in IP : Call(m, address)
           \/ CallWait
  BY <1>1, FreshTiming DEF Call, CallWait, Begins
<1>2. CASE Cloudflare \/ UNCHANGED clientVars
  <2>1. UNCHANGED <<clock, delay, pc, attempt, method>>
    BY <1>2 DEF Cloudflare, ServeItems, ServeSubmission, ServeStatus, ServeNothing,
       OperationEnds, clientVars, loopVars, callVars
  <2> QED
    BY <2>1 DEF Timing, CallsAreBounded, Lead, RequestBound, Spent
<1> QED
  BY <1>1, <1>2, ClientTiming DEF Next
-----------------------------------------------------------------------------
(* What a wait returns.                                                    *)

(* An operation that has ended stays as it is.                             *)
LEMMA EndsOnce ==
    ASSUME TypeOK, NEW i \in DOMAIN ops, OperationEnds(i)
    PROVE  /\ DOMAIN ops' = DOMAIN ops
           /\ \A k \in DOMAIN ops :
                /\ ops'[k].kind = ops[k].kind
                /\ ops'[k].ip = ops[k].ip
                /\ ops'[k].call = ops[k].call
                /\ ops[k].status # "none" => ops'[k].status = ops[k].status
<1>1. ops \in Seq(Operation) /\ ops[i].status = "none"
  BY DEF TypeOK, OperationEnds
<1>2. PICK status \in OperationStatus : ops' = [ops EXCEPT ![i].status = status]
  BY DEF OperationEnds, OperationStatus
<1>3. \A k \in DOMAIN ops : k # i => ops'[k] = ops[k]
  BY <1>1, <1>2
<1>4. ops'[i] = [ops[i] EXCEPT !.status = status] /\ ops[i] \in Operation
  BY <1>1, <1>2
<1>5. /\ ops'[i].kind = ops[i].kind
      /\ ops'[i].ip = ops[i].ip
      /\ ops'[i].call = ops[i].call
  BY <1>4 DEF Operation
<1> QED
  BY <1>1, <1>2, <1>3, <1>5

(* Cloudflare's answers, and its operations that end, keep Watching.       *)
LEMMA CloudflareWatching ==
    ASSUME TypeOK, Watching, Cloudflare
    PROVE  Watching'
<1>1. CASE ServeItems \/ ServeSubmission
  BY <1>1 DEF ServeItems, ServeSubmission, Handles, Submits, Watching, WaitIsTrue,
     Answered, callVars
<1>2. CASE ServeStatus \/ ServeNothing
  <2>1. /\ UNCHANGED <<ops, method, operation_id, pc, outcome, clock>>
        /\ pc = "request" /\ outcome = "none"
        /\ method = "wait_for_operation" => operation_id # 0
    BY <1>2 DEF ServeStatus, ServeNothing, Handles, Watching, cloudVars, callVars
  <2>2. reply'.status \in {"none", ops[operation_id].status}
    BY <1>2 DEF ServeStatus, ServeNothing, Ok
  <2> QED
    BY <2>1, <2>2 DEF Watching, WaitIsTrue, Answered
<1>3. ASSUME NEW i \in DOMAIN ops, OperationEnds(i)
      PROVE  Watching'
  <2>1. UNCHANGED <<method, operation_id, pc, outcome, clock, reply>>
    BY <1>3 DEF OperationEnds, callVars, loopVars
  <2>2. method = "wait_for_operation" => operation_id \in DOMAIN ops
    BY DEF Watching, TypeOK
  <2>3. method = "wait_for_operation" /\ ops[operation_id].status # "none" =>
            ops'[operation_id].status = ops[operation_id].status
    BY <1>3, <2>2, EndsOnce
  <2> QED
    BY <2>1, <2>3 DEF Watching, WaitIsTrue, Answered
<1> QED
  BY <1>1, <1>2, <1>3 DEF Cloudflare

(* Every step keeps Watching.                                              *)
LEMMA WatchingStep ==
    ASSUME TypeOK, Watching, [Next]_clientVars
    PROVE  Watching'
<1>1. CASE \/ \E m \in Method \ {"wait_for_operation"}, address \in IP : Call(m, address)
           \/ CallWait
  BY <1>1 DEF Call, CallWait, Begins, Watching, WaitIsTrue, Answered
<1>2. CASE ClientStep
  <2>1. (Wake \/ Turn) /\ UNCHANGED <<ops, method>>
    BY <1>2, ClientTurns
  <2>2. CASE Wake
    BY <2>1, <2>2 DEF Wake, Watching, WaitIsTrue, Answered
  <2>3. CASE Retries \/ PollsAgain
    BY <2>1, <2>3 DEF Retries, PollsAgain, Watching, WaitIsTrue, Answered
  <2>4. CASE CallEnds
    <3>1. pc = "request" /\ pc' = "idle" /\ UNCHANGED reply
      BY <2>4 DEF CallEnds
    <3>2. CASE Raises \/ Returns
      BY <2>1, <3>1, <3>2 DEF Raises, Returns, Watching, WaitIsTrue, Answered
    <3>3. CASE StopsPolling
      BY <2>1, <3>1, <3>3 DEF StopsPolling, Watching, WaitIsTrue, Answered
    <3> QED
      BY <2>4, <3>2, <3>3 DEF CallEnds
  <2> QED
    BY <2>1, <2>2, <2>3, <2>4 DEF Turn
<1>3. CASE UNCHANGED clientVars
  BY <1>3 DEF clientVars, cloudVars, callVars, loopVars, Watching, WaitIsTrue, Answered
<1> QED
  BY <1>1, <1>2, <1>3, CloudflareWatching DEF Next
-----------------------------------------------------------------------------
(* What a submission starts.                                               *)

(* The operations of a call are finitely many.                             *)
LEMMA FiniteStarted ==
    ASSUME TypeOK
    PROVE  IsFiniteSet(Started) /\ Cardinality(Started) \in Nat
<1>1. IsFiniteSet(1 .. Len(ops))
  BY FS_Interval DEF TypeOK
<1>2. Started \subseteq 1 .. Len(ops)
  BY DEF Started, TypeOK
<1> QED
  BY <1>1, <1>2, FS_Subset, FS_CardinalityType

(* A call that begins has started nothing.                                 *)
LEMMA CallSubmitting ==
    ASSUME TypeOK, Submitting,
           \/ \E m \in Method \ {"wait_for_operation"}, address \in IP : Call(m, address)
           \/ CallWait
    PROVE  Submitting'
<1>1. /\ ops' = ops /\ calls' = calls + 1 /\ pc' = "request" /\ attempt' = 0
      /\ reply' = NULL /\ outcome' = "none"
  BY DEF Call, CallWait, Begins
<1>2. \A i \in DOMAIN ops : ops[i].call \in Nat /\ ops[i].call <= calls
  <2>1. \A i \in DOMAIN ops : ops[i] \in Operation
    BY DEF TypeOK
  <2> QED
    BY <2>1 DEF Submitting, Operation
<1>3. Started' = {} /\ \A i \in DOMAIN ops : ops[i].call <= calls'
  BY <1>1, <1>2 DEF Started, TypeOK
<1>4. Cardinality(Started)' = 0
  BY <1>3, FS_EmptySet
<1> QED
  BY <1>1, <1>3, <1>4 DEF Submitting, OneOperationPerAttempt, Answered

(* An answer starts an operation, or nothing; an operation that ends stays *)
(* the operation it is.                                                    *)
LEMMA CloudflareSubmitting ==
    ASSUME TypeOK, Watching, Submitting, Cloudflare
    PROVE  Submitting'
<1>1. UNCHANGED <<calls, method, ip, operation_id, pc, attempt, outcome>>
  BY DEF Cloudflare, ServeItems, ServeSubmission, ServeStatus, ServeNothing,
     OperationEnds, callVars, loopVars
<1>2. Cardinality(Started) \in Nat /\ IsFiniteSet(Started) /\ attempt \in Nat
  BY FiniteStarted, ClientAssumption DEF TypeOK
<1>3. CASE ServeItems \/ ServeStatus \/ ServeNothing
  <2>1. /\ pc = "request" /\ reply = NULL /\ ops' = ops
        /\ reply'.code = "ok" => method \notin Submits
    BY <1>3 DEF ServeItems, ServeStatus, ServeNothing, Handles, cloudVars, Ok, Submits
  <2>2. Started' = Started /\ Cardinality(Started)' = Cardinality(Started)
    BY <1>1, <2>1 DEF Started
  <2>3. Cardinality(Started) <= attempt /\ outcome = "none"
    BY <2>1 DEF Submitting, Watching
  <2> QED
    BY <1>1, <1>2, <2>1, <2>2, <2>3 DEF Submitting, OneOperationPerAttempt, Answered
<1>4. CASE ServeSubmission
  <2> DEFINE new == [kind |-> method, ip |-> ip, status |-> "none", call |-> calls]
             id == Len(ops) + 1
  <2>1. /\ pc = "request" /\ reply = NULL /\ method \in Submits /\ outcome = "none"
        /\ ops' = Append(ops, new)
        /\ reply' \in {[Ok EXCEPT !.id = id], [Ok EXCEPT !.code = "error"],
                       [Ok EXCEPT !.code = "malformed"]}
    BY <1>4 DEF ServeSubmission, Handles, Watching
  <2>2. /\ ops \in Seq(Operation) /\ Len(ops) \in Nat
        /\ DOMAIN ops' = DOMAIN ops \cup {id} /\ id \notin DOMAIN ops
        /\ ops'[id] = new
        /\ \A i \in DOMAIN ops : ops'[i] = ops[i]
    BY <2>1 DEF TypeOK
  <2>3. Started' = Started \cup {id} /\ id \notin Started
    BY <1>1, <2>2 DEF Started
  <2>4. Cardinality(Started)' = Cardinality(Started) + 1
    BY <1>2, <2>3, FS_AddElement
  <2>5. Cardinality(Started)' <= attempt + 1
    BY <1>2, <2>1, <2>4 DEF Submitting
  <2>6. reply'.code = "ok" => reply'.id = id
    BY <2>1 DEF Ok
  <2>7. reply'.code \notin {"refused", "limited"} /\ reply' # NULL
    BY <2>1, ReplyTypes, ReplyAssumption, <2>2 DEF Ok
  <2>8. \A i \in DOMAIN ops' : ops'[i].call <= calls
    BY <2>2 DEF Submitting, TypeOK
  <2>9. \A i \in Started' : ops'[i].kind = method /\ ops'[i].ip = ip
    BY <2>2, <2>3 DEF Submitting, OneOperationPerAttempt, Started
  <2> HIDE DEF new, id
  <2> QED
    BY <1>1, <2>1, <2>3, <2>5, <2>6, <2>7, <2>8, <2>9
       DEF Submitting, OneOperationPerAttempt, Answered
<1>5. ASSUME NEW i \in DOMAIN ops, OperationEnds(i)
      PROVE  Submitting'
  <2>1. /\ DOMAIN ops' = DOMAIN ops
        /\ \A k \in DOMAIN ops : /\ ops'[k].kind = ops[k].kind
                                 /\ ops'[k].ip = ops[k].ip
                                 /\ ops'[k].call = ops[k].call
    BY <1>5, EndsOnce
  <2>2. Started' = Started /\ Cardinality(Started)' = Cardinality(Started)
    BY <1>1, <2>1 DEF Started
  <2>3. reply' = reply
    BY <1>5 DEF OperationEnds, loopVars
  <2>4. \A k \in Started : ops'[k].kind = ops[k].kind /\ ops'[k].ip = ops[k].ip
    BY <2>1 DEF Started
  <2>5. \A k \in DOMAIN ops' : ops'[k].call <= calls'
    BY <1>1, <2>1 DEF Submitting
  <2> QED
    BY <1>1, <2>2, <2>3, <2>4, <2>5 DEF Submitting, OneOperationPerAttempt, Answered
<1> QED
  BY <1>3, <1>4, <1>5 DEF Cloudflare

(* A turn of the loop starts nothing, and counts one attempt more.         *)
LEMMA ClientSubmitting ==
    ASSUME TypeOK, Watching, Submitting, ClientStep
    PROVE  Submitting'
<1>1. (Wake \/ Turn) /\ UNCHANGED <<ops, calls, method, ip>>
  BY ClientTurns
<1>2. Started' = Started /\ Cardinality(Started)' = Cardinality(Started)
  BY <1>1 DEF Started
<1>3. /\ Cardinality(Started) \in Nat /\ IsFiniteSet(Started)
      /\ attempt \in Nat
      /\ Cardinality(Started) <= attempt + 1
  BY FiniteStarted, ClientAssumption DEF TypeOK, Submitting, OneOperationPerAttempt
<1>4. CASE Wake
  <2>1. /\ pc = "sleep" /\ pc' = "request" /\ attempt' = attempt
        /\ reply' = reply /\ outcome' = outcome /\ operation_id' = operation_id
    BY <1>4 DEF Wake
  <2>2. reply = NULL /\ Cardinality(Started) <= attempt
    BY <2>1 DEF Submitting, Watching
  <2> QED
    BY <1>1, <1>2, <2>1, <2>2 DEF Submitting, OneOperationPerAttempt, Answered
<1>5. CASE Retries
  BY <1>1, <1>2, <1>3, <1>5 DEF Retries, Submitting, OneOperationPerAttempt, Answered
<1>6. CASE PollsAgain
  <2>1. Started = {} /\ Cardinality(Started) = 0
    BY <1>6, FS_EmptySet DEF PollsAgain, Submitting, Submits
  <2> QED
    BY <1>1, <1>2, <1>6, <2>1 DEF PollsAgain, Submitting, OneOperationPerAttempt, Answered
<1>7. CASE CallEnds
  <2>1. pc = "request" /\ pc' = "idle" /\ attempt' = attempt
    BY <1>7 DEF CallEnds
  <2>2. outcome' = "refused" /\ attempt = 0 => Started = {}
    <3>1. outcome' = "refused" => Cardinality(Started) <= attempt
      BY <1>7, <2>1 DEF CallEnds, Raises, Returns, StopsPolling, Submitting, Answered
    <3> QED
      BY <1>3, <3>1, FS_EmptySet
  <2>3. outcome' = "returned" /\ method \in Submits => operation_id' \in Started
    BY <1>7, <2>1 DEF CallEnds, Raises, Returns, StopsPolling, Submitting, Answered, Submits
  <2> QED
    BY <1>1, <1>2, <2>1, <2>2, <2>3 DEF Submitting, OneOperationPerAttempt, Answered
<1> QED
  BY <1>1, <1>4, <1>5, <1>6, <1>7 DEF Turn
-----------------------------------------------------------------------------
Inv == TypeOK /\ Turns

(* Before the first call the invariant holds.                              *)
LEMMA InvInit == Init => Inv
<1> SUFFICES ASSUME Init PROVE Inv
  OBVIOUS
<1>1. TypeOK
  BY TypeInit
<1>2. Timing
  <2>1. CallsAreBounded
    <3>1. Lead \in Nat /\ RequestBound \in Nat
      BY SpentGrows, ClientAssumption DEF Lead
    <3> QED
      BY <3>1 DEF Init, CallsAreBounded
  <2> QED
    BY <2>1 DEF Init, Timing
<1>3. Watching
  BY DEF Init, Watching, WaitIsTrue, Answered
<1>4. Submitting
  <2>1. Started = {} /\ Cardinality(Started) = 0
    BY FS_EmptySet DEF Init, Started
  <2> QED
    BY <2>1 DEF Init, Submitting, OneOperationPerAttempt, Answered
<1> QED
  BY <1>1, <1>2, <1>3, <1>4 DEF Inv, Turns

(* Every step keeps it.                                                    *)
LEMMA InvStep == Inv /\ [Next]_clientVars => Inv'
<1> SUFFICES ASSUME Inv, [Next]_clientVars
             PROVE  Inv'
  OBVIOUS
<1>1. TypeOK /\ Timing /\ Watching /\ Submitting
  BY DEF Inv, Turns
<1>2. CASE UNCHANGED clientVars
  BY <1>2 DEF clientVars, cloudVars, callVars, loopVars, Inv, Turns, TypeOK, Timing,
     CallsAreBounded, RequestBound, Lead, Spent, Watching, WaitIsTrue, Submitting,
     OneOperationPerAttempt, Started, Answered
<1>3. CASE Next
  <2>1. TypeOK'
    BY <1>1, <1>3, CloudflareTypes, ClientTypes, CallTypes DEF Next
  <2>2. Timing' /\ Watching'
    BY <1>1, TimingStep, WatchingStep
  <2>3. Submitting'
    BY <1>1, <1>3, CloudflareSubmitting, ClientSubmitting, CallSubmitting DEF Next
  <2> QED
    BY <2>1, <2>2, <2>3 DEF Inv, Turns
<1> QED
  BY <1>2, <1>3

(* The variables of the client and of Cloudflare have their types.         *)
THEOREM ClientTypeCorrect == Spec => []TypeOK
<1>1. Inv => TypeOK
  BY DEF Inv
<1> QED
  BY InvInit, InvStep, <1>1, PTL DEF Spec

(* No call outlasts its bound.                                             *)
THEOREM CallsTakeBoundedTime == Spec => []CallsAreBounded
<1>1. Inv => CallsAreBounded
  BY DEF Inv, Turns, Timing
<1> QED
  BY InvInit, InvStep, <1>1, PTL DEF Spec

(* wait_for_operation tells the truth about the operation.                 *)
THEOREM WaitsTellTheTruth == Spec => []WaitIsTrue
<1>1. Inv => WaitIsTrue
  BY DEF Inv, Turns, Watching
<1> QED
  BY InvInit, InvStep, <1>1, PTL DEF Spec

(* A call starts at most one operation per attempt, each its own.          *)
THEOREM AttemptsStartOneEach == Spec => []OneOperationPerAttempt
<1>1. Inv => OneOperationPerAttempt
  BY DEF Inv, Turns, Submitting
<1> QED
  BY InvInit, InvStep, <1>1, PTL DEF Spec
-----------------------------------------------------------------------------
(* The progress of a call.                                                 *)

(* When the next request begins: now, or when the pause is over.           *)
LEMMA NextRequests ==
    ASSUME TypeOK
    PROVE  /\ pc # "sleep" => NextRequest = clock
           /\ pc = "sleep" => NextRequest = clock + delay
           /\ NextRequest \in Nat
<1>1. clock \in Nat /\ delay \in Nat
  BY DEF TypeOK
<1>2. CASE pc = "sleep"
  BY <1>1, <1>2 DEF NextRequest
<1>3. CASE pc # "sleep"
  BY <1>1, <1>3 DEF NextRequest
<1> QED
  BY <1>2, <1>3

(* The variant of a call is a pair of natural numbers.                     *)
LEMMA VariantType ==
    ASSUME TypeOK
    PROVE  TimeLeft \in Nat /\ TurnsLeft \in Nat
<1>1. /\ attempt \in Nat /\ MaxRetries \in Nat /\ attempt <= MaxRetries
      /\ clock \in Nat /\ delay \in Nat
  BY ClientAssumption DEF TypeOK
<1>2. Lead \in Nat /\ NextRequest \in Nat
  BY NextRequests, ClientAssumption DEF Lead
<1> QED
  BY <1>1, <1>2 DEF TimeLeft, TurnsLeft

(* What is left before a deadline falls as time goes on and a pause is     *)
(* taken.                                                                  *)
LEMMA Countdown ==
    ASSUME NEW lead \in Nat, NEW t \in Nat, NEW u \in Nat, NEW pause \in Nat, t <= u,
           NEW left, NEW rest,
           left = (IF t < lead THEN lead - t ELSE 0),
           rest = (IF u + pause < lead THEN lead - (u + pause) ELSE 0)
    PROVE  /\ rest < left \/ rest = left
           /\ pause > 0 /\ t < lead => rest < left
<1>1. u + pause \in Nat /\ t <= u + pause /\ (pause > 0 => t < u + pause)
  OBVIOUS
<1>2. CASE u + pause < lead
  BY <1>1, <1>2
<1>3. CASE ~(u + pause < lead)
  BY <1>1, <1>3
<1> QED
  BY <1>2, <1>3

(* A turn of the loop, and the end of a pause, lower the variant.          *)
LEMMA TurnsProgress ==
    ASSUME TypeOK, TypeOK', ClientStep, pc' # "idle"
    PROVE  /\ pc' # pc
           /\ \/ TimeLeft' < TimeLeft
              \/ TimeLeft' = TimeLeft /\ TurnsLeft' < TurnsLeft
<1>1. /\ attempt \in Nat /\ MaxRetries \in Nat /\ MaxDelay \in Nat
      /\ MaxRequestTime \in Nat /\ clock \in Nat /\ delay \in Nat
      /\ PollInterval \in Nat /\ PollInterval > 0 /\ TimeoutSeconds \in Nat
  BY ClientAssumption DEF TypeOK
<1>2. (Wake \/ Turn) /\ method' = method
  BY ClientTurns
<1>3. Lead' = Lead /\ Lead \in Nat
  BY <1>1, <1>2 DEF Lead
<1>4. CASE Wake
  <2>1. /\ pc = "sleep" /\ pc' = "request" /\ attempt' = attempt
        /\ clock' = clock + delay
    BY <1>4 DEF Wake, Takes
  <2>2. TimeLeft' = TimeLeft
    <3>1. NextRequest = clock + delay /\ NextRequest' = clock'
      <4>1. clock' \in Nat
        BY <1>1, <2>1
      <4> QED
        BY <2>1, <4>1, NextRequests DEF NextRequest
    <3> QED
      BY <1>3, <2>1, <3>1 DEF TimeLeft
  <2>3. TurnsLeft' < TurnsLeft
    BY <1>1, <2>1 DEF TurnsLeft
  <2> QED
    BY <2>1, <2>2, <2>3
<1>5. CASE Turn /\ Retries
  <2>1. /\ pc = "request" /\ pc' = "sleep" /\ attempt' = attempt + 1
        /\ delay' \in Nat /\ clock' \in Nat /\ clock <= clock'
    BY <1>1, <1>5 DEF Turn, Retries
  <2>2. TimeLeft' < TimeLeft \/ TimeLeft' = TimeLeft
    <3>1. PICK c \in Nat, pause \in Nat : c = clock' /\ pause = delay'
      BY <2>1
    <3>2. NextRequest = clock /\ NextRequest' = c + pause
      BY <2>1, <3>1, NextRequests DEF NextRequest
    <3>3. /\ TimeLeft = IF clock < Lead THEN Lead - clock ELSE 0
          /\ TimeLeft' = IF c + pause < Lead THEN Lead - (c + pause) ELSE 0
      BY <1>3, <3>2 DEF TimeLeft
    <3>4. clock <= c
      BY <2>1, <3>1
    <3> QED
      BY <1>1, <1>3, <3>3, <3>4, Countdown
  <2>3. TurnsLeft' < TurnsLeft
    BY <1>1, <2>1 DEF TurnsLeft
  <2> QED
    BY <2>1, <2>2, <2>3
<1>6. CASE Turn /\ PollsAgain
  <2>1. /\ pc = "request" /\ pc' = "sleep" /\ method = "wait_for_operation"
        /\ clock' \in Nat /\ clock <= clock' /\ clock' < TimeoutSeconds
        /\ delay' = PollInterval
    BY <1>1, <1>6 DEF Turn, PollsAgain
  <2>2. Lead = TimeoutSeconds + PollInterval
    BY <2>1 DEF Lead
  <2>3. TimeLeft' < TimeLeft
    <3>1. PICK c \in Nat : c = clock'
      BY <2>1
    <3>2. NextRequest = clock /\ NextRequest' = c + PollInterval
      BY <2>1, <3>1, NextRequests DEF NextRequest
    <3>3. /\ TimeLeft = IF clock < Lead THEN Lead - clock ELSE 0
          /\ TimeLeft' = IF c + PollInterval < Lead THEN Lead - (c + PollInterval) ELSE 0
      BY <1>3, <3>2 DEF TimeLeft
    <3>4. clock <= c /\ clock < Lead
      BY <1>1, <2>1, <2>2, <3>1
    <3> QED
      BY <1>1, <1>3, <3>3, <3>4, Countdown
  <2> QED
    BY <2>1, <2>3
<1> QED
  BY <1>2, <1>4, <1>5, <1>6 DEF Turn, CallEnds

(* Every call comes nearer to its end with every turn: after finitely many *)
(* it has returned or raised, since neither part of its variant can fall   *)
(* below zero.                                                             *)
THEOREM CallsNearTheirEnd == Spec => CallsProgress /\ [](TimeLeft \in Nat /\ TurnsLeft \in Nat)
<1> DEFINE Progress == pc # "idle" /\ pc' # "idle" =>
        IF pc' = pc
        THEN UNCHANGED <<TimeLeft, TurnsLeft>>
        ELSE \/ TimeLeft' < TimeLeft
             \/ TimeLeft' = TimeLeft /\ TurnsLeft' < TurnsLeft
<1>1. ASSUME TypeOK, TypeOK', [Next]_clientVars, pc # "idle", pc' # "idle"
      PROVE  IF pc' = pc
             THEN UNCHANGED <<TimeLeft, TurnsLeft>>
             ELSE \/ TimeLeft' < TimeLeft
                  \/ TimeLeft' = TimeLeft /\ TurnsLeft' < TurnsLeft
  <2>1. CASE ClientStep
    BY <1>1, <2>1, TurnsProgress
  <2>2. CASE Cloudflare \/ UNCHANGED clientVars
    <3>1. UNCHANGED <<pc, method, clock, delay, attempt>>
      BY <2>2 DEF Cloudflare, ServeItems, ServeSubmission, ServeStatus, ServeNothing,
         OperationEnds, callVars, loopVars, clientVars
    <3> QED
      BY <3>1 DEF TimeLeft, TurnsLeft, NextRequest, Lead
  <2> QED
    BY <1>1, <2>1, <2>2 DEF Next, Call, CallWait, Begins
<1>2. Inv /\ [Next]_clientVars => [Progress]_clientVars
  BY <1>1, InvStep DEF Inv
<1>3. Inv => TimeLeft \in Nat /\ TurnsLeft \in Nat
  BY VariantType DEF Inv
<1> QED
  BY InvInit, InvStep, <1>2, <1>3, PTL DEF Spec, CallsProgress
-----------------------------------------------------------------------------
(* What find_ip returns.                                                   *)

(* The first page of a list that fits is the list.                         *)
LEMMA PageIsList ==
    ASSUME OnePage, TypeOK, NEW page \in Page
    PROVE  page = list
<1>1. IsFiniteSet(list) /\ Cardinality(list) <= Cardinality(IP)
  BY FS_Subset DEF OnePage, TypeOK
<1>2. Cardinality(list) \in Nat /\ Cardinality(IP) \in Nat /\ PageSize \in Nat
  BY <1>1, FS_CardinalityType, ClientAssumption DEF OnePage
<1>3. Cardinality(list) <= PageSize
  BY <1>1, <1>2 DEF OnePage
<1>4. page \subseteq list /\ Cardinality(page) = Cardinality(list)
  BY <1>3 DEF Page, FirstItems
<1> QED
  BY <1>1, <1>4, FS_Subset

(* Every step keeps Finding.                                               *)
LEMMA FindStep ==
    ASSUME OnePage, Inv, Finding, [Next]_clientVars
    PROVE  Finding'
<1>1. TypeOK /\ Watching
  BY DEF Inv, Turns
<1>2. ASSUME \/ \E m \in Method \ {"wait_for_operation"}, address \in IP : Call(m, address)
             \/ CallWait
      PROVE  Finding'
  <2>1. reply' = NULL /\ outcome' = "none" /\ list' = list
    BY <1>2 DEF Call, CallWait, Begins
  <2>2. method' = "find_ip" => moments' = {(ip' \in list')}
    <3>1. CASE CallWait
      BY <3>1 DEF CallWait, Begins
    <3>2. ASSUME NEW m \in Method \ {"wait_for_operation"}, NEW address \in IP,
                 Call(m, address), method' = "find_ip"
          PROVE  moments' = {(ip' \in list')}
      <4>1. m = "find_ip" /\ ip' = address /\ list' = list
        BY <3>2 DEF Call, Begins
      <4>2. moments' = IF m = "find_ip" THEN {(address \in list)} ELSE {}
        BY <3>2 DEF Call
      <4>3. moments' = {(address \in list)}
        BY <4>1, <4>2, Zenon
      <4> QED
        BY <4>1, <4>3, Zenon
    <3> QED
      BY <1>2, <3>1, <3>2
  <2>3. Finds' => (ip' \in list') \in moments'
    BY <2>2, Zenon DEF Finds
  <2> QED
    BY <2>1, <2>3 DEF Finding, Answered, FindIsRight
<1>3. CASE ServeItems
  <2>1. /\ pc = "request" /\ method = "find_ip" /\ outcome = "none"
        /\ UNCHANGED <<list, moments, method, ip, pc, outcome>>
    BY <1>1, <1>3 DEF ServeItems, Handles, Watching, cloudVars, callVars
  <2>2. reply'.found = (ip \in list)
    <3>1. PICK page \in Page : reply' = [Ok EXCEPT !.found = ip \in page]
      BY <1>3 DEF ServeItems
    <3>2. page = list
      BY <1>1, PageIsList
    <3> QED
      BY <3>1, <3>2 DEF Ok
  <2> QED
    BY <2>1, <2>2 DEF Finding, Finds, Answered, FindIsRight
<1>4. CASE ServeSubmission \/ ServeStatus \/ ServeNothing
  <2>1. /\ reply'.code # "ok" \/ method # "find_ip"
        /\ UNCHANGED <<list, moments, method, ip, pc, outcome>>
        /\ outcome = "none"
    BY <1>1, <1>4 DEF ServeSubmission, ServeStatus, ServeNothing, Handles, Watching,
       cloudVars, callVars, Submits, Ok
  <2> QED
    BY <2>1 DEF Finding, Finds, Answered, FindIsRight
<1>5. ASSUME NEW i \in DOMAIN ops, OperationEnds(i)
      PROVE  Finding'
  <2>1. /\ UNCHANGED <<method, ip, pc, reply, outcome>>
        /\ moments' = IF Finds THEN moments \cup {(ip \in list')} ELSE moments
    BY <1>5 DEF OperationEnds, callVars, loopVars
  <2>2. moments \subseteq moments'
    BY <2>1
  <2>3. Finds' => Finds /\ moments' = moments \cup {(ip' \in list')}
    <3>1. Finds' => Finds
      BY <2>1 DEF Finds
    <3>2. ip' = ip
      BY <2>1
    <3> QED
      BY <2>1, <3>1, <3>2, Zenon
  <2>4. Finds' => (ip' \in list') \in moments'
    BY <2>3, Zenon
  <2> QED
    BY <2>1, <2>2, <2>4 DEF Finding, Answered, FindIsRight
<1>6. CASE ClientStep
  <2>1. (Wake \/ Turn) /\ UNCHANGED <<list, moments, method, ip>>
    BY <1>1, <1>6, ClientTurns
  <2>2. CASE Wake
    BY <1>1, <2>1, <2>2 DEF Wake, Finding, Finds, Answered, FindIsRight, Watching
  <2>3. CASE Turn
    BY <1>1, <2>1, <2>3 DEF Turn, Retries, PollsAgain, CallEnds, Raises, Returns,
       StopsPolling, Finding, Finds, Answered, FindIsRight, Watching
  <2> QED
    BY <2>1, <2>2, <2>3
<1>7. CASE UNCHANGED clientVars
  BY <1>7 DEF clientVars, cloudVars, callVars, loopVars, Finding, Finds, Answered, FindIsRight
<1> QED
  BY <1>2, <1>3, <1>4, <1>5, <1>6, <1>7 DEF Next, Cloudflare

(* As long as the list fits on one page, what a step of find_ip holds was  *)
(* true at some moment of the call.                                        *)
LEMMA FindsHold ==
    ASSUME OnePage
    PROVE  Spec => []Finding
<1>1. Init => Finding
  BY DEF Init, Finding, Finds, Answered, FindIsRight
<1>2. Inv /\ Finding /\ [Next]_clientVars => Finding'
  BY FindStep
<1> QED
  BY InvInit, InvStep, <1>1, <1>2, PTL DEF Spec

(* So find_ip tells what was true at some moment of the call.              *)
THEOREM FindTellsTheTruth ==
    ASSUME OnePage
    PROVE  Spec => []FindIsRight
<1>1. Finding => FindIsRight
  BY DEF Finding
<1> QED
  BY FindsHold, <1>1, PTL

(* What each step of a call keeps: the account of its time, of the answers *)
(* it holds, of what it started and of what it may have found.             *)
THEOREM ClientInvariant == Spec => []ClientInv
<1>1. ASSUME OnePage
      PROVE  Spec => []ClientInv
  <2>1. Inv /\ Finding => ClientInv
    BY DEF Inv, ClientInv
  <2> QED
    BY <1>1, <2>1, InvInit, InvStep, FindsHold, PTL DEF Spec
<1>2. ASSUME ~OnePage
      PROVE  Spec => []ClientInv
  <2>1. Inv => ClientInv
    BY <1>2 DEF Inv, ClientInv
  <2> QED
    BY <2>1, InvInit, InvStep, PTL DEF Spec
<1> QED
  BY <1>1, <1>2
=============================================================================
