----------------------------- MODULE QueryProofs -----------------------------
(***************************************************************************)
(* A run asks AbuseIPDB about an address once within the cache age,        *)
(* whatever fails, for any set of addresses, item ids and scores, any      *)
(* thresholds and periods, and runs of any length.                         *)
(***************************************************************************)
EXTENDS ScheduleProofs, WorkerQueries

Running == phase \in {"recheck", "collect", "check"}

(* The history only watches: with it the worker does what it does without. *)
LEMMA HistoryOnlyWatches == QSpec => Spec
<1>1. QInit => Init
  BY DEF QInit
<1>2. [QNext]_<<vars, asked>> => [Next]_vars
  BY DEF QNext
<1> QED
  BY <1>1, <1>2, PTL DEF QSpec, Spec

(* What the types and the places of a run give.                            *)
LEMMA Places ==
    ASSUME Inv
    PROVE  /\ DBTypeOK /\ \A ip \in IP : db[ip] \in Row
           /\ todo \subseteq IP
           /\ now \in Nat
           /\ pc # "pick" => cur \in IP
           /\ phase \in {"idle", "collect"} => pc = "pick"
           /\ pc \in ReleaseSteps => phase \in {"expire", "recheck"}
           /\ pc = "mark_recheck" => phase = "recheck"
           /\ pc \in EnforceSteps => phase = "check"
BY DEF Inv, RunInv, TypeInv, TypeOK, DBTypeOK, WorkerTypeOK, Control
-----------------------------------------------------------------------------
(* The steps after the query.                                              *)

(* A loop that has left an address does not come back to it.               *)
LEMMA LoopsMoveOn ==
    ASSUME Inv, [Next]_vars, Running, phase' # "idle"
    PROVE  /\ phase = "recheck" =>
                /\ phase' \in {"recheck", "collect"}
                /\ todo' \subseteq todo
                /\ pc' # "pick" => (pc # "pick" /\ cur' = cur) \/ cur' \in todo
           /\ phase = "collect" => phase' \in {"collect", "check"}
           /\ phase = "check" => phase' = "check" /\ todo' \subseteq todo
<1>1. /\ phase \in {"idle", "collect"} => pc = "pick"
      /\ pc \in ReleaseSteps => phase \in {"expire", "recheck"}
      /\ pc = "mark_recheck" => phase = "recheck"
      /\ pc \in EnforceSteps => phase = "check"
  BY Places
<1> USE DEF Running, Skip, Begin, GoTo, NextAddress, Enter, Exit
<1>2. CASE LifecycleStep
  <2>1. CASE \E ip \in IP :
              \/ ExpireSkip(ip) \/ ExpireBegin(ip)
              \/ RecheckSkip(ip) \/ RecheckError(ip)
              \/ \E score \in Scores : RecheckScored(ip, score)
    BY <2>1 DEF ExpireSkip, ExpireBegin, ExpireNext, RecheckSkip, RecheckError,
       RecheckScored, RecheckNext, Picks
  <2>2. CASE QueryDue \/ EndLifecycle
    BY <2>2 DEF QueryDue, EndLifecycle
  <2>3. CASE \/ MarkRecheck \/ DeleteAccepted \/ DeleteLost \/ MarkPendingDelete
             \/ DeleteCompleted \/ MarkReleased \/ ReleaseFails
    BY <1>1, <2>3 DEF MarkRecheck, DeleteAccepted, DeleteLost, MarkPendingDelete,
       DeleteCompleted, MarkReleased, ReleaseFails, ReleaseRaises, ReleaseSteps
  <2> QED
    BY <1>2, <2>1, <2>2, <2>3 DEF LifecycleStep
<1>3. CASE PipelineStep
  <2>1. CASE \E ip \in IP :
              \/ CollectLine(ip) \/ SkipActive(ip) \/ SkipCached(ip) \/ CheckError(ip)
              \/ \E score \in Scores : CheckScored(ip, score)
    BY <2>1 DEF CollectLine, SkipActive, SkipCached, CheckError, CheckScored, CheckDue, Picks
  <2>2. CASE CollectDone \/ FinishRun
    BY <2>2 DEF CollectDone, FinishRun
  <2>3. CASE \/ FindExisting \/ FindNone \/ AddAccepted \/ AddLost \/ MarkPending
             \/ AddCompleted \/ VerifyFound \/ MarkBlocked \/ MarkActive \/ EnforceFails
    BY <1>1, <2>3 DEF FindExisting, FindNone, AddAccepted, AddLost, MarkPending,
       AddCompleted, VerifyFound, MarkBlocked, MarkActive, EnforceFails, EnforceRaises,
       EnforceSteps
  <2> QED
    BY <1>3, <2>1, <2>2, <2>3 DEF PipelineStep
<1>4. CASE Start \/ Interrupt
  BY <1>4 DEF Start, Interrupt
<1>5. CASE \/ OperationCompletes \/ OperationFails \/ LateCompletes \/ LateFails
           \/ \E ip \in IP : OperatorRemoves(ip) \/ OperatorAdds(ip) \/ Request(ip)
           \/ Rotate \/ Tick
           \/ UNCHANGED vars
  BY <1>5 DEF OperationCompletes, OperationFails, LateCompletes, LateFails,
     OperatorRemoves, OperatorAdds, Request, Rotate, Tick, runVars, vars
<1> QED
  BY <1>2, <1>3, <1>4, <1>5 DEF Next, RunStep

(* Without a query the row of an address only changes while its calls are  *)
(* made, or because it is seen again.                                      *)
LEMMA OthersRows ==
    ASSUME Inv, [Next]_vars, NEW ip \in IP, ~Asks(ip), pc = "pick" \/ cur # ip
    PROVE  db'[ip] = db[ip] \/ db'[ip] = record_seen(db[ip])
<1>1. DBTypeOK /\ (pc # "pick" => cur \in IP)
  BY Places
<1>2. ASSUME NEW q \in IP, q # ip, NEW row, Update(q, row) \/ Upsert(q, row)
      PROVE  db'[ip] = db[ip]
  BY <1>1, <1>2 DEF Update, Upsert, DBTypeOK
<1>3. ASSUME NEW q \in IP, NEW score \in Scores,
             RecheckScored(q, score) \/ CheckScored(q, score)
      PROVE  db'[ip] = db[ip]
  <2>1. q # ip
    BY <1>3 DEF Asks
  <2>2. Update(q, update_reputation(db[q], score, decide(score), now))
    BY <1>3 DEF RecheckScored, CheckScored
  <2> QED
    BY <1>2, <2>1, <2>2
<1>4. CASE \E q \in IP : CollectLine(q)
  <2>1. PICK q \in IP : Upsert(q, record_seen(db[q]))
    BY <1>4 DEF CollectLine
  <2>2. CASE q = ip
    BY <1>1, <2>1, <2>2 DEF Upsert, DBTypeOK
  <2> QED
    BY <1>2, <2>1, <2>2
<1>5. CASE \/ MarkRecheck \/ MarkPendingDelete \/ MarkReleased
           \/ MarkPending \/ MarkBlocked \/ MarkActive \/ EnforceFails \/ AddLost
  <2>1. pc # "pick"
    BY <1>5 DEF MarkRecheck, MarkPendingDelete, MarkReleased, MarkPending,
       MarkBlocked, MarkActive, EnforceFails, EnforceRaises, AddLost
  <2>2. \E row : Update(cur, row)
    BY <1>5 DEF MarkRecheck, MarkPendingDelete, MarkReleased, MarkPending,
       MarkBlocked, MarkActive, EnforceFails, AddLost
  <2> QED
    BY <1>1, <1>2, <2>1, <2>2
<1>6. CASE LifecycleStep
  BY <1>3, <1>5, <1>6 DEF LifecycleStep, ExpireSkip, ExpireBegin, RecheckSkip,
     RecheckError, QueryDue, EndLifecycle, DeleteAccepted, DeleteLost, DeleteCompleted,
     ReleaseFails
<1>7. CASE PipelineStep
  BY <1>3, <1>4, <1>5, <1>7 DEF PipelineStep, CollectDone, SkipActive, SkipCached,
     CheckError, FindExisting, FindNone, AddAccepted, AddCompleted, VerifyFound, FinishRun
<1>8. CASE UNCHANGED vars \/ (Next /\ ~LifecycleStep /\ ~PipelineStep)
  BY <1>8 DEF vars, Next, RunStep, Start, Interrupt, OperationCompletes, OperationFails,
     LateCompletes, LateFails, OperatorRemoves, OperatorAdds, Request, Rotate, Tick
<1> QED
  BY <1>6, <1>7, <1>8 DEF Next, RunStep

(* The calls the lifecycle makes for an address keep the date of its check. *)
LEMMA CallsKeepDate ==
    ASSUME Inv, [Next]_vars, phase = "recheck", pc # "pick"
    PROVE  db'[cur].checked_at = db[cur].checked_at
<1>1. /\ cur \in IP /\ DBTypeOK /\ db[cur] \in Row
      /\ pc \notin EnforceSteps
  BY Places
<1>2. CASE MarkRecheck \/ MarkPendingDelete \/ MarkReleased
  <2>1. \/ \E t : Update(cur, mark_recheck(db[cur], t))
        \/ Update(cur, mark_released(db[cur]))
        \/ Update(cur, update_cloudflare_state(db[cur], "PENDING_DELETE", NULL))
    BY <1>2 DEF MarkRecheck, MarkPendingDelete, MarkReleased
  <2> QED
    BY <1>1, <2>1, Dates DEF Update, DBTypeOK
<1>3. CASE LifecycleStep
  BY <1>2, <1>3 DEF LifecycleStep, ExpireSkip, ExpireBegin, ExpireNext, RecheckSkip,
     RecheckError, RecheckScored, RecheckNext, Picks, QueryDue, EndLifecycle,
     DeleteAccepted, DeleteLost, DeleteCompleted, ReleaseFails
<1>4. ~PipelineStep
  BY <1>1 DEF PipelineStep, CollectLine, CollectDone, SkipActive, SkipCached,
     CheckError, CheckScored, CheckDue, Picks, FindExisting, FindNone, AddAccepted,
     AddLost, MarkPending, AddCompleted, VerifyFound, MarkBlocked, MarkActive,
     EnforceFails, EnforceRaises, FinishRun, EnforceSteps
<1>5. CASE UNCHANGED vars \/ (Next /\ ~LifecycleStep /\ ~PipelineStep)
  BY <1>5 DEF vars, Next, RunStep, Start, Interrupt, OperationCompletes, OperationFails,
     LateCompletes, LateFails, OperatorRemoves, OperatorAdds, Request, Rotate, Tick
<1> QED
  BY <1>3, <1>4, <1>5 DEF Next, RunStep
-----------------------------------------------------------------------------
(* The invariant.                                                          *)

(* A query leaves its address behind, with the block or with an answer.    *)
LEMMA QueryMade ==
    ASSUME Inv, QueryInv, QNext, NEW ip \in IP, Asks(ip), phase' # "idle"
    PROVE  /\ asked'[ip] = now /\ now' = now
           /\ phase' \in {"recheck", "check"} /\ ip \notin todo'
           /\ phase' = "recheck" =>
                /\ pc' # "pick" => db'[ip].checked_at = now
                /\ ActiveBlock(db'[ip]) \/ db'[ip].checked_at = now
<1>1. DBTypeOK /\ db[ip] \in Row
  BY Places
<1>2. asked'[ip] = now
  BY DEF QNext, Remembered
<1>3. CASE RecheckError(ip)
  BY <1>2, <1>3 DEF RecheckError, RecheckNext, Picks, Skip, Fault
<1>4. CASE CheckError(ip)
  BY <1>2, <1>4 DEF CheckError, CheckDue, Picks, Skip, Fault
<1>5. ASSUME NEW score \in Scores, CheckScored(ip, score)
      PROVE  now' = now /\ phase' = "check" /\ ip \notin todo'
  BY <1>5 DEF CheckScored, CheckDue, Picks, Skip, Begin, envVars
<1>6. ASSUME NEW score \in Scores, RecheckScored(ip, score)
      PROVE  /\ now' = now /\ phase' = "recheck" /\ ip \notin todo'
             /\ db'[ip].checked_at = now
  <2>1. now' = now /\ phase' = "recheck" /\ ip \notin todo'
    BY <1>6 DEF RecheckScored, RecheckNext, Picks, Skip, Begin, envVars
  <2>2. /\ Update(ip, update_reputation(db[ip], score, decide(score), now))
        /\ db[ip].decision = "BLOCK"
    BY <1>6 DEF RecheckScored, ActiveBlock
  <2>3. db'[ip] = update_reputation(db[ip], score, decide(score), now)
    BY <1>1, <2>2 DEF Update, DBTypeOK
  <2> QED
    BY <1>1, <2>1, <2>3, Dates
<1> QED
  BY <1>2, <1>3, <1>4, <1>5, <1>6 DEF Asks

(* What keeps an address from being asked about again outlasts every other *)
(* step, until the run visits the address in the last loop.                *)
LEMMA AnswerKept ==
    ASSUME Inv, DueInv, QueryInv, [Next]_vars, phase' # "idle",
           NEW ip \in IP, asked[ip] # NULL, ~Asks(ip)
    PROVE  LET answered == /\ db'[ip].checked_at # NULL
                           /\ db'[ip].checked_at >= asked[ip]
           IN  /\ phase' = "recheck" /\ pc' # "pick" /\ cur' = ip => answered
               /\ phase' \in {"recheck", "collect"} \/ ip \in todo' =>
                    ActiveBlock(db'[ip]) \/ answered
<1> DEFINE answered == db'[ip].checked_at # NULL /\ db'[ip].checked_at >= asked[ip]
<1>1. /\ Running
      /\ phase = "recheck" =>
            /\ ip \notin todo
            /\ pc # "pick" /\ cur = ip => Answered(ip)
      /\ phase \in {"recheck", "collect"} \/ ip \in todo =>
            ActiveBlock(db[ip]) \/ Answered(ip)
  BY DEF QueryInv, Running
<1>2. /\ phase = "recheck" =>
            /\ phase' \in {"recheck", "collect"}
            /\ todo' \subseteq todo
            /\ pc' # "pick" => (pc # "pick" /\ cur' = cur) \/ cur' \in todo
      /\ phase = "collect" => phase' \in {"collect", "check"}
      /\ phase = "check" => phase' = "check" /\ todo' \subseteq todo
  BY <1>1, LoopsMoveOn
<1>3. /\ db[ip] \in Row
      /\ phase = "collect" => pc = "pick"
      /\ pc # "pick" => cur \notin todo
  BY Places DEF DueInv
<1>4. ASSUME pc = "pick" \/ cur # ip
      PROVE  /\ Answered(ip) => answered
             /\ ActiveBlock(db[ip]) => ActiveBlock(db'[ip])
  <2>1. db'[ip] = db[ip] \/ db'[ip] = record_seen(db[ip])
    BY <1>4, OthersRows
  <2>2. record_seen(db[ip]).checked_at = db[ip].checked_at
    BY <1>3, Dates
  <2>3. ActiveBlock(db[ip]) => record_seen(db[ip]) = db[ip]
    BY DEF ActiveBlock, record_seen
  <2> QED
    BY <2>1, <2>2, <2>3 DEF Answered
<1>5. ASSUME phase = "recheck", pc # "pick", cur = ip
      PROVE  answered
  <2>1. db'[ip].checked_at = db[ip].checked_at
    BY <1>5, CallsKeepDate
  <2> QED
    BY <1>1, <1>5, <2>1 DEF Answered
<1> HIDE DEF answered
<1>6. CASE phase = "recheck"
  BY <1>1, <1>2, <1>4, <1>5, <1>6 DEF answered
<1>7. CASE phase = "collect"
  BY <1>1, <1>2, <1>3, <1>4, <1>7 DEF answered
<1>8. CASE phase = "check"
  BY <1>1, <1>2, <1>3, <1>4, <1>8 DEF answered
<1> QED
  BY <1>1, <1>6, <1>7, <1>8 DEF Running

LEMMA ClockGoesOn ==
    ASSUME Inv, [Next]_vars
    PROVE  now' \in {now, now + 1}
<1>1. CASE LifecycleStep
  BY <1>1 DEF LifecycleStep, ExpireSkip, ExpireBegin, RecheckSkip, RecheckError,
     RecheckScored, QueryDue, MarkRecheck, EndLifecycle, DeleteAccepted, DeleteLost,
     MarkPendingDelete, DeleteCompleted, MarkReleased, ReleaseFails, ReleaseRaises,
     Fault, envVars
<1>2. CASE PipelineStep
  BY <1>2 DEF PipelineStep, CollectLine, CollectDone, SkipActive, SkipCached,
     CheckError, CheckScored, FindExisting, FindNone, AddAccepted, AddLost, MarkPending,
     AddCompleted, VerifyFound, MarkBlocked, MarkActive, EnforceFails, EnforceRaises,
     FinishRun, Fault, envVars
<1>3. CASE UNCHANGED vars \/ (Next /\ ~LifecycleStep /\ ~PipelineStep)
  BY <1>3 DEF vars, Next, RunStep, Start, Interrupt, OperationCompletes, OperationFails,
     LateCompletes, LateFails, OperatorRemoves, OperatorAdds, Request, Rotate, Tick,
     Fault, envVars
<1> QED
  BY <1>1, <1>2, <1>3 DEF Next, RunStep

(* Every step keeps the invariant of the queries.                          *)
LEMMA QueryStep ==
    ASSUME Inv, DueInv, QueryInv, QNext
    PROVE  QueryInv'
<1> SUFFICES ASSUME NEW ip \in IP, asked'[ip] # NULL
             PROVE  /\ asked'[ip] \in Time
                    /\ asked'[ip] <= now'
                    /\ phase' \in {"recheck", "collect", "check"}
                    /\ phase' = "recheck" =>
                        /\ ip \notin todo'
                        /\ pc' # "pick" /\ cur' = ip => Answered(ip)'
                    /\ phase' \in {"recheck", "collect"} \/ ip \in todo' =>
                        ActiveBlock(db'[ip]) \/ Answered(ip)'
  BY DEF QueryInv
<1>1. [Next]_vars /\ now \in Nat
  BY Places DEF QNext
<1>2. phase' # "idle"
  BY DEF QNext, Remembered
<1>3. CASE Asks(ip)
  <2>1. /\ asked'[ip] = now /\ now' = now
        /\ phase' \in {"recheck", "check"} /\ ip \notin todo'
        /\ phase' = "recheck" =>
            /\ pc' # "pick" => db'[ip].checked_at = now
            /\ ActiveBlock(db'[ip]) \/ db'[ip].checked_at = now
    BY <1>2, <1>3, QueryMade
  <2> QED
    BY <1>1, <2>1, NullAssumption DEF Answered, Time
<1>4. CASE ~Asks(ip)
  <2>1. asked'[ip] = asked[ip]
    BY <1>2, <1>4 DEF QNext, Remembered
  <2>2. /\ asked[ip] \in Time /\ asked[ip] <= now
        /\ Running
        /\ phase = "recheck" => ip \notin todo
    BY <2>1 DEF QueryInv, Running
  <2>3. asked[ip] <= now'
    BY <1>1, <2>2, ClockGoesOn DEF Time
  <2>4. /\ phase' \in {"recheck", "collect", "check"}
        /\ phase' = "recheck" => ip \notin todo'
    BY <1>1, <1>2, <2>2, LoopsMoveOn DEF Running
  <2>5. LET answered == /\ db'[ip].checked_at # NULL
                        /\ db'[ip].checked_at >= asked[ip]
        IN  /\ phase' = "recheck" /\ pc' # "pick" /\ cur' = ip => answered
            /\ phase' \in {"recheck", "collect"} \/ ip \in todo' =>
                ActiveBlock(db'[ip]) \/ answered
    BY <1>1, <1>2, <1>4, <2>1, AnswerKept
  <2> QED
    BY <2>1, <2>2, <2>3, <2>4, <2>5 DEF Answered
<1> QED
  BY <1>3, <1>4

(* What was asked in a run is known to it by what it finds in the table.   *)
THEOREM QueryInvariant == QSpec => []QueryInv
<1>1. QInit => QueryInv
  BY DEF QInit, QueryInv
<1>2. Inv2 /\ DueInv /\ QueryInv /\ [QNext]_<<vars, asked>> => QueryInv'
  <2>1. ASSUME Inv2, DueInv, QueryInv, QNext
        PROVE  QueryInv'
    BY <2>1, QueryStep DEF Inv2
  <2>2. ASSUME QueryInv, UNCHANGED <<vars, asked>>
        PROVE  QueryInv'
    BY <2>2 DEF QueryInv, Answered, vars, runVars, envVars
  <2> QED
    BY <2>1, <2>2
<1> QED
  BY HistoryOnlyWatches, AllInvariants, DueInvariant, <1>1, <1>2, PTL DEF QSpec

(* Within a run no address is asked about twice in less than the cache     *)
(* age, although a query that failed is not recorded anywhere.             *)
THEOREM QueriesAreNotRepeated == QSpec => AskedOncePerRun
<1> DEFINE Once == \A ip \in IP :
                       Asks(ip) /\ asked[ip] # NULL => now - asked[ip] >= CacheAge
<1>1. ASSUME Inv, QueryInv, NEW ip \in IP, Asks(ip), asked[ip] # NULL
      PROVE  now - asked[ip] >= CacheAge
  <2>1. /\ phase = "recheck" => ip \notin todo
        /\ ip \in todo => ActiveBlock(db[ip]) \/ Answered(ip)
        /\ asked[ip] \in Time
    BY <1>1 DEF QueryInv
  <2>2. CheckDue(ip)
    BY <1>1, <2>1 DEF Asks, RecheckError, RecheckScored, RecheckNext, CheckError,
       CheckScored, Picks
  <2>3. /\ Answered(ip)
        /\ db[ip].decision # "ABSENT"
        /\ needs_reputation_check(db[ip], now)
    BY <1>1, <2>1, <2>2 DEF CheckDue, Picks, Inv, RunInv, WorkHasRow
  <2>4. now - db[ip].checked_at >= CacheAge /\ db[ip].checked_at >= asked[ip]
    BY <2>3 DEF Answered, needs_reputation_check
  <2>5. db[ip].checked_at \in Int /\ asked[ip] \in Int /\ now \in Int
    <3>1. db[ip] \in Row /\ now \in Nat
      BY <1>1, Places
    <3> QED
      BY <2>1, <2>3, <3>1 DEF Answered, Row, MaybeTime, Time
  <2> QED
    BY <2>4, <2>5, PeriodAssumption
<1>2. Inv2 /\ QueryInv /\ [QNext]_<<vars, asked>> => [Once]_<<vars, asked>>
  BY <1>1 DEF Inv2
<1> QED
  BY HistoryOnlyWatches, AllInvariants, QueryInvariant, <1>2, PTL DEF QSpec, AskedOncePerRun
=============================================================================
