--------------------------- MODULE ScheduleProofs ---------------------------
(***************************************************************************)
(* The dates of the rows, as long as Cloudflare, SQLite and the run do not *)
(* fail, and outside dry runs: no run leaves an expired block behind, and  *)
(* when runs are short no address is checked too soon.  For any set of     *)
(* addresses, item ids and scores, any thresholds and any periods, and     *)
(* however often AbuseIPDB fails.                                          *)
(***************************************************************************)
EXTENDS EnforcementProofs

(* What each method that changes a row does to its dates.                  *)
LEMMA Dates ==
    ASSUME NEW row \in Row
    PROVE  /\ \A score, decision, t :
                LET new == update_reputation(row, score, decision, t) IN
                /\ new.checked_at = t
                /\ new.blocked_at = row.blocked_at
           /\ \A t :
                LET new == mark_blocked(row, t) IN
                /\ new.checked_at = row.checked_at
                /\ new.next_recheck_at = t + RecheckInterval
           /\ \A t :
                LET new == mark_recheck(row, t) IN
                /\ new.checked_at = row.checked_at
                /\ new.next_recheck_at = t
           /\ mark_released(row).checked_at = row.checked_at
           /\ mark_released(row).blocked_at = NULL
           /\ mark_released(row).expire_at = NULL
           /\ \A status, id :
                LET new == update_cloudflare_state(row, status, id) IN
                /\ new.checked_at = row.checked_at
                /\ new.blocked_at = row.blocked_at
                /\ new.next_recheck_at = row.next_recheck_at
           /\ record_seen(row).checked_at = row.checked_at
           /\ record_seen(row).blocked_at = row.blocked_at
           /\ record_seen(row).next_recheck_at = row.next_recheck_at
BY DEF Row, update_reputation, mark_blocked, mark_recheck, mark_released,
       update_cloudflare_state, record_seen

(* Without a failure of enforcement, a row with the date of an expiry is   *)
(* an active block with an item, but for the address at hand.              *)
LEMMA ExpiryOfBlock ==
    ASSUME Inv3, NEW ip \in IP, ip # cur, db[ip].expire_at # NULL
    PROVE  /\ items[ip] # NULL
           /\ ActiveBlock(db[ip])
           /\ db[ip].cloudflare_item_id # NULL
<1>1. RowInv(db[ip])
  BY DEF Inv3, Inv2, Inv, RunInv
<1>2. db[ip].blocked_at # NULL
  BY <1>1 DEF RowInv, WellFormed
<1>3. Agrees(ip)
  BY Known
<1> QED
  BY <1>2, <1>3 DEF Agrees, OwnBlock
-----------------------------------------------------------------------------
(* The loop of the expired blocks.                                         *)

(* While the loop lasts, an address leaves it only by its release: none is *)
(* passed over and no call for one fails.                                  *)
LEMMA ExpiryLoop ==
    ASSUME EnforcementWorks, Inv3, DueInv, [Next]_vars, phase' = "expire"
    PROVE  \/ Start
           \/ /\ phase = "expire" /\ at' = at
              /\ \/ todo \cup {cur} \subseteq todo' \cup {cur', NULL}
                 \/ MarkReleased
<1>1. /\ pc = "pick" => cur = NULL
      /\ pc \in EnforceSteps => phase = "check"
      /\ dry = FALSE
  BY Known
<1>2. ASSUME NEW ip \in IP
      PROVE  ~ExpireSkip(ip)
  <2> SUFFICES ASSUME ExpireSkip(ip)
               PROVE  FALSE
    OBVIOUS
  <2>1. ip # cur /\ db[ip].expire_at # NULL
    BY <1>1, NullAssumption DEF ExpireSkip, ExpireNext, Picks, DueInv
  <2> QED
    BY <1>1, <2>1, ExpiryOfBlock DEF ExpireSkip, ActiveBlock
<1>3. ~DeleteLost /\ ~ReleaseFails /\ ~Interrupt
  BY NoFault, ReleasesSucceed DEF DeleteLost, Interrupt
<1>4. CASE LifecycleStep
  <2>1. ASSUME NEW ip \in IP, RecheckSkip(ip) \/ RecheckError(ip)
                                \/ \E score \in Scores : RecheckScored(ip, score)
        PROVE  FALSE
    BY <2>1 DEF RecheckSkip, RecheckError, RecheckScored, RecheckNext, Picks, Skip, Begin
  <2>2. ASSUME NEW ip \in IP, ExpireBegin(ip)
        PROVE  phase = "expire" /\ at' = at /\ todo \cup {cur} \subseteq todo' \cup {cur', NULL}
    BY <1>1, <2>2 DEF ExpireBegin, ExpireNext, Picks, Begin
  <2>3. ~QueryDue /\ ~EndLifecycle
    BY DEF QueryDue, EndLifecycle, Enter
  <2>4. ~MarkRecheck
    BY DEF MarkRecheck, NextAddress, Inv3, Inv2, Inv, TypeInv, Control
  <2>5. CASE DeleteAccepted \/ MarkPendingDelete \/ DeleteCompleted
    BY <2>5 DEF DeleteAccepted, MarkPendingDelete, DeleteCompleted, GoTo
  <2>6. CASE MarkReleased
    BY <2>6 DEF MarkReleased, NextAddress
  <2> QED
    BY <1>2, <1>3, <1>4, <2>1, <2>2, <2>3, <2>4, <2>5, <2>6 DEF LifecycleStep
<1>5. ~PipelineStep
  BY <1>1 DEF PipelineStep, CollectLine, CollectDone, SkipActive, SkipCached,
     CheckError, CheckScored, CheckDue, Picks, FindExisting, FindNone, AddAccepted, AddLost,
     MarkPending, AddCompleted, VerifyFound, MarkBlocked, MarkActive, EnforceFails,
     EnforceRaises, FinishRun, Skip, Begin, GoTo, NextAddress, Exit, Enter, EnforceSteps
<1>6. CASE \/ OperationCompletes \/ OperationFails \/ LateCompletes \/ LateFails
           \/ \E ip \in IP : OperatorRemoves(ip) \/ OperatorAdds(ip) \/ Request(ip)
           \/ Rotate \/ Tick
           \/ UNCHANGED vars
  BY <1>6 DEF OperationCompletes, OperationFails, LateCompletes, LateFails,
     OperatorRemoves, OperatorAdds, Request, Rotate, Tick, runVars, vars
<1> QED
  BY <1>3, <1>4, <1>5, <1>6 DEF Next, RunStep

(* Every step keeps the expired blocks ahead of the loop or at hand.       *)
LEMMA ClearingStep ==
    ASSUME EnforcementWorks, Inv3, DueInv, Clearing, [Next]_vars
    PROVE  Clearing'
<1> SUFFICES ASSUME phase' = "expire", NEW ip \in IP,
                    db'[ip].expire_at # NULL, db'[ip].expire_at <= at'
             PROVE  ip \in todo' \cup {cur'}
  BY DEF Clearing
<1>1. /\ DBTypeOK /\ db[ip] \in Row
      /\ phase = "idle" => pc = "pick"
      /\ pc = "pick" => cur = NULL
      /\ pc # "pick" => cur \in IP /\ db[cur].decision # "ABSENT"
      /\ pc \in EnforceSteps => phase = "check"
      /\ ip # NULL
  BY Known, NullAssumption
<1>2. CASE Start
  <2>1. db' = db /\ at' = now /\ todo' = get_expired_blocks(now) /\ cur = NULL
    BY <1>1, <1>2 DEF Start
  <2>2. db[ip].decision = "BLOCK"
    BY <1>1, <2>1, ExpiryOfBlock DEF ActiveBlock
  <2> QED
    BY <2>1, <2>2 DEF get_expired_blocks
<1>3. CASE MarkReleased
  <2>1. /\ Update(cur, mark_released(db[cur])) /\ cur \in IP
        /\ db[cur].decision # "ABSENT"
        /\ phase' = phase /\ todo' = todo /\ at' = at
    BY <1>1, <1>3 DEF MarkReleased, NextAddress
  <2>2. /\ db'[cur] = mark_released(db[cur])
        /\ ip # cur => db'[ip] = db[ip]
    BY <1>1, <2>1, UpdateWrites
  <2>3. ip # cur
    BY <1>1, <2>1, <2>2, Dates
  <2> QED
    BY <2>1, <2>2, <2>3 DEF Clearing
<1>4. CASE ~Start /\ ~MarkReleased
  <2>1. /\ phase = "expire" /\ at' = at
        /\ todo \cup {cur} \subseteq todo' \cup {cur', NULL}
    BY <1>4, ExpiryLoop
  <2>2. ~MarkBlocked
    BY <1>1, <2>1 DEF MarkBlocked, EnforceSteps
  <2>3. db'[ip].expire_at = db[ip].expire_at
    BY <1>4, <2>2, TimesOfBlocks DEF Inv3, Inv2
  <2>4. ip \in todo \cup {cur}
    BY <2>1, <2>3 DEF Clearing
  <2> QED
    BY <1>1, <2>1, <2>4
<1> QED
  BY <1>2, <1>3, <1>4

(* The loop ends only when nothing is ahead of it or at hand.              *)
LEMMA ExpiryLoopEnds ==
    ASSUME [Next]_vars, Inv3, phase = "expire", phase' = "recheck"
    PROVE  todo = {} /\ pc = "pick" /\ items' = items /\ db' = db
<1>1. CASE QueryDue
  BY <1>1 DEF QueryDue, listVars
<1>2. CASE LifecycleStep /\ ~QueryDue
  BY <1>2 DEF LifecycleStep, ExpireSkip, ExpireBegin, RecheckSkip, RecheckError,
     RecheckScored, MarkRecheck, EndLifecycle, DeleteAccepted, DeleteLost,
     MarkPendingDelete, DeleteCompleted, MarkReleased, ReleaseFails, Skip, Begin, GoTo,
     NextAddress, Enter
<1>3. CASE PipelineStep
  BY <1>3 DEF PipelineStep, CollectLine, CollectDone, SkipActive, SkipCached,
     CheckError, CheckScored, FindExisting, FindNone, AddAccepted, AddLost, MarkPending,
     AddCompleted, VerifyFound, MarkBlocked, MarkActive, EnforceFails, FinishRun,
     Skip, Begin, GoTo, NextAddress, Exit, Enter
<1>4. CASE UNCHANGED vars \/ (Next /\ ~LifecycleStep /\ ~PipelineStep)
  BY <1>4 DEF vars, runVars, Next, RunStep, Start, Interrupt, Exit, OperationCompletes,
     OperationFails, LateCompletes, LateFails, OperatorRemoves, OperatorAdds, Request, Rotate, Tick
<1> QED
  BY <1>1, <1>2, <1>3, <1>4
-----------------------------------------------------------------------------
(* The dates of the rechecks, when a run is over before the clock ticks.   *)

\* The steps at which the row of the address at hand may remember a check that
\* is later than its recheck date tells.
RecheckSteps == ReleaseSteps \cup {"mark_recheck"}

(* Steps that write no row.                                                *)
LEMMA SpacingKept ==
    ASSUME Spacing, db' = db, now' = now,
           \/ phase' = phase /\ at' = at /\ todo' \subseteq todo
           \/ phase' # "recheck" /\ (phase' # "idle" => at' = now),
           pc \in RecheckSteps => pc' \in RecheckSteps /\ cur' = cur
    PROVE  Spacing'
BY DEF Spacing, Rescheduled, RecheckSteps

(* Steps that write the row of one address.                                *)
LEMMA SpacingWritten ==
    ASSUME Spacing, NEW ip \in IP, \A q \in IP : q # ip => db'[q] = db[q],
           todo \subseteq IP, now' = now, phase' = phase, at' = at,
           phase = "recheck" => todo' \subseteq todo \ {ip},
           cur = ip \/ pc \notin RecheckSteps,
           db'[ip].checked_at # NULL => db'[ip].checked_at <= now,
           Rescheduled(db'[ip]) \/ (cur' = ip /\ pc' \in RecheckSteps)
    PROVE  Spacing'
<1>1. ASSUME NEW q \in IP
      PROVE  /\ db'[q].checked_at # NULL => db'[q].checked_at <= now'
             /\ q # cur' \/ pc' \notin RecheckSteps => Rescheduled(db'[q])
  BY <1>1 DEF Spacing, RecheckSteps
<1>2. ASSUME phase' = "recheck", NEW q \in todo'
      PROVE  db'[q].next_recheck_at <= at'
  BY <1>2 DEF Spacing
<1> QED
  BY <1>1, <1>2 DEF Spacing, RecheckSteps, Rescheduled

(* The lifecycle processor checks an address when it is due, and keeps it  *)
(* on the list only with the date of its next recheck.                     *)
LEMMA LifecycleSpacing ==
    ASSUME EnforcementWorks, Inv3, DueInv, Spacing, LifecycleStep
    PROVE  Spacing'
<1>1. /\ DBTypeOK /\ \A ip \in IP : db[ip] \in Row
      /\ todo \subseteq IP /\ now \in Int /\ at \in Int
      /\ pc # "pick" => cur \in IP /\ db[cur].decision # "ABSENT" /\ cur \notin todo
      /\ phase # "idle" => \A ip \in todo : db[ip].decision # "ABSENT"
      /\ pc \in ReleaseSteps => phase \in {"expire", "recheck"}
      /\ pc = "mark_recheck" => phase = "recheck"
      /\ dry = FALSE
      /\ Releasing
  BY Known DEF Inv3, Inv2, Inv, TypeInv, TypeOK, WorkerTypeOK, Control, Time, DueInv
<1>2. ASSUME NEW ip \in IP, ExpireSkip(ip) \/ RecheckSkip(ip) \/ RecheckError(ip)
      PROVE  Spacing'
  <2>1. /\ pc = "pick" /\ db' = db /\ now' = now
        /\ phase' = phase /\ at' = at /\ todo' \subseteq todo
    BY <1>2 DEF ExpireSkip, ExpireNext, RecheckSkip, RecheckError, RecheckNext, Picks,
       Skip, Fault, envVars
  <2> QED
    BY <2>1, SpacingKept DEF RecheckSteps, ReleaseSteps
<1>3. ASSUME NEW ip \in IP, ExpireBegin(ip)
      PROVE  Spacing'
  <2>1. /\ pc = "pick" /\ db' = db /\ now' = now
        /\ phase' = phase /\ at' = at /\ todo' \subseteq todo
    BY <1>3 DEF ExpireBegin, ExpireNext, Picks, Begin, envVars
  <2> QED
    BY <2>1, SpacingKept DEF RecheckSteps, ReleaseSteps
<1>4. ASSUME NEW ip \in IP, NEW score \in Scores, RecheckScored(ip, score)
      PROVE  Spacing'
  <2>1. /\ pc = "pick" /\ phase = "recheck" /\ ip \in todo
        /\ Update(ip, update_reputation(db[ip], score, decide(score), now))
        /\ now' = now /\ phase' = phase /\ at' = at
        /\ todo' = todo \ {ip} /\ cur' = ip /\ pc' \in {"delete", "mark_recheck"}
    BY <1>1, <1>4 DEF RecheckScored, RecheckNext, Picks, Begin, envVars
  <2>2. /\ db'[ip] = update_reputation(db[ip], score, decide(score), now)
        /\ \A q \in IP : q # ip => db'[q] = db[q]
    BY <1>1, <2>1, UpdateWrites
  <2>3. db'[ip].checked_at <= now
    BY <1>1, <2>2, Dates
  <2> QED
    BY <1>1, <2>1, <2>2, <2>3, SpacingWritten DEF RecheckSteps, ReleaseSteps
<1>5. CASE MarkRecheck
  <2>1. /\ pc = "mark_recheck" /\ phase = "recheck" /\ cur \in IP
        /\ Update(cur, mark_recheck(db[cur], at + RecheckInterval))
        /\ now' = now /\ phase' = phase /\ at' = at /\ todo' = todo
    BY <1>1, <1>5 DEF MarkRecheck, NextAddress, envVars
  <2>2. /\ db'[cur] = mark_recheck(db[cur], at + RecheckInterval)
        /\ \A q \in IP : q # cur => db'[q] = db[q]
    BY <1>1, <2>1, UpdateWrites
  <2>3. /\ db'[cur].checked_at = db[cur].checked_at
        /\ db'[cur].next_recheck_at = at + RecheckInterval
    BY <1>1, <2>1, <2>2, Dates
  <2>4. db[cur].checked_at # NULL /\ db[cur].checked_at \in Int
    <3>1. db[cur].decision = "BLOCK"
      BY <1>1, <2>1 DEF Releasing, Agrees, OwnBlock, ActiveBlock
    <3>2. HasEvidence(db[cur])
      BY <2>1 DEF Inv3, Inv2, Inv, RunInv, RowInv
    <3> QED
      BY <1>1, <2>1, <3>1, <3>2 DEF HasEvidence, Row, MaybeTime, Time
  <2>5. at = now /\ db[cur].checked_at <= now
    BY <2>1, <2>4 DEF Spacing
  <2>6. Rescheduled(db'[cur])
    BY <1>1, <2>3, <2>4, <2>5, PeriodAssumption DEF Rescheduled
  <2> QED
    BY <1>1, <2>1, <2>2, <2>3, <2>5, <2>6, SpacingWritten
<1>6. CASE QueryDue
  <2>1. /\ pc = "pick" /\ pc' = pc /\ db' = db /\ now' = now
        /\ phase' = "recheck" /\ at' = now /\ todo' = get_due_rechecks(now)
    BY <1>6 DEF QueryDue, Enter, envVars
  <2> QED
    BY <2>1 DEF Spacing, Rescheduled, RecheckSteps, ReleaseSteps, get_due_rechecks
<1>7. CASE EndLifecycle
  <2>1. /\ pc = "pick" /\ db' = db /\ now' = now
        /\ phase' = "collect" /\ at' = now
    BY <1>7 DEF EndLifecycle, Enter, envVars
  <2> QED
    BY <2>1, SpacingKept DEF RecheckSteps, ReleaseSteps
<1>8. CASE DeleteAccepted \/ DeleteCompleted
  <2>1. /\ db' = db /\ now' = now /\ cur' = cur
        /\ pc' \in {"mark_pending_delete", "mark_released"}
        /\ phase' = phase /\ at' = at /\ todo' = todo
    BY <1>8 DEF DeleteAccepted, DeleteCompleted, GoTo, Fault, envVars
  <2> QED
    BY <2>1, SpacingKept DEF RecheckSteps, ReleaseSteps
<1>9. CASE MarkPendingDelete
  <2>1. /\ pc = "mark_pending_delete" /\ cur \in IP
        /\ Update(cur, update_cloudflare_state(db[cur], "PENDING_DELETE", NULL))
        /\ now' = now /\ phase' = phase /\ at' = at /\ todo' = todo
        /\ cur' = cur /\ pc' = "wait_delete"
    BY <1>1, <1>9 DEF MarkPendingDelete, GoTo, envVars
  <2>2. /\ db'[cur] = update_cloudflare_state(db[cur], "PENDING_DELETE", NULL)
        /\ \A q \in IP : q # cur => db'[q] = db[q]
    BY <1>1, <2>1, UpdateWrites
  <2>3. db'[cur].checked_at = db[cur].checked_at
    BY <1>1, <2>1, <2>2, Dates
  <2>4. db'[cur].checked_at # NULL => db'[cur].checked_at <= now
    BY <2>1, <2>3 DEF Spacing
  <2> QED
    BY <1>1, <2>1, <2>2, <2>4, SpacingWritten DEF RecheckSteps, ReleaseSteps
<1>10. CASE MarkReleased
  <2>1. /\ pc = "mark_released" /\ cur \in IP
        /\ Update(cur, mark_released(db[cur]))
        /\ now' = now /\ phase' = phase /\ at' = at /\ todo' = todo
    BY <1>1, <1>10 DEF MarkReleased, NextAddress, envVars
  <2>2. /\ db'[cur] = mark_released(db[cur])
        /\ \A q \in IP : q # cur => db'[q] = db[q]
    BY <1>1, <2>1, UpdateWrites
  <2>3. db'[cur].checked_at = db[cur].checked_at /\ db'[cur].blocked_at = NULL
    BY <1>1, <2>1, <2>2, Dates
  <2>4. db'[cur].checked_at # NULL => db'[cur].checked_at <= now
    BY <2>1, <2>3 DEF Spacing
  <2>5. Rescheduled(db'[cur])
    BY <2>3 DEF Rescheduled
  <2> QED
    BY <1>1, <2>1, <2>2, <2>4, <2>5, SpacingWritten
<1>11. ~DeleteLost /\ ~ReleaseFails
  BY NoFault, ReleasesSucceed DEF DeleteLost
<1> QED
  BY <1>2, <1>3, <1>4, <1>5, <1>6, <1>7, <1>8, <1>9, <1>10, <1>11 DEF LifecycleStep

(* Main checks only addresses that are not blocked, and gives a new block  *)
(* the date of its recheck.                                                *)
LEMMA PipelineSpacing ==
    ASSUME EnforcementWorks, Inv3, DueInv, Spacing, PipelineStep
    PROVE  Spacing'
<1>1. /\ DBTypeOK /\ \A ip \in IP : db[ip] \in Row
      /\ todo \subseteq IP /\ now \in Int
      /\ pc # "pick" => cur \in IP /\ db[cur].decision # "ABSENT" /\ cur \notin todo
      /\ phase # "idle" => \A ip \in todo : db[ip].decision # "ABSENT"
      /\ phase = "collect" => pc = "pick"
      /\ pc \in EnforceSteps => phase = "check"
      /\ pc = "pick" => \A ip \in IP : Agrees(ip)
  BY Known, NullAssumption DEF Inv3, Inv2, Inv, TypeInv, TypeOK, WorkerTypeOK, DueInv
<1>2. ASSUME NEW ip \in IP, SkipActive(ip) \/ SkipCached(ip) \/ CheckError(ip)
      PROVE  Spacing'
  <2>1. /\ pc = "pick" /\ db' = db /\ now' = now
        /\ phase' = phase /\ at' = at /\ todo' \subseteq todo
    BY <1>2 DEF SkipActive, SkipCached, CheckError, CheckDue, Picks, Skip, Fault, envVars
  <2> QED
    BY <2>1, SpacingKept DEF RecheckSteps, ReleaseSteps
<1>3. ASSUME NEW ip \in IP, CollectLine(ip)
      PROVE  Spacing'
  <2>1. /\ pc = "pick" /\ phase = "collect"
        /\ Upsert(ip, record_seen(db[ip]))
        /\ now' = now /\ phase' = phase /\ at' = at
    BY <1>1, <1>3 DEF CollectLine, envVars
  <2>2. /\ db'[ip] = record_seen(db[ip])
        /\ \A q \in IP : q # ip => db'[q] = db[q]
    BY <1>1, <2>1 DEF Upsert, DBTypeOK
  <2>3. /\ db'[ip].checked_at = db[ip].checked_at
        /\ db'[ip].blocked_at = db[ip].blocked_at
        /\ db'[ip].next_recheck_at = db[ip].next_recheck_at
    BY <1>1, <2>2, Dates
  <2>4. /\ db'[ip].checked_at # NULL => db'[ip].checked_at <= now
        /\ Rescheduled(db'[ip])
    BY <2>1, <2>3 DEF Spacing, Rescheduled, ReleaseSteps
  <2> QED
    BY <1>1, <2>1, <2>2, <2>4, SpacingWritten DEF RecheckSteps, ReleaseSteps
<1>4. ASSUME NEW ip \in IP, NEW score \in Scores, CheckScored(ip, score)
      PROVE  Spacing'
  <2>1. /\ pc = "pick" /\ phase = "check" /\ ip \in todo
        /\ ~ActiveBlock(db[ip])
        /\ Update(ip, update_reputation(db[ip], score, decide(score), now))
        /\ now' = now /\ phase' = phase /\ at' = at
    BY <1>4 DEF CheckScored, CheckDue, Picks, Begin, Skip, envVars
  <2>2. /\ db'[ip] = update_reputation(db[ip], score, decide(score), now)
        /\ \A q \in IP : q # ip => db'[q] = db[q]
    BY <1>1, <2>1, UpdateWrites
  <2>3. /\ db'[ip].checked_at = now
        /\ db'[ip].blocked_at = db[ip].blocked_at
    BY <1>1, <2>2, Dates
  <2>4. db[ip].blocked_at = NULL
    BY <1>1, <2>1 DEF Agrees, OwnBlock
  <2>5. Rescheduled(db'[ip])
    BY <2>3, <2>4 DEF Rescheduled
  <2> QED
    BY <1>1, <2>1, <2>2, <2>3, <2>5, SpacingWritten DEF RecheckSteps, ReleaseSteps
<1>5. CASE CollectDone \/ FinishRun
  <2>1. /\ pc = "pick" /\ db' = db /\ now' = now
        /\ phase' # "recheck" /\ (phase' # "idle" => at' = now)
    BY <1>1, <1>5 DEF CollectDone, FinishRun, Enter, Exit, envVars
  <2> QED
    BY <2>1, SpacingKept DEF RecheckSteps, ReleaseSteps
<1>6. CASE FindExisting \/ FindNone \/ AddAccepted \/ AddCompleted \/ VerifyFound
  <2>1. /\ pc \in EnforceSteps /\ db' = db /\ now' = now
        /\ phase' = phase /\ at' = at /\ todo' = todo
    BY <1>6 DEF FindExisting, FindNone, AddAccepted, AddCompleted, VerifyFound, GoTo,
       Fault, envVars, EnforceSteps
  <2> QED
    BY <2>1, SpacingKept DEF RecheckSteps, ReleaseSteps, EnforceSteps
<1>7. CASE MarkPending \/ MarkActive \/ AddLost \/ EnforceFails
  <2>1. /\ pc \in EnforceSteps /\ cur \in IP
        /\ \E status, id : Update(cur, update_cloudflare_state(db[cur], status, id))
        /\ now' = now /\ phase' = phase /\ at' = at /\ todo' = todo
    BY <1>1, <1>7 DEF MarkPending, MarkActive, AddLost, EnforceFails, EnforceRaises, GoTo,
       NextAddress, Fault, envVars, EnforceSteps
  <2>2. PICK status, id : Update(cur, update_cloudflare_state(db[cur], status, id))
    BY <2>1
  <2>3. /\ db'[cur] = update_cloudflare_state(db[cur], status, id)
        /\ \A q \in IP : q # cur => db'[q] = db[q]
    BY <1>1, <2>1, <2>2, UpdateWrites DEF EnforceSteps
  <2>4. /\ db'[cur].checked_at = db[cur].checked_at
        /\ db'[cur].blocked_at = db[cur].blocked_at
        /\ db'[cur].next_recheck_at = db[cur].next_recheck_at
    BY <1>1, <2>1, <2>3, Dates
  <2>5. /\ db'[cur].checked_at # NULL => db'[cur].checked_at <= now
        /\ Rescheduled(db'[cur])
    BY <2>1, <2>4 DEF Spacing, Rescheduled, ReleaseSteps, EnforceSteps
  <2> QED
    BY <1>1, <2>1, <2>3, <2>5, SpacingWritten DEF EnforceSteps
<1>8. CASE MarkBlocked
  <2>1. /\ pc = "mark_blocked" /\ cur \in IP
        /\ Update(cur, mark_blocked(db[cur], now))
        /\ now' = now /\ phase' = phase /\ at' = at /\ todo' = todo
    BY <1>1, <1>8 DEF MarkBlocked, GoTo, envVars
  <2>2. /\ db'[cur] = mark_blocked(db[cur], now)
        /\ \A q \in IP : q # cur => db'[q] = db[q]
    BY <1>1, <2>1, UpdateWrites
  <2>3. /\ db'[cur].checked_at = db[cur].checked_at
        /\ db'[cur].next_recheck_at = now + RecheckInterval
    BY <1>1, <2>1, <2>2, Dates
  <2>4. db[cur].checked_at # NULL /\ db[cur].checked_at \in Int
    BY <1>1, <2>1 DEF Inv3, Inv2, Inv, RunInv, Judged, EnforceSteps, Row, MaybeTime, Time
  <2>5. db[cur].checked_at <= now
    BY <2>1, <2>4 DEF Spacing
  <2>6. Rescheduled(db'[cur])
    BY <1>1, <2>3, <2>4, <2>5, PeriodAssumption DEF Rescheduled
  <2> QED
    BY <1>1, <2>1, <2>2, <2>3, <2>5, <2>6, SpacingWritten
<1> QED
  BY <1>2, <1>3, <1>4, <1>5, <1>6, <1>7, <1>8 DEF PipelineStep

(* Every step keeps rechecks apart, if the clock waits for the run to end. *)
LEMMA SpacingStep ==
    ASSUME EnforcementWorks, SlowRuns = FALSE, Inv3, DueInv, Spacing, [Next]_vars
    PROVE  Spacing'
<1>1. CASE Start
  <2>1. /\ db' = db /\ now' = now /\ phase' = "expire" /\ at' = now /\ pc = "pick"
    BY <1>1 DEF Start, envVars, Inv3, Inv2, Inv, TypeInv, Control
  <2> QED
    BY <2>1, SpacingKept DEF RecheckSteps, ReleaseSteps
<1>2. CASE Tick
  <2>1. /\ phase = "idle" /\ phase' = phase /\ now' = now + 1 /\ db' = db /\ pc' = pc
        /\ cur' = cur /\ pc = "pick" /\ now \in Int /\ \A ip \in IP : db[ip] \in Row
    BY <1>2, Known DEF Tick, runVars
  <2>2. ASSUME NEW ip \in IP, db[ip].checked_at # NULL
        PROVE  db[ip].checked_at <= now + 1
    BY <2>1, <2>2 DEF Spacing, Row, MaybeTime, Time
  <2> QED
    BY <2>1, <2>2 DEF Spacing, Rescheduled
<1>3. ~Interrupt
  BY NoFault DEF Interrupt
<1>4. CASE \/ OperationCompletes \/ OperationFails \/ LateCompletes \/ LateFails
           \/ \E ip \in IP : OperatorRemoves(ip) \/ OperatorAdds(ip) \/ Request(ip)
           \/ Rotate \/ UNCHANGED vars
  <2>1. UNCHANGED <<db, now, runVars>>
    BY <1>4 DEF OperationCompletes, OperationFails, LateCompletes, LateFails,
       OperatorRemoves, OperatorAdds, Request, Rotate, Fault, vars, envVars
  <2> QED
    BY <2>1, SpacingKept DEF runVars
<1> QED
  BY <1>1, <1>2, <1>3, <1>4, LifecycleSpacing, PipelineSpacing DEF Next, RunStep
-----------------------------------------------------------------------------
(* The results.                                                            *)

(* The dates of the rows say what the loops that act on them rely on: the  *)
(* loop of the expired blocks has them all before it, whatever the length  *)
(* of a run; and when runs are shorter than a tick no block is due for a   *)
(* recheck too soon.                                                       *)
THEOREM ScheduleInvariant ==
    ASSUME EnforcementWorks
    PROVE  Spec => []ScheduleInv
<1>1. Init => ScheduleInv
  BY DEF Init, DBInit, WorkerInit, NoRow, ScheduleInv, Clearing, Spacing, Rescheduled
<1>2. Inv2 /\ AgreeInv /\ DueInv /\ ScheduleInv /\ [Next]_vars => ScheduleInv'
  <2> SUFFICES ASSUME Inv3, DueInv, ScheduleInv, [Next]_vars
               PROVE  Clearing' /\ (SlowRuns \/ Spacing')
    BY DEF Inv3, ScheduleInv
  <2>1. Clearing'
    BY ClearingStep DEF ScheduleInv
  <2>2. CASE SlowRuns = FALSE
    BY <2>1, <2>2, SpacingStep DEF ScheduleInv
  <2> QED
    BY <2>1, <2>2, WorkerAssumption
<1> QED
  BY AllInvariants, Agreement, DueInvariant, <1>1, <1>2, PTL DEF Spec

(* Every run takes off the list all that had expired when its loop began,  *)
(* whatever the runs before it did and however often AbuseIPDB fails.      *)
THEOREM RunsEndExpiredBlocks ==
    ASSUME EnforcementWorks
    PROVE  Spec => RunsClearExpired
<1> DEFINE Cleared == phase = "expire" /\ phase' = "recheck" =>
                        \A ip \in IP : items[ip] # NULL =>
                            db[ip].expire_at # NULL /\ db[ip].expire_at > at
<1>1. ASSUME Inv3, ScheduleInv, [Next]_vars, phase = "expire", phase' = "recheck",
             NEW ip \in IP, items[ip] # NULL
      PROVE  db[ip].expire_at # NULL /\ db[ip].expire_at > at
  <2>1. todo = {} /\ cur = NULL /\ Agrees(ip) /\ db[ip] \in Row
    BY <1>1, ExpiryLoopEnds, Known, NullAssumption
  <2>2. db[ip].blocked_at # NULL
    BY <1>1, <2>1 DEF Agrees, OwnBlock, ActiveBlock
  <2>3. RowInv(db[ip])
    BY <1>1 DEF Inv3, Inv2, Inv, RunInv
  <2>4. db[ip].expire_at \in Int /\ db[ip].expire_at # NULL
    <3>1. db[ip].blocked_at \in Int
      BY <2>1, <2>2 DEF Row, MaybeTime, Time
    <3>2. db[ip].expire_at = db[ip].blocked_at + BlockTTL
      BY <2>2, <2>3 DEF RowInv, WellFormed
    <3> QED
      BY <3>1, <3>2, PeriodAssumption, NullAssumption
  <2>5. ~(db[ip].expire_at <= at)
    BY <1>1, <2>1, <2>4, NullAssumption DEF ScheduleInv, Clearing
  <2>6. at \in Int
    BY <1>1 DEF Inv3, Inv2, Inv, TypeInv, TypeOK, WorkerTypeOK, Time
  <2> QED
    BY <2>4, <2>5, <2>6
<1>2. Inv2 /\ AgreeInv /\ ScheduleInv /\ [Next]_vars => [Cleared]_vars
  BY <1>1 DEF Inv3
<1> QED
  BY AllInvariants, Agreement, ScheduleInvariant, <1>2, PTL DEF Spec, RunsClearExpired

(* The AbuseIPDB quota: when a run is over before the clock ticks, no      *)
(* address is asked about, with or without success, within the shorter of  *)
(* the cache age and the recheck interval after its last saved answer.     *)
THEOREM QueriesStaySpaced ==
    ASSUME EnforcementWorks, SlowRuns = FALSE
    PROVE  Spec => QueriesAreSpaced
<1> DEFINE Spaced == \A ip \in IP :
        Asks(ip) /\ db[ip].checked_at # NULL =>
            \/ now - db[ip].checked_at >= CacheAge
            \/ now - db[ip].checked_at >= RecheckInterval
<1>1. ASSUME Inv3, ScheduleInv, NEW ip \in IP, Asks(ip), db[ip].checked_at # NULL
      PROVE  \/ now - db[ip].checked_at >= CacheAge
             \/ now - db[ip].checked_at >= RecheckInterval
  <2>1. \/ RecheckNext(ip) /\ ActiveBlock(db[ip])
        \/ CheckDue(ip)
    BY <1>1 DEF Asks, RecheckError, RecheckScored, CheckError, CheckScored
  <2>2. CASE CheckDue(ip)
    BY <1>1, <2>2 DEF CheckDue, needs_reputation_check, Picks, Inv3, Inv2,
       Inv, RunInv, WorkHasRow
  <2>3. CASE RecheckNext(ip) /\ ActiveBlock(db[ip])
    <3>1. /\ phase = "recheck" /\ pc = "pick" /\ ip \in todo
          /\ db[ip].blocked_at # NULL
      BY <2>3 DEF RecheckNext, Picks, ActiveBlock
    <3>2. Spacing
      BY <1>1 DEF ScheduleInv
    <3>3. /\ db[ip].next_recheck_at <= now
          /\ db[ip].next_recheck_at >= db[ip].checked_at + RecheckInterval
      BY <3>1, <3>2 DEF Spacing, Rescheduled, ReleaseSteps
    <3>4. /\ db[ip].checked_at \in Int /\ db[ip].next_recheck_at \in Int
          /\ now \in Int /\ RecheckInterval \in Int
      <4>1. db[ip] \in Row /\ now \in Int
        BY <1>1, Known
      <4>2. db[ip].next_recheck_at # NULL
        BY <1>1, <3>1 DEF Inv3, Inv2, Inv, RunInv, RowInv, WellFormed
      <4> QED
        BY <1>1, <4>1, <4>2, PeriodAssumption DEF Row, MaybeTime, Time
    <3> QED
      BY <3>3, <3>4
  <2> QED
    BY <2>1, <2>2, <2>3
<1>2. Inv2 /\ AgreeInv /\ ScheduleInv /\ [Next]_vars => [Spaced]_vars
  BY <1>1 DEF Inv3
<1> QED
  BY AllInvariants, Agreement, ScheduleInvariant, <1>2, PTL DEF Spec, QueriesAreSpaced

(* What main leaves to the lifecycle as an active block is on the list, if *)
(* enforcement does not fail (main.py:225).                                *)
THEOREM SkippedAreBlocked ==
    ASSUME EnforcementWorks
    PROVE  Spec => []SkippedIsBlocked
<1>1. Inv2 /\ AgreeInv => SkippedIsBlocked
  <2> SUFFICES ASSUME Inv3, NEW ip \in IP, Picks("check", ip), ActiveBlock(db[ip])
               PROVE  items[ip] # NULL
    BY DEF SkippedIsBlocked, Inv3
  <2>1. Agrees(ip)
    BY Known, NullAssumption DEF Picks
  <2> QED
    BY <2>1 DEF Agrees, ActiveBlock
<1> QED
  BY AllInvariants, Agreement, <1>1, PTL
=============================================================================
