---------------------------- MODULE WorkerProofs ----------------------------
(***************************************************************************)
(* Machine-checked proofs of the requirements of the worker, for any set   *)
(* of addresses, item ids and scores, any thresholds and periods, any      *)
(* bounds and any set of faults.                                           *)
(***************************************************************************)
EXTENDS WorkerInvariants, TLAPS

-----------------------------------------------------------------------------
(* The operators on rows.                                                  *)

(* A verdict of the decision engine is one of the three decisions.         *)
LEMMA DecideType ==
    ASSUME NEW score \in Int
    PROVE  decide(score) \in Verdict
BY DEF decide, Verdict

(* The verdict is BLOCK exactly on the scores that reach the block         *)
(* threshold (engine.py:16), whatever the monitor threshold is.            *)
LEMMA DecideBlock ==
    ASSUME NEW score \in Int
    PROVE  decide(score) = "BLOCK" <=> score >= BlockThreshold
BY DEF decide

(* Every method of ReputationDB that changes a row yields a row.           *)
LEMMA RowOperatorTypes ==
    ASSUME NEW row \in Row
    PROVE  /\ record_seen(row) \in Row
           /\ \A score \in Int, decision \in Verdict, t \in Time :
                update_reputation(row, score, decision, t) \in Row
           /\ \A t \in Time : mark_blocked(row, t) \in Row
           /\ \A t \in Time : mark_recheck(row, t) \in Row
           /\ mark_released(row) \in Row
           /\ \A status \in CloudflareStatus \cup {NULL}, id \in MaybeItem :
                update_cloudflare_state(row, status, id) \in Row
<1> USE PeriodAssumption DEF Row, RowDecision, Verdict, MaybeTime, Time, MaybeItem
<1>1. record_seen(row) \in Row
  BY DEF record_seen
<1>2. ASSUME NEW score \in Int, NEW decision \in Verdict, NEW t \in Time
      PROVE  update_reputation(row, score, decision, t) \in Row
  BY DEF update_reputation
<1>3. ASSUME NEW t \in Time
      PROVE  mark_blocked(row, t) \in Row
  <2>1. /\ t + BlockTTL \in Int
        /\ t + RecheckInterval \in Int
    OBVIOUS
  <2> QED
    BY <2>1 DEF mark_blocked
<1>4. ASSUME NEW t \in Time
      PROVE  mark_recheck(row, t) \in Row
  BY DEF mark_recheck
<1>5. mark_released(row) \in Row
  BY DEF mark_released
<1>6. ASSUME NEW status \in CloudflareStatus \cup {NULL}, NEW id \in MaybeItem
      PROVE  update_cloudflare_state(row, status, id) \in Row
  <2>1. /\ coalesce(status, row.cloudflare_status) \in CloudflareStatus \cup {NULL}
        /\ coalesce(id, row.cloudflare_item_id) \in MaybeItem
    BY DEF coalesce
  <2> QED
    BY <2>1 DEF update_cloudflare_state
<1> QED
  BY <1>1, <1>2, <1>3, <1>4, <1>5, <1>6

(* Writing a row keeps the table a table of rows.                          *)
LEMMA UpdateType ==
    ASSUME DBTypeOK, NEW ip \in IP, NEW row \in Row, Update(ip, row)
    PROVE  DBTypeOK'
BY DEF DBTypeOK, Update

(* The service's answers change the list to a list.                        *)
LEMMA EffectType ==
    ASSUME ListTypeOK, NEW o \in Operation, TakesEffect(o)
    PROVE  items' \in [IP -> MaybeItem]
<1>1. CASE \E id \in ItemId : AddTakesEffect(o.ip, id)
  BY <1>1 DEF ListTypeOK, AddTakesEffect, MaybeItem
<1>2. CASE UNCHANGED items
  BY <1>2 DEF ListTypeOK
<1>3. CASE DeleteTakesEffect(o.item)
  BY <1>3 DEF ListTypeOK, DeleteTakesEffect, MaybeItem
<1> QED
  BY <1>1, <1>2, <1>3 DEF TakesEffect

(* Submitting, polling and dropping an operation.                          *)
LEMMA OperationTypes ==
    ASSUME NEW ip \in IP, NEW id \in MaybeItem
    PROVE  /\ AddOf(ip) \in Operation
           /\ DeleteOf(ip, id) \in Operation
BY DEF AddOf, DeleteOf, Operation, MaybeItem

(* A run that ends leaves nothing behind in memory.                        *)
LEMMA ExitTypes ==
    Exit => /\ phase' = "idle" /\ pc' = "pick" /\ todo' = {}
            /\ cur' = NULL /\ item' = NULL /\ at' = 0
            /\ dry' \in BOOLEAN
<1> SUFFICES ASSUME Exit
             PROVE  dry' \in BOOLEAN
  BY DEF Exit
<1> QED
  BY Zenon DEF Exit

(* An operation that is dropped while it is pending joins the late ones.   *)
LEMMA DropType ==
    ASSUME ListTypeOK, DropOperation
    PROVE  ListTypeOK'
BY DEF ListTypeOK, DropOperation, Abandoned
-----------------------------------------------------------------------------
(* Types and control.                                                      *)

\* TypeOK is not inductive alone: a step writes the row of cur, which is an
\* address only when pc says that one is being processed.
TypeInv == TypeOK /\ Control

(* An empty database, an empty list and no run are a well-typed start.     *)
LEMMA TypeInit == Init => TypeInv
<1> SUFFICES ASSUME Init
             PROVE  TypeInv
  OBVIOUS
<1>1. NoRow \in Row
  BY DEF NoRow, Row, RowDecision, Verdict, MaybeTime, MaybeItem
<1>2. DBTypeOK
  BY <1>1 DEF Init, DBInit, DBTypeOK
<1>3. ListTypeOK
  BY DEF Init, ListInit, ListTypeOK, MaybeItem
<1>4. WorkerTypeOK
  <2>1. dry \in BOOLEAN /\ position \in BOOLEAN
    BY Zenon DEF Init, WorkerInit
  <2> QED
    BY <2>1 DEF Init, WorkerInit, WorkerTypeOK, Phase, Step, MaybeItem, Time
<1>5. Control
  BY DEF Init, ListInit, WorkerInit, Control, ReleaseSteps, EnforceSteps, PollSteps
<1> QED
  BY <1>2, <1>3, <1>4, <1>5 DEF TypeInv, TypeOK

(* The steps of the lifecycle processor keep the types and stay on the steps *)
(* of its two loops.                                                       *)
LEMMA LifecycleTypes == TypeInv /\ LifecycleStep => TypeInv'
<1> SUFFICES ASSUME TypeInv, LifecycleStep
             PROVE  TypeInv'
  OBVIOUS
<1> USE DEF TypeInv, TypeOK, ListTypeOK, WorkerTypeOK, Control, Phase, Step,
            ReleaseSteps, EnforceSteps, PollSteps, MaybeItem, Time,
            envVars, listVars, Picks, Skip, Begin, GoTo, NextAddress, Enter
<1>1. ASSUME NEW ip \in IP, ExpireSkip(ip)
      PROVE  TypeInv'
  BY <1>1 DEF ExpireSkip, ExpireNext, DBTypeOK
<1>2. ASSUME NEW ip \in IP, ExpireBegin(ip)
      PROVE  TypeInv'
  BY <1>2 DEF ExpireBegin, ExpireNext, DBTypeOK, Row
<1>3. ASSUME NEW ip \in IP, RecheckSkip(ip)
      PROVE  TypeInv'
  BY <1>3 DEF RecheckSkip, RecheckNext, DBTypeOK
<1>4. ASSUME NEW ip \in IP, RecheckError(ip)
      PROVE  TypeInv'
  BY <1>4 DEF RecheckError, RecheckNext, Fault, DBTypeOK
<1>5. ASSUME NEW ip \in IP, NEW score \in Scores, RecheckScored(ip, score)
      PROVE  TypeInv'
  <2>1. score \in Int /\ now \in Time /\ db[ip] \in Row
    BY WorkerAssumption DEF DBTypeOK
  <2>2. update_reputation(db[ip], score, decide(score), now) \in Row
    BY <2>1, DecideType, RowOperatorTypes
  <2>3. DBTypeOK'
    BY <1>5, <2>2, UpdateType DEF RecheckScored
  <2>4. db[ip].cloudflare_item_id \in MaybeItem
    BY <2>1 DEF Row
  <2> QED
    BY <1>5, <2>3, <2>4 DEF RecheckScored, RecheckNext
<1>6. CASE QueryDue
  BY <1>6 DEF QueryDue, get_due_rechecks, DBTypeOK
<1>7. CASE MarkRecheck
  <2>1. cur \in IP /\ at + RecheckInterval \in Time /\ db[cur] \in Row
    BY <1>7, PeriodAssumption DEF MarkRecheck, DBTypeOK
  <2>2. mark_recheck(db[cur], at + RecheckInterval) \in Row
    BY <2>1, RowOperatorTypes
  <2>3. DBTypeOK'
    BY <1>7, <2>1, <2>2, UpdateType DEF MarkRecheck
  <2> QED
    BY <1>7, <2>3 DEF MarkRecheck
<1>8. CASE EndLifecycle
  BY <1>8 DEF EndLifecycle, AheadOfStart, DBTypeOK
<1>9. CASE DeleteAccepted
  <2>1. DeleteOf(cur, item) \in Operation
    BY <1>9, OperationTypes DEF DeleteAccepted
  <2> QED
    BY <1>9, <2>1, OperationAssumption DEF DeleteAccepted, Fault, DBTypeOK
<1>10. CASE DeleteLost
  <2>1. DeleteOf(cur, item) \in Operation
    BY <1>10, OperationTypes DEF DeleteLost
  <2> QED
    BY <1>10, <2>1 DEF DeleteLost, Fault, DBTypeOK
<1>11. CASE MarkPendingDelete
  <2>1. cur \in IP /\ db[cur] \in Row
    BY <1>11 DEF MarkPendingDelete, DBTypeOK
  <2>2. update_cloudflare_state(db[cur], "PENDING_DELETE", NULL) \in Row
    BY <2>1, RowOperatorTypes DEF CloudflareStatus
  <2>3. DBTypeOK'
    BY <1>11, <2>1, <2>2, UpdateType DEF MarkPendingDelete
  <2> QED
    BY <1>11, <2>3 DEF MarkPendingDelete
<1>12. CASE DeleteCompleted
  <2>1. ListTypeOK'
    BY <1>12, DropType DEF DeleteCompleted
  <2> QED
    BY <1>12, <2>1 DEF DeleteCompleted, DropOperation, DBTypeOK
<1>13. CASE MarkReleased
  <2>1. cur \in IP /\ db[cur] \in Row
    BY <1>13 DEF MarkReleased, DBTypeOK
  <2>2. mark_released(db[cur]) \in Row
    BY <2>1, RowOperatorTypes
  <2>3. DBTypeOK'
    BY <1>13, <2>1, <2>2, UpdateType DEF MarkReleased
  <2> QED
    BY <1>13, <2>3 DEF MarkReleased
<1>14. CASE ReleaseFails
  <2>1. ListTypeOK'
    BY <1>14, DropType DEF ReleaseFails
  <2>2. faults' \in Nat /\ now' = now /\ logged' = logged /\ position' = position
    BY <1>14 DEF ReleaseFails, ReleaseRaises, Fault
  <2> QED
    BY <1>14, <2>1, <2>2 DEF ReleaseFails, DropOperation, DBTypeOK
<1> QED
  BY <1>1, <1>2, <1>3, <1>4, <1>5, <1>6, <1>7, <1>8, <1>9, <1>10, <1>11,
     <1>12, <1>13, <1>14 DEF LifecycleStep

(* The steps of main after the lifecycle keep the types and stay on the    *)
(* steps of collecting and enforcing.                                      *)
LEMMA PipelineTypes == TypeInv /\ PipelineStep => TypeInv'
<1> SUFFICES ASSUME TypeInv, PipelineStep
             PROVE  TypeInv'
  OBVIOUS
<1> USE DEF TypeInv, TypeOK, ListTypeOK, WorkerTypeOK, Control, Phase, Step,
            ReleaseSteps, EnforceSteps, PollSteps, MaybeItem, Time,
            envVars, listVars, Picks, Skip, Begin, GoTo, NextAddress, Enter
<1>1. ASSUME NEW ip \in IP, CollectLine(ip)
      PROVE  TypeInv'
  <2>1. record_seen(db[ip]) \in Row
    BY RowOperatorTypes DEF DBTypeOK
  <2>2. DBTypeOK'
    BY <1>1, <2>1 DEF CollectLine, Upsert, DBTypeOK
  <2> QED
    BY <1>1, <2>2 DEF CollectLine
<1>2. CASE CollectDone
  <2>1. CASE todo = {}
    BY <1>2, <2>1, ExitTypes DEF CollectDone, DBTypeOK
  <2>2. CASE todo # {}
    BY <1>2, <2>2 DEF CollectDone, DBTypeOK
  <2> QED
    BY <2>1, <2>2
<1>3. ASSUME NEW ip \in IP, SkipActive(ip)
      PROVE  TypeInv'
  BY <1>3 DEF SkipActive, DBTypeOK
<1>4. ASSUME NEW ip \in IP, SkipCached(ip)
      PROVE  TypeInv'
  BY <1>4 DEF SkipCached, DBTypeOK
<1>5. ASSUME NEW ip \in IP, CheckError(ip)
      PROVE  TypeInv'
  BY <1>5 DEF CheckError, CheckDue, Fault, DBTypeOK
<1>6. ASSUME NEW ip \in IP, NEW score \in Scores, CheckScored(ip, score)
      PROVE  TypeInv'
  <2>1. score \in Int /\ now \in Time /\ db[ip] \in Row
    BY WorkerAssumption DEF DBTypeOK
  <2>2. update_reputation(db[ip], score, decide(score), now) \in Row
    BY <2>1, DecideType, RowOperatorTypes
  <2>3. DBTypeOK'
    BY <1>6, <2>2, UpdateType DEF CheckScored
  <2> QED
    BY <1>6, <2>3 DEF CheckScored, CheckDue
<1>7. CASE FindExisting
  BY <1>7 DEF FindExisting, DBTypeOK
<1>8. CASE FindNone
  BY <1>8 DEF FindNone, DBTypeOK
<1>9. CASE AddAccepted
  <2>1. AddOf(cur) \in Operation
    BY <1>9, OperationTypes DEF AddAccepted
  <2> QED
    BY <1>9, <2>1, OperationAssumption DEF AddAccepted, Fault, DBTypeOK
<1>10. CASE AddLost
  <2>1. cur \in IP /\ db[cur] \in Row /\ AddOf(cur) \in Operation
    BY <1>10, OperationTypes DEF AddLost, DBTypeOK
  <2>2. update_cloudflare_state(db[cur], "FAILED", NULL) \in Row
    BY <2>1, RowOperatorTypes DEF CloudflareStatus
  <2>3. DBTypeOK'
    BY <1>10, <2>1, <2>2, UpdateType DEF AddLost
  <2> QED
    BY <1>10, <2>1, <2>3 DEF AddLost, Fault
<1>11. CASE MarkPending
  <2>1. cur \in IP /\ db[cur] \in Row
    BY <1>11 DEF MarkPending, DBTypeOK
  <2>2. update_cloudflare_state(db[cur], "PENDING", NULL) \in Row
    BY <2>1, RowOperatorTypes DEF CloudflareStatus
  <2>3. DBTypeOK'
    BY <1>11, <2>1, <2>2, UpdateType DEF MarkPending
  <2> QED
    BY <1>11, <2>3 DEF MarkPending
<1>12. CASE AddCompleted
  <2>1. ListTypeOK'
    BY <1>12, DropType DEF AddCompleted
  <2> QED
    BY <1>12, <2>1 DEF AddCompleted, DropOperation, DBTypeOK
<1>13. CASE VerifyFound
  BY <1>13 DEF VerifyFound, DBTypeOK
<1>14. CASE MarkBlocked
  <2>1. cur \in IP /\ db[cur] \in Row /\ now \in Time
    BY <1>14 DEF MarkBlocked, DBTypeOK
  <2>2. mark_blocked(db[cur], now) \in Row
    BY <2>1, RowOperatorTypes
  <2>3. DBTypeOK'
    BY <1>14, <2>1, <2>2, UpdateType DEF MarkBlocked
  <2> QED
    BY <1>14, <2>3 DEF MarkBlocked
<1>15. CASE MarkActive
  <2>1. cur \in IP /\ db[cur] \in Row
    BY <1>15 DEF MarkActive, DBTypeOK
  <2>2. update_cloudflare_state(db[cur], "ACTIVE", item) \in Row
    BY <2>1, RowOperatorTypes DEF CloudflareStatus
  <2>3. DBTypeOK'
    BY <1>15, <2>1, <2>2, UpdateType DEF MarkActive
  <2> QED
    BY <1>15, <2>3 DEF MarkActive
<1>16. CASE EnforceFails
  <2>1. cur \in IP /\ db[cur] \in Row
    BY <1>16 DEF EnforceFails, EnforceRaises, DBTypeOK
  <2>2. update_cloudflare_state(db[cur], "FAILED", NULL) \in Row
    BY <2>1, RowOperatorTypes DEF CloudflareStatus
  <2>3. DBTypeOK'
    BY <1>16, <2>1, <2>2, UpdateType DEF EnforceFails
  <2>4. ListTypeOK'
    BY <1>16, DropType DEF EnforceFails
  <2>5. faults' \in Nat /\ now' = now /\ logged' = logged /\ position' = position
    BY <1>16 DEF EnforceFails, EnforceRaises, Fault
  <2> QED
    BY <1>16, <2>3, <2>4, <2>5 DEF EnforceFails, DropOperation
<1>17. CASE FinishRun
  BY <1>17, ExitTypes DEF FinishRun, DBTypeOK
<1> QED
  BY <1>1, <1>2, <1>3, <1>4, <1>5, <1>6, <1>7, <1>8, <1>9, <1>10, <1>11,
     <1>12, <1>13, <1>14, <1>15, <1>16, <1>17 DEF PipelineStep

(* A run that starts or dies, the list, the visitors and the clock keep the *)
(* types and the place of the run.                                         *)
LEMMA SurroundingsTypes ==
    /\ TypeInv
    /\ \/ Start \/ Interrupt
       \/ OperationCompletes \/ OperationFails \/ LateCompletes \/ LateFails
       \/ \E ip \in IP : OperatorRemoves(ip) \/ OperatorAdds(ip) \/ Request(ip)
       \/ Rotate \/ Tick
       \/ UNCHANGED vars
    => TypeInv'
<1> USE DEF TypeInv, TypeOK, ListTypeOK, WorkerTypeOK, Control, Phase, Step,
            ReleaseSteps, EnforceSteps, PollSteps, MaybeItem, Time,
            envVars, listVars, runVars, Fault
<1>1. TypeInv /\ Start => TypeInv'
  BY WorkerAssumption DEF Start, get_expired_blocks, DBTypeOK
<1>2. ASSUME TypeInv, Interrupt
      PROVE  TypeInv'
  <2>1. ListTypeOK'
    BY <1>2, DropType DEF Interrupt
  <2> QED
    BY <1>2, <2>1, ExitTypes DEF Interrupt, DropOperation, DBTypeOK
<1>3. ASSUME TypeInv, OperationCompletes
      PROVE  TypeInv'
  <2>1. op \in Operation
    BY <1>3 DEF OperationCompletes, OperationPending
  <2>2. items' \in [IP -> MaybeItem]
    BY <1>3, <2>1, EffectType DEF OperationCompletes
  <2>3. op' \in Operation /\ op # NULL /\ op' # NULL
    BY <1>3, <2>1, OperationAssumption DEF OperationCompletes, Operation
  <2> QED
    BY <1>3, <2>2, <2>3 DEF OperationCompletes, DBTypeOK
<1>4. ASSUME TypeInv, OperationFails
      PROVE  TypeInv'
  <2>1. op \in Operation
    BY <1>4 DEF OperationFails, OperationPending
  <2>2. op' \in Operation /\ op # NULL /\ op' # NULL
    BY <1>4, <2>1, OperationAssumption DEF OperationFails, Operation
  <2>3. faults' \in Nat /\ now' = now /\ logged' = logged /\ position' = position
    BY <1>4 DEF OperationFails
  <2> QED
    BY <1>4, <2>2, <2>3 DEF OperationFails, DBTypeOK
<1>5. ASSUME TypeInv, LateCompletes
      PROVE  TypeInv'
  <2>1. items' \in [IP -> MaybeItem]
    BY <1>5, EffectType DEF LateCompletes
  <2> QED
    BY <1>5, <2>1 DEF LateCompletes, DBTypeOK
<1>6. TypeInv /\ LateFails => TypeInv'
  BY DEF LateFails, DBTypeOK
<1>7. ASSUME TypeInv, NEW ip \in IP, OperatorRemoves(ip)
      PROVE  TypeInv'
  BY <1>7 DEF OperatorRemoves, DBTypeOK
<1>11. ASSUME TypeInv, NEW ip \in IP, OperatorAdds(ip)
       PROVE  TypeInv'
  <2>1. items' \in [IP -> MaybeItem]
    BY <1>11, EffectType, OperationTypes DEF OperatorAdds
  <2> QED
    BY <1>11, <2>1 DEF OperatorAdds, DBTypeOK
<1>8. ASSUME TypeInv, NEW ip \in IP, Request(ip)
      PROVE  TypeInv'
  BY <1>8 DEF Request, DBTypeOK
<1>9. TypeInv /\ (Rotate \/ Tick) => TypeInv'
  BY DEF Rotate, Tick, DBTypeOK
<1>10. TypeInv /\ UNCHANGED vars => TypeInv'
  BY DEF vars, DBTypeOK
<1> QED
  BY <1>1, <1>2, <1>3, <1>4, <1>5, <1>6, <1>7, <1>8, <1>9, <1>10, <1>11

(* Type correctness of the worker, the table and the list (TypeOK), and    *)
(* that a run is always at a step of the loop it is in.                    *)
THEOREM TypeCorrect == Spec => [](TypeOK /\ Control)
<1>1. TypeInv /\ [Next]_vars => TypeInv'
  BY LifecycleTypes, PipelineTypes, SurroundingsTypes DEF Next, RunStep
<1>2. TypeInv => TypeOK /\ Control
  BY DEF TypeInv
<1> QED
  BY TypeInit, <1>1, <1>2, PTL DEF Spec
-----------------------------------------------------------------------------
(* What the methods of ReputationDB keep of a row.                         *)

(* record_seen creates a row and otherwise keeps it.                       *)
LEMMA RecordSeenRow ==
    ASSUME NEW row \in Row, RowInv(row)
    PROVE  /\ RowInv(record_seen(row))
           /\ record_seen(row).decision # "ABSENT"
BY DEF Row, RowInv, HasEvidence, WellFormed, record_seen

(* update_reputation replaces the verdict and its evidence together.       *)
LEMMA UpdateReputationRow ==
    ASSUME NEW row \in Row, RowInv(row), NEW score \in Int, NEW t \in Time
    PROVE  LET new == update_reputation(row, score, decide(score), t)
           IN  /\ RowInv(new)
               /\ new.decision = decide(score)
               /\ new.decision # "ABSENT"
               /\ new.checked_at = t
               /\ new.blocked_at = row.blocked_at
               /\ new.cloudflare_item_id = row.cloudflare_item_id
<1> DEFINE new == update_reputation(row, score, decide(score), t)
<1>1. decide(score) \in Verdict /\ (decide(score) = "BLOCK" => score >= BlockThreshold)
  BY DecideType, DecideBlock
<1>2. new = [row EXCEPT !.score = score, !.decision = decide(score), !.checked_at = t]
  BY DEF update_reputation
<1> HIDE DEF new
<1>3. /\ new.score = score
      /\ new.decision = decide(score)
      /\ new.checked_at = t
      /\ new.blocked_at = row.blocked_at
      /\ new.expire_at = row.expire_at
      /\ new.next_recheck_at = row.next_recheck_at
      /\ new.cloudflare_status = row.cloudflare_status
      /\ new.cloudflare_item_id = row.cloudflare_item_id
  BY <1>2 DEF Row
<1>4. RowInv(new)
  BY <1>1, <1>3, NullAssumption DEF RowInv, HasEvidence, WellFormed, Time
<1>5. new.decision # "ABSENT"
  BY <1>1, <1>3 DEF Verdict
<1> QED
  BY <1>3, <1>4, <1>5 DEF new

(* mark_blocked on a row already judged BLOCK starts its lifecycle.        *)
LEMMA MarkBlockedRow ==
    ASSUME NEW row \in Row, RowInv(row), row.decision = "BLOCK", NEW t \in Time
    PROVE  LET new == mark_blocked(row, t)
           IN  /\ RowInv(new)
               /\ new.decision = "BLOCK"
               /\ new.checked_at = row.checked_at
               /\ new.blocked_at # NULL
               /\ new.cloudflare_item_id = row.cloudflare_item_id
<1> DEFINE new == mark_blocked(row, t)
<1>1. t + BlockTTL \in Int /\ t + RecheckInterval \in Int
  BY PeriodAssumption DEF Time
<1>2. /\ new.score = row.score
      /\ new.decision = "BLOCK"
      /\ new.checked_at = row.checked_at
      /\ new.blocked_at = t
      /\ new.expire_at = t + BlockTTL
      /\ new.next_recheck_at = t + RecheckInterval
      /\ new.cloudflare_status = row.cloudflare_status
      /\ new.cloudflare_item_id = row.cloudflare_item_id
  BY DEF Row, mark_blocked
<1> HIDE DEF new
<1>3. RowInv(new)
  BY <1>1, <1>2, NullAssumption DEF RowInv, HasEvidence, WellFormed, Time
<1> QED
  BY <1>2, <1>3, NullAssumption DEF new, Time

(* mark_recheck moves only the next recheck, of a block.                   *)
LEMMA MarkRecheckRow ==
    ASSUME NEW row \in Row, RowInv(row), row.blocked_at # NULL, NEW t \in Time
    PROVE  LET new == mark_recheck(row, t)
           IN  RowInv(new) /\ new.decision = row.decision
<1> DEFINE new == mark_recheck(row, t)
<1>1. /\ new.score = row.score
      /\ new.decision = row.decision
      /\ new.checked_at = row.checked_at
      /\ new.blocked_at = row.blocked_at
      /\ new.expire_at = row.expire_at
      /\ new.next_recheck_at = t
      /\ new.cloudflare_status = row.cloudflare_status
      /\ new.cloudflare_item_id = row.cloudflare_item_id
  BY DEF Row, mark_recheck
<1> HIDE DEF new
<1>2. RowInv(new)
  BY <1>1, NullAssumption DEF RowInv, HasEvidence, WellFormed, Time
<1> QED
  BY <1>1, <1>2 DEF new

(* mark_released clears every column of a block.                           *)
LEMMA MarkReleasedRow ==
    ASSUME NEW row \in Row
    PROVE  RowInv(mark_released(row)) /\ mark_released(row).decision = "ALLOW"
BY StatusAssumption
   DEF Row, RowInv, HasEvidence, WellFormed, mark_released, CloudflareStatus

(* update_cloudflare_state keeps the item the row has (COALESCE) unless it *)
(* is given another; ACTIVE comes with an item and after mark_blocked, and *)
(* PENDING_DELETE on a row that has an item.                               *)
LEMMA UpdateStateRow ==
    ASSUME NEW row \in Row, RowInv(row), NEW status \in CloudflareStatus,
           NEW id \in MaybeItem,
           \/ status \in {"PENDING", "FAILED"} /\ id = NULL
           \/ status = "PENDING_DELETE" /\ id = NULL /\ row.cloudflare_item_id # NULL
           \/ status = "ACTIVE" /\ id # NULL /\ row.blocked_at # NULL
    PROVE  LET new == update_cloudflare_state(row, status, id)
           IN  /\ RowInv(new)
               /\ new.decision = row.decision
               /\ new.checked_at = row.checked_at
               /\ new.blocked_at = row.blocked_at
               /\ id = NULL => new.cloudflare_item_id = row.cloudflare_item_id
<1> DEFINE new == update_cloudflare_state(row, status, id)
<1>1. status # NULL
  BY StatusAssumption
<1>2. /\ new.score = row.score
      /\ new.decision = row.decision
      /\ new.checked_at = row.checked_at
      /\ new.blocked_at = row.blocked_at
      /\ new.expire_at = row.expire_at
      /\ new.next_recheck_at = row.next_recheck_at
      /\ new.cloudflare_status = status
      /\ new.cloudflare_item_id = IF id = NULL THEN row.cloudflare_item_id ELSE id
  BY <1>1 DEF Row, update_cloudflare_state, coalesce
<1> HIDE DEF new
<1>3. RowInv(new)
  BY <1>2 DEF RowInv, HasEvidence, WellFormed
<1> QED
  BY <1>2, <1>3 DEF new

(* Update writes one row of the table, when it exists.                     *)
LEMMA UpdateWrites ==
    ASSUME DBTypeOK, NEW ip \in IP, NEW row, Update(ip, row),
           db[ip].decision # "ABSENT"
    PROVE  /\ db'[ip] = row
           /\ \A other \in IP : other # ip => db'[other] = db[other]
BY DEF DBTypeOK, Update
-----------------------------------------------------------------------------
(* The invariant of a run.                                                 *)

Inv == TypeInv /\ RunInv

\* What RunInv adds to Control.
RunParts ==
    /\ WorkHasRow
    /\ Judged
    /\ ClockRead
    /\ Held
    /\ \A ip \in IP : RowInv(db[ip])

(* Before the first run no row exists and no run is under way.             *)
LEMMA RunInit == Init => RunParts
<1> SUFFICES ASSUME Init
             PROVE  RunParts
  OBVIOUS
<1>1. RowInv(NoRow)
  BY StatusAssumption
     DEF RowInv, HasEvidence, WellFormed, NoRow, CloudflareStatus
<1> QED
  BY <1>1 DEF Init, DBInit, WorkerInit, RunParts, WorkHasRow, Judged, ClockRead,
              Held, ReleaseSteps, EnforceSteps

(* The steps of the lifecycle processor keep the invariant of a run.       *)
LEMMA LifecycleRun == Inv /\ LifecycleStep => RunParts'
<1> SUFFICES ASSUME Inv, LifecycleStep
             PROVE  RunParts'
  OBVIOUS
<1> USE DEF Inv, RunInv, RunParts, Control, WorkHasRow, Judged, ClockRead, Held,
            ReleaseSteps, EnforceSteps, envVars, listVars,
            Picks, Skip, Begin, GoTo, NextAddress, Enter
<1>a. DBTypeOK /\ now \in Time /\ at \in Time /\ todo \subseteq IP
      /\ cur \in IP \cup {NULL} /\ item \in MaybeItem
  BY DEF TypeInv, TypeOK, WorkerTypeOK, Time
<1>b. \A ip \in IP : db[ip] \in Row
  BY <1>a DEF DBTypeOK
<1>1. ASSUME NEW ip \in IP, ExpireSkip(ip)
      PROVE  RunParts'
  BY <1>1 DEF ExpireSkip, ExpireNext
<1>2. ASSUME NEW ip \in IP, ExpireBegin(ip)
      PROVE  RunParts'
  BY <1>2 DEF ExpireBegin, ExpireNext
<1>3. ASSUME NEW ip \in IP, RecheckSkip(ip)
      PROVE  RunParts'
  BY <1>3 DEF RecheckSkip, RecheckNext
<1>4. ASSUME NEW ip \in IP, RecheckError(ip)
      PROVE  RunParts'
  BY <1>4 DEF RecheckError, RecheckNext, Fault
<1>5. ASSUME NEW ip \in IP, NEW score \in Scores, RecheckScored(ip, score)
      PROVE  RunParts'
  <2> DEFINE new == update_reputation(db[ip], score, decide(score), now)
  <2>1. score \in Int /\ RowInv(db[ip]) /\ db[ip].decision # "ABSENT"
    BY <1>5, WorkerAssumption DEF RecheckScored, RecheckNext, ActiveBlock
  <2>2. new \in Row
    BY <1>a, <1>b, <2>1, DecideType, RowOperatorTypes
  <2>3. /\ RowInv(new)
        /\ new.decision # "ABSENT"
        /\ new.blocked_at = db[ip].blocked_at
        /\ new.cloudflare_item_id = db[ip].cloudflare_item_id
    BY <1>a, <1>b, <2>1, UpdateReputationRow
  <2> HIDE DEF new
  <2>4. Update(ip, new)
    BY <1>5 DEF RecheckScored, new
  <2>5. db'[ip] = new /\ \A other \in IP : other # ip => db'[other] = db[other]
    BY <1>a, <2>1, <2>2, <2>4, UpdateWrites
  <2>6. db[ip].cloudflare_item_id # NULL /\ db[ip].blocked_at # NULL
    BY <1>5, <2>1 DEF RecheckScored, ActiveBlock, RowInv, WellFormed
  <2> QED
    BY <1>5, <1>a, <2>3, <2>5, <2>6 DEF RecheckScored, RecheckNext
<1>6. CASE QueryDue
  BY <1>6, <1>a DEF QueryDue, get_due_rechecks, Time
<1>7. CASE MarkRecheck
  <2> DEFINE new == mark_recheck(db[cur], at + RecheckInterval)
  <2>1. /\ cur \in IP /\ RowInv(db[cur]) /\ db[cur].decision # "ABSENT"
        /\ db[cur].blocked_at # NULL
        /\ at + RecheckInterval \in Time
    BY <1>7, <1>a, PeriodAssumption DEF MarkRecheck, Time
  <2>2. new \in Row /\ RowInv(new) /\ new.decision = db[cur].decision
    BY <1>b, <2>1, RowOperatorTypes, MarkRecheckRow
  <2> HIDE DEF new
  <2>3. Update(cur, new)
    BY <1>7 DEF MarkRecheck, new
  <2>4. db'[cur] = new /\ \A other \in IP : other # cur => db'[other] = db[other]
    BY <1>a, <2>1, <2>2, <2>3, UpdateWrites
  <2> QED
    BY <1>7, <1>a, <2>1, <2>2, <2>4 DEF MarkRecheck
<1>8. CASE EndLifecycle
  BY <1>8, <1>a DEF EndLifecycle, Time
<1>9. CASE DeleteAccepted
  BY <1>9 DEF DeleteAccepted, Fault
<1>10. CASE DeleteLost
  BY <1>10 DEF DeleteLost, Fault
<1>11. CASE MarkPendingDelete
  <2> DEFINE new == update_cloudflare_state(db[cur], "PENDING_DELETE", NULL)
  <2>1. /\ cur \in IP /\ RowInv(db[cur]) /\ db[cur].decision # "ABSENT"
        /\ db[cur].cloudflare_item_id # NULL
    BY <1>11 DEF MarkPendingDelete
  <2>2. new \in Row
    BY <1>b, <2>1, RowOperatorTypes DEF CloudflareStatus, MaybeItem
  <2>3. /\ RowInv(new)
        /\ new.decision = db[cur].decision
        /\ new.cloudflare_item_id = db[cur].cloudflare_item_id
    BY <1>b, <2>1, UpdateStateRow DEF CloudflareStatus, MaybeItem
  <2> HIDE DEF new
  <2>4. Update(cur, new)
    BY <1>11 DEF MarkPendingDelete, new
  <2>5. db'[cur] = new /\ \A other \in IP : other # cur => db'[other] = db[other]
    BY <1>a, <2>1, <2>2, <2>4, UpdateWrites
  <2> QED
    BY <1>11, <1>a, <2>1, <2>3, <2>5 DEF MarkPendingDelete
<1>12. CASE DeleteCompleted
  BY <1>12 DEF DeleteCompleted
<1>13. CASE MarkReleased
  <2> DEFINE new == mark_released(db[cur])
  <2>1. cur \in IP /\ RowInv(db[cur]) /\ db[cur].decision # "ABSENT"
    BY <1>13 DEF MarkReleased
  <2>2. new \in Row /\ RowInv(new) /\ new.decision = "ALLOW"
    BY <1>b, <2>1, RowOperatorTypes, MarkReleasedRow
  <2> HIDE DEF new
  <2>3. Update(cur, new)
    BY <1>13 DEF MarkReleased, new
  <2>4. db'[cur] = new /\ \A other \in IP : other # cur => db'[other] = db[other]
    BY <1>a, <2>1, <2>2, <2>3, UpdateWrites
  <2> QED
    BY <1>13, <1>a, <2>1, <2>2, <2>4 DEF MarkReleased
<1>14. CASE ReleaseFails
  BY <1>14 DEF ReleaseFails, ReleaseRaises, Fault
<1> QED
  BY <1>1, <1>2, <1>3, <1>4, <1>5, <1>6, <1>7, <1>8, <1>9, <1>10, <1>11,
     <1>12, <1>13, <1>14 DEF LifecycleStep

(* The steps of main after the lifecycle keep the invariant of a run.      *)
LEMMA PipelineRun == Inv /\ PipelineStep => RunParts'
<1> SUFFICES ASSUME Inv, PipelineStep
             PROVE  RunParts'
  OBVIOUS
<1> USE DEF Inv, RunInv, RunParts, Control, WorkHasRow, Judged, ClockRead, Held,
            ReleaseSteps, EnforceSteps, envVars, listVars,
            Picks, Skip, Begin, GoTo, NextAddress, Enter
<1>a. DBTypeOK /\ now \in Time /\ at \in Time /\ todo \subseteq IP
      /\ cur \in IP \cup {NULL} /\ item \in MaybeItem
  BY DEF TypeInv, TypeOK, WorkerTypeOK, Time
<1>b. \A ip \in IP : db[ip] \in Row
  BY <1>a DEF DBTypeOK
<1>c. pc \in EnforceSteps =>
        /\ cur \in IP
        /\ RowInv(db[cur])
        /\ db[cur].decision = "BLOCK"
        /\ db[cur].decision # "ABSENT"
  BY <1>a
\* What every write of the Cloudflare columns of an enforced row leaves true.
<1>d. ASSUME pc \in EnforceSteps, NEW status \in CloudflareStatus, NEW id \in MaybeItem,
             \/ status \in {"PENDING", "FAILED"} /\ id = NULL
             \/ status = "ACTIVE" /\ id # NULL /\ db[cur].blocked_at # NULL,
             Update(cur, update_cloudflare_state(db[cur], status, id))
      PROVE  /\ \A ip \in IP : RowInv(db'[ip]) /\ db'[ip].decision = db[ip].decision
             /\ db'[cur].checked_at = db[cur].checked_at
  <2> DEFINE new == update_cloudflare_state(db[cur], status, id)
  <2>1. new \in Row
    BY <1>b, <1>c, <1>d, RowOperatorTypes
  <2>2. /\ RowInv(new)
        /\ new.decision = db[cur].decision
        /\ new.checked_at = db[cur].checked_at
    BY <1>b, <1>c, <1>d, UpdateStateRow
  <2>3. Update(cur, new)
    BY <1>d
  <2> HIDE DEF new
  <2>4. db'[cur] = new /\ \A other \in IP : other # cur => db'[other] = db[other]
    BY <1>a, <1>c, <1>d, <2>1, <2>3, UpdateWrites
  <2> QED
    BY <1>c, <1>d, <2>2, <2>4
<1>1. ASSUME NEW ip \in IP, CollectLine(ip)
      PROVE  RunParts'
  <2> DEFINE new == record_seen(db[ip])
  <2>1. RowInv(new) /\ new.decision # "ABSENT"
    BY <1>b, RecordSeenRow
  <2> HIDE DEF new
  <2>2. db' = [db EXCEPT ![ip] = new]
    BY <1>1 DEF CollectLine, Upsert, new
  <2>3. db'[ip] = new /\ \A other \in IP : other # ip => db'[other] = db[other]
    BY <1>a, <2>2 DEF DBTypeOK
  <2> QED
    BY <1>1, <1>a, <2>1, <2>3 DEF CollectLine
<1>2. CASE CollectDone
  <2>1. CASE todo = {}
    BY <1>2, <2>1, ExitTypes DEF CollectDone
  <2>2. CASE todo # {}
    BY <1>2, <1>a, <2>2 DEF CollectDone, Time
  <2> QED
    BY <2>1, <2>2
<1>3. ASSUME NEW ip \in IP, SkipActive(ip)
      PROVE  RunParts'
  BY <1>3 DEF SkipActive
<1>4. ASSUME NEW ip \in IP, SkipCached(ip)
      PROVE  RunParts'
  BY <1>4 DEF SkipCached
<1>5. ASSUME NEW ip \in IP, CheckError(ip)
      PROVE  RunParts'
  BY <1>5 DEF CheckError, CheckDue, Fault
<1>6. ASSUME NEW ip \in IP, NEW score \in Scores, CheckScored(ip, score)
      PROVE  RunParts'
  <2> DEFINE new == update_reputation(db[ip], score, decide(score), now)
  <2>1. score \in Int /\ RowInv(db[ip]) /\ db[ip].decision # "ABSENT"
    BY <1>6, WorkerAssumption DEF CheckScored, CheckDue
  <2>2. new \in Row
    BY <1>a, <1>b, <2>1, DecideType, RowOperatorTypes
  <2>3. /\ RowInv(new)
        /\ new.decision = decide(score)
        /\ new.decision # "ABSENT"
        /\ new.checked_at = now
    BY <1>a, <1>b, <2>1, UpdateReputationRow
  <2> HIDE DEF new
  <2>4. Update(ip, new)
    BY <1>6 DEF CheckScored, new
  <2>5. db'[ip] = new /\ \A other \in IP : other # ip => db'[other] = db[other]
    BY <1>a, <2>1, <2>2, <2>4, UpdateWrites
  <2>6. now # NULL /\ now >= at
    BY <1>6, <1>a, NullAssumption DEF CheckScored, CheckDue, Time
  <2> QED
    BY <1>6, <1>a, <2>3, <2>5, <2>6 DEF CheckScored, CheckDue
<1>7. CASE FindExisting
  BY <1>7 DEF FindExisting
<1>8. CASE FindNone
  BY <1>8 DEF FindNone
<1>9. CASE AddAccepted
  BY <1>9 DEF AddAccepted, Fault
<1>10. CASE AddLost
  <2>1. /\ \A ip \in IP : RowInv(db'[ip]) /\ db'[ip].decision = db[ip].decision
    BY <1>10, <1>d DEF AddLost, CloudflareStatus, MaybeItem
  <2> QED
    BY <1>10, <1>a, <2>1 DEF AddLost, Fault
<1>11. CASE MarkPending
  <2>1. /\ \A ip \in IP : RowInv(db'[ip]) /\ db'[ip].decision = db[ip].decision
        /\ db'[cur].checked_at = db[cur].checked_at
    BY <1>11, <1>d DEF MarkPending, CloudflareStatus, MaybeItem
  <2> QED
    BY <1>11, <1>a, <1>c, <2>1 DEF MarkPending
<1>12. CASE AddCompleted
  BY <1>12 DEF AddCompleted
<1>13. CASE VerifyFound
  BY <1>13 DEF VerifyFound
<1>14. CASE MarkBlocked
  <2> DEFINE new == mark_blocked(db[cur], now)
  <2>1. new \in Row
    BY <1>14, <1>a, <1>b, <1>c, RowOperatorTypes DEF MarkBlocked
  <2>2. /\ RowInv(new)
        /\ new.decision = "BLOCK"
        /\ new.checked_at = db[cur].checked_at
        /\ new.blocked_at # NULL
    BY <1>14, <1>a, <1>b, <1>c, MarkBlockedRow DEF MarkBlocked
  <2> HIDE DEF new
  <2>3. Update(cur, new)
    BY <1>14 DEF MarkBlocked, new
  <2>4. db'[cur] = new /\ \A other \in IP : other # cur => db'[other] = db[other]
    BY <1>14, <1>a, <1>c, <2>1, <2>3, UpdateWrites DEF MarkBlocked
  <2> QED
    BY <1>14, <1>a, <1>c, <2>2, <2>4 DEF MarkBlocked
<1>15. CASE MarkActive
  <2>1. /\ \A ip \in IP : RowInv(db'[ip]) /\ db'[ip].decision = db[ip].decision
    BY <1>15, <1>a, <1>d DEF MarkActive, CloudflareStatus
  <2> QED
    BY <1>15, <1>a, <2>1 DEF MarkActive
<1>16. CASE EnforceFails
  <2>1. pc \in EnforceSteps /\ at' = at /\ now' = now
    BY <1>16 DEF EnforceFails, EnforceRaises, Fault
  <2>2. /\ \A ip \in IP : RowInv(db'[ip]) /\ db'[ip].decision = db[ip].decision
    BY <1>16, <1>d, <2>1 DEF EnforceFails, CloudflareStatus, MaybeItem
  <2> QED
    BY <1>16, <1>a, <2>1, <2>2 DEF EnforceFails
<1>17. CASE FinishRun
  BY <1>17, ExitTypes DEF FinishRun
<1> QED
  BY <1>1, <1>2, <1>3, <1>4, <1>5, <1>6, <1>7, <1>8, <1>9, <1>10, <1>11,
     <1>12, <1>13, <1>14, <1>15, <1>16, <1>17 DEF PipelineStep

(* A run that starts or dies, the list, the visitors and the clock keep    *)
(* the invariant of a run.                                                 *)
LEMMA SurroundingsRun ==
    /\ Inv
    /\ \/ Start \/ Interrupt
       \/ OperationCompletes \/ OperationFails \/ LateCompletes \/ LateFails
       \/ \E ip \in IP : OperatorRemoves(ip) \/ OperatorAdds(ip) \/ Request(ip)
       \/ Rotate \/ Tick
       \/ UNCHANGED vars
    => RunParts'
<1> USE DEF Inv, RunInv, RunParts, Control, WorkHasRow, Judged, ClockRead, Held,
            ReleaseSteps, EnforceSteps, envVars, listVars, runVars, Fault
<1>1. ASSUME Inv, Start
      PROVE  RunParts'
  <2>1. now \in Int /\ pc = "pick"
    BY <1>1 DEF Start, TypeInv, TypeOK, WorkerTypeOK
  <2>2. \A ip \in todo' : db[ip].decision # "ABSENT"
    BY <1>1 DEF Start, get_expired_blocks
  <2> QED
    BY <1>1, <2>1, <2>2 DEF Start
<1>2. Inv /\ Interrupt => RunParts'
  BY ExitTypes DEF Interrupt
<1>3. ASSUME Inv,
             \/ OperationCompletes \/ OperationFails \/ LateCompletes \/ LateFails
             \/ \E ip \in IP : OperatorRemoves(ip) \/ OperatorAdds(ip) \/ Request(ip)
             \/ Rotate \/ UNCHANGED vars
      PROVE  RunParts'
  <2>1. UNCHANGED <<db, now, runVars>>
    BY <1>3 DEF OperationCompletes, OperationFails, LateCompletes, LateFails,
                OperatorRemoves, OperatorAdds, Request, Rotate, vars
  <2> QED
    BY <1>3, <2>1
<1>4. ASSUME Inv, Tick
      PROVE  RunParts'
  <2>1. now \in Int /\ at \in Int /\ now' = now + 1
    BY <1>4 DEF Tick, TypeInv, TypeOK, WorkerTypeOK, Time
  <2> QED
    BY <1>4, <2>1 DEF Tick
<1> QED
  BY <1>1, <1>2, <1>3, <1>4

(* The invariant of a run holds throughout: the table, the memory of the   *)
(* run and its place in the loops always fit together.                     *)
THEOREM RunInvariant == Spec => []RunInv
<1>1. Init => Inv
  BY TypeInit, RunInit DEF Inv, RunInv, RunParts, TypeInv
<1>2. Inv /\ [Next]_vars => Inv'
  <2> SUFFICES ASSUME Inv, [Next]_vars
               PROVE  Inv'
    OBVIOUS
  <2>1. TypeInv'
    BY LifecycleTypes, PipelineTypes, SurroundingsTypes DEF Inv, Next, RunStep
  <2>2. RunParts'
    BY LifecycleRun, PipelineRun, SurroundingsRun DEF Next, RunStep
  <2> QED
    BY <2>1, <2>2 DEF Inv, RunInv, RunParts, TypeInv
<1>3. Inv => RunInv
  BY DEF Inv
<1> QED
  BY <1>1, <1>2, <1>3, PTL DEF Spec

(* A row says BLOCK only on a score that reaches the block threshold.      *)
THEOREM BlocksHaveEvidence == Spec => []BlockHasEvidence
<1>1. RunInv => BlockHasEvidence
  BY DEF RunInv, RowInv, BlockHasEvidence
<1> QED
  BY RunInvariant, <1>1, PTL

(* An active block always has an item, an expiry and a recheck date.       *)
THEOREM ActiveBlocksHaveLifecycle == Spec => []ActiveHasLifecycle
<1>1. RunInv => ActiveHasLifecycle
  BY DEF RunInv, RowInv, WellFormed, ActiveHasLifecycle
<1> QED
  BY RunInvariant, <1>1, PTL

(* A dry run never submits, polls or records an operation.                 *)
THEOREM DryRunsOnlyLook == Spec => []DryRunOnlyLooks
<1>1. RunInv => DryRunOnlyLooks
  BY DEF RunInv, Control, DryRunOnlyLooks, PollSteps
<1> QED
  BY RunInvariant, <1>1, PTL
-----------------------------------------------------------------------------
(* The list against the rows and the run.                                  *)

Inv2 == Inv /\ ListInv

(* Only MarkActive and MarkReleased write the item column: every other     *)
(* method leaves it, and all but two of them leave blocked_at as well.     *)
LEMMA ItemColumn ==
    ASSUME NEW row \in Row
    PROVE  /\ record_seen(row).cloudflare_item_id = row.cloudflare_item_id
           /\ \A score, decision, t :
                update_reputation(row, score, decision, t).cloudflare_item_id
                    = row.cloudflare_item_id
           /\ \A t : mark_blocked(row, t).cloudflare_item_id = row.cloudflare_item_id
           /\ \A t : mark_recheck(row, t).cloudflare_item_id = row.cloudflare_item_id
           /\ \A status :
                /\ update_cloudflare_state(row, status, NULL).cloudflare_item_id
                    = row.cloudflare_item_id
                /\ update_cloudflare_state(row, status, NULL).blocked_at = row.blocked_at
           /\ \A status, id : id # NULL =>
                update_cloudflare_state(row, status, id).cloudflare_item_id = id
           /\ mark_released(row).cloudflare_item_id = NULL
BY DEF Row, record_seen, update_reputation, mark_blocked, mark_recheck,
       update_cloudflare_state, coalesce, mark_released

(* A write that leaves the item of its row leaves every item of the table. *)
LEMMA UpdateKeepsItems ==
    ASSUME DBTypeOK, NEW ip \in IP, NEW row, Update(ip, row),
           row.cloudflare_item_id = db[ip].cloudflare_item_id
    PROVE  \A q \in IP : db'[q].cloudflare_item_id = db[q].cloudflare_item_id
BY DEF DBTypeOK, Update

(* Before the first run no address is listed and no item is remembered.    *)
LEMMA ListInvInit == Init => ListInv
BY DEF Init, DBInit, ListInit, WorkerInit, NoRow, ListInv, Ownership, ItemsAreOwn,
       Removal, Replacement, Listed

(* The steps of the lifecycle processor keep ids and addresses together:   *)
(* what it deletes is what the row of that address holds.                  *)
LEMMA LifecycleList == Inv2 /\ LifecycleStep => ListInv'
<1> SUFFICES ASSUME Inv2, LifecycleStep
             PROVE  ListInv'
  OBVIOUS
<1> USE DEF Inv2, ListInv, Ownership, ItemsAreOwn, Removal, Replacement, Listed,
            envVars, listVars, Picks, Skip, Begin, GoTo, NextAddress, Enter
<1>a. /\ DBTypeOK /\ items \in [IP -> MaybeItem]
      /\ op \in Operation \cup {NULL}
      /\ pc # "pick" => cur \in IP
      /\ op # NULL <=> pc \in PollSteps
      /\ \A ip \in IP : db[ip] \in Row
  BY DEF Inv, TypeInv, TypeOK, ListTypeOK, Control, DBTypeOK
<1>b. Held
  BY DEF Inv, RunInv
<1>1. ASSUME NEW ip \in IP, ExpireSkip(ip)
      PROVE  ListInv'
  BY <1>1 DEF ExpireSkip, ExpireNext
<1>2. ASSUME NEW ip \in IP, ExpireBegin(ip)
      PROVE  ListInv'
  BY <1>2 DEF ExpireBegin, ExpireNext
<1>3. ASSUME NEW ip \in IP, RecheckSkip(ip)
      PROVE  ListInv'
  BY <1>3 DEF RecheckSkip, RecheckNext
<1>4. ASSUME NEW ip \in IP, RecheckError(ip)
      PROVE  ListInv'
  BY <1>4 DEF RecheckError, RecheckNext
<1>5. ASSUME NEW ip \in IP, NEW score \in Scores, RecheckScored(ip, score)
      PROVE  ListInv'
  <2>1. \A q \in IP : db'[q].cloudflare_item_id = db[q].cloudflare_item_id
    BY <1>5, <1>a, ItemColumn, UpdateKeepsItems DEF RecheckScored
  <2> QED
    BY <1>5, <2>1 DEF RecheckScored, RecheckNext
<1>6. CASE QueryDue
  BY <1>6 DEF QueryDue
<1>7. CASE MarkRecheck
  <2>1. \A q \in IP : db'[q].cloudflare_item_id = db[q].cloudflare_item_id
    BY <1>7, <1>a, ItemColumn, UpdateKeepsItems DEF MarkRecheck
  <2> QED
    BY <1>7, <2>1 DEF MarkRecheck
<1>8. CASE EndLifecycle
  BY <1>8 DEF EndLifecycle
<1>9. CASE DeleteAccepted
  BY <1>9, <1>a, <1>b DEF DeleteAccepted, DeleteOf, Held, ReleaseSteps
<1>10. CASE DeleteLost
  BY <1>10, <1>a, <1>b DEF DeleteLost, DeleteOf, Held, ReleaseSteps
<1>11. CASE MarkPendingDelete
  <2>1. \A q \in IP : db'[q].cloudflare_item_id = db[q].cloudflare_item_id
    BY <1>11, <1>a, ItemColumn, UpdateKeepsItems DEF MarkPendingDelete
  <2> QED
    BY <1>11, <2>1 DEF MarkPendingDelete
<1>12. CASE DeleteCompleted
  BY <1>12, <1>a DEF DeleteCompleted, DropOperation, Abandoned
<1>13. CASE MarkReleased
  <2>1. /\ db'[cur].cloudflare_item_id \in {NULL, db[cur].cloudflare_item_id}
        /\ \A q \in IP : q # cur => db'[q] = db[q]
    BY <1>13, <1>a, ItemColumn DEF MarkReleased, Update, DBTypeOK
  <2> QED
    BY <1>13, <1>a, <2>1 DEF MarkReleased
<1>14. CASE ReleaseFails
  BY <1>14, <1>a DEF ReleaseFails, DropOperation, Abandoned
<1> QED
  BY <1>1, <1>2, <1>3, <1>4, <1>5, <1>6, <1>7, <1>8, <1>9, <1>10, <1>11,
     <1>12, <1>13, <1>14 DEF LifecycleStep

(* The steps of main keep ids and addresses together: find_ip answers with *)
(* the item of the address asked for, and the row of that address alone    *)
(* remembers it.                                                           *)
LEMMA PipelineList == Inv2 /\ PipelineStep => ListInv'
<1> SUFFICES ASSUME Inv2, PipelineStep
             PROVE  ListInv'
  OBVIOUS
<1> USE DEF Inv2, ListInv, Ownership, ItemsAreOwn, Removal, Replacement, Listed,
            envVars, listVars, Picks, Skip, Begin, GoTo, NextAddress, Enter
<1>a. /\ DBTypeOK /\ items \in [IP -> MaybeItem]
      /\ op \in Operation \cup {NULL}
      /\ pc # "pick" => cur \in IP
      /\ op # NULL <=> pc \in PollSteps
      /\ \A ip \in IP : db[ip] \in Row
  BY DEF Inv, TypeInv, TypeOK, ListTypeOK, Control, DBTypeOK
<1>b. Held
  BY DEF Inv, RunInv
<1>1. ASSUME NEW ip \in IP, CollectLine(ip)
      PROVE  ListInv'
  <2>1. \A q \in IP : db'[q].cloudflare_item_id = db[q].cloudflare_item_id
    BY <1>1, <1>a, ItemColumn DEF CollectLine, Upsert, DBTypeOK
  <2>2. pc' = "pick"
    BY <1>1 DEF CollectLine, Inv, RunInv, Control
  <2> QED
    BY <1>1, <2>1, <2>2 DEF CollectLine
<1>2. CASE CollectDone
  <2>1. pc' = "pick" /\ (item' = NULL \/ UNCHANGED <<item, cur>>)
    BY <1>2, ExitTypes DEF CollectDone, Inv, RunInv, Control
  <2> QED
    BY <1>2, <2>1 DEF CollectDone
<1>3. ASSUME NEW ip \in IP, SkipActive(ip)
      PROVE  ListInv'
  BY <1>3 DEF SkipActive
<1>4. ASSUME NEW ip \in IP, SkipCached(ip)
      PROVE  ListInv'
  BY <1>4 DEF SkipCached
<1>5. ASSUME NEW ip \in IP, CheckError(ip)
      PROVE  ListInv'
  BY <1>5 DEF CheckError, CheckDue
<1>6. ASSUME NEW ip \in IP, NEW score \in Scores, CheckScored(ip, score)
      PROVE  ListInv'
  <2>1. \A q \in IP : db'[q].cloudflare_item_id = db[q].cloudflare_item_id
    BY <1>6, <1>a, ItemColumn, UpdateKeepsItems DEF CheckScored
  <2> QED
    BY <1>6, <2>1 DEF CheckScored, CheckDue
<1>7. CASE FindExisting
  BY <1>7, <1>a DEF FindExisting
<1>8. CASE FindNone
  BY <1>8, <1>a DEF FindNone
<1>9. CASE AddAccepted
  BY <1>9, <1>a DEF AddAccepted, AddOf
<1>10. CASE AddLost
  <2>1. \A q \in IP : db'[q].cloudflare_item_id = db[q].cloudflare_item_id
    BY <1>10, <1>a, ItemColumn, UpdateKeepsItems DEF AddLost
  <2> QED
    BY <1>10, <1>a, <2>1 DEF AddLost, AddOf
<1>11. CASE MarkPending
  <2>1. \A q \in IP : db'[q].cloudflare_item_id = db[q].cloudflare_item_id
    BY <1>11, <1>a, ItemColumn, UpdateKeepsItems DEF MarkPending
  <2>2. db'[cur].blocked_at = db[cur].blocked_at
    BY <1>11, <1>a, ItemColumn DEF MarkPending, Update, DBTypeOK
  <2> QED
    BY <1>11, <1>a, <2>1, <2>2 DEF MarkPending
<1>12. CASE AddCompleted
  BY <1>12, <1>a DEF AddCompleted, DropOperation, Abandoned
<1>13. CASE VerifyFound
  BY <1>13, <1>a DEF VerifyFound
<1>14. CASE MarkBlocked
  <2>1. \A q \in IP : db'[q].cloudflare_item_id = db[q].cloudflare_item_id
    BY <1>14, <1>a, ItemColumn, UpdateKeepsItems DEF MarkBlocked
  <2> QED
    BY <1>14, <2>1 DEF MarkBlocked
<1>15. CASE MarkActive
  <2>1. /\ db'[cur].cloudflare_item_id \in {item, db[cur].cloudflare_item_id}
        /\ \A q \in IP : q # cur => db'[q] = db[q]
        /\ item # NULL
    BY <1>15, <1>a, <1>b, ItemColumn DEF MarkActive, Update, DBTypeOK, Held
  <2> QED
    BY <1>15, <1>a, <2>1 DEF MarkActive
<1>16. CASE EnforceFails
  <2>1. cur \in IP
    BY <1>16, <1>a DEF EnforceFails, EnforceRaises
  <2>2. \A q \in IP : db'[q].cloudflare_item_id = db[q].cloudflare_item_id
    BY <1>16, <1>a, <2>1, ItemColumn, UpdateKeepsItems DEF EnforceFails
  <2> QED
    BY <1>16, <1>a, <2>2 DEF EnforceFails, DropOperation, Abandoned
<1>17. CASE FinishRun
  BY <1>17, ExitTypes DEF FinishRun
<1> QED
  BY <1>1, <1>2, <1>3, <1>4, <1>5, <1>6, <1>7, <1>8, <1>9, <1>10, <1>11,
     <1>12, <1>13, <1>14, <1>15, <1>16, <1>17 DEF PipelineStep

(* What an operation may do to the list: it brings at most one fresh id,   *)
(* for its own address, and otherwise only takes items away.               *)
LEMMA Effect ==
    ASSUME items \in [IP -> MaybeItem], NEW o \in Operation, TakesEffect(o)
    PROVE  /\ items' \in [IP -> MaybeItem]
           /\ \/ \E id \in ItemId, ip \in IP :
                    /\ Fresh(id)
                    /\ items'[ip] = id
                    /\ \A q \in IP : q # ip => items'[q] = items[q]
              \/ \A q \in IP : items'[q] \in {items[q], NULL}
           /\ o.kind = "delete" /\ o.item # NULL =>
                \A q \in IP : items'[q] # o.item
<1>1. CASE o.kind = "add" /\ items[o.ip] = NULL
  <2>1. o.ip \in IP
    BY DEF Operation
  <2>2. PICK id \in ItemId : Fresh(id) /\ AddTakesEffect(o.ip, id)
    BY <1>1 DEF TakesEffect
  <2>3. items' = [items EXCEPT ![o.ip] = id]
    BY <1>1, <2>2 DEF AddTakesEffect
  <2> QED
    BY <1>1, <2>1, <2>2, <2>3 DEF MaybeItem
<1>2. CASE o.kind = "add" /\ items[o.ip] # NULL
  BY <1>2 DEF TakesEffect
<1>3. CASE o.kind = "delete"
  <2>1. items' = [q \in IP |-> IF items[q] = o.item THEN NULL ELSE items[q]]
    BY <1>3 DEF TakesEffect, DeleteTakesEffect
  <2> QED
    BY <1>3, <2>1 DEF MaybeItem
<1> QED
  BY <1>1, <1>2, <1>3 DEF Operation

(* An operation that takes effect mixes no ids up, and brings back no item *)
(* that a row or the run remembers.                                        *)
LEMMA EffectKeepsOwners ==
    ASSUME Inv2, items' \in [IP -> MaybeItem], UNCHANGED <<db, item, cur>>,
           \/ \E id \in ItemId, ip \in IP :
                /\ Fresh(id)
                /\ items'[ip] = id
                /\ \A q \in IP : q # ip => items'[q] = items[q]
           \/ \A q \in IP : items'[q] \in {items[q], NULL}
    PROVE  /\ \A p, q \in IP : items'[p] # NULL /\ items'[p] = items'[q] => p = q
           /\ \A p, q \in IP :
                items'[q] # NULL /\ items'[q] = db[p].cloudflare_item_id => p = q
           /\ \A p \in IP : item # NULL /\ items'[p] = item => p = cur
           /\ \A o \in late \cup ({op} \ {NULL}) : \A q \in IP :
                o.kind = "delete" /\ items'[q] # NULL /\ items'[q] = o.item => q = o.ip
           /\ ~Listed(item) => ~Listed(item)'
           /\ \A p \in IP : ~Listed(db[p].cloudflare_item_id) =>
                ~(Listed(db[p].cloudflare_item_id)')
<1> USE DEF Inv2, ListInv, Ownership, ItemsAreOwn, Listed
<1>1. CASE \A q \in IP : items'[q] \in {items[q], NULL}
  BY <1>1
<1>2. ASSUME NEW id \in ItemId, NEW ip \in IP, Fresh(id), items'[ip] = id,
             \A q \in IP : q # ip => items'[q] = items[q]
      PROVE  /\ \A p, q \in IP : items'[p] # NULL /\ items'[p] = items'[q] => p = q
             /\ \A p, q \in IP :
                  items'[q] # NULL /\ items'[q] = db[p].cloudflare_item_id => p = q
             /\ \A p \in IP : item # NULL /\ items'[p] = item => p = cur
             /\ \A o \in late \cup ({op} \ {NULL}) : \A q \in IP :
                  o.kind = "delete" /\ items'[q] # NULL /\ items'[q] = o.item => q = o.ip
             /\ ~Listed(item) => ~Listed(item)'
             /\ \A p \in IP : ~Listed(db[p].cloudflare_item_id) =>
                  ~(Listed(db[p].cloudflare_item_id)')
  BY <1>2 DEF Fresh
<1> QED
  BY <1>1, <1>2

(* A run that starts or dies, the list in its own time, the visitors and   *)
(* the clock keep ids and addresses together.                              *)
LEMMA SurroundingsList ==
    /\ Inv2
    /\ \/ Start \/ Interrupt
       \/ OperationCompletes \/ OperationFails \/ LateCompletes \/ LateFails
       \/ \E ip \in IP : OperatorRemoves(ip) \/ OperatorAdds(ip) \/ Request(ip)
       \/ Rotate \/ Tick
       \/ UNCHANGED vars
    => ListInv'
<1> SUFFICES ASSUME Inv2,
                    \/ Start \/ Interrupt
                    \/ OperationCompletes \/ OperationFails \/ LateCompletes \/ LateFails
                    \/ \E ip \in IP : OperatorRemoves(ip) \/ OperatorAdds(ip) \/ Request(ip)
                    \/ Rotate \/ Tick
                    \/ UNCHANGED vars
             PROVE  ListInv'
  OBVIOUS
<1> USE DEF Inv2, ListInv, Ownership, ItemsAreOwn, Removal, Replacement,
            envVars, listVars, runVars
<1>a. /\ items \in [IP -> MaybeItem]
      /\ op \in Operation \cup {NULL}
      /\ late \subseteq Operation
      /\ pc # "pick" => cur \in IP
      /\ op # NULL <=> pc \in PollSteps
      /\ phase = "idle" => pc = "pick"
  BY DEF Inv, TypeInv, TypeOK, ListTypeOK, Control
<1>b. Held
  BY DEF Inv, RunInv
<1>1. CASE Start
  BY <1>1, <1>a DEF Start, Listed
<1>2. CASE Interrupt
  BY <1>2, <1>a, ExitTypes DEF Interrupt, DropOperation, Abandoned, Listed
<1>3. CASE OperationCompletes
  <2>1. op \in Operation /\ op # NULL /\ TakesEffect(op)
    BY <1>3, <1>a DEF OperationCompletes, OperationPending
  <2>2. /\ op' \in Operation /\ op' # NULL
        /\ op'.kind = op.kind /\ op'.ip = op.ip /\ op'.item = op.item
    BY <1>3, <2>1, OperationAssumption DEF OperationCompletes, Operation
  <2>3. items' \in [IP -> MaybeItem] /\ UNCHANGED <<db, item, cur, pc, late>>
    BY <1>3, <1>a, <2>1, Effect DEF OperationCompletes
  <2>4. /\ \A p, q \in IP : items'[p] # NULL /\ items'[p] = items'[q] => p = q
        /\ \A p, q \in IP :
             items'[q] # NULL /\ items'[q] = db[p].cloudflare_item_id => p = q
        /\ \A p \in IP : item # NULL /\ items'[p] = item => p = cur
        /\ \A o \in late \cup ({op} \ {NULL}) : \A q \in IP :
             o.kind = "delete" /\ items'[q] # NULL /\ items'[q] = o.item => q = o.ip
        /\ ~Listed(item) => ~Listed(item)'
        /\ \A p \in IP : ~Listed(db[p].cloudflare_item_id) =>
             ~(Listed(db[p].cloudflare_item_id)')
    BY <1>a, <2>1, <2>3, Effect, EffectKeepsOwners
  <2>5. Ownership'
    BY <2>1, <2>2, <2>3, <2>4
  <2>6. Removal'
    <3>1. CASE pc \in {"mark_pending_delete", "wait_delete"}
      <4>1. op.kind = "delete" /\ op.item = item /\ item # NULL
        BY <3>1, <1>b DEF Held, ReleaseSteps
      <4>2. ~Listed(item)'
        BY <1>a, <2>1, <4>1, <2>3, Effect DEF Listed
      <4> QED
        BY <2>2, <2>3, <4>1, <4>2, <3>1
    <3>2. CASE pc \notin {"mark_pending_delete", "wait_delete"}
      BY <3>2, <2>3, <2>4
    <3> QED
      BY <3>1, <3>2
  <2>7. Replacement'
    BY <1>a, <2>3, <2>4
  <2> QED
    BY <2>5, <2>6, <2>7
<1>4. CASE OperationFails
  <2>1. op \in Operation /\ op # NULL
    BY <1>4, <1>a DEF OperationFails, OperationPending
  <2>2. /\ op' \in Operation /\ op' # NULL /\ op'.status = "failed"
        /\ op'.kind = op.kind /\ op'.ip = op.ip /\ op'.item = op.item
    BY <1>4, <2>1, OperationAssumption DEF OperationFails, Operation
  <2>3. UNCHANGED <<db, item, items, cur, pc, late>>
    BY <1>4 DEF OperationFails
  <2> QED
    BY <2>1, <2>2, <2>3 DEF Listed
<1>5. CASE LateCompletes
  <2>1. PICK o \in late : TakesEffect(o) /\ late' = late \ {o}
    BY <1>5 DEF LateCompletes
  <2>2. items' \in [IP -> MaybeItem] /\ UNCHANGED <<db, item, cur, pc, op>>
    BY <1>5, <1>a, <2>1, Effect DEF LateCompletes
  <2>3. /\ \A p, q \in IP : items'[p] # NULL /\ items'[p] = items'[q] => p = q
        /\ \A p, q \in IP :
             items'[q] # NULL /\ items'[q] = db[p].cloudflare_item_id => p = q
        /\ \A p \in IP : item # NULL /\ items'[p] = item => p = cur
        /\ \A x \in late \cup ({op} \ {NULL}) : \A q \in IP :
             x.kind = "delete" /\ items'[q] # NULL /\ items'[q] = x.item => q = x.ip
        /\ ~Listed(item) => ~Listed(item)'
        /\ \A p \in IP : ~Listed(db[p].cloudflare_item_id) =>
             ~(Listed(db[p].cloudflare_item_id)')
    BY <1>a, <2>1, <2>2, Effect, EffectKeepsOwners
  <2>4. Ownership'
    BY <2>1, <2>2, <2>3
  <2>5. Removal' /\ Replacement'
    BY <1>a, <2>2, <2>3
  <2> QED
    BY <2>4, <2>5
<1>6. CASE LateFails
  BY <1>6, <1>a DEF LateFails, Listed
<1>7. ASSUME NEW ip \in IP, OperatorRemoves(ip)
      PROVE  ListInv'
  BY <1>7, <1>a DEF OperatorRemoves, Listed
<1>9. ASSUME NEW ip \in IP, OperatorAdds(ip)
      PROVE  ListInv'
  <2>1. AddOf(ip) \in Operation /\ TakesEffect(AddOf(ip))
    BY <1>9, OperationTypes DEF OperatorAdds, MaybeItem
  <2>2. items' \in [IP -> MaybeItem] /\ UNCHANGED <<db, item, cur, pc, op, late>>
    BY <1>9, <1>a, <2>1, Effect DEF OperatorAdds
  <2>3. /\ \A p, q \in IP : items'[p] # NULL /\ items'[p] = items'[q] => p = q
        /\ \A p, q \in IP :
             items'[q] # NULL /\ items'[q] = db[p].cloudflare_item_id => p = q
        /\ \A p \in IP : item # NULL /\ items'[p] = item => p = cur
        /\ \A x \in late \cup ({op} \ {NULL}) : \A q \in IP :
             x.kind = "delete" /\ items'[q] # NULL /\ items'[q] = x.item => q = x.ip
        /\ ~Listed(item) => ~Listed(item)'
        /\ \A p \in IP : ~Listed(db[p].cloudflare_item_id) =>
             ~(Listed(db[p].cloudflare_item_id)')
    BY <1>a, <2>1, <2>2, Effect, EffectKeepsOwners
  <2>4. Ownership'
    BY <2>2, <2>3
  <2>5. Removal' /\ Replacement'
    BY <1>a, <2>2, <2>3
  <2> QED
    BY <2>4, <2>5
<1>8. CASE \/ \E ip \in IP : Request(ip)
           \/ Rotate \/ Tick
           \/ UNCHANGED vars
  <2>1. UNCHANGED <<db, items, op, late, pc, cur, item>>
    BY <1>8 DEF Request, Rotate, Tick, vars
  <2> QED
    BY <2>1 DEF Listed
<1> QED
  BY <1>1, <1>2, <1>3, <1>4, <1>5, <1>6, <1>7, <1>8, <1>9

(* All invariants together hold of every behaviour.                        *)
LEMMA AllInvariants == Spec => []Inv2
<1>1. Init => Inv2
  BY TypeInit, RunInit, ListInvInit DEF Inv2, Inv, RunInv, RunParts, TypeInv
<1>2. Inv2 /\ [Next]_vars => Inv2'
  <2> SUFFICES ASSUME Inv2, [Next]_vars
               PROVE  Inv2'
    OBVIOUS
  <2>1. TypeInv'
    BY LifecycleTypes, PipelineTypes, SurroundingsTypes DEF Inv2, Inv, Next, RunStep
  <2>2. RunParts'
    BY LifecycleRun, PipelineRun, SurroundingsRun DEF Inv2, Next, RunStep
  <2>3. ListInv'
    BY LifecycleList, PipelineList, SurroundingsList DEF Next, RunStep
  <2> QED
    BY <2>1, <2>2, <2>3 DEF Inv2, Inv, RunInv, RunParts, TypeInv
<1> QED
  BY <1>1, <1>2, PTL DEF Spec

(* The list, the rows and the run agree on whose an item is, a release     *)
(* follows the removal, and an address is added only when its old item is  *)
(* gone, whatever the order in which operations take effect.               *)
THEOREM ListInvariant == Spec => []ListInv
<1>1. Inv2 => ListInv
  BY DEF Inv2
<1> QED
  BY AllInvariants, <1>1, PTL

(* No two rows hold the same item, and the item a row holds, or that is    *)
(* being deleted for an address, is on the list for that address only.     *)
THEOREM ItemsStayOwn == Spec => []ItemsAreOwn
<1>1. ListInv => ItemsAreOwn
  BY DEF ListInv, Ownership
<1> QED
  BY ListInvariant, <1>1, PTL
-----------------------------------------------------------------------------
(* Action properties.                                                      *)

(* Only mark_blocked and mark_released write the times of a block.         *)
LEMMA BlockColumns ==
    ASSUME NEW row \in Row
    PROVE  /\ \A score, decision, t :
                /\ update_reputation(row, score, decision, t).blocked_at = row.blocked_at
                /\ update_reputation(row, score, decision, t).expire_at = row.expire_at
           /\ record_seen(row).blocked_at = row.blocked_at
           /\ record_seen(row).expire_at = row.expire_at
           /\ \A t : /\ mark_recheck(row, t).blocked_at = row.blocked_at
                     /\ mark_recheck(row, t).expire_at = row.expire_at
           /\ \A status, id :
                /\ update_cloudflare_state(row, status, id).blocked_at = row.blocked_at
                /\ update_cloudflare_state(row, status, id).expire_at = row.expire_at
BY DEF Row, record_seen, update_reputation, mark_recheck, update_cloudflare_state

(* A write that leaves the times of its row leaves those of the table.     *)
LEMMA UpdateKeepsBlocks ==
    ASSUME DBTypeOK, NEW ip \in IP, NEW row, Update(ip, row),
           row.blocked_at = db[ip].blocked_at, row.expire_at = db[ip].expire_at
    PROVE  \A q \in IP : /\ db'[q].blocked_at = db[q].blocked_at
                          /\ db'[q].expire_at = db[q].expire_at
BY DEF DBTypeOK, Update

(* The times of a block change only in MarkBlocked and MarkReleased, for   *)
(* the address at hand.                                                    *)
LEMMA TimesOfBlocks ==
    ASSUME Inv, [Next]_vars, ~MarkBlocked, ~MarkReleased
    PROVE  \A q \in IP : /\ db'[q].blocked_at = db[q].blocked_at
                          /\ db'[q].expire_at = db[q].expire_at
<1>a. DBTypeOK /\ (pc # "pick" => cur \in IP) /\ \A ip \in IP : db[ip] \in Row
  BY DEF Inv, TypeInv, TypeOK, Control, DBTypeOK
<1> USE BlockColumns, UpdateKeepsBlocks, <1>a
<1>1. CASE UNCHANGED db
  BY <1>1
<1>2. ASSUME NEW ip \in IP, NEW score \in Scores,
             RecheckScored(ip, score) \/ CheckScored(ip, score)
      PROVE  \A q \in IP : /\ db'[q].blocked_at = db[q].blocked_at
                            /\ db'[q].expire_at = db[q].expire_at
  BY <1>2 DEF RecheckScored, CheckScored
<1>3. ASSUME NEW ip \in IP, CollectLine(ip)
      PROVE  \A q \in IP : /\ db'[q].blocked_at = db[q].blocked_at
                            /\ db'[q].expire_at = db[q].expire_at
  BY <1>3 DEF CollectLine, Upsert, DBTypeOK
<1>4. CASE MarkRecheck
  BY <1>4 DEF MarkRecheck
<1>5. CASE MarkPendingDelete \/ MarkPending \/ MarkActive \/ AddLost
  BY <1>5 DEF MarkPendingDelete, MarkPending, MarkActive, AddLost
<1>6. CASE EnforceFails
  <2>1. cur \in IP
    BY <1>6 DEF EnforceFails, EnforceRaises
  <2> QED
    BY <1>6, <2>1 DEF EnforceFails
<1>7. CASE LifecycleStep
  BY <1>1, <1>2, <1>4, <1>5, <1>7
     DEF LifecycleStep, ExpireSkip, ExpireBegin, RecheckSkip, RecheckError, QueryDue,
         EndLifecycle, DeleteAccepted, DeleteLost, DeleteCompleted, ReleaseFails
<1>8. CASE PipelineStep
  BY <1>1, <1>2, <1>3, <1>5, <1>6, <1>8
     DEF PipelineStep, SkipActive, SkipCached, CheckError, CollectDone, FindExisting,
         FindNone, AddAccepted, AddCompleted, VerifyFound, FinishRun
<1>9. CASE UNCHANGED vars \/ (Next /\ ~LifecycleStep /\ ~PipelineStep)
  BY <1>1, <1>9
     DEF vars, Next, RunStep, Start, Interrupt, OperationCompletes, OperationFails,
         LateCompletes, LateFails, OperatorRemoves, OperatorAdds, Request, Rotate, Tick
<1> QED
  BY <1>7, <1>8, <1>9 DEF Next, RunStep

(* A row leaves the lifecycle only when its item has left the list.        *)
THEOREM ReleasesFollowRemoval == Spec => ReleaseAfterRemoval
<1>1. ASSUME Inv2, [Next]_vars, NEW ip \in IP, Released(ip)
      PROVE  ~Listed(db[ip].cloudflare_item_id)
  <2>a. /\ DBTypeOK
        /\ pc # "pick" => cur \in IP
        /\ now \in Time
        /\ Held
    BY <1>1 DEF Inv2, Inv, RunInv, TypeInv, TypeOK, Control, WorkerTypeOK, Time
  <2>1. CASE MarkReleased
    <3>1. ip = cur
      BY <1>1, <2>a, <2>1 DEF MarkReleased, Update, Released, DBTypeOK
    <3> QED
      BY <1>1, <2>a, <2>1, <3>1
         DEF MarkReleased, Held, ReleaseSteps, Inv2, ListInv, Removal
  <2>2. CASE MarkBlocked
    <3>1. mark_blocked(db[cur], now).blocked_at # NULL
      BY <2>2, <2>a, NullAssumption DEF MarkBlocked, mark_blocked, DBTypeOK, Row, Time
    <3> QED
      BY <1>1, <2>a, <2>2, <3>1 DEF MarkBlocked, Update, Released, DBTypeOK
  <2>3. CASE ~MarkReleased /\ ~MarkBlocked
    BY <1>1, <2>3, TimesOfBlocks DEF Released, Inv2
  <2> QED
    BY <2>1, <2>2, <2>3
<1>2. Inv2 /\ [Next]_vars =>
        [\A ip \in IP : Released(ip) => ~Listed(db[ip].cloudflare_item_id)]_vars
  BY <1>1
<1> QED
  BY AllInvariants, <1>2, PTL DEF Spec, ReleaseAfterRemoval

(* The TTL is a maximum: the expiry of a block does not move as long as    *)
(* the item of its row is on the list.                                     *)
THEOREM TTLIsMaximum == Spec => TTLNeverExtended
<1> DEFINE Kept == \A ip \in IP :
                     /\ db[ip].blocked_at # NULL
                     /\ Listed(db[ip].cloudflare_item_id)
                     => db'[ip].expire_at = db[ip].expire_at
<1>1. ASSUME Inv2, [Next]_vars
      PROVE  Kept
  <2> SUFFICES ASSUME NEW ip \in IP,
                      db[ip].blocked_at # NULL,
                      Listed(db[ip].cloudflare_item_id)
               PROVE  db'[ip].expire_at = db[ip].expire_at
    OBVIOUS
  <2>a. /\ DBTypeOK
        /\ pc # "pick" => cur \in IP
        /\ Held
    BY <1>1 DEF Inv2, Inv, RunInv, TypeInv, TypeOK, Control
  <2>1. CASE MarkReleased
    <3>1. ip # cur
      BY <1>1, <2>a, <2>1 DEF MarkReleased, Held, ReleaseSteps, Inv2, ListInv, Removal
    <3> QED
      BY <2>a, <2>1, <3>1 DEF MarkReleased, Update, DBTypeOK
  <2>2. CASE MarkBlocked
    <3>1. ip # cur
      BY <1>1, <2>2 DEF MarkBlocked, Inv2, ListInv, Replacement
    <3> QED
      BY <2>a, <2>2, <3>1 DEF MarkBlocked, Update, DBTypeOK
  <2>3. CASE ~MarkReleased /\ ~MarkBlocked
    BY <1>1, <2>3, TimesOfBlocks DEF Inv2
  <2> QED
    BY <2>1, <2>2, <2>3
<1>2. Inv2 /\ [Next]_vars => [Kept]_vars
  BY <1>1
<1> QED
  BY AllInvariants, <1>2, PTL DEF Spec, TTLNeverExtended
-----------------------------------------------------------------------------
(* Blocks end no earlier than they should.                                 *)

(* Writing the row of one address leaves the expiry dates of the others.   *)
LEMMA OthersKeepExpiry ==
    ASSUME DBTypeOK, NEW ip \in IP, NEW row, Update(ip, row) \/ Upsert(ip, row)
    PROVE  \A q \in IP : q # ip => db'[q] = db[q]
BY DEF DBTypeOK, Update, Upsert

(* The loop of the expired blocks keeps its addresses expired until it     *)
(* comes to them.                                                          *)
LEMMA DueStep ==
    ASSUME Inv, DueInv, [Next]_vars
    PROVE  DueInv'
<1>a. /\ DBTypeOK
      /\ pc # "pick" => cur \in IP
      /\ todo \subseteq IP
      /\ now \in Int /\ at \in Int
      /\ phase \in {"idle", "collect"} => pc = "pick"
      /\ phase # "idle" => at <= now
      /\ pc \in ReleaseSteps => phase \in {"expire", "recheck"}
  BY DEF Inv, RunInv, ClockRead, TypeInv, TypeOK, WorkerTypeOK, Control, Time
<1> USE DEF DueInv, Due
<1>1. ASSUME db' = db,
             \/ UNCHANGED <<phase, pc, todo, cur, at>>
             \/ \E ip \in IP : Skip(ip)
             \/ NextAddress
             \/ Exit
             \/ \E step \in Step \ {"delete"} : pc # "pick" /\ GoTo(step)
             \/ \E ph \in Phase \ {"expire"}, S \in SUBSET IP : pc = "pick" /\ Enter(ph, S)
      PROVE  DueInv'
  <2>1. CASE UNCHANGED <<phase, pc, todo, cur, at>>
    BY <1>1, <2>1
  <2>2. CASE \E ip \in IP : Skip(ip)
    BY <1>1, <2>2 DEF Skip
  <2>3. CASE NextAddress
    BY <1>1, <2>3 DEF NextAddress
  <2>4. CASE Exit
    BY <1>1, <2>4 DEF Exit
  <2>5. CASE \E step \in Step \ {"delete"} : pc # "pick" /\ GoTo(step)
    BY <1>1, <2>5 DEF GoTo
  <2>6. CASE \E ph \in Phase \ {"expire"}, S \in SUBSET IP : pc = "pick" /\ Enter(ph, S)
    BY <1>1, <2>6 DEF Enter
  <2> QED
    BY <1>1, <2>1, <2>2, <2>3, <2>4, <2>5, <2>6
<1>2. ASSUME pc # "pick", \A q \in IP : q # cur => db'[q] = db[q],
             NextAddress \/ \E step \in Step \ {"delete"} : GoTo(step)
      PROVE  DueInv'
  <2>1. \A q \in todo : db'[q] = db[q]
    BY <1>a, <1>2
  <2> QED
    BY <1>2, <2>1 DEF NextAddress, GoTo
<1>3. ASSUME NEW ip \in IP, ExpireBegin(ip)
      PROVE  DueInv'
  BY <1>3 DEF ExpireBegin, ExpireNext, Picks, Begin
<1>4. ASSUME NEW ip \in IP, NEW score \in Scores, RecheckScored(ip, score)
      PROVE  DueInv'
  <2>1. /\ phase' = "recheck" /\ todo' = todo \ {ip} /\ at' = at
        /\ pc' # "pick" => cur' = ip
        /\ pc' = "delete" => score < BlockThreshold
    BY <1>4, <1>a DEF RecheckScored, RecheckNext, Picks, Skip, Begin
  <2>2. db[ip].decision # "ABSENT"
    BY <1>4 DEF Inv, RunInv, WorkHasRow, RecheckScored, RecheckNext, Picks
  <2>3. db'[ip] = update_reputation(db[ip], score, decide(score), now)
    BY <1>4, <1>a, <2>2 DEF RecheckScored, Update, DBTypeOK
  <2>4. db'[ip].decision = decide(score) /\ db'[ip].checked_at = now
    BY <1>a, <2>3 DEF update_reputation, DBTypeOK, Row
  <2>5. score < BlockThreshold => decide(score) # "BLOCK"
    BY ThresholdAssumption, WorkerAssumption DEF decide
  <2>6. now >= at
    BY <1>4, <1>a DEF RecheckScored, RecheckNext, Picks
  <2> QED
    BY <2>1, <2>4, <2>5, <2>6
<1>5. ASSUME NEW ip \in IP, NEW score \in Scores, CheckScored(ip, score)
      PROVE  DueInv'
  BY <1>5 DEF CheckScored, CheckDue, Picks, Skip, Begin
<1>6. ASSUME NEW ip \in IP, CollectLine(ip)
      PROVE  DueInv'
  BY <1>6, <1>a DEF CollectLine
<1>7. CASE CollectDone
  <2>1. pc = "pick" /\ db' = db
    BY <1>7, <1>a DEF CollectDone
  <2>2. Exit \/ Enter("check", todo)
    BY <1>7 DEF CollectDone
  <2>3. "check" \in Phase \ {"expire"} /\ todo \in SUBSET IP
    BY <1>a DEF Phase
  <2> QED
    BY <1>1, <2>1, <2>2, <2>3
<1>8. CASE Start
  BY <1>8, <1>a DEF Start, get_expired_blocks
<1>9. CASE \/ MarkRecheck \/ MarkPendingDelete \/ MarkReleased
           \/ MarkPending \/ MarkBlocked \/ MarkActive \/ EnforceFails \/ AddLost
  <2>1. pc # "pick" /\ cur \in IP
    BY <1>9, <1>a DEF MarkRecheck, MarkPendingDelete, MarkReleased, MarkPending,
       MarkBlocked, MarkActive, EnforceFails, EnforceRaises, AddLost
  <2>2. \E row : Update(cur, row)
    BY <1>9 DEF MarkRecheck, MarkPendingDelete, MarkReleased, MarkPending,
       MarkBlocked, MarkActive, EnforceFails, AddLost
  <2>3. NextAddress \/ \E step \in Step \ {"delete"} : GoTo(step)
    BY <1>9 DEF MarkRecheck, MarkPendingDelete, MarkReleased, MarkPending,
       MarkBlocked, MarkActive, EnforceFails, AddLost, Step
  <2> QED
    BY <1>2, <1>a, <2>1, <2>2, <2>3, OthersKeepExpiry
<1>10. CASE LifecycleStep
  <2>1. CASE \E ip \in IP : ExpireSkip(ip) \/ RecheckSkip(ip) \/ RecheckError(ip)
    BY <1>1, <2>1 DEF ExpireSkip, RecheckSkip, RecheckError
  <2>2. CASE DeleteLost \/ ReleaseFails
    BY <1>1, <2>2 DEF DeleteLost, ReleaseFails
  <2>3. CASE DeleteAccepted \/ DeleteCompleted
    BY <1>1, <2>3 DEF DeleteAccepted, DeleteCompleted, Step
  <2>4. CASE QueryDue
    BY <1>1, <2>4 DEF QueryDue, get_due_rechecks, Phase
  <2>5. CASE EndLifecycle
    BY <1>1, <2>5 DEF EndLifecycle, Phase
  <2> QED
    BY <1>3, <1>4, <1>9, <1>10, <2>1, <2>2, <2>3, <2>4, <2>5 DEF LifecycleStep
<1>11. CASE PipelineStep
  <2>1. CASE \E ip \in IP : SkipActive(ip) \/ SkipCached(ip) \/ CheckError(ip)
    BY <1>1, <2>1 DEF SkipActive, SkipCached, CheckError
  <2>2. CASE FindExisting \/ FindNone \/ AddAccepted \/ AddCompleted \/ VerifyFound
    BY <1>1, <2>2 DEF FindExisting, FindNone, AddAccepted, AddCompleted, VerifyFound, Step
  <2>3. CASE FinishRun
    BY <1>1, <2>3 DEF FinishRun
  <2> QED
    BY <1>5, <1>6, <1>7, <1>9, <1>11, <2>1, <2>2, <2>3 DEF PipelineStep
<1>12. CASE Interrupt
  BY <1>1, <1>12 DEF Interrupt
<1>13. CASE \/ OperationCompletes \/ OperationFails \/ LateCompletes \/ LateFails
            \/ \E ip \in IP : OperatorRemoves(ip) \/ OperatorAdds(ip) \/ Request(ip)
            \/ Rotate \/ Tick
            \/ UNCHANGED vars
  <2>1. UNCHANGED <<db, runVars>>
    BY <1>13 DEF OperationCompletes, OperationFails, LateCompletes, LateFails,
       OperatorRemoves, OperatorAdds, Request, Rotate, Tick, vars
  <2> QED
    BY <1>1, <2>1 DEF runVars
<1> QED
  BY <1>8, <1>10, <1>11, <1>12, <1>13 DEF Next, RunStep

(* What the query of the expiry loop found stays expired until the loop    *)
(* comes to it, and what is deleted is due.                                *)
THEOREM DueInvariant == Spec => []DueInv
<1>1. Init => DueInv
  BY DEF Init, WorkerInit, DueInv
<1>2. Inv2 /\ DueInv /\ [Next]_vars => DueInv'
  BY DueStep DEF Inv2
<1> QED
  BY AllInvariants, <1>1, <1>2, PTL DEF Spec

(* Operations are only submitted for the address at hand, each kind at its *)
(* own step.                                                               *)
LEMMA SubmittedAtHand ==
    ASSUME Inv, [Next]_vars, NEW ip \in IP, NEW o \in Submitted(ip)
    PROVE  /\ cur = ip
           /\ o.kind = "delete" => pc = "delete"
           /\ o.kind = "add" => pc = "add_ip"
<1>a. /\ \/ o = op' /\ o # NULL
         \/ o \in late' /\ o \notin late
      /\ o # op
      /\ o.status = "pending" /\ o.ip = ip
  BY DEF Submitted
<1> USE DEF listVars, DropOperation, Abandoned
<1>1. ~(UNCHANGED <<op, late>> \/ DropOperation)
  BY <1>a
<1>2. CASE DeleteAccepted \/ DeleteLost
  BY <1>2, <1>a DEF DeleteAccepted, DeleteLost, DeleteOf
<1>3. CASE AddAccepted \/ AddLost
  BY <1>3, <1>a DEF AddAccepted, AddLost, AddOf
<1>4. CASE LifecycleStep
  BY <1>1, <1>2, <1>4 DEF LifecycleStep, ExpireSkip, ExpireBegin, RecheckSkip,
     RecheckError, RecheckScored, QueryDue, MarkRecheck, EndLifecycle,
     MarkPendingDelete, DeleteCompleted, MarkReleased, ReleaseFails
<1>5. CASE PipelineStep
  BY <1>1, <1>3, <1>5 DEF PipelineStep, CollectLine, CollectDone, SkipActive, SkipCached,
     CheckError, CheckScored, FindExisting, FindNone, MarkPending, AddCompleted,
     VerifyFound, MarkBlocked, MarkActive, EnforceFails, FinishRun
<1>6. CASE OperationCompletes \/ OperationFails
  <2>1. op' \in {[op EXCEPT !.status = "completed"], [op EXCEPT !.status = "failed"]}
    BY <1>6 DEF OperationCompletes, OperationFails
  <2>2. late' = late /\ op \in Operation
    BY <1>6 DEF OperationCompletes, OperationFails, OperationPending, Inv, TypeInv,
       TypeOK, ListTypeOK
  <2>3. op'.status \in {"completed", "failed"}
    BY <2>1, <2>2 DEF Operation
  <2> QED
    BY <1>a, <2>2, <2>3
<1>7. CASE LateCompletes \/ LateFails
  BY <1>7, <1>a DEF LateCompletes, LateFails
<1>8. CASE \/ Start \/ Interrupt \/ Rotate \/ Tick \/ UNCHANGED vars
           \/ \E q \in IP : OperatorRemoves(q) \/ OperatorAdds(q) \/ Request(q)
  BY <1>1, <1>8 DEF Start, Interrupt, Rotate, Tick, OperatorRemoves, OperatorAdds,
     Request, vars
<1> QED
  BY <1>4, <1>5, <1>6, <1>7, <1>8 DEF Next, RunStep

(* An address is put on the list only in the run that judged it BLOCK.     *)
THEOREM AddsFollowJudgement == Spec => AddsRestOnFreshEvidence
<1> DEFINE JudgedNow == \A ip \in IP : \A o \in Submitted(ip) :
                         o.kind = "add" =>
                           /\ db[ip].decision = "BLOCK"
                           /\ db[ip].checked_at >= at
<1>1. ASSUME Inv2, [Next]_vars
      PROVE  JudgedNow
  BY <1>1, SubmittedAtHand DEF Inv2, Inv, RunInv, Judged, EnforceSteps
<1>2. Inv2 /\ [Next]_vars => [JudgedNow]_vars
  BY <1>1
<1> QED
  BY AllInvariants, <1>2, PTL DEF Spec, AddsRestOnFreshEvidence

(* An address is only taken off the list when its TTL is over or its score *)
(* was seen to have dropped.                                               *)
THEOREM DeletesWait == Spec => DeletesAreDue
<1> DEFINE OnlyDue == \A ip \in IP : \A o \in Submitted(ip) :
                       o.kind = "delete" =>
                         \/ db[ip].expire_at # NULL /\ db[ip].expire_at <= at
                         \/ db[ip].decision # "BLOCK" /\ db[ip].checked_at >= at
<1>1. ASSUME Inv2, DueInv, [Next]_vars
      PROVE  OnlyDue
  BY <1>1, SubmittedAtHand DEF Inv2, DueInv, Due
<1>2. Inv2 /\ DueInv /\ [Next]_vars => [OnlyDue]_vars
  BY <1>1
<1> QED
  BY AllInvariants, DueInvariant, <1>2, PTL DEF Spec, DeletesAreDue
=============================================================================
