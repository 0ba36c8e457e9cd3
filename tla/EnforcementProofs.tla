------------------------- MODULE EnforcementProofs -------------------------
(***************************************************************************)
(* As long as Cloudflare, SQLite and the run do not fail, and outside dry  *)
(* runs: the list and the table agree, and the worker implements           *)
(* Enforcement, for any set of addresses, item ids and scores, any         *)
(* thresholds and periods, and however often AbuseIPDB fails.              *)
(***************************************************************************)
EXTENDS WorkerProofs

Inv3 == Inv2 /\ AgreeInv

(* Nothing but AbuseIPDB fails.                                            *)
LEMMA NoFault ==
    ASSUME EnforcementWorks, NEW kind, Fault(kind)
    PROVE  kind = "abuse"
BY DEF EnforcementWorks, Fault

(* The columns of a block, after each method that changes a row.           *)
LEMMA Columns ==
    ASSUME NEW row \in Row
    PROVE  /\ \A score, decision, t :
                LET new == update_reputation(row, score, decision, t) IN
                /\ new.decision = decision
                /\ new.blocked_at = row.blocked_at
                /\ new.cloudflare_status = row.cloudflare_status
                /\ new.cloudflare_item_id = row.cloudflare_item_id
           /\ \A t :
                LET new == mark_blocked(row, t) IN
                /\ new.decision = "BLOCK"
                /\ new.blocked_at = t
                /\ new.cloudflare_item_id = row.cloudflare_item_id
           /\ \A t :
                LET new == mark_recheck(row, t) IN
                /\ new.decision = row.decision
                /\ new.blocked_at = row.blocked_at
                /\ new.cloudflare_status = row.cloudflare_status
                /\ new.cloudflare_item_id = row.cloudflare_item_id
           /\ mark_released(row).decision = "ALLOW"
           /\ mark_released(row).blocked_at = NULL
           /\ mark_released(row).cloudflare_item_id = NULL
           /\ \A status, id :
                LET new == update_cloudflare_state(row, status, id) IN
                /\ new.decision = row.decision
                /\ new.blocked_at = row.blocked_at
                /\ status # NULL => new.cloudflare_status = status
                /\ new.cloudflare_item_id =
                    IF id = NULL THEN row.cloudflare_item_id ELSE id
           /\ record_seen(row).decision \in {row.decision, "UNKNOWN"}
           /\ record_seen(row).decision = "BLOCK" <=> row.decision = "BLOCK"
           /\ record_seen(row).blocked_at = row.blocked_at
           /\ record_seen(row).cloudflare_status = row.cloudflare_status
           /\ record_seen(row).cloudflare_item_id = row.cloudflare_item_id
BY DEF Row, update_reputation, mark_blocked, mark_recheck, mark_released,
       update_cloudflare_state, coalesce, record_seen

(* Whether list and table agree about an address rests on its item and on  *)
(* four columns of its row.                                                *)
LEMMA SameAgrees ==
    ASSUME NEW ip \in IP, items'[ip] = items[ip],
           db'[ip].decision = db[ip].decision
               \/ (db'[ip].decision # "BLOCK" /\ db[ip].decision # "BLOCK"),
           db'[ip].blocked_at = db[ip].blocked_at,
           db'[ip].cloudflare_status = db[ip].cloudflare_status,
           db'[ip].cloudflare_item_id = db[ip].cloudflare_item_id,
           Agrees(ip)
    PROVE  Agrees(ip)'
BY DEF Agrees, OwnBlock, ActiveBlock

(* What the invariants of WorkerProofs say here.                           *)
LEMMA Known ==
    ASSUME Inv3
    PROVE  /\ DBTypeOK /\ items \in [IP -> MaybeItem]
           /\ op \in Operation \cup {NULL}
           /\ \A ip \in IP : db[ip] \in Row
           /\ pc \in Step /\ phase \in Phase
           /\ pc # "pick" => cur \in IP /\ db[cur].decision # "ABSENT"
           /\ phase # "idle" => \A ip \in todo : ip \in IP /\ db[ip].decision # "ABSENT"
           /\ op # NULL <=> pc \in PollSteps
           /\ phase \in {"idle", "collect"} => pc = "pick"
           /\ pc \in EnforceSteps => db[cur].decision = "BLOCK" /\ phase = "check"
           /\ pc \in ReleaseSteps => phase \in {"expire", "recheck"}
           /\ pc \in ReleaseSteps => item # NULL /\ db[cur].cloudflare_item_id = item
           /\ now \in Int /\ NULL \notin Int
           /\ \A p, q \in IP : items[p] # NULL /\ items[p] = items[q] => p = q
           /\ late = {} /\ dry = FALSE
           /\ op # NULL => op.status # "failed"
           /\ pc = "pick" => cur = NULL
           /\ \A ip \in IP : ip # cur => Agrees(ip)
           /\ Releasing /\ Blocking
<1>1. TypeOK /\ Control /\ RunInv /\ ListInv /\ AgreeInv
  BY DEF Inv3, Inv2, Inv, TypeInv
<1>2. DBTypeOK /\ ListTypeOK /\ WorkerTypeOK
  BY <1>1 DEF TypeOK
<1> QED
  BY <1>1, <1>2, NullAssumption DEF DBTypeOK, ListTypeOK, WorkerTypeOK, Control, RunInv,
     WorkHasRow, Judged, Held, ListInv, Ownership, AgreeInv

(* Steps that leave the list and the rows of all addresses as they are,    *)
(* between two addresses.                                                  *)
LEMMA Between ==
    ASSUME Inv3, pc = "pick", pc' = "pick", cur' = NULL, UNCHANGED <<db, listVars>>,
           dry' = FALSE
    PROVE  AgreeInv'
<1>1. /\ \A ip \in IP : ip # cur => Agrees(ip)
      /\ cur = NULL /\ late = {} /\ op = NULL
  BY Known DEF PollSteps
<1>2. \A ip \in IP : Agrees(ip)
  BY <1>1, NullAssumption
<1>3. \A ip \in IP : Agrees(ip)'
  BY <1>2 DEF Agrees, OwnBlock, listVars
<1>4. Releasing' /\ Blocking'
  BY DEF Releasing, Blocking, ReleaseSteps, EnforceSteps
<1> QED
  BY <1>1, <1>3, <1>4 DEF AgreeInv, listVars

(* What a step does to one address, the others still agree.                *)
LEMMA OthersAgree ==
    ASSUME Inv3, NEW ip \in IP, cur \in {ip, NULL}, ip \in {cur', cur},
           \A q \in IP : q # ip => items'[q] = items[q] /\ db'[q] = db[q]
    PROVE  \A q \in IP : q # ip => Agrees(q)'
<1>1. \A q \in IP : q # ip => Agrees(q)
  BY Known, NullAssumption
<1> QED
  BY <1>1, SameAgrees

(* The item of the address at hand is on the list until its deletion takes *)
(* effect, and no deletion fails: every release goes through.              *)
LEMMA ReleasesSucceed ==
    ASSUME EnforcementWorks, Inv3
    PROVE  ~ReleaseFails
<1>1. /\ Releasing
      /\ pc # "pick" => cur \in IP
      /\ pc \in ReleaseSteps => item # NULL
      /\ op # NULL <=> pc \in PollSteps
      /\ op # NULL => op.status # "failed"
  BY Known
<1>2. pc = "delete" => Listed(item)
  BY <1>1 DEF Releasing, Listed, ReleaseSteps
<1>3. pc = "wait_delete" => op.status # "failed"
  BY <1>1 DEF PollSteps
<1> QED
  BY <1>2, <1>3, NoFault DEF ReleaseFails, ReleaseRaises

(* The lifecycle processor leaves list and table agreeing about every      *)
(* address it is done with.                                                *)
LEMMA LifecycleAgree ==
    ASSUME EnforcementWorks, Inv3, LifecycleStep
    PROVE  AgreeInv'
<1> USE NullAssumption
<1>1. /\ DBTypeOK /\ items \in [IP -> MaybeItem]
      /\ op \in Operation \cup {NULL}
      /\ \A ip \in IP : db[ip] \in Row
      /\ pc # "pick" => cur \in IP /\ db[cur].decision # "ABSENT"
      /\ phase # "idle" => \A ip \in todo : ip \in IP /\ db[ip].decision # "ABSENT"
      /\ op # NULL <=> pc \in PollSteps
      /\ phase \in {"idle", "collect"} => pc = "pick"
      /\ pc \in ReleaseSteps => item # NULL /\ db[cur].cloudflare_item_id = item
      /\ late = {} /\ dry = FALSE
      /\ op # NULL => op.status # "failed"
      /\ pc = "pick" => cur = NULL
      /\ Releasing
      /\ pc = "pick" => \A ip \in IP : Agrees(ip)
  BY Known
<1>2. ASSUME NEW ip \in IP, Picks("expire", ip) \/ Picks("recheck", ip), Skip(ip),
             UNCHANGED <<db, listVars>>
      PROVE  AgreeInv'
  BY <1>1, <1>2, Between DEF Picks, Skip
<1>3. ASSUME NEW ip \in IP, ExpireBegin(ip)
      PROVE  AgreeInv'
  <2>1. /\ pc = "pick" /\ cur = NULL /\ op = NULL /\ Agrees(ip)
        /\ cur' = ip /\ pc' = "delete" /\ item' = db[ip].cloudflare_item_id
        /\ db[ip].cloudflare_item_id # NULL
        /\ db' = db /\ items' = items /\ op' = op /\ late' = late /\ dry' = dry
    BY <1>1, <1>3 DEF ExpireBegin, ExpireNext, Picks, Begin, listVars, PollSteps
  <2>2. \A q \in IP : q # ip => Agrees(q)'
    BY <2>1, OthersAgree
  <2>3. items[ip] = db[ip].cloudflare_item_id /\ db[ip].blocked_at # NULL
    BY <2>1 DEF Agrees, OwnBlock, ActiveBlock
  <2>4. Releasing' /\ Blocking'
    BY <2>1, <2>3 DEF Releasing, Blocking, ReleaseSteps, EnforceSteps
  <2> QED
    BY <1>1, <2>1, <2>2, <2>4 DEF AgreeInv
<1>4. ASSUME NEW ip \in IP, NEW score \in Scores, RecheckScored(ip, score)
      PROVE  AgreeInv'
  <2>1. /\ pc = "pick" /\ cur = NULL /\ op = NULL /\ Agrees(ip)
        /\ ActiveBlock(db[ip])
        /\ db[ip].decision # "ABSENT"
        /\ Update(ip, update_reputation(db[ip], score, decide(score), now))
        /\ items' = items /\ op' = op /\ late' = late
        /\ \/ score < BlockThreshold /\ Begin(ip, "delete", db[ip].cloudflare_item_id)
           \/ score >= BlockThreshold /\ Begin(ip, "mark_recheck", NULL)
    BY <1>1, <1>4 DEF RecheckScored, RecheckNext, Picks, listVars, PollSteps
  <2>2. /\ db'[ip] = update_reputation(db[ip], score, decide(score), now)
        /\ \A q \in IP : q # ip => db'[q] = db[q]
    BY <1>1, <2>1, UpdateWrites
  <2>3. /\ db'[ip].decision = decide(score)
        /\ db'[ip].blocked_at = db[ip].blocked_at
        /\ db'[ip].cloudflare_status = db[ip].cloudflare_status
        /\ db'[ip].cloudflare_item_id = db[ip].cloudflare_item_id
    BY <1>1, <2>2, Columns
  <2>4. /\ items[ip] # NULL /\ items[ip] = db[ip].cloudflare_item_id
        /\ db[ip].blocked_at # NULL /\ db[ip].decision = "BLOCK"
    BY <2>1 DEF Agrees, OwnBlock, ActiveBlock
  <2>5. cur' = ip /\ dry' = dry
    BY <2>1 DEF Begin
  <2>6. \A q \in IP : q # ip => Agrees(q)'
    BY <2>1, <2>2, <2>5, OthersAgree
  <2>7. CASE score < BlockThreshold /\ Begin(ip, "delete", db[ip].cloudflare_item_id)
    <3>1. pc' = "delete" /\ item' = db[ip].cloudflare_item_id
      BY <2>7 DEF Begin
    <3>2. Releasing' /\ Blocking'
      BY <2>1, <2>3, <2>4, <2>5, <3>1 DEF Releasing, Blocking, ReleaseSteps, EnforceSteps
    <3> QED
      BY <1>1, <2>1, <2>5, <2>6, <3>1, <3>2 DEF AgreeInv
  <2>8. CASE score >= BlockThreshold /\ Begin(ip, "mark_recheck", NULL)
    <3>1. pc' = "mark_recheck"
      BY <2>8 DEF Begin
    <3>2. decide(score) = "BLOCK"
      BY <2>8, WorkerAssumption, DecideBlock
    <3>3. Agrees(ip)'
      BY <2>1, <2>3, <2>4, <3>2, SameAgrees
    <3>4. Releasing' /\ Blocking'
      BY <2>1, <2>4, <2>5, <3>1, <3>3 DEF Releasing, Blocking, ReleaseSteps, EnforceSteps
    <3> QED
      BY <1>1, <2>1, <2>5, <2>6, <3>1, <3>4 DEF AgreeInv
  <2> QED
    BY <2>1, <2>7, <2>8
<1>5. CASE MarkRecheck
  <2>1. /\ pc = "mark_recheck" /\ cur \in IP /\ op = NULL
        /\ Update(cur, mark_recheck(db[cur], at + RecheckInterval))
        /\ items' = items /\ op' = op /\ late' = late /\ dry' = dry
        /\ pc' = "pick" /\ cur' = NULL /\ item' = NULL
    BY <1>1, <1>5 DEF MarkRecheck, NextAddress, listVars, PollSteps
  <2> PICK ip \in IP : cur = ip
    BY <2>1
  <2>2. /\ db'[ip] = mark_recheck(db[ip], at + RecheckInterval)
        /\ \A q \in IP : q # ip => db'[q] = db[q]
    BY <1>1, <2>1, UpdateWrites
  <2>3. Agrees(ip)'
    <3>1. Agrees(ip)
      BY <1>1, <2>1 DEF Releasing
    <3>2. /\ db'[ip].decision = db[ip].decision
          /\ db'[ip].blocked_at = db[ip].blocked_at
          /\ db'[ip].cloudflare_status = db[ip].cloudflare_status
          /\ db'[ip].cloudflare_item_id = db[ip].cloudflare_item_id
      BY <1>1, <2>1, <2>2, Columns
    <3> QED
      BY <2>1, <3>1, <3>2, SameAgrees
  <2>4. \A q \in IP : q # ip => Agrees(q)'
    BY <2>1, <2>2, OthersAgree
  <2>5. Releasing' /\ Blocking'
    BY <2>1 DEF Releasing, Blocking, ReleaseSteps, EnforceSteps
  <2> QED
    BY <1>1, <2>1, <2>3, <2>4, <2>5 DEF AgreeInv
<1>6. CASE QueryDue \/ EndLifecycle
  BY <1>1, <1>6, Between DEF QueryDue, EndLifecycle, Enter
<1>7. CASE DeleteAccepted
  <2>1. /\ pc = "delete" /\ cur \in IP
        /\ op' = DeleteOf(cur, item) /\ late' = late /\ items' = items /\ db' = db
        /\ item' = item /\ cur' = cur /\ dry' = dry /\ pc' = "mark_pending_delete"
    BY <1>1, <1>7, NoFault DEF DeleteAccepted, GoTo
  <2>2. /\ op'.kind = "delete" /\ op'.item = item /\ op'.status = "pending"
    BY <2>1 DEF DeleteOf
  <2>3. items[cur] = item /\ db[cur].blocked_at # NULL
    BY <1>1, <2>1 DEF Releasing, ReleaseSteps
  <2>4. Releasing' /\ Blocking'
    BY <2>1, <2>2, <2>3 DEF Releasing, Blocking, ReleaseSteps, EnforceSteps
  <2>5. \A q \in IP : q # cur => Agrees(q)'
    BY <2>1, OthersAgree
  <2> QED
    BY <1>1, <2>1, <2>2, <2>4, <2>5 DEF AgreeInv
<1>8. ~DeleteLost
  BY NoFault DEF DeleteLost
<1>9. CASE MarkPendingDelete
  <2>1. /\ pc = "mark_pending_delete" /\ cur \in IP
        /\ Update(cur, update_cloudflare_state(db[cur], "PENDING_DELETE", NULL))
        /\ op' = op /\ late' = late /\ items' = items
        /\ item' = item /\ cur' = cur /\ dry' = dry /\ pc' = "wait_delete"
    BY <1>1, <1>9 DEF MarkPendingDelete, GoTo, listVars
  <2>2. /\ db'[cur] = update_cloudflare_state(db[cur], "PENDING_DELETE", NULL)
        /\ \A q \in IP : q # cur => db'[q] = db[q]
    BY <1>1, <2>1, UpdateWrites
  <2>3. db'[cur].blocked_at = db[cur].blocked_at
    BY <1>1, <2>1, <2>2, Columns
  <2>4. Releasing' /\ Blocking'
    BY <1>1, <2>1, <2>3 DEF Releasing, Blocking, ReleaseSteps, EnforceSteps
  <2>5. \A q \in IP : q # cur => Agrees(q)'
    BY <2>1, <2>2, OthersAgree
  <2> QED
    BY <1>1, <2>1, <2>4, <2>5 DEF AgreeInv
<1>10. CASE DeleteCompleted
  <2>1. /\ pc = "wait_delete" /\ cur \in IP /\ op.status = "completed"
        /\ op' = NULL /\ late' = late /\ items' = items /\ db' = db
        /\ item' = item /\ cur' = cur /\ dry' = dry /\ pc' = "mark_released"
    BY <1>1, <1>10 DEF DeleteCompleted, DropOperation, Abandoned, GoTo
  <2>2. items[cur] = NULL /\ db[cur].blocked_at # NULL
    BY <1>1, <2>1 DEF Releasing, ReleaseSteps
  <2>3. Releasing' /\ Blocking'
    BY <2>1, <2>2 DEF Releasing, Blocking, ReleaseSteps, EnforceSteps
  <2>4. \A q \in IP : q # cur => Agrees(q)'
    BY <2>1, OthersAgree
  <2> QED
    BY <1>1, <2>1, <2>3, <2>4 DEF AgreeInv
<1>11. CASE MarkReleased
  <2>1. /\ pc = "mark_released" /\ cur \in IP /\ op = NULL
        /\ Update(cur, mark_released(db[cur]))
        /\ items' = items /\ op' = op /\ late' = late /\ dry' = dry
        /\ pc' = "pick" /\ cur' = NULL
    BY <1>1, <1>11 DEF MarkReleased, NextAddress, listVars, PollSteps
  <2> PICK ip \in IP : cur = ip
    BY <2>1
  <2>2. /\ db'[ip] = mark_released(db[ip])
        /\ \A q \in IP : q # ip => db'[q] = db[q]
    BY <1>1, <2>1, UpdateWrites
  <2>3. /\ db'[ip].decision = "ALLOW" /\ db'[ip].blocked_at = NULL
        /\ db'[ip].cloudflare_item_id = NULL
    BY <1>1, <2>1, <2>2, Columns
  <2>4. items[ip] = NULL
    BY <1>1, <2>1 DEF Releasing
  <2>5. Agrees(ip)'
    BY <2>1, <2>3, <2>4 DEF Agrees
  <2>6. \A q \in IP : q # ip => Agrees(q)'
    BY <2>1, <2>2, OthersAgree
  <2>7. Releasing' /\ Blocking'
    BY <2>1 DEF Releasing, Blocking, ReleaseSteps, EnforceSteps
  <2> QED
    BY <1>1, <2>1, <2>5, <2>6, <2>7 DEF AgreeInv
<1>12. ~ReleaseFails
  BY ReleasesSucceed
<1> QED
  BY <1>2, <1>3, <1>4, <1>5, <1>6, <1>7, <1>8, <1>9, <1>10, <1>11, <1>12
     DEF LifecycleStep, ExpireSkip, ExpireNext, RecheckSkip, RecheckNext, RecheckError

(* So does main.                                                           *)
LEMMA PipelineAgree ==
    ASSUME EnforcementWorks, Inv3, PipelineStep
    PROVE  AgreeInv'
<1> USE NullAssumption
<1>1. /\ DBTypeOK /\ items \in [IP -> MaybeItem]
      /\ op \in Operation \cup {NULL}
      /\ \A ip \in IP : db[ip] \in Row
      /\ pc # "pick" => cur \in IP /\ db[cur].decision # "ABSENT"
      /\ phase # "idle" => \A ip \in todo : ip \in IP /\ db[ip].decision # "ABSENT"
      /\ op # NULL <=> pc \in PollSteps
      /\ phase \in {"idle", "collect"} => pc = "pick"
      /\ pc \in EnforceSteps => db[cur].decision = "BLOCK"
      /\ now \in Int
      /\ late = {} /\ dry = FALSE
      /\ op # NULL => op.status # "failed"
      /\ pc = "pick" => cur = NULL
      /\ Blocking
      /\ pc = "pick" => \A ip \in IP : Agrees(ip)
  BY Known
<1>2. ASSUME NEW ip \in IP, Picks("check", ip), Skip(ip), UNCHANGED <<db, listVars>>
      PROVE  AgreeInv'
  BY <1>1, <1>2, Between DEF Picks, Skip
<1>3. ASSUME NEW ip \in IP, CollectLine(ip)
      PROVE  AgreeInv'
  <2>1. /\ pc = "pick" /\ cur = NULL /\ op = NULL /\ \A q \in IP : Agrees(q)
        /\ Upsert(ip, record_seen(db[ip]))
        /\ pc' = pc /\ cur' = cur /\ dry' = dry
        /\ items' = items /\ op' = op /\ late' = late
    BY <1>1, <1>3 DEF CollectLine, listVars, PollSteps
  <2>2. /\ db'[ip] = record_seen(db[ip])
        /\ \A q \in IP : q # ip => db'[q] = db[q]
    BY <1>1, <2>1 DEF Upsert, DBTypeOK
  <2>3. Agrees(ip)'
    <3>1. /\ db'[ip].decision \in {db[ip].decision, "UNKNOWN"}
          /\ db'[ip].decision = "BLOCK" <=> db[ip].decision = "BLOCK"
          /\ db'[ip].blocked_at = db[ip].blocked_at
          /\ db'[ip].cloudflare_status = db[ip].cloudflare_status
          /\ db'[ip].cloudflare_item_id = db[ip].cloudflare_item_id
      BY <1>1, <2>2, Columns
    <3> QED
      BY <2>1, <3>1, SameAgrees
  <2>4. \A q \in IP : q # ip => Agrees(q)'
    BY <2>1, <2>2, SameAgrees
  <2>5. Releasing' /\ Blocking'
    BY <2>1 DEF Releasing, Blocking, ReleaseSteps, EnforceSteps
  <2> QED
    BY <1>1, <2>1, <2>3, <2>4, <2>5 DEF AgreeInv
<1>4. CASE CollectDone \/ FinishRun
  <2>1. /\ pc = "pick" /\ pc' = "pick" /\ cur' = NULL /\ dry' = FALSE
        /\ UNCHANGED <<db, listVars>>
    BY <1>1, <1>4 DEF CollectDone, FinishRun, Enter, Exit
  <2> QED
    BY <2>1, Between
<1>5. ASSUME NEW ip \in IP, NEW score \in Scores, CheckScored(ip, score)
      PROVE  AgreeInv'
  <2>1. /\ pc = "pick" /\ cur = NULL /\ op = NULL /\ Agrees(ip)
        /\ \A q \in IP : Agrees(q)
        /\ ~ActiveBlock(db[ip])
        /\ db[ip].decision # "ABSENT"
        /\ Update(ip, update_reputation(db[ip], score, decide(score), now))
        /\ items' = items /\ op' = op /\ late' = late
        /\ IF decide(score) = "BLOCK" THEN Begin(ip, "find_ip", NULL) ELSE Skip(ip)
    BY <1>1, <1>5 DEF CheckScored, CheckDue, Picks, listVars, PollSteps
  <2>2. /\ db'[ip] = update_reputation(db[ip], score, decide(score), now)
        /\ \A q \in IP : q # ip => db'[q] = db[q]
    BY <1>1, <2>1, UpdateWrites
  <2>3. /\ db'[ip].decision = decide(score)
        /\ db'[ip].blocked_at = db[ip].blocked_at
        /\ db'[ip].cloudflare_item_id = db[ip].cloudflare_item_id
    BY <1>1, <2>2, Columns
  <2>4. /\ items[ip] = NULL
        /\ db[ip].blocked_at = NULL /\ db[ip].cloudflare_item_id = NULL
    BY <2>1 DEF Agrees, OwnBlock
  <2>5. \A q \in IP : q # ip => Agrees(q)'
    BY <2>1, <2>2, SameAgrees
  <2>6. CASE decide(score) = "BLOCK"
    <3>1. pc' = "find_ip" /\ cur' = ip /\ dry' = dry
      BY <2>1, <2>6 DEF Begin
    <3>2. Releasing' /\ Blocking'
      BY <2>1, <2>3, <2>4, <3>1 DEF Releasing, Blocking, Unblocked, ReleaseSteps, EnforceSteps
    <3> QED
      BY <1>1, <2>1, <2>5, <3>1, <3>2 DEF AgreeInv
  <2>7. CASE decide(score) # "BLOCK"
    <3>1. pc' = "pick" /\ cur' = NULL /\ dry' = dry
      BY <2>1, <2>7 DEF Skip
    <3>2. Agrees(ip)'
      BY <2>1, <2>3, <2>4, <2>7 DEF Agrees
    <3>3. Releasing' /\ Blocking'
      BY <3>1 DEF Releasing, Blocking, ReleaseSteps, EnforceSteps
    <3> QED
      BY <1>1, <2>1, <2>5, <3>1, <3>2, <3>3 DEF AgreeInv
  <2> QED
    BY <2>6, <2>7
<1>6. ~FindExisting
  BY <1>1 DEF FindExisting, Blocking
<1>7. CASE FindNone
  <2>1. /\ pc = "find_ip" /\ cur \in IP
        /\ op' = op /\ late' = late /\ items' = items /\ db' = db
        /\ item' = item /\ cur' = cur /\ dry' = dry /\ pc' = "add_ip"
    BY <1>1, <1>7 DEF FindNone, GoTo, listVars
  <2>2. Unblocked(cur) /\ items[cur] = NULL
    BY <1>1, <2>1 DEF Blocking, EnforceSteps
  <2>3. Releasing' /\ Blocking'
    BY <2>1, <2>2 DEF Releasing, Blocking, Unblocked, ReleaseSteps, EnforceSteps
  <2>4. \A q \in IP : q # cur => Agrees(q)'
    BY <2>1, OthersAgree
  <2> QED
    BY <1>1, <2>1, <2>3, <2>4 DEF AgreeInv
<1>8. CASE AddAccepted
  <2>1. /\ pc = "add_ip" /\ cur \in IP
        /\ op' = AddOf(cur) /\ late' = late /\ items' = items /\ db' = db
        /\ item' = item /\ cur' = cur /\ dry' = dry /\ pc' = "mark_pending"
    BY <1>1, <1>8, NoFault DEF AddAccepted, GoTo
  <2>2. op'.kind = "add" /\ op'.ip = cur /\ op'.status = "pending"
    BY <2>1 DEF AddOf
  <2>3. Unblocked(cur) /\ items[cur] = NULL
    BY <1>1, <2>1 DEF Blocking, EnforceSteps
  <2>4. Releasing' /\ Blocking'
    BY <2>1, <2>2, <2>3 DEF Releasing, Blocking, Unblocked, ReleaseSteps, EnforceSteps
  <2>5. \A q \in IP : q # cur => Agrees(q)'
    BY <2>1, OthersAgree
  <2> QED
    BY <1>1, <2>1, <2>2, <2>4, <2>5 DEF AgreeInv
<1>9. ~AddLost
  BY NoFault DEF AddLost
<1>10. CASE MarkPending
  <2>1. /\ pc = "mark_pending" /\ cur \in IP
        /\ Update(cur, update_cloudflare_state(db[cur], "PENDING", NULL))
        /\ op' = op /\ late' = late /\ items' = items
        /\ item' = item /\ cur' = cur /\ dry' = dry /\ pc' = "wait_add"
    BY <1>1, <1>10 DEF MarkPending, GoTo, listVars
  <2>2. /\ db'[cur] = update_cloudflare_state(db[cur], "PENDING", NULL)
        /\ \A q \in IP : q # cur => db'[q] = db[q]
    BY <1>1, <2>1, UpdateWrites
  <2>3. /\ db'[cur].blocked_at = db[cur].blocked_at
        /\ db'[cur].cloudflare_item_id = db[cur].cloudflare_item_id
    BY <1>1, <2>1, <2>2, Columns
  <2>4. Releasing' /\ Blocking'
    BY <1>1, <2>1, <2>3 DEF Releasing, Blocking, Unblocked, ReleaseSteps, EnforceSteps
  <2>5. \A q \in IP : q # cur => Agrees(q)'
    BY <2>1, <2>2, OthersAgree
  <2> QED
    BY <1>1, <2>1, <2>4, <2>5 DEF AgreeInv
<1>11. CASE AddCompleted
  <2>1. /\ pc = "wait_add" /\ cur \in IP /\ op.status = "completed"
        /\ op' = NULL /\ late' = late /\ items' = items /\ db' = db
        /\ item' = item /\ cur' = cur /\ dry' = dry /\ pc' = "verify"
    BY <1>1, <1>11 DEF AddCompleted, DropOperation, Abandoned, GoTo
  <2>2. Unblocked(cur) /\ items[cur] # NULL
    BY <1>1, <2>1 DEF Blocking, EnforceSteps
  <2>3. Releasing' /\ Blocking'
    BY <2>1, <2>2 DEF Releasing, Blocking, Unblocked, ReleaseSteps, EnforceSteps
  <2>4. \A q \in IP : q # cur => Agrees(q)'
    BY <2>1, OthersAgree
  <2> QED
    BY <1>1, <2>1, <2>3, <2>4 DEF AgreeInv
<1>12. CASE VerifyFound
  <2>1. /\ pc = "verify" /\ cur \in IP /\ op = NULL
        /\ item' = items[cur] /\ items[cur] # NULL
        /\ op' = op /\ late' = late /\ items' = items /\ db' = db
        /\ cur' = cur /\ dry' = dry /\ pc' = "mark_blocked"
    BY <1>1, <1>12 DEF VerifyFound, GoTo, listVars, PollSteps
  <2>2. Unblocked(cur)
    BY <1>1, <2>1 DEF Blocking, EnforceSteps
  <2>3. Releasing' /\ Blocking'
    BY <2>1, <2>2 DEF Releasing, Blocking, Unblocked, ReleaseSteps, EnforceSteps
  <2>4. \A q \in IP : q # cur => Agrees(q)'
    BY <2>1, OthersAgree
  <2> QED
    BY <1>1, <2>1, <2>3, <2>4 DEF AgreeInv
<1>13. CASE MarkBlocked
  <2>1. /\ pc = "mark_blocked" /\ cur \in IP /\ op = NULL
        /\ Update(cur, mark_blocked(db[cur], now))
        /\ op' = op /\ late' = late /\ items' = items
        /\ item' = item /\ cur' = cur /\ dry' = dry /\ pc' = "mark_active"
    BY <1>1, <1>13 DEF MarkBlocked, GoTo, listVars, PollSteps
  <2>2. /\ db'[cur] = mark_blocked(db[cur], now)
        /\ \A q \in IP : q # cur => db'[q] = db[q]
    BY <1>1, <2>1, UpdateWrites
  <2>3. db'[cur].blocked_at # NULL
    BY <1>1, <2>1, <2>2, Columns
  <2>4. item # NULL /\ items[cur] = item
    BY <1>1, <2>1 DEF Blocking
  <2>5. Releasing' /\ Blocking'
    BY <2>1, <2>3, <2>4 DEF Releasing, Blocking, ReleaseSteps, EnforceSteps
  <2>6. \A q \in IP : q # cur => Agrees(q)'
    BY <2>1, <2>2, OthersAgree
  <2> QED
    BY <1>1, <2>1, <2>5, <2>6 DEF AgreeInv
<1>14. CASE MarkActive
  <2>1. /\ pc = "mark_active" /\ cur \in IP /\ op = NULL
        /\ Update(cur, update_cloudflare_state(db[cur], "ACTIVE", item))
        /\ items' = items /\ op' = op /\ late' = late /\ dry' = dry
        /\ pc' = "pick" /\ cur' = NULL
        /\ db[cur].decision = "BLOCK"
    BY <1>1, <1>14 DEF MarkActive, NextAddress, listVars, PollSteps, EnforceSteps
  <2> PICK ip \in IP : cur = ip
    BY <2>1
  <2>2. /\ db'[ip] = update_cloudflare_state(db[ip], "ACTIVE", item)
        /\ \A q \in IP : q # ip => db'[q] = db[q]
    BY <1>1, <2>1, UpdateWrites
  <2>3. item # NULL /\ items[ip] = item /\ db[ip].blocked_at # NULL
    BY <1>1, <2>1 DEF Blocking
  <2>4. /\ db'[ip].decision = "BLOCK" /\ db'[ip].blocked_at # NULL
        /\ db'[ip].cloudflare_status = "ACTIVE" /\ db'[ip].cloudflare_item_id = item
    <3>1. "ACTIVE" # NULL
      BY StatusAssumption DEF CloudflareStatus
    <3> QED
      BY <1>1, <2>1, <2>2, <2>3, <3>1, Columns
  <2>5. Agrees(ip)'
    BY <2>1, <2>3, <2>4 DEF Agrees, OwnBlock, ActiveBlock
  <2>6. \A q \in IP : q # ip => Agrees(q)'
    BY <2>1, <2>2, OthersAgree
  <2>7. Releasing' /\ Blocking'
    BY <2>1 DEF Releasing, Blocking, ReleaseSteps, EnforceSteps
  <2> QED
    BY <1>1, <2>1, <2>5, <2>6, <2>7 DEF AgreeInv
<1>15. ~EnforceFails
  <2>1. pc = "wait_add" => op.status # "failed"
    BY <1>1 DEF PollSteps
  <2>2. pc = "verify" => items[cur] # NULL
    BY <1>1 DEF Blocking
  <2> QED
    BY <2>1, <2>2, NoFault DEF EnforceFails, EnforceRaises
<1> QED
  BY <1>2, <1>3, <1>4, <1>5, <1>6, <1>7, <1>8, <1>9, <1>10, <1>11, <1>12, <1>13,
     <1>14, <1>15
     DEF PipelineStep, SkipActive, SkipCached, CheckError, CheckDue

(* An operation that takes effect changes the address at hand and no       *)
(* other, and does what the step waits for.                                *)
LEMMA CompletionAgrees ==
    ASSUME EnforcementWorks, Inv3, OperationCompletes
    PROVE  /\ pc \in PollSteps /\ cur \in IP
           /\ \A q \in IP : q # cur => items'[q] = items[q]
           /\ op.kind = "delete" => items[cur] # NULL /\ items'[cur] = NULL
           /\ op.kind = "add" => items[cur] = NULL /\ items'[cur] # NULL
           /\ op.kind \in {"add", "delete"}
<1> USE NullAssumption
<1>1. /\ items \in [IP -> MaybeItem]
      /\ op \in Operation /\ op # NULL /\ op.status = "pending"
      /\ TakesEffect(op)
      /\ pc \in PollSteps /\ cur \in IP
      /\ Releasing /\ Blocking
      /\ pc \in ReleaseSteps => item # NULL
      /\ \A p, q \in IP : items[p] # NULL /\ items[p] = items[q] => p = q
  BY Known DEF OperationCompletes, OperationPending, PollSteps
<1>2. CASE pc \in {"mark_pending_delete", "wait_delete"}
  <2>1. op.kind = "delete" /\ op.item = item /\ items[cur] = item /\ item # NULL
    BY <1>1, <1>2 DEF Releasing, ReleaseSteps
  <2>2. items' = [q \in IP |-> IF items[q] = item THEN NULL ELSE items[q]]
    BY <1>1, <2>1 DEF TakesEffect, DeleteTakesEffect
  <2> QED
    BY <1>1, <2>1, <2>2
<1>3. CASE pc \in {"mark_pending", "wait_add"}
  <2>1. op.kind = "add" /\ op.ip = cur /\ items[cur] = NULL
    BY <1>1, <1>3 DEF Blocking
  <2>2. PICK id \in ItemId : AddTakesEffect(cur, id)
    BY <1>1, <2>1 DEF TakesEffect
  <2>3. items' = [items EXCEPT ![cur] = id]
    BY <2>1, <2>2 DEF AddTakesEffect
  <2> QED
    BY <1>1, <2>1, <2>3
<1> QED
  BY <1>1, <1>2, <1>3 DEF PollSteps

(* So do a run that begins, the list in its own time, the visitors and the *)
(* clock.                                                                  *)
LEMMA SurroundingsAgree ==
    ASSUME EnforcementWorks, Inv3,
           \/ Start \/ Interrupt
           \/ OperationCompletes \/ OperationFails \/ LateCompletes \/ LateFails
           \/ \E ip \in IP : OperatorRemoves(ip) \/ OperatorAdds(ip) \/ Request(ip)
           \/ Rotate \/ Tick
           \/ UNCHANGED vars
    PROVE  AgreeInv'
<1> USE NullAssumption
<1>1. /\ op \in Operation \cup {NULL}
      /\ pc # "pick" => cur \in IP
      /\ op # NULL <=> pc \in PollSteps
      /\ phase \in {"idle", "collect"} => pc = "pick"
      /\ late = {} /\ dry = FALSE
      /\ op # NULL => op.status # "failed"
      /\ pc = "pick" => cur = NULL
      /\ Releasing /\ Blocking
      /\ \A ip \in IP : ip # cur => Agrees(ip)
  BY Known
<1>2. CASE Start
  BY <1>1, <1>2, Between DEF Start, EnforcementWorks
<1>3. CASE OperationCompletes
  <2>1. /\ pc \in PollSteps /\ cur \in IP
        /\ \A q \in IP : q # cur => items'[q] = items[q]
        /\ op.kind = "delete" => items[cur] # NULL /\ items'[cur] = NULL
        /\ op.kind = "add" => items[cur] = NULL /\ items'[cur] # NULL
        /\ op.kind \in {"add", "delete"}
    BY <1>3, CompletionAgrees
  <2>2. /\ db' = db /\ late' = late /\ cur' = cur /\ pc' = pc /\ item' = item
        /\ dry' = dry /\ op \in Operation
        /\ op' = [op EXCEPT !.status = "completed"]
    BY <1>1, <1>3 DEF OperationCompletes, OperationPending, runVars
  <2>3. /\ op'.kind = op.kind /\ op'.item = op.item /\ op'.ip = op.ip
        /\ op'.status = "completed"
    BY <2>2 DEF Operation
  <2>4. Releasing' /\ Blocking'
    BY <1>1, <2>1, <2>2, <2>3 DEF Releasing, Blocking, Unblocked, PollSteps,
       ReleaseSteps, EnforceSteps
  <2>5. \A q \in IP : q # cur => Agrees(q)'
    BY <1>1, <2>1, <2>2, SameAgrees
  <2> QED
    BY <1>1, <2>1, <2>2, <2>3, <2>4, <2>5 DEF AgreeInv
<1>4. ~OperationFails
  <2>1. OperationPending /\ op.kind = "delete" => Listed(op.item)
    <3> SUFFICES ASSUME OperationPending, op.kind = "delete"
                 PROVE  Listed(op.item)
      OBVIOUS
    <3>1. pc \in {"mark_pending_delete", "wait_delete"} /\ cur \in IP
      BY <1>1 DEF OperationPending, PollSteps, Blocking
    <3>2. op.item = item /\ items[cur] = item /\ item # NULL
      BY <1>1, <3>1, Known DEF OperationPending, Releasing, ReleaseSteps
    <3> QED
      BY <3>1, <3>2 DEF Listed
  <2> QED
    BY <2>1, NoFault DEF OperationFails
<1>5. ~Interrupt /\ ~LateCompletes /\ ~LateFails /\ ~\E ip \in IP : OperatorRemoves(ip) \/ OperatorAdds(ip)
  BY <1>1, NoFault DEF Interrupt, LateCompletes, LateFails, OperatorRemoves, OperatorAdds
<1>6. CASE (\E ip \in IP : Request(ip)) \/ Rotate \/ Tick \/ UNCHANGED vars
  <2>1. UNCHANGED <<db, items, op, late, pc, cur, item, dry>>
    BY <1>6 DEF Request, Rotate, Tick, vars, listVars, runVars
  <2>2. \A q \in IP : q # cur => Agrees(q)'
    BY <1>1, <2>1, SameAgrees
  <2>3. Releasing' /\ Blocking'
    <3>1. pc = "mark_recheck" => cur \in IP /\ Agrees(cur)
      BY <1>1 DEF Releasing
    <3>2. Agrees(cur)' <=> Agrees(cur)
      BY <2>1 DEF Agrees, OwnBlock
    <3> QED
      BY <1>1, <2>1, <3>1, <3>2 DEF Releasing, Blocking, Unblocked
  <2> QED
    BY <1>1, <2>1, <2>2, <2>3 DEF AgreeInv
<1> QED
  BY <1>2, <1>3, <1>4, <1>5, <1>6

(* Before the first run there is nothing to agree about.                   *)
LEMMA AgreeInit == Init => AgreeInv
BY DEF Init, DBInit, ListInit, WorkerInit, NoRow, AgreeInv, Agrees, Releasing,
       Blocking, ReleaseSteps, EnforceSteps

(* Every step keeps all invariants.                                        *)
LEMMA AgreeStep ==
    ASSUME EnforcementWorks, Inv3, [Next]_vars
    PROVE  AgreeInv'
BY LifecycleAgree, PipelineAgree, SurroundingsAgree DEF Next, RunStep

(* Without a failure of enforcement, list and table agree about every      *)
(* address but the one at hand.                                            *)
THEOREM Agreement ==
    ASSUME EnforcementWorks
    PROVE  Spec => []AgreeInv
<1>1. Inv2 /\ AgreeInv /\ [Next]_vars => AgreeInv'
  BY AgreeStep DEF Inv3
<1> QED
  BY AllInvariants, AgreeInit, <1>1, PTL DEF Spec

(* Then between two runs an address is listed exactly when its row is an   *)
(* active block of that very item.                                         *)
THEOREM IdleRunsAgree ==
    ASSUME EnforcementWorks
    PROVE  Spec => []IdleAgreement
<1>1. Inv2 /\ AgreeInv => IdleAgreement
  <2> SUFFICES ASSUME Inv3, phase = "idle", NEW ip \in IP
               PROVE  Agrees(ip)
    BY DEF IdleAgreement, Inv3
  <2> QED
    BY Known, NullAssumption
<1> QED
  BY AllInvariants, Agreement, <1>1, PTL
-----------------------------------------------------------------------------
(* The refinement.                                                         *)

List == {ip \in IP : items[ip] # NULL}
Book == {ip \in IP : db[ip].blocked_at # NULL}

(* Before the first run nothing is listed or entered.                      *)
LEMMA BookInit == Init => Enforcing!Init
BY NullAssumption DEF Init, DBInit, ListInit, WorkerInit, NoRow, Enforcing!Init

(* An address is taken up between two addresses, and left for none.        *)
LEMMA OneAtATime ==
    ASSUME Inv3, [Next]_vars
    PROVE  cur' \in {cur, NULL} \/ (cur = NULL /\ cur' \in IP)
<1>1. pc = "pick" => cur = NULL
  BY Known
<1>2. CASE LifecycleStep
  BY <1>1, <1>2 DEF LifecycleStep, ExpireSkip, ExpireBegin, ExpireNext, RecheckSkip,
     RecheckError, RecheckScored, RecheckNext, Picks, QueryDue, MarkRecheck, EndLifecycle,
     DeleteAccepted, DeleteLost, MarkPendingDelete, DeleteCompleted, MarkReleased,
     ReleaseFails, Skip, Begin, GoTo, NextAddress, Enter
<1>3. CASE PipelineStep
  BY <1>1, <1>3 DEF PipelineStep, CollectLine, CollectDone, SkipActive, SkipCached,
     CheckError, CheckScored, CheckDue, Picks, FindExisting, FindNone, AddAccepted, AddLost,
     MarkPending, AddCompleted, VerifyFound, MarkBlocked, MarkActive, EnforceFails,
     FinishRun, Skip, Begin, GoTo, NextAddress, Exit, Enter
<1>4. CASE UNCHANGED vars \/ (Next /\ ~LifecycleStep /\ ~PipelineStep)
  BY <1>4 DEF vars, runVars, Next, RunStep, Start, Interrupt, Exit, OperationCompletes,
     OperationFails, LateCompletes, LateFails, OperatorRemoves, OperatorAdds, Request, Rotate, Tick
<1> QED
  BY <1>2, <1>3, <1>4

(* Nothing but the operation that is waited for changes the list.          *)
LEMMA ListKept ==
    ASSUME EnforcementWorks, Inv3, [Next]_vars, ~OperationCompletes
    PROVE  items' = items
<1>1. late = {} /\ ~\E ip \in IP : OperatorRemoves(ip) \/ OperatorAdds(ip)
  BY Known, NoFault DEF OperatorRemoves, OperatorAdds
<1>2. CASE LifecycleStep
  BY <1>2 DEF LifecycleStep, ExpireSkip, ExpireBegin, RecheckSkip, RecheckError,
     RecheckScored, QueryDue, MarkRecheck, EndLifecycle, DeleteAccepted, DeleteLost,
     MarkPendingDelete, DeleteCompleted, MarkReleased, ReleaseFails, DropOperation, listVars
<1>3. CASE PipelineStep
  BY <1>3 DEF PipelineStep, CollectLine, CollectDone, SkipActive, SkipCached,
     CheckError, CheckScored, FindExisting, FindNone, AddAccepted, AddLost, MarkPending,
     AddCompleted, VerifyFound, MarkBlocked, MarkActive, EnforceFails, FinishRun,
     DropOperation, listVars
<1>4. CASE UNCHANGED vars \/ (Next /\ ~LifecycleStep /\ ~PipelineStep)
  BY <1>1, <1>4 DEF vars, listVars, Next, RunStep, Start, Interrupt, DropOperation,
     OperationFails, LateCompletes, LateFails, Request, Rotate, Tick
<1> QED
  BY <1>2, <1>3, <1>4

(* An address is entered when it is listed, and struck when it is not.     *)
LEMMA BookChanges ==
    ASSUME EnforcementWorks, Inv3, MarkBlocked \/ MarkReleased
    PROVE  \E ip \in IP : Enforcing!EnterInBook(ip) \/ Enforcing!Strike(ip)
<1>1. /\ DBTypeOK /\ \A ip \in IP : db[ip] \in Row
      /\ pc # "pick" => cur \in IP /\ db[cur].decision # "ABSENT"
      /\ now \in Int /\ NULL \notin Int
      /\ Releasing /\ Blocking
  BY Known
<1>2. CASE MarkBlocked
  <2>1. /\ pc = "mark_blocked" /\ cur \in IP /\ items' = items /\ cur' = cur
        /\ Update(cur, mark_blocked(db[cur], now))
    BY <1>1, <1>2 DEF MarkBlocked, GoTo, listVars
  <2>2. items[cur] # NULL /\ db[cur].blocked_at = NULL
    BY <1>1, <2>1 DEF Blocking, EnforceSteps, Unblocked
  <2>3. /\ db'[cur].blocked_at = now
        /\ \A q \in IP : q # cur => db'[q] = db[q]
    BY <1>1, <2>1, UpdateWrites, Columns
  <2>4. List' = List /\ Book' = Book \cup {cur} /\ cur \in List \ Book
    BY <1>1, <2>1, <2>2, <2>3 DEF List, Book
  <2> QED
    BY <2>1, <2>4 DEF Enforcing!EnterInBook, List, Book
<1>3. CASE MarkReleased
  <2>1. /\ pc = "mark_released" /\ cur \in IP /\ items' = items /\ cur' = NULL
        /\ Update(cur, mark_released(db[cur]))
    BY <1>1, <1>3 DEF MarkReleased, NextAddress, listVars
  <2>2. items[cur] = NULL /\ db[cur].blocked_at # NULL
    BY <1>1, <2>1 DEF Releasing, ReleaseSteps
  <2>3. /\ db'[cur].blocked_at = NULL
        /\ \A q \in IP : q # cur => db'[q] = db[q]
    BY <1>1, <2>1, UpdateWrites, Columns
  <2>4. List' = List /\ Book' = Book \ {cur} /\ cur \in Book \ List
    BY <1>1, <2>1, <2>2, <2>3 DEF List, Book
  <2> QED
    BY <2>1, <2>4 DEF Enforcing!Strike, List, Book
<1> QED
  BY <1>2, <1>3

(* An operation that completes adds what is not entered, and removes what  *)
(* is.                                                                     *)
LEMMA ListChanges ==
    ASSUME EnforcementWorks, Inv3, [Next]_vars, OperationCompletes
    PROVE  \E ip \in IP : Enforcing!Add(ip) \/ Enforcing!Remove(ip)
<1>1. /\ pc \in PollSteps /\ cur \in IP
      /\ \A q \in IP : q # cur => items'[q] = items[q]
      /\ op.kind = "delete" => items[cur] # NULL /\ items'[cur] = NULL
      /\ op.kind = "add" => items[cur] = NULL /\ items'[cur] # NULL
      /\ op.kind \in {"add", "delete"}
  BY CompletionAgrees
<1>2. db' = db /\ cur' = cur
  BY DEF OperationCompletes, runVars
<1>3. Book' = Book
  BY <1>2 DEF Book
<1>4. Releasing /\ Blocking
  BY Known
<1>5. CASE pc \in {"mark_pending_delete", "wait_delete"}
  <2>1. op.kind = "delete" /\ db[cur].blocked_at # NULL
    BY <1>4, <1>5 DEF Releasing, ReleaseSteps
  <2>2. List' = List \ {cur} /\ cur \in List \cap Book
    BY <1>1, <2>1 DEF List, Book
  <2> QED
    BY <1>1, <1>2, <1>3, <2>2 DEF Enforcing!Remove, List, Book
<1>6. CASE pc \in {"mark_pending", "wait_add"}
  <2>1. op.kind = "add" /\ db[cur].blocked_at = NULL
    BY <1>4, <1>6 DEF Blocking, EnforceSteps, Unblocked
  <2>2. List' = List \cup {cur} /\ cur \notin List \cup Book
    BY <1>1, <2>1 DEF List, Book
  <2> QED
    BY <1>1, <1>2, <1>3, <2>2 DEF Enforcing!Add, List, Book
<1> QED
  BY <1>1, <1>5, <1>6 DEF PollSteps

(* Every step of the worker is a step of Enforcement, or none.             *)
LEMMA BookStep ==
    ASSUME EnforcementWorks, Inv3, [Next]_vars
    PROVE  [Enforcing!Next]_(Enforcing!bookVars)
<1> USE NullAssumption
<1>1. CASE MarkBlocked \/ MarkReleased
  BY <1>1, BookChanges DEF Enforcing!Next
<1>2. CASE OperationCompletes
  BY <1>2, ListChanges DEF Enforcing!Next
<1>3. CASE ~MarkBlocked /\ ~MarkReleased /\ ~OperationCompletes
  <2>1. items' = items
    BY <1>3, ListKept
  <2>2. \A ip \in IP : db'[ip].blocked_at = db[ip].blocked_at
    BY <1>3, TimesOfBlocks DEF Inv3, Inv2
  <2>3. List' = List /\ Book' = Book
    BY <2>1, <2>2 DEF List, Book
  <2>4. cur \in IP \cup {NULL}
    BY DEF Inv3, Inv2, Inv, TypeInv, TypeOK, WorkerTypeOK
  <2>5. CASE cur' = cur
    BY <2>3, <2>5 DEF Enforcing!bookVars, List, Book
  <2>6. CASE cur = NULL /\ cur' \in IP
    <3>1. Enforcing!Take(cur')
      BY <2>3, <2>6 DEF Enforcing!Take, List, Book
    <3> QED
      BY <2>6, <3>1 DEF Enforcing!Next
  <2>7. CASE cur \in IP /\ cur' = NULL
    <3>1. AgreeInv'
      BY AgreeStep
    <3>2. \A ip \in IP : Agrees(ip)'
      BY <2>7, <3>1 DEF AgreeInv
    <3>3. cur \in List <=> cur \in Book
      BY <2>1, <2>2, <2>7, <3>2 DEF Agrees, OwnBlock, ActiveBlock, List, Book
    <3>4. Enforcing!Leave(cur)
      BY <2>3, <2>7, <3>3 DEF Enforcing!Leave, List, Book
    <3> QED
      BY <2>7, <3>4 DEF Enforcing!Next
  <2> QED
    BY <2>4, <2>5, <2>6, <2>7, OneAtATime
<1> QED
  BY <1>1, <1>2, <1>3

(* Without a failure of enforcement the worker implements Enforcement: an  *)
(* address is entered in the table after it was put on the list, struck    *)
(* after it was taken off, and left only when both agree about it.         *)
THEOREM BookIsKept ==
    ASSUME EnforcementWorks
    PROVE  Spec => KeepsTheBook
<1>1. Inv2 /\ AgreeInv /\ [Next]_vars => [Enforcing!Next]_(Enforcing!bookVars)
  BY BookStep DEF Inv3
<1> QED
  BY AllInvariants, Agreement, BookInit, <1>1, PTL DEF Spec, KeepsTheBook, Enforcing!Spec
=============================================================================
