--------------------------- MODULE BlockLifecycle ---------------------------
(***************************************************************************)
(* src/app/lifecycle/processor.py: BlockLifecycleProcessor.                *)
(*                                                                         *)
(* run() releases the blocks whose TTL is over (phase "expire"), then asks *)
(* AbuseIPDB again about the blocks due for a recheck (phase "recheck"),   *)
(* and releases or keeps each.  Both loops release with the same calls in  *)
(* the same order: delete_item, PENDING_DELETE, wait_for_operation,        *)
(* mark_released; an exception in any of them is stored with set_error and *)
(* the loop goes on.                                                       *)
(*                                                                         *)
(* The rows of a loop are read once, before it.  The worker is the only    *)
(* writer of the table and a loop visits an address once, so the row read  *)
(* then is the row of the table when the loop reaches the address: Begin   *)
(* takes the item id from it, and every later step uses that copy.         *)
(***************************************************************************)
EXTENDS WorkerState

\* ORDER BY expire_at ASC
ExpireNext(ip) ==
    /\ Picks("expire", ip)
    /\ \A other \in todo : db[ip].expire_at <= db[other].expire_at

\* No ACTIVE item to delete, or a dry run.
ExpireSkip(ip) ==
    /\ ExpireNext(ip)
    /\ \/ db[ip].cloudflare_status # "ACTIVE"
       \/ db[ip].cloudflare_item_id = NULL
       \/ dry
    /\ Skip(ip)
    /\ UNCHANGED <<db, listVars, envVars>>

\* Mutation: the dry-run test is missing.
ExpireBegin_Wet(ip) ==
    /\ ExpireNext(ip)
    /\ db[ip].cloudflare_status = "ACTIVE"
    /\ db[ip].cloudflare_item_id # NULL
    /\ Begin(ip, "delete", db[ip].cloudflare_item_id)
    /\ UNCHANGED <<db, listVars, envVars>>

\* Mutation: the loop goes on without the item id of the row.
ExpireBegin_NoItem(ip) ==
    /\ ExpireNext(ip)
    /\ db[ip].cloudflare_status = "ACTIVE"
    /\ db[ip].cloudflare_item_id # NULL
    /\ ~dry
    /\ Begin(ip, "delete", NULL)
    /\ UNCHANGED <<db, listVars, envVars>>

ExpireBegin(ip) ==
    /\ ExpireNext(ip)
    /\ db[ip].cloudflare_status = "ACTIVE"
    /\ db[ip].cloudflare_item_id # NULL
    /\ ~dry
    /\ Begin(ip, "delete", db[ip].cloudflare_item_id)
    /\ UNCHANGED <<db, listVars, envVars>>

\* The first loop is over: query the rechecks, with a new reading of the clock.
QueryDue ==
    /\ phase = "expire"
    /\ pc = "pick"
    /\ todo = {}
    /\ Enter("recheck", get_due_rechecks(now))
    /\ UNCHANGED <<db, listVars, envVars>>
-----------------------------------------------------------------------------
\* ORDER BY next_recheck_at ASC
RecheckNext(ip) ==
    /\ Picks("recheck", ip)
    /\ \A other \in todo : db[ip].next_recheck_at <= db[other].next_recheck_at

\* Not an ACTIVE automated block.
RecheckSkip(ip) ==
    /\ RecheckNext(ip)
    /\ ~ActiveBlock(db[ip])
    /\ Skip(ip)
    /\ UNCHANGED <<db, listVars, envVars>>

\* AbuseIPDB cannot be asked: set_error, and the row stays due.
RecheckError(ip) ==
    /\ RecheckNext(ip)
    /\ ActiveBlock(db[ip])
    /\ Fault("abuse")
    /\ Skip(ip)
    /\ UNCHANGED <<db, listVars>>

\* The new score and verdict are saved before anything is released: keep the
\* block, stop there in a dry run, or go on to delete the item.
RecheckScored(ip, score) ==
    /\ RecheckNext(ip)
    /\ ActiveBlock(db[ip])
    /\ Update(ip, update_reputation(db[ip], score, decide(score), now))
    /\ \/ /\ score < BlockThreshold
          /\ dry
          /\ Skip(ip)
       \/ /\ score < BlockThreshold
          /\ ~dry
          /\ Begin(ip, "delete", db[ip].cloudflare_item_id)
       \/ /\ score >= BlockThreshold
          /\ Begin(ip, "mark_recheck", NULL)
    /\ UNCHANGED <<listVars, envVars>>

\* Mutation: the kept block is not rescheduled.
MarkRecheck_Forgotten ==
    /\ pc = "mark_recheck"
    /\ NextAddress
    /\ UNCHANGED <<db, listVars, envVars>>

\* The next recheck counts from the clock read before the loop.
MarkRecheck ==
    /\ pc = "mark_recheck"
    /\ Update(cur, mark_recheck(db[cur], at + RecheckInterval))
    /\ NextAddress
    /\ UNCHANGED <<listVars, envVars>>

\* What collect is going to meet in the log: without a saved offset it starts at
\* the end, whatever is in it (nginx.py:138-145).
AheadOfStart == IF position THEN logged ELSE {}

\* The lifecycle is over, and collect begins with stat.
EndLifecycle ==
    /\ phase = "recheck"
    /\ pc = "pick"
    /\ todo = {}
    /\ Enter("collect", {})
    /\ logged' = AheadOfStart
    /\ UNCHANGED <<db, listVars, now, faults, position>>
-----------------------------------------------------------------------------
(* Releasing cur, whose item is item.                                      *)

\* The request may be the retry by _request of one that was accepted too, and
\* whose response was lost.
DeleteAccepted ==
    /\ pc = "delete"
    /\ op' = DeleteOf(cur, item)
    /\ \/ UNCHANGED <<late, envVars>>
       \/ /\ Fault("lost")
          /\ late' = late \cup {DeleteOf(cur, item)}
    /\ GoTo("mark_pending_delete")
    /\ UNCHANGED <<db, items, item>>

\* Every attempt was answered with an error, but one of them was accepted.
DeleteLost ==
    /\ pc = "delete"
    /\ Fault("lost")
    /\ late' = late \cup {DeleteOf(cur, item)}
    /\ NextAddress
    /\ UNCHANGED <<db, items, op>>

\* Mutation: the release is recorded without waiting for the operation.
MarkPendingDelete_NoWait ==
    /\ pc = "mark_pending_delete"
    /\ Update(cur, update_cloudflare_state(db[cur], "PENDING_DELETE", NULL))
    /\ DropOperation
    /\ GoTo("mark_released")
    /\ UNCHANGED <<item, envVars>>

\* Mutation: the item id is forgotten when the delete is accepted.
MarkPendingDelete_DropsItem ==
    /\ pc = "mark_pending_delete"
    /\ Update(cur, [db[cur] EXCEPT !.cloudflare_status = "PENDING_DELETE",
                                   !.cloudflare_item_id = NULL])
    /\ GoTo("wait_delete")
    /\ UNCHANGED <<item, listVars, envVars>>

MarkPendingDelete ==
    /\ pc = "mark_pending_delete"
    /\ Update(cur, update_cloudflare_state(db[cur], "PENDING_DELETE", NULL))
    /\ GoTo("wait_delete")
    /\ UNCHANGED <<item, listVars, envVars>>

DeleteCompleted ==
    /\ pc = "wait_delete"
    /\ op.status = "completed"
    /\ DropOperation
    /\ GoTo("mark_released")
    /\ UNCHANGED <<db, item, envVars>>

MarkReleased ==
    /\ pc = "mark_released"
    /\ Update(cur, mark_released(db[cur]))
    /\ NextAddress
    /\ UNCHANGED <<listVars, envVars>>

\* What makes a call of the release raise.
ReleaseRaises ==
    \/ /\ pc = "delete"
       /\ Fault("rejected")
    \/ /\ pc = "delete"
       /\ ~Listed(item)        \* Cloudflare knows no such item
       /\ UNCHANGED envVars
    \/ /\ pc = "wait_delete"
       /\ op.status = "failed"
       /\ UNCHANGED envVars
    \/ /\ pc = "wait_delete"
       /\ op.status # "failed"
       /\ Fault("timeout")
    \/ /\ pc \in {"mark_pending_delete", "mark_released"}
       /\ Fault("db")

\* Mutation: a release that fails is tried again at once.
ReleaseFails_Retries ==
    /\ ReleaseRaises
    /\ DropOperation
    /\ GoTo("delete")
    /\ UNCHANGED <<db, item>>

\* except Exception: set_error, and on to the next address.
ReleaseFails ==
    /\ ReleaseRaises
    /\ DropOperation
    /\ NextAddress
    /\ UNCHANGED db
-----------------------------------------------------------------------------
LifecycleStep ==
    \/ \E ip \in IP :
        \/ ExpireSkip(ip)
        \/ ExpireBegin(ip)
        \/ RecheckSkip(ip)
        \/ RecheckError(ip)
        \/ \E score \in Scores : RecheckScored(ip, score)
    \/ QueryDue
    \/ MarkRecheck
    \/ EndLifecycle
    \/ DeleteAccepted
    \/ DeleteLost
    \/ MarkPendingDelete
    \/ DeleteCompleted
    \/ MarkReleased
    \/ ReleaseFails
=============================================================================
