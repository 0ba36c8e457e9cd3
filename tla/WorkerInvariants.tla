-------------------------- MODULE WorkerInvariants --------------------------
(***************************************************************************)
(* Why the requirements hold: what is true at each step of a run.  Each    *)
(* invariant here strengthens requirements of WorkerRequirements so that   *)
(* every step preserves it; WorkerProofs proves that it does.              *)
(***************************************************************************)
EXTENDS WorkerRequirements

ReleaseSteps ==
    {"delete", "mark_pending_delete", "wait_delete", "mark_released"}

EnforceSteps ==
    {"find_ip", "add_ip", "mark_pending", "wait_add", "verify",
     "mark_blocked", "mark_active"}

PollSteps == {"mark_pending_delete", "wait_delete", "mark_pending", "wait_add"}

\* The columns of a block come and go together.
WellFormed(row) ==
    /\ row.cloudflare_item_id # NULL => row.blocked_at # NULL
    /\ row.blocked_at # NULL =>
        /\ row.expire_at = row.blocked_at + BlockTTL
        /\ row.next_recheck_at # NULL
    /\ row.blocked_at = NULL =>
        /\ row.expire_at = NULL
        /\ row.next_recheck_at = NULL
    /\ row.cloudflare_status \in {"ACTIVE", "PENDING_DELETE"} =>
        row.cloudflare_item_id # NULL

\* What holds of every row at every moment.
RowInv(row) == HasEvidence(row) /\ WellFormed(row)

\* Which steps belong to which loop, and when the worker polls an operation.
Control ==
    /\ phase \in {"idle", "collect"} => pc = "pick"
    /\ pc \in ReleaseSteps => phase \in {"expire", "recheck"}
    /\ pc = "mark_recheck" => phase = "recheck"
    /\ pc \in EnforceSteps => phase = "check"
    /\ pc # "pick" => cur \in IP
    /\ op # NULL <=> pc \in PollSteps
    /\ dry => pc \in {"pick", "mark_recheck"}

\* Every address of a loop has a row, so no Update of the loop is lost.
WorkHasRow ==
    /\ phase # "idle" => \A ip \in todo : db[ip].decision # "ABSENT"
    /\ pc # "pick" => db[cur].decision # "ABSENT"

\* What is enforced was judged BLOCK by this very run.
Judged ==
    pc \in EnforceSteps =>
        /\ db[cur].decision = "BLOCK"
        /\ db[cur].checked_at # NULL
        /\ db[cur].checked_at >= at

ClockRead == phase # "idle" => at <= now

\* What a release or an activation holds for cur while its calls are made.
Held ==
    /\ pc \in ReleaseSteps =>
        /\ item # NULL
        /\ db[cur].cloudflare_item_id = item
    /\ pc \in {"mark_blocked", "mark_active"} => item # NULL
    /\ pc \in {"mark_active", "mark_recheck"} => db[cur].blocked_at # NULL

\* The strengthening of BlockHasEvidence, ActiveHasLifecycle, DryRunOnlyLooks
\* and AddsRestOnFreshEvidence: at every step of a run, the control state, the
\* row of the address at hand and what the run holds for it fit together,
\* wherever a call may fail or the run may die.
RunInv ==
    /\ Control
    /\ WorkHasRow
    /\ Judged
    /\ ClockRead
    /\ Held
    /\ \A ip \in IP : RowInv(db[ip])

\* The end of the block of ip has come: its TTL is over, or it was checked again
\* by this run.
Due(ip) ==
    \/ db[ip].expire_at # NULL /\ db[ip].expire_at <= at
    \/ db[ip].decision # "BLOCK" /\ db[ip].checked_at >= at

\* The strengthening of DeletesAreDue: what the query of the expiry loop found
\* stays expired until the loop comes to it.
DueInv ==
    /\ pc # "pick" => cur \notin todo
    /\ phase = "expire" =>
        \A ip \in todo : db[ip].expire_at # NULL /\ db[ip].expire_at <= at
    /\ pc = "delete" => Due(cur)
-----------------------------------------------------------------------------
\* An id names one address wherever it appears: in the list, in a row, and in
\* the memory of the run.
Ownership ==
    /\ ItemsAreOwn
    /\ \A p, q \in IP : items[p] # NULL /\ items[p] = items[q] => p = q
    /\ \A p \in IP :
        /\ item # NULL /\ items[p] = item => p = cur
        /\ item # NULL /\ db[p].cloudflare_item_id = item => p = cur

\* Once the delete of an item has completed, the item does not come back.
Removal ==
    /\ pc \in {"mark_pending_delete", "wait_delete"} =>
        /\ op.kind = "delete"
        /\ op.item = item
        /\ op.status = "completed" => ~Listed(item)
    /\ pc = "mark_released" => ~Listed(item)

\* An address is added only when the item its row remembers, if any, is gone.
Replacement ==
    /\ pc \in {"add_ip", "mark_pending", "wait_add", "verify", "mark_blocked"}
    /\ db[cur].blocked_at # NULL
    => ~Listed(db[cur].cloudflare_item_id)

\* The strengthening of ItemsAreOwn, ReleaseAfterRemoval and TTLNeverExtended:
\* the list, whose operations land in any order and at any time, against what
\* the rows and the run believe of it.
ListInv ==
    /\ Ownership
    /\ Removal
    /\ Replacement
-----------------------------------------------------------------------------
(* Without a failure of Cloudflare, SQLite or the run, and without dry     *)
(* runs.                                                                   *)

\* AbuseIPDB may fail, nothing else.
EnforcementWorks == Faults \subseteq {"abuse"} /\ DryRunModes \subseteq {FALSE}

Unblocked(ip) == db[ip].blocked_at = NULL /\ db[ip].cloudflare_item_id = NULL

\* The list and the row of the address that is being released.
Releasing ==
    /\ pc \in ReleaseSteps => db[cur].blocked_at # NULL
    /\ pc = "delete" => items[cur] = item
    /\ pc \in {"mark_pending_delete", "wait_delete"} =>
        /\ op.kind = "delete" /\ op.item = item
        /\ op.status = "pending" => items[cur] = item
        /\ op.status = "completed" => items[cur] = NULL
    /\ pc = "mark_released" => items[cur] = NULL
    /\ pc = "mark_recheck" => items[cur] # NULL /\ Agrees(cur)

\* The list and the row of the address that is being blocked.
Blocking ==
    /\ pc \in EnforceSteps \ {"mark_active"} => Unblocked(cur)
    /\ pc \in {"find_ip", "add_ip"} => items[cur] = NULL
    /\ pc \in {"mark_pending", "wait_add"} =>
        /\ op.kind = "add" /\ op.ip = cur
        /\ op.status = "pending" => items[cur] = NULL
        /\ op.status = "completed" => items[cur] # NULL
    /\ pc = "verify" => items[cur] # NULL
    /\ pc \in {"mark_blocked", "mark_active"} => item # NULL /\ items[cur] = item
    /\ pc = "mark_active" => db[cur].blocked_at # NULL

\* The strengthening of IdleAgreement: list and table agree about every address
\* but the one at hand, and about that one the step says what is still missing.
AgreeInv ==
    /\ late = {}
    /\ dry = FALSE
    /\ op # NULL => op.status # "failed"
    /\ pc = "pick" => cur = NULL
    /\ \A ip \in IP : ip # cur => Agrees(ip)
    /\ Releasing
    /\ Blocking
-----------------------------------------------------------------------------
\* A block is checked again no earlier than a recheck interval after the check
\* its row remembers.
Rescheduled(row) ==
    row.blocked_at # NULL =>
        /\ row.checked_at # NULL
        /\ row.next_recheck_at >= row.checked_at + RecheckInterval

\* Rechecks are due when they are made, and once made or given up they are not
\* due again soon.  A run is over before the clock ticks.
Spacing ==
    /\ phase # "idle" => at = now
    /\ phase = "recheck" => \A ip \in todo : db[ip].next_recheck_at <= at
    /\ \A ip \in IP :
        /\ db[ip].checked_at # NULL => db[ip].checked_at <= now
        /\ ip # cur \/ pc \notin ReleaseSteps \cup {"mark_recheck"} =>
            Rescheduled(db[ip])

\* The loop of the expired blocks has all of them still ahead or at hand.
Clearing ==
    phase = "expire" =>
        \A ip \in IP :
            /\ db[ip].expire_at # NULL
            /\ db[ip].expire_at <= at
            => ip \in todo \cup {cur}

\* The strengthening of RunsClearExpired and, for runs shorter than a tick, of
\* QueriesAreSpaced: what the dates of the rows say while the loops act on them.
ScheduleInv == Clearing /\ (SlowRuns \/ Spacing)
=============================================================================
