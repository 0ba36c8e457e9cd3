---------------------------- MODULE ReputationDB ----------------------------
(***************************************************************************)
(* src/app/storage/sqlite.py: the table ip_reputation.                     *)
(*                                                                         *)
(* Each method of ReputationDB is one SQLite transaction.  A method that   *)
(* changes a row is an operator from the old row to the new one; an action *)
(* that calls it writes the result with Update, which, like the UPDATE ... *)
(* WHERE ip = ? of the code, does nothing when the address has no row.     *)
(*                                                                         *)
(* A missing row is a row whose decision is "ABSENT".  The columns no rule *)
(* of the program reads (first_seen, last_seen, request_count, last_error, *)
(* cloudflare_operation_id) are left out; set_error, which writes only     *)
(* last_error, is therefore a step that changes nothing.                   *)
(***************************************************************************)
EXTENDS Decision

CONSTANTS
    CacheAge,          \* ABUSEIPDB_CACHE_HOURS, in model ticks
    RecheckInterval,   \* RECHECK_INTERVAL_DAYS, in model ticks
    BlockTTL           \* BLOCK_TTL_DAYS, in model ticks

\* load_settings accepts any integer for the three of them.
ASSUME PeriodAssumption ==
    /\ CacheAge \in Int
    /\ RecheckInterval \in Int
    /\ BlockTTL \in Int

VARIABLE db   \* the table, one row per address

RowDecision == {"ABSENT", "UNKNOWN"} \cup Verdict

CloudflareStatus == {"PENDING", "ACTIVE", "PENDING_DELETE", "FAILED"}

ASSUME StatusAssumption == NULL \notin CloudflareStatus

Row ==
    [score              : Int \cup {NULL},
     decision           : RowDecision,
     checked_at         : MaybeTime,
     blocked_at         : MaybeTime,
     expire_at          : MaybeTime,
     next_recheck_at    : MaybeTime,
     cloudflare_status  : CloudflareStatus \cup {NULL},
     cloudflare_item_id : MaybeItem]

NoRow ==
    [score              |-> NULL,
     decision           |-> "ABSENT",
     checked_at         |-> NULL,
     blocked_at         |-> NULL,
     expire_at          |-> NULL,
     next_recheck_at    |-> NULL,
     cloudflare_status  |-> NULL,
     cloudflare_item_id |-> NULL]

DBTypeOK == db \in [IP -> Row]

DBInit == db = [ip \in IP |-> NoRow]
-----------------------------------------------------------------------------
(* The methods that change a row.                                          *)

\* INSERT ... ON CONFLICT: the only method that creates a row.
record_seen(row) ==
    IF row.decision = "ABSENT" THEN [row EXCEPT !.decision = "UNKNOWN"] ELSE row

update_reputation(row, score, decision, at) ==
    [row EXCEPT !.score = score, !.decision = decision, !.checked_at = at]

\* The two callers compute expire_at and next_recheck_at from one reading of
\* the clock, blocked_at.
mark_blocked(row, blocked_at) ==
    [row EXCEPT !.decision = "BLOCK",
                !.blocked_at = blocked_at,
                !.expire_at = blocked_at + BlockTTL,
                !.next_recheck_at = blocked_at + RecheckInterval]

mark_recheck(row, next_recheck_at) ==
    [row EXCEPT !.next_recheck_at = next_recheck_at]

\* Mutation: the decision is cleared with the other columns.
mark_released_NoDecision(row) ==
    [row EXCEPT !.decision = NULL,
                !.blocked_at = NULL,
                !.expire_at = NULL,
                !.next_recheck_at = NULL,
                !.cloudflare_status = NULL,
                !.cloudflare_item_id = NULL]

\* Mutation: the columns of Cloudflare are left as they are.
mark_released_KeepsItem(row) ==
    [row EXCEPT !.decision = "ALLOW",
                !.blocked_at = NULL,
                !.expire_at = NULL,
                !.next_recheck_at = NULL]

\* score and checked_at survive a release.
mark_released(row) ==
    [row EXCEPT !.decision = "ALLOW",
                !.blocked_at = NULL,
                !.expire_at = NULL,
                !.next_recheck_at = NULL,
                !.cloudflare_status = NULL,
                !.cloudflare_item_id = NULL]

coalesce(new, old) == IF new = NULL THEN old ELSE new

update_cloudflare_state(row, status, item_id) ==
    [row EXCEPT !.cloudflare_status = coalesce(status, @),
                !.cloudflare_item_id = coalesce(item_id, @)]

\* UPDATE ... WHERE ip = ?
Update(ip, row) ==
    db' = IF db[ip].decision = "ABSENT" THEN db ELSE [db EXCEPT ![ip] = row]

\* INSERT ... ON CONFLICT(ip) DO UPDATE
Upsert(ip, row) == db' = [db EXCEPT ![ip] = row]
-----------------------------------------------------------------------------
(* The queries.                                                            *)

needs_reputation_check(row, at) ==
    row.decision # "ABSENT" /\ row.checked_at # NULL =>
        at - row.checked_at >= CacheAge

\* Mutation: every block with an expiry is taken for an expired one.
get_expired_blocks_Early(at) ==
    {ip \in IP : /\ db[ip].decision = "BLOCK"
                 /\ db[ip].expire_at # NULL}

\* Mutation: a block expires after its last moment, not at it.
get_expired_blocks_Late(at) ==
    {ip \in IP : /\ db[ip].decision = "BLOCK"
                 /\ db[ip].expire_at # NULL
                 /\ db[ip].expire_at < at}

get_expired_blocks(at) ==
    {ip \in IP : /\ db[ip].decision = "BLOCK"
                 /\ db[ip].expire_at # NULL
                 /\ db[ip].expire_at <= at}

get_due_rechecks(at) ==
    {ip \in IP : /\ db[ip].decision = "BLOCK"
                 /\ db[ip].next_recheck_at # NULL
                 /\ db[ip].next_recheck_at <= at}

\* The row test with which main leaves an address to the lifecycle.
ActiveBlock(row) ==
    /\ row.decision = "BLOCK"
    /\ row.cloudflare_status = "ACTIVE"
    /\ row.blocked_at # NULL
=============================================================================
