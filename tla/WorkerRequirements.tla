------------------------- MODULE WorkerRequirements -------------------------
(***************************************************************************)
(* What a run of the worker must keep true, whatever fails around it, and  *)
(* what must eventually happen.                                            *)
(***************************************************************************)
EXTENDS Worker, FiniteSets

(* The variables have the types their modules declare: the rows of         *)
(* ip_reputation, the list and the memory of a run.                        *)
TypeOK == DBTypeOK /\ ListTypeOK /\ WorkerTypeOK
-----------------------------------------------------------------------------
(* Safety invariants.                                                      *)

HasEvidence(row) ==
    row.decision = "BLOCK" =>
        /\ row.checked_at # NULL
        /\ row.score # NULL
        /\ row.score >= BlockThreshold

\* No block without evidence: a row says BLOCK only on a score AbuseIPDB gave
\* and that reaches the threshold, although mark_blocked writes BLOCK without
\* looking at the score (sqlite.py:267) and updates of the two loops interleave
\* with crashes and failures.
BlockHasEvidence == \A ip \in IP : HasEvidence(db[ip])

\* A row that main treats as an active block has all the lifecycle needs to end
\* it: an item to delete and the time of the next recheck and of the expiry,
\* although the columns are written by separate transactions (main.py:621-633)
\* any of which may fail.
ActiveHasLifecycle ==
    \A ip \in IP : db[ip].cloudflare_status \in {"ACTIVE", "PENDING_DELETE"} =>
        /\ db[ip].cloudflare_item_id # NULL
        /\ db[ip].blocked_at # NULL
        /\ db[ip].expire_at = db[ip].blocked_at + BlockTTL
        /\ db[ip].next_recheck_at # NULL

\* Items are not mixed up: no two rows hold the same item, and a row's item, if
\* the list still has it, is the item of that row's address - so that deleting
\* the item of a row (processor.py:155, 356) never unblocks somebody else.  The
\* same holds of the deletes still under way.
ItemsAreOwn ==
    /\ \A p, q \in IP :
        /\ db[p].cloudflare_item_id # NULL
        /\ db[p].cloudflare_item_id = db[q].cloudflare_item_id
        => p = q
    /\ \A p, q \in IP :
        /\ items[q] # NULL
        /\ items[q] = db[p].cloudflare_item_id
        => p = q
    /\ \A o \in late \cup ({op} \ {NULL}) : \A q \in IP :
        /\ o.kind = "delete"
        /\ items[q] # NULL
        /\ items[q] = o.item
        => q = o.ip

\* A dry run only looks: it never has an operation under way, nor a call to
\* make that would start one or record one (main.py:451, processor.py:136, 337).
DryRunOnlyLooks ==
    dry => /\ op = NULL
           /\ pc \in {"pick", "mark_recheck"}
-----------------------------------------------------------------------------
(* Action properties.                                                      *)

Released(ip) == db[ip].blocked_at # NULL /\ db'[ip].blocked_at = NULL

\* A row leaves the lifecycle only when its item has left the list: the release
\* is recorded after the delete was seen to complete (processor.py:165-181,
\* 366-382), and nothing puts that item back.
ReleaseAfterRemoval ==
    [][\A ip \in IP : Released(ip) => ~Listed(db[ip].cloudflare_item_id)]_vars

\* The operations on ip that this step submits, polled or not.
Submitted(ip) ==
    {o \in ({op'} \ {op, NULL}) \cup (late' \ (late \cup {op})) :
        o.status = "pending" /\ o.ip = ip}

\* An address is only taken off the list when its TTL is over, or when this run
\* asked AbuseIPDB again and the score no longer reaches the threshold: not
\* because a query failed, a row is old or another address is due
\* (processor.py:99-157, 268-358).
DeletesAreDue ==
    [][\A ip \in IP : \A o \in Submitted(ip) :
        o.kind = "delete" =>
            \/ db[ip].expire_at # NULL /\ db[ip].expire_at <= at
            \/ db[ip].decision # "BLOCK" /\ db[ip].checked_at >= at]_vars

\* The TTL of a block is a maximum: as long as the row's item is on the list,
\* neither a recheck (processor.py:429) nor adopting the item again after a
\* failure (main.py:500-532) moves its expiry.
TTLNeverExtended ==
    [][\A ip \in IP :
        /\ db[ip].blocked_at # NULL
        /\ Listed(db[ip].cloudflare_item_id)
        => db'[ip].expire_at = db[ip].expire_at]_vars

\* An address is put on the list only in the run that judged it BLOCK: a cached
\* verdict, however old, never starts an enforcement (main.py:287-303).
AddsRestOnFreshEvidence ==
    [][\A ip \in IP : \A o \in Submitted(ip) :
        o.kind = "add" =>
            /\ db[ip].decision = "BLOCK"
            /\ db[ip].checked_at >= at]_vars
-----------------------------------------------------------------------------
(* Properties of a system without enforcement failures.                    *)

OwnBlock(ip) ==
    /\ ActiveBlock(db[ip])
    /\ db[ip].cloudflare_item_id = items[ip]

\* An address is listed exactly when its row is an active block of that very
\* item, and otherwise the row keeps nothing of a block.
Agrees(ip) ==
    IF items[ip] # NULL
    THEN OwnBlock(ip)
    ELSE /\ db[ip].decision # "BLOCK"
         /\ db[ip].blocked_at = NULL
         /\ db[ip].cloudflare_item_id = NULL

\* Between two runs the table and the list agree about every address.
IdleAgreement == phase = "idle" => \A ip \in IP : Agrees(ip)

\* The queries of AbuseIPDB about ip: answered or not, saved or not.
Asks(ip) ==
    \/ RecheckError(ip)
    \/ CheckError(ip)
    \/ \E score \in Scores : RecheckScored(ip, score) \/ CheckScored(ip, score)

\* The AbuseIPDB quota: the cache of main and the recheck dates of the lifecycle
\* together never ask again about an address within the shorter of their periods
\* after the last answer that was saved.  A query that failed, or whose answer
\* was not saved, counts for nothing: the next run asks again (main.py:315-341,
\* processor.py:268-286, 428-441).
QueriesAreSpaced ==
    [][\A ip \in IP :
        Asks(ip) /\ db[ip].checked_at # NULL =>
            \/ now - db[ip].checked_at >= CacheAge
            \/ now - db[ip].checked_at >= RecheckInterval]_vars

\* README.md:44 "30-day maximum block TTL", for each run: when the loop of the
\* expired blocks is over, everything on the list has an expiry that is later than
\* the loop's beginning, whatever rows there were and in whatever state the runs
\* before left them (processor.py:76-203).
RunsClearExpired ==
    [][phase = "expire" /\ phase' = "recheck" =>
        \A ip \in IP : items[ip] # NULL =>
            db[ip].expire_at # NULL /\ db[ip].expire_at > at]_vars

\* What is left of a run: loops, addresses of the loop, calls for the address.
PhasesLeft == [idle |-> 0, check |-> 1, collect |-> 2, recheck |-> 3, expire |-> 4]

CallsLeft ==
    [pick |-> 0,
     delete |-> 4, mark_pending_delete |-> 3, wait_delete |-> 2, mark_released |-> 1,
     mark_recheck |-> 1,
     find_ip |-> 7, add_ip |-> 6, mark_pending |-> 5, wait_add |-> 4, verify |-> 3,
     mark_blocked |-> 2, mark_active |-> 1]

AddressesLeft == Cardinality(IF phase = "collect" THEN IP \ todo ELSE todo)

\* Every call of a run brings it nearer to its end, whatever it answers: no
\* exception path returns to an address that was left, and while an address is
\* processed no call is made twice (main.py:205-656, processor.py:76-475).
RunsProgress ==
    [][RunStep /\ phase # "idle" =>
        \/ PhasesLeft[phase'] < PhasesLeft[phase]
        \/ /\ phase' = phase
           /\ \/ AddressesLeft' < AddressesLeft
              \/ /\ AddressesLeft' = AddressesLeft
                 /\ CallsLeft[pc'] < CallsLeft[pc]]_vars
-----------------------------------------------------------------------------
(* Liveness, of FairSpec.                                                  *)

Expired(ip) == db[ip].expire_at # NULL /\ db[ip].expire_at <= now

\* README.md:44 "30-day maximum block TTL": a block whose expiry has come
\* leaves the list.
ExpiredBlocksEnd == \A ip \in IP : Expired(ip) ~> items[ip] = NULL

\* A request in the log leads to a verdict about its address: what the
\* collector has read is not forgotten before it is judged.
SeenIsJudged ==
    \A ip \in IP : position /\ ip \in logged ~> db[ip].checked_at # NULL

\* A verdict BLOCK is enforced, or withdrawn by a later check.
BlockIsEnforced ==
    \A ip \in IP :
        db[ip].decision = "BLOCK" ~> items[ip] # NULL \/ db[ip].decision # "BLOCK"

\* Every listing gets an end: an address on the list leaves it, or its row
\* learns when the block expires.
ListingsGetAnEnd ==
    \A ip \in IP :
        items[ip] # NULL ~> items[ip] = NULL \/ db[ip].expire_at # NULL

\* Every run ends.
RunsEnd == phase # "idle" ~> phase = "idle"

\* main.py:225 "An IP that is already actively blocked by Cloudflare is managed
\* by the lifecycle processor": what main skips as actively blocked is blocked.
SkippedIsBlocked ==
    \A ip \in IP :
        Picks("check", ip) /\ ActiveBlock(db[ip]) => items[ip] # NULL
-----------------------------------------------------------------------------
(* What the worker implements.                                             *)

Enforcing == INSTANCE Enforcement WITH
    list <- {ip \in IP : items[ip] # NULL},
    book <- {ip \in IP : db[ip].blocked_at # NULL},
    busy <- cur

\* As long as no enforcement fails, the list and the table are two copies of one
\* set, and an address is entered and struck after its item was added and
\* removed (main.py:546-645, processor.py:153-189).
KeepsTheBook == Enforcing!Spec
=============================================================================
