# Verification of the IP reputation worker

TLA+ models, TLC runs and TLAPS proofs for the worker in `src/app`: a oneshot
process, started every 15 minutes by a systemd timer, that reads client
addresses from an Nginx access log, asks AbuseIPDB about them, and keeps the bad
ones on a Cloudflare IP list for a limited time.

    tlc -workers 2 -config WorkerFaults.cfg MCWorker.tla     # and the other .cfg files of the worker
    tlc -workers 2 -config WorkerAgree.cfg MCQueries.tla
    tlc -workers 2 -config Collector.cfg MCCollector.tla
    tlc -workers 2 -config Client.cfg MCClient.tla
    tlapm WorkerProofs.tla                                   # the proofs; likewise EnforcementProofs,
    tlapm CollectorProofs.tla                                # ScheduleProofs, QueryProofs, ProgressProofs, ClientProofs

Line numbers below are those of `src/app/...` unless another path is given.

## 1. The system

### Components, state, operations

| Component | State | Operations | What makes it correct |
|---|---|---|---|
| Decision engine, `decision/engine.py` | none | `decide` | BLOCK exactly from the block threshold on |
| `ReputationDB`, `storage/sqlite.py` | table `ip_reputation` (one row per address), table `collector_state` | `record_seen`, `update_reputation`, `mark_blocked`, `mark_recheck`, `mark_released`, `update_cloudflare_state`, `set_error`; the queries `needs_reputation_check`, `get_expired_blocks`, `get_due_rechecks` | columns written by separate transactions fit together after any prefix of them |
| `BlockLifecycleProcessor`, `lifecycle/processor.py` | the rows of the loop under way | `process_expired_blocks`, `process_due_rechecks` | blocks end, not before their item is gone, and no later than their TTL |
| `main`, `main.py` | the addresses of this run | the pipeline: skip, cache, check, decide, enforce | blocks rest on fresh evidence; table and list agree |
| `NginxCollector`, `collector/nginx.py` | inode and offset (in SQLite, table `collector_state`) | `collect` | what the offset has passed was counted; history is not; addresses are addresses of clients |
| `CloudflareClient`, `enforcement/cloudflare.py` | none | `add_ip`, `delete_item`, `find_ip`, `get_list_items`, `wait_for_operation`, the retrying `_request` | answers were true; a call starts no more operations than it made attempts; it ends |
| `AbuseIPDBClient`, `reputation/abuseipdb.py` | none | `check` | answers a score or raises |
| Configuration, `config.py` | environment | `load_settings` | — |
| systemd timer and service | — | starts a run; kills it after 300 s | one run at a time |
| Cloudflare list (external) | items, bulk operations | creates and deletes items asynchronously | — |

### How they interact

A run is one thread: `main` calls the lifecycle, then the collector, then loops
over the addresses. All that survives a run is SQLite and the Cloudflare list.
SQLite calls are single transactions; Cloudflare calls are HTTP requests with up
to five attempts that only *submit* a bulk operation, which the worker then
polls for 60 seconds. The list decides whether a client reaches Nginx at all, so
the list, the log and the table form a loop: an address that is blocked no
longer shows up in the log.

### What is hard here

* Each call can fail, and most failures only end the treatment of one address:
  the sequence of writes for it stops after any prefix.
* The process may die between any two calls; bulk operations go on without it.
* A request can be accepted although the client sees only an error, and a retry
  can have the same operation accepted twice.
* An operation nobody polls any more may land runs later, after the address was
  adopted, released or added again.
* Nginx writes the log while it is read, logrotate replaces it between two calls
  of `collect`, and the offset saved last time may be one of another text.
* Verdict, lifecycle and Cloudflare state are three groups of columns of one
  row, written by different transactions and read by different queries.
* Dry runs write verdicts but not the list, and may alternate with wet runs.

`PROJECT.json`, "hazards", lists each at its line, with the properties that
watch it or the reason why none does yet.

## 2. The modules

    Domain ── Decision ── ReputationDB ──┐
       └───── CloudflareList ────────────┴─ WorkerState ─┬─ BlockLifecycle ──────┐
                                                         └─ ReputationPipeline ──┴─ Worker
    Worker ── WorkerRequirements ── WorkerInvariants ─┬─ MCWorker                  (TLC)
                  │                                   ├─ WorkerQueries ── MCQueries
                  │                                   └─ WorkerProofs             (TLAPS)
                  │                                        ├─ EnforcementProofs ── ScheduleProofs
                  │                                        │         QueryProofs (also WorkerQueries) ──┘
                  │                                        └─ ProgressProofs
                  └─ INSTANCE Enforcement   what table and list promise each other

    Domain ── NginxCollector ── CollectorRequirements ── CollectorInvariants ─┬─ MCCollector
                                      └─ INSTANCE RequestLog                  └─ CollectorProofs

    Domain ── CloudflareClient ── ClientRequirements ── ClientInvariants ─┬─ MCClient
                                                                          └─ ClientProofs

| Module | Models | State | Actions |
|---|---|---|---|
| `Domain` | addresses, item ids, None/NULL | | |
| `Decision` | `engine.py` | | `decide` |
| `ReputationDB` | `sqlite.py`, table `ip_reputation` | `db`, a row per address | one operator per method, from the old row to the new; the queries |
| `CloudflareList` | the external list, as the client uses it | `items`, `op` (the operation being polled), `late` (those under way that nobody polls) | effects of operations |
| `WorkerState` | the memory of a run, the clock, the log, the faults | `phase`, `pc`, `todo`, `cur`, `item`, `dry`, `at`; `now`, `logged`, `position`, `faults` | control helpers |
| `BlockLifecycle` | `processor.py` | | one per call or early return of the two loops |
| `ReputationPipeline` | `main.py:162-701`, the collector as seen from there | | one per call or early return |
| `Worker` | runs one after the other, the service, visitors, people, time | | `Start`, `Interrupt`, operations, `OperatorRemoves`, `OperatorAdds`, `Request`, `Rotate`, `Tick` |
| `WorkerQueries` | `Worker` with a history of the run's queries | `asked` | `QNext`: those of `Worker` |
| `NginxCollector` | `nginx.py`, `collector_state`, Nginx and logrotate | `state`, `request_count`; `pc`, `inode`, `file`, `pos`, `ips`; `requests`, `files`, `path` | one per call of `collect`: `Stat`, `Open`, `ReadLine`, `EndOfFile`, `Save`, `OpenFails`, `Crash`; `Request`, `Tear`, `EndLine`, `Rename`, `Reopen`, `Truncate` |
| `CloudflareClient` | `cloudflare.py`, call by call, and what it talks to | `method`, `ip`, `operation_id`, `pc`, `attempt`, `reply`, `delay`, `clock`, `outcome`; `list`, `ops` | one per branch of `_request` and per result of a poll; what Cloudflare may do |
| `RequestLog` | abstract: reading the log | unread addresses, the batch since the last commit | `Request`, `Record`, `Commit`, `Abort`, `Watch`, `Damaged` |
| `Enforcement` | abstract: the list and the table | two sets and the address being changed | `Take`, `Add`, `EnterInBook`, `Remove`, `Strike`, `Leave` |
| `*Requirements` | properties and refinement mappings | | |
| `*Invariants` | the inductive invariants that the proofs use | | |

In `Worker`, `phase` says which of the four loops is executing, `pc` which call comes
next for `cur`; between two calls anything else may happen. `at` is the clock as read
when the loop began (`now` in `processor.py:78,213`). A call and the assignments up to
the next call are one action, and so is an exception with its `except` branch.

The three state machines overlap on purpose. `Worker` treats a call of the client
and a line of the log as one step; the other two modules are what these steps are
made of. For the client the link is the properties of `ClientRequirements`: an answer was true
during the call, a call that fails may have started an operation that nobody
polls, a wait tells success from failure. These are the outcomes that the
actions of `Worker` allow. The collector of `Worker` (`EndLifecycle`, `CollectLine`,
`CollectDone`, `Rotate`) promises nothing about the log beyond what `NginxCollector` has: a
first run drops what is in the log; the others read any address that is ahead
of them, may find some of the log out of reach for ever (`nginx.py:147-157`: rotated, truncated,
or regrown) and may leave for the next run what went to a new file while they read the
old one. A line that is read twice, or a piece of a line that is taken for an
address, is a `Request` there; `OriginExposed` lets it come from an address that is listed. An access
log that is missing, or a read that fails, ends the run in `main`: `Interrupt`.

What the abstraction of `Worker` relies on:

* *Rows read before a loop.* Both lifecycle loops read their rows once. The
  worker is the only writer and a loop visits an address once, so the row in the
  table when the loop reaches the address is the row it read. The item id is
  held separately (`item`), as the code holds it.
* *Calls after which nothing else changes* (`set_error`, log counters,
  `last_error`, `cloudflare_operation_id`) are left out: no rule reads what they
  write. `request_count` is in `NginxCollector`.
* *An exception in an except branch*, or in a call outside every `try`
  (`processor.py:302`, `:429`), ends the whole run: this is `Interrupt`.
* *Timestamps* are ticks. The code compares the ISO text of UTC times with a
  fixed layout; `isoformat()` drops the fraction when it is zero, and `+` sorts
  before `.`, so text order is time order.
* *`late` is a set*: two unpolled operations that ask for the same are one. A
  duplicate of `op` itself is kept apart, so an operation accepted twice can land
  twice. A call that the client repeats four times could be accepted five times;
  here it leaves one unpolled operation beside the polled one.
* *The list*: it is empty at first; an id is never reused; an add of a listed address
  keeps its item; a delete of an unknown id may be refused, fail or do nothing. That
  it fits on one page is assumed here and examined in `CloudflareClient`.
* *Order of addresses* in `main` is the order of their text, hence any.
  `ORDER BY` of the lifecycle queries is kept (it matters for a run that dies).
* *One run at a time*, as the service unit guarantees.

What the abstraction of `NginxCollector` relies on:

* *Text is stretches.* A line is one stretch, or two, so that an offset of one text can
  fall inside a line of another, and a reader can come before the end of a line. The
  cut may be behind the address or before: what the second half says by itself
  may be any address, since the client writes the rest of its line, or nothing; the end of
  an address is often one too (`192.0.2.7`, `2.0.2.7`). The length of a line is abstracted to this.
* *What a line says* is an input: an address, or NULL for what
  `extract_ip_from_line` rejects (`nginx.py:59-103`: not IPv4, not global, malformed).
* *Inodes* are not reused. If they were, a new file could be taken for the old
  one; that is the case of a truncation, which the model has.
* Only Nginx writes to the log, and while a line is torn no file is moved away.
* `recorded` and `baseline` are history variables; no action reads them, except
  to update them. A request counts as recorded when its line is read from its
  beginning and taken for the address that made it.

What the abstraction of `CloudflareClient` relies on:

* An item is identified with its address, an operation id with the position of the
  operation in `ops`. `operation_id` is the id that the last submitting call returned,
  as in the code's callers.
* Answers are sorted by what the code does with them: `ok`, `malformed` (a
  `RuntimeError` of the method), `refused` (4xx), `limited` (429), `error` (5xx), or no
  answer. A request that Cloudflare handled may be answered by any of `ok`,
  `malformed`, `error` and none. The code returns no difference between the latter.
* Time is the time the call sees: a request takes up to `MaxRequestTime`, a
  pause what the code sleeps. The code bounds neither Retry-After nor a request as a
  whole (`timeout=` of requests limits the silence between bytes); both bounds
  are constants, and only `CallsAreBounded` depends on them.

### The faults

`Faults` chooses the kinds a run of the worker may meet and `MaxFaults` how many.
`abuse`: AbuseIPDB cannot be asked. `rejected`: a Cloudflare request fails without effect.
`lost`: it was accepted, and the client saw an error (the call fails, or a retry
is accepted as well). `opfail`: an accepted operation fails. `timeout`: polling
gives up. `db`: SQLite raises inside a `try`. `crash`: the run dies.
`operator`: somebody removes an item by hand (`docs/PRODUCTION_RUNBOOK.md:137`) or adds one.

`Troubles` and `MaxTroubles` do the same for the collector. `crash`: the run dies.
`truncate`: the file is emptied in place. `tear`: a line can be read before its end.
Rotation is not a trouble but what logrotate does every day; `MaxFiles` bounds it.

In `CloudflareClient` faults are not counted: every request may meet any of them.

## 3. The properties and the runs

Addresses and item ids are symmetric in the runs of `MCWorker` and `MCQueries` that check no liveness.

| Run (`.cfg`) | Instance | Checks |
|---|---|---|
| `WorkerFaults` | 1 address, 4 ids, all 8 faults, at most 3 of them, 7 ticks, wet and dry runs, scores on both sides of both thresholds, slow runs | `TypeOK`, `BlockHasEvidence`, `ActiveHasLifecycle`, `DryRunOnlyLooks`, `RunInv`, `DueInv`, `ReleaseAfterRemoval`, `TTLNeverExtended`, `AddsRestOnFreshEvidence`, `DeletesAreDue` |
| `WorkerPair` | 2 addresses, 4 ids, 2 faults of `lost`, `timeout`, `crash`, `operator`, 3 ticks | `ItemsAreOwn`, `ListInv`, `RunsProgress` |
| `WorkerAgree` (`MCQueries`) | 2 addresses, 4 ids, 2 faults `abuse`, 8 ticks | `IdleAgreement`, `AgreeInv`, `ScheduleInv`, `QueriesAreSpaced`, `AskedOncePerRun`, `RunsClearExpired`, `KeepsTheBook` |
| `WorkerLive` | 1 address, 3 ids, 2 faults `abuse`, 5 ticks, fairness | `ExpiredBlocksEnd`, `BlockIsEnforced`, `ListingsGetAnEnd`, `RunsEnd` |
| `Collector` | 2 clients, 2 requests, 2 files, lines of one stretch or two, 2 troubles of any kind, fairness | `TypeOK`, `NothingSkipped`, `HistoryIsNotRead`, `CountedOncePerRun`, `OnlyClientsAreRecorded`, `CollectorInv`, `KeepsPromise`, `RequestsAreCounted` |
| `Client` | 2 addresses, 2 calls, 1 retry, 2 items a page, fairness | `TypeOK`, `CallsAreBounded`, `FindIsRight`, `WaitIsTrue`, `OneOperationPerAttempt`, `ClientInv`, `CallsProgress`, `CallsEnd` |
| `FailedRelease` | one `rejected` | `ExpiredBlocksEnd`: violated |
| `AddTimeout` | one `timeout` | `ListingsGetAnEnd`: violated |
| `LostDelete` | one `lost` | `SkippedIsBlocked`: violated |
| `CollectorRestart` | one `crash` | `SeenIsJudged`: violated |
| `LogRotation` | 1 client, 3 requests, 2 files, no trouble | `RequestsSurviveRotation`: violated |
| `ListPage` | 2 addresses, 1 item a page | `FindIsRight`: violated |

What they say of the worker:

* `BlockHasEvidence`: BLOCK only with a score that reaches the threshold, although
  `mark_blocked` (`sqlite.py:267`) writes it blindly.
* `ActiveHasLifecycle`: what `main` skips as actively blocked can be ended by the
  lifecycle: item, expiry and recheck date are there.
* `DryRunOnlyLooks`: a dry run never gets near a call that changes the list.
* `ItemsAreOwn`: deleting the item of a row never unblocks another address.
* `ReleaseAfterRemoval`: a release is never recorded while the item is listed.
* `DeletesAreDue`: no delete before the TTL is over, unless this very run asked
  AbuseIPDB again and was told a score below the block threshold. A query that
  failed never unblocks anybody.
* `TTLNeverExtended`: while an item is listed, its expiry does not move; rechecks
  and re-adoption included.
* `AddsRestOnFreshEvidence`: an add, polled or lost on the way back, follows a BLOCK of the same run.
* `IdleAgreement`: between runs, an address is listed exactly if its row is an
  active block of that very item.
* `KeepsTheBook`: the worker implements `Enforcement`. List and table are two copies
  of one set, changed one address at a time: added, then entered; removed, then
  struck; and an address is only left when both copies agree.
* `QueriesAreSpaced`: AbuseIPDB is not asked about an address before the shorter of
  cache age and recheck interval has passed since the last answer that was saved,
  whether it answers this time or not. A query that failed, or whose answer
  could not be saved, counts for nothing: the next run asks again.
* `AskedOncePerRun`: within a run, failed queries count too. The recheck loop and
  the loop of `main` may visit the same address; what the first has asked about the second
  leaves alone for the cache age, although a failed query leaves no date behind (`set_error`).
* `RunsClearExpired`: when the expiry loop of a run is over, every listed address has an
  expiry that had not come when the loop began. `ExpiredBlocksEnd` says that this happens
  some day; this says in which run: the next.
* `RunsProgress`: each step of a run leaves a loop, an address or a call behind: no
  exception path returns to an address that was left, and no call is made twice for
  one. This is why `RunsEnd` holds, whatever fails.
* The liveness properties: expired blocks leave the list, verdicts are enforced or
  withdrawn, every listing ends or gets an expiry, runs end.

Of the collector:

* `NothingSkipped`: of the current file, what the saved offset has passed was counted,
  whatever runs died and however the file was rotated in the middle of a run.
  `stat` and `open` may see different files (`nginx.py:125,171`): the offset is then
  that of the new file beside the inode of the old one, and the next run reads the new
  file again, from its beginning; twice, but nothing is skipped.
* `HistoryIsNotRead`: what the first run found in the log is never counted, not even
  after a rotation or a truncation, as long as no run dies. (A first run that
  dies has counted lines which the next first run takes for history.)
* `CountedOncePerRun`: while the log only grows, deaths count a request again, at
  most once each.
* `OnlyClientsAreRecorded`: while the log only grows by whole lines, no piece of a
  line is taken for an address, whatever clients write in their lines.
* `KeepsPromise`: `collect` implements `RequestLog`, call by call.
* `RequestsAreCounted`: while the log only grows, every request made after the first run is
  counted some day.

Of the client:

* `CallsAreBounded`: a call takes no longer than one run of the retry loop; a wait no
  longer than its limit, one poll interval and one run of the loop, because the
  limit is only looked at between polls (`cloudflare.py:460`).
* `FindIsRight`: what `find_ip` answers was true at some moment of the call.
* `WaitIsTrue`: a wait that returns has seen the operation completed; one that reports a
  failure has seen a failure.
* `OneOperationPerAttempt`: a call starts at most one operation per attempt, all for
  its own address; the id it returns is of one of them. The others are those
  nobody polls.
* `CallsEnd`: whatever Cloudflare answers, a call returns or raises.
* `CallsProgress`: why it does. Each turn of a call uses up the time of a wait, or keeps it
  and uses up an attempt or a pause of the retry loop; a poll that starts the
  attempts again has paid with time. While an answer is awaited neither is given back.

### Bounds, and why they are enough

*Worker.* The periods keep their order, cache age < recheck interval < TTL, in ticks 1, 2, 3; in
`WorkerFaults` 2, 3, 4, so that a verdict can be cached across a tick, and in
`WorkerAgree` 2, 3, 7, so that two rechecks and several cache hits fit in one TTL.
The clock runs long enough in `WorkerFaults` for a block, its recheck, its expiry,
and a second life of the address after it. Three faults suffice for what the safety properties fear
most: a lost add, a death and an operator at the worst moments of one life. Four
ids are never all in use with these bounds: a fifth adds no state. Two addresses
are what mixing items up takes; every invariant is a statement about one address
or two.

`OriginExposed` lets a listed address reach Nginx nevertheless (the README of the
repository warns of direct-origin bypass; also the delay until the rule bites).
It is TRUE in the passing runs, where it allows more, and FALSE in the violating
ones, so that none of them needs it. `SlowRuns` lets the clock tick within a run.
It is FALSE in `WorkerAgree` because `QueriesAreSpaced` needs it (`AskedOncePerRun` does not): the next recheck
counts from the clock read before the loop (`processor.py:213,422`), and a run as
long as the recheck interval would make it due at once. It is FALSE in `WorkerPair`
and the violating runs only to keep them small. `Rotates` lets the log lose lines that no
run has read. It is TRUE in the passing runs and FALSE in the violating ones, so that
none of them needs a rotation; rotation has its own, `LogRotation`.

*Collector.* Two files are a rotation, two requests the line before an offset and the line
after it, two troubles a death and something that happens to the file while the next
run repairs it. Lines of two stretches let every offset of another text fall
into a line.

*Client.* One retry stands for four: the loop has a first turn, a last one, and both have
the same branches. Times are scaled (poll interval 1, limit 2, requests up to 1, pauses of 1
and 2), so that a wait can end at, before and after its limit. Two calls let a wait follow
a submission and a lookup run while operations of an earlier call land. The page
holds the whole list in `Client` and one item less in `ListPage`.

The proofs lift all these bounds for the theorems of section 4.

Deadlock is checked except in `Client`, `ListPage` and `LogRotation`: there `MaxCalls` and
`MaxRequests` let every behaviour end, as the system would wait for its next caller
or visitor.

### Fairness

`Worker`: `FairSpec` assumes that runs start and, unless interrupted, go on (the timer, and
calls that return because requests and polls have timeouts); that operations
Cloudflare accepted end; and that time passes. Visitors need not come, logs need
not be rotated and faults need not happen. Only weak fairness is needed: a step of a run that is enabled
stays enabled until the run moves. The clock stops at `MaxTime`; every property
is about what follows an event, and runs go on after that.

`NginxCollector`: runs start and go on; Nginx reopens a log that was moved away and ends a line
it began. `CloudflareClient`: a request is answered or fails (`timeout=`), and a sleep
ends. Cloudflare owes nothing: operations may stay pending, and waits end all the same. That calls end
is what `Worker`'s fairness of a run's steps takes from this module.

### Which fault breaks what

Each cell is a TLC run of the instance of `FailedRelease.cfg` with at most one
fault of that kind (`-` holds, `x` violated). Without faults all hold.

| | `ExpiredBlocksEnd` | `BlockIsEnforced` | `ListingsGetAnEnd` | `IdleAgreement` | `SkippedIsBlocked` | `SeenIsJudged` |
|---|---|---|---|---|---|---|
| `abuse` | - | - | - | - | - | x |
| `rejected` | x | x | x | x | - | - |
| `lost` | x | x | x | x | x | - |
| `opfail` | x | x | - | x | - | - |
| `timeout` | x | x | x | x | x | - |
| `db` | x | x | x | x | x | x |
| `crash` | x | x | x | x | x | x |
| `operator` | x | x | x | x | x | - |

An item put on the list by hand whose address is never judged BLOCK has no row and no
end: the `x` of `operator` under `ListingsGetAnEnd`.

The same for the collector: its properties without their preconditions, with 2 clients, 3
requests and one trouble of that kind, or one rotation.

| | `NothingSkipped` | `HistoryIsNotRead` | `CountedOncePerRun` | `OnlyClientsAreRecorded` | `RequestsAreCounted` |
|---|---|---|---|---|---|
| growth only | - | - | - | - | - |
| rotation | - | - | x | x | x |
| `crash` | - | x | - | - | - |
| `truncate` | x | - | x | x | x |
| `tear` | x | - | x | x | x |

Each `x` is why the property has a precondition. Rotation counts twice what was read
under the old inode, and loses what was logged after the last run (finding 5). A rotation
between `stat` and `open`, or a truncated file that grew again, is read from an offset of
another text, which may lie inside a line.

### What the violated runs show

Six statements of the documentation or of comments that the program does not keep; each
is a finding in `PROJECT.json` with the line quoted.

1. `FailedRelease`: "30-day maximum block TTL" (`README.md:44`). The recheck saves
   the verdict before it deletes the item; if the delete fails, no query selects the
   row again and the address stays blocked for good.
2. `AddTimeout`: the same TTL, and "fails safely" (`docs/PRODUCTION_RUNBOOK.md:124`).
   An add that completes after polling gave up blocks without an expiry.
3. `LostDelete`: "already actively blocked" (`main.py:225`). The row stays ACTIVE
   after its item is gone, and `main` leaves the address alone.
4. `CollectorRestart`: "allows the collector to survive: - worker restarts"
   (`nginx.py:112`). The offset is saved before the addresses are judged.
5. `LogRotation`: the same comment, "log rotation". The new file is read from its start, the
   old one is never opened again: what was logged to it after the last run is lost.
6. `ListPage`: "Get all items currently present in the Cloudflare IP list"
   (`cloudflare.py:187`). One page of 500 is read.

## 4. What is proved

Seven modules of proofs, for every value of the constants: every set of addresses, ids and scores,
every integer thresholds and periods (also a TTL of zero, or MONITOR above BLOCK), every
number of retries, every set of faults and every bound.

| Module | Theorem | Property |
|---|---|---|
| `WorkerProofs` | `TypeCorrect` | `TypeOK`, `Control` |
| | `RunInvariant` | `RunInv` |
| | `BlocksHaveEvidence` | `BlockHasEvidence` |
| | `ActiveBlocksHaveLifecycle` | `ActiveHasLifecycle` |
| | `DryRunsOnlyLook` | `DryRunOnlyLooks` |
| | `ListInvariant` | `ListInv` |
| | `ItemsStayOwn` | `ItemsAreOwn` |
| | `ReleasesFollowRemoval` | `ReleaseAfterRemoval` |
| | `TTLIsMaximum` | `TTLNeverExtended` |
| | `AddsFollowJudgement` | `AddsRestOnFreshEvidence` |
| | `DueInvariant` | `DueInv` |
| | `DeletesWait` | `DeletesAreDue` |
| `EnforcementProofs` | `Agreement` | `AgreeInv`, if no enforcement fails |
| | `IdleRunsAgree` | `IdleAgreement`, if no enforcement fails |
| | `BookIsKept` | `KeepsTheBook`, if no enforcement fails |
| `ScheduleProofs` | `ScheduleInvariant` | `ScheduleInv`, if no enforcement fails |
| | `RunsEndExpiredBlocks` | `RunsClearExpired`, if no enforcement fails |
| | `QueriesStaySpaced` | `QueriesAreSpaced`, if no enforcement fails and `SlowRuns` is FALSE |
| | `SkippedAreBlocked` | `SkippedIsBlocked`, if no enforcement fails |
| `QueryProofs` | `QueryInvariant` | `QueryInv` |
| | `QueriesAreNotRepeated` | `AskedOncePerRun` |
| `ProgressProofs` | `RunsNearTheirEnd` | `RunsProgress`, if there are finitely many addresses |
| `CollectorProofs` | `CollectorTypeCorrect` | `TypeOK` |
| | `CollectorInvariant` | `CollectorInv` |
| | `NothingIsSkipped` | `NothingSkipped` |
| | `HistoryStaysUnread` | `HistoryIsNotRead` |
| | `CountedOnce` | `CountedOncePerRun` |
| | `OnlyClientsCounted` | `OnlyClientsAreRecorded` |
| | `PromiseKept` | `KeepsPromise` |
| `ClientProofs` | `ClientTypeCorrect` | `TypeOK` |
| | `ClientInvariant` | `ClientInv` |
| | `CallsTakeBoundedTime` | `CallsAreBounded` |
| | `WaitsTellTheTruth` | `WaitIsTrue` |
| | `AttemptsStartOneEach` | `OneOperationPerAttempt` |
| | `CallsNearTheirEnd` | `CallsProgress` |
| | `FindTellsTheTruth` | `FindIsRight`, if the list fits on a page |

The assumptions are those of the modules: thresholds and periods are integers
(`ThresholdAssumption`, `PeriodAssumption`), NULL is no integer, address, id, status,
operation, position or reply (`NullAssumption`, `StatusAssumption`, `OperationAssumption`,
`ReplyAssumption`), and the types of the other constants (`WorkerAssumption`,
`CollectorAssumption`, `ClientAssumption`). TLC evaluates them on every run. The theorems
marked above need more and state it as a hypothesis: `EnforcementWorks` (only AbuseIPDB fails, and no
run is dry), `SlowRuns = FALSE` (a run is over before the clock ticks), `OnePage` (the addresses
are no more than a page holds) and, for `RunsNearTheirEnd`, that the addresses are finitely many, as
those of IPv4 are. `WorkerAgree` and `Client` are instances in which they hold. Without the
first three the theorems would be false: the fault table of section 3, the violated runs
`FailedRelease`, `LostDelete` and `ListPage`, and a run as long as the recheck interval refute them.

*The worker.* The argument has layers, each inductive relative to the one before:

1. `TypeOK /\ Control`. Which `pc` belongs to which `phase`, and that an operation
   is held exactly while it is polled. Needed everywhere: `op.status` is only a
   field when `op` is not NULL.
2. `RunInv`. Neither `BlockHasEvidence` nor `ActiveHasLifecycle` is inductive.
   `MarkBlocked` writes BLOCK blindly, so one must know that the row was judged BLOCK
   in this very run (`Judged`) and that no update was lost on a missing row
   (`WorkHasRow`). `MarkActive` writes ACTIVE, so the columns of the block must
   have been written before (`Held`, `WellFormed`), also when the run that wrote them
   died. The lemmas on the methods of `ReputationDB` (`UpdateReputationRow`,
   `MarkBlockedRow`, `MarkReleasedRow`, `UpdateStateRow`...) say what each keeps of
   a row, once, for all callers.
3. `ListInv`. That a release follows the removal needs that the item cannot come
   back after the delete completed (`Removal`), whatever is still under way; that
   needs that an id belongs to one address wherever it is remembered (`Ownership`:
   list, rows, run, deletes under way), which holds because a new id is fresh against
   all of these. `Replacement` says that an address is added only when the item its
   row remembers is gone: the reason why a restarted TTL is the TTL of a new listing.
4. `DueInv`. The expiry loop works on rows selected before it, so that what it deletes is due
   needs that no step of the loop touches the expiry of an address still to come.
5. `AgreeInv`, under `EnforcementWorks`: table and list agree about every address but
   the one at hand, about which the state of the run says what is in which. From it
   follow `IdleAgreement` and, step by step, the refinement of `Enforcement`: each action
   of `Worker` is one of `Enforcement`'s or leaves its three variables alone. `SkippedAreBlocked` is the
   statement of finding 3: what refutes it there is only the failure.
6. `ScheduleInv`, on top of `AgreeInv` and `DueInv`. That the expiry loop ends what had
   expired (`Clearing`) follows from three facts: the query found all of it, a
   release at hand succeeds (`ReleasesSucceed`), and nothing the loop does gives another
   block an earlier expiry. That queries are spaced (`Spacing`) needs more than the row
   that is asked about: every block has a recheck date at least an interval after the check the
   row remembers (`Rescheduled`), except the one whose recheck is being recorded at this very step, and the
   rows of the loop are still due. The lemma `Dates` gives the types of the dates; a clock that ticks within a
   run breaks `at = now`, hence the hypothesis on slow runs.
7. `QueryInv`, on top of `RunInv` and `DueInv` and under every fault. A run asks about an address in the
   recheck loop or in `main`, and never comes back to it in the same loop. Between the two, either the query failed,
   and the row is the active block it was, which `main` leaves alone; or it was answered, and
   the row has the date of the answer (`Answered`) until `main` comes to it, although the block may
   have been released meanwhile. The lemmas `OthersRows`, `CallsKeepDate` and `LoopsMoveOn` are these
   three facts; `HistoryOnlyWatches` takes the invariants of `Spec` over to `QSpec`.
8. `RunsProgress` needs the types alone: the triple of `PhasesLeft`, `AddressesLeft` and `CallsLeft` consists of
   natural numbers and gets smaller in lexicographic order with every step of a run. While the log is
   read, `AddressesLeft` counts the addresses the run has not met. `Worker` takes a line of an address that was
   met for none; that Nginx might write lines as fast as `collect` reads them (`nginx.py:179`) is
   therefore outside this theorem, and outside `RunsEnd`.

*The collector.* `CollectorInv` says what a text looks like (`Lined`: stretches pair up to lines that
show the requests made), that positions lie between lines as long as nothing was torn or
truncated, that what is before them is counted or old (`CoverInv`), that what is after them is later than
the history until a run dies (`AheadInv`), and the same about files between the saved inode and the
current one, because a run may hold an inode that is no longer at `log_path`.
`CountedOncePerRun` is not inductive: that a line is read once per run needs to know which of the counted
requests lie before the position. `CountInv` counts those apart (`Passed`): an address is counted once for each of
them and, for each run that died, at most once for each request that was ever counted. A line that is
read is about none of them, because lines are ordered by their requests (`Ordered`), and a
run that dies moves the position back, which the death accounts for. The arithmetic is in three
lemmas about finite sets (`CountKept`, `CountAfterCrash`, `CountAfterRead`).
`PromiseKept` maps the steps of `collect` and of Nginx to `RequestLog`: every
step of a log that is no longer intact is `Damaged`, a `Save` is the commit.

*The client.* `ClientInv` has four parts: time spent against the number of the attempt
(`Timing`), the answer held against the operation it is about (`Watching`: an operation
that has ended does not change), operations started against attempts
(`Submitting`: one that was refused or limited has started nothing). The fourth, `Finding`, says that the
truth of each moment of a lookup is in the history variable `moments`; it holds as long as the list
fits on one page. `CallsProgress` is the safety half of
`CallsEnd`: the theorem says that the pair (`TimeLeft`, `TurnsLeft`) consists of natural numbers and gets smaller
in lexicographic order with every turn, for any number of retries and any limits; what is left to
TLC is the step from a variant and fairness to termination.

Only model-checked: the liveness properties `ExpiredBlocksEnd`, `BlockIsEnforced`, `ListingsGetAnEnd`,
`RunsEnd`, `RequestsAreCounted` and `CallsEnd` (fairness and ENABLED are outside what the
prover does), and the violations. The safety halves of three of them are theorems: `RunsProgress` of
`RunsEnd`, `CallsProgress` of `CallsEnd`, and `RunsClearExpired` of `ExpiredBlocksEnd`, which adds to it that runs start
and end. Every invariant and every action property of a passing run is
a theorem, and so is the refinement of each abstract specification. `RECURSIVE` is used nowhere.

## 5. What is not modelled

* Overlapping runs. `docs/ARCHITECTURE.md:62` calls for a single worker, and the service unit starts
  none while one is running; a run started by hand (`docs/PRODUCTION_RUNBOOK.md:131`)
  beside it is not covered. In `Worker` the rows a loop has read are the rows of the table, which two
  runs would break.
* `reset_collector_state` and `get_all`, which nothing calls; a changed LOG_PATH
  (`get_collector_state` finds no row, so it is another first run); `collect_ips`, used by tests only.
* AbuseIPDB's request and its parsing; `load_settings`; validation of addresses and
  the parsing of log lines: their results are inputs.
* A Retry-After that is negative (`time.sleep` raises, which ends the call like any
  exception) or longer than `MaxDelay`.
* Columns no rule reads (`first_seen`, `last_seen`, `last_error`, `cloudflare_operation_id`).
* Logging, counters, the exit code.
* Automated and manual tests: they are read, not modelled.

## 6. Plan

Done: the worker, the collector, the client, the two abstract specifications, each with the
module that implements it, with the proofs of section 4. Left, in this order:

1. The calls of `Worker` as a refinement of `CloudflareClient`: one abstract call, with the
   operations it leaves behind, that both implement. The same for the log: a
   `RequestLog` with the losses that the collector of `Worker` allows.
2. Two overlapping runs on one table and one list, with the rows each has read before its loops.
