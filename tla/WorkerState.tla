---------------------------- MODULE WorkerState ----------------------------
(***************************************************************************)
(* What one run of the worker (src/app/main.py) and its surroundings keep, *)
(* and the steps the two halves of a run share.                            *)
(*                                                                         *)
(* A run goes through phases: "expire" and "recheck" are the two loops of  *)
(* the lifecycle processor, "collect" reads the access log, "check" is the *)
(* loop of main over the collected addresses.  Within a loop, pc is        *)
(* "pick" between two addresses and otherwise the next call to make for    *)
(* the address cur.  Between two calls anything else may happen: time      *)
(* passes, operations take effect, requests arrive, the process dies.      *)
(***************************************************************************)
EXTENDS ReputationDB, CloudflareList

CONSTANTS
    Scores,          \* the scores AbuseIPDB may answer
    DryRunModes,     \* the values DRY_RUN may have when a run starts
    OriginExposed,   \* may a listed address still reach Nginx?
    Rotates,         \* may the access log be rotated or truncated?
    SlowRuns,        \* may a run last long enough for the clock to tick?
    Faults,          \* the kinds of fault that may happen
    MaxFaults,       \* bound: how many of them in one behaviour
    MaxTime          \* bound: the last tick of the clock

FaultKind ==
    {"abuse",      \* AbuseIPDB cannot be asked
     "rejected",   \* a Cloudflare request fails and has no effect
     "lost",       \* it is accepted, but the client only sees an error
     "opfail",     \* an accepted operation fails
     "timeout",    \* polling an operation fails or takes too long
     "db",         \* a write to SQLite raises
     "crash",      \* the run dies: killed, rebooted, an uncaught exception
     "operator"}   \* an operator removes or adds an item by hand

ASSUME WorkerAssumption ==
    /\ Scores \subseteq Int
    /\ DryRunModes \subseteq BOOLEAN
    /\ OriginExposed \in BOOLEAN
    /\ Rotates \in BOOLEAN
    /\ SlowRuns \in BOOLEAN
    /\ Faults \subseteq FaultKind
    /\ MaxFaults \in Nat
    /\ MaxTime \in Nat

VARIABLES
    now,      \* the clock
    faults,   \* how many faults have happened
    logged,   \* addresses with log lines the next run of collect would read
    position, \* has the collector saved an offset yet?
    phase,    \* which loop of the run is executing
    pc,       \* the next call for cur
    todo,     \* addresses the loop still has to visit
    cur,      \* the address being processed
    item,     \* the item id the loop holds for cur
    dry,      \* DRY_RUN of this run
    at        \* the clock as read when the phase began

runVars == <<phase, pc, todo, cur, item, dry, at>>
envVars == <<now, faults, logged, position>>
vars == <<db, listVars, envVars, runVars>>

Phase == {"idle", "expire", "recheck", "collect", "check"}

Step ==
    {"pick",
     "delete", "mark_pending_delete", "wait_delete", "mark_released",
     "mark_recheck",
     "find_ip", "add_ip", "mark_pending", "wait_add", "verify",
     "mark_blocked", "mark_active"}

WorkerTypeOK ==
    /\ now \in Nat
    /\ faults \in Nat
    /\ logged \subseteq IP
    /\ position \in BOOLEAN
    /\ phase \in Phase
    /\ pc \in Step
    /\ todo \subseteq IP
    /\ cur \in IP \cup {NULL}
    /\ item \in MaybeItem
    /\ dry \in BOOLEAN
    /\ at \in Time

WorkerInit ==
    /\ now = 0
    /\ faults = 0
    /\ logged = {}
    /\ position = FALSE
    /\ phase = "idle"
    /\ pc = "pick"
    /\ todo = {}
    /\ cur = NULL
    /\ item = NULL
    /\ dry = FALSE
    /\ at = 0
-----------------------------------------------------------------------------
Fault(kind) ==
    /\ kind \in Faults
    /\ faults < MaxFaults
    /\ faults' = faults + 1
    /\ UNCHANGED <<now, logged, position>>

\* Between two addresses of a loop: cur is about to become ip.
Picks(ph, ip) ==
    /\ phase = ph
    /\ pc = "pick"
    /\ ip \in todo

GoTo(step) ==
    /\ pc' = step
    /\ UNCHANGED <<phase, todo, cur, dry, at>>

\* "continue" before any call was made for ip.
Skip(ip) ==
    /\ todo' = todo \ {ip}
    /\ UNCHANGED <<phase, pc, cur, item, dry, at>>

\* Take ip up and make the call named step next, holding item id.
Begin(ip, step, id) ==
    /\ cur' = ip
    /\ todo' = todo \ {ip}
    /\ item' = id
    /\ pc' = step
    /\ UNCHANGED <<phase, dry, at>>

\* The body of the loop is done with cur.
NextAddress ==
    /\ pc' = "pick"
    /\ cur' = NULL
    /\ item' = NULL
    /\ UNCHANGED <<phase, todo, dry, at>>

\* A loop begins over the addresses of S.
Enter(ph, S) ==
    /\ phase' = ph
    /\ todo' = S
    /\ at' = now
    /\ UNCHANGED <<pc, cur, item, dry>>

\* The process ends; what it held in memory is gone.
Exit ==
    /\ phase' = "idle"
    /\ pc' = "pick"
    /\ todo' = {}
    /\ cur' = NULL
    /\ item' = NULL
    /\ dry' = FALSE
    /\ at' = 0

\* The worker stops polling, whatever became of its operation.
DropOperation ==
    /\ op' = NULL
    /\ late' = Abandoned
    /\ UNCHANGED items
=============================================================================
