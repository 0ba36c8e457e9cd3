------------------------- MODULE ReputationPipeline -------------------------
(***************************************************************************)
(* src/app/main.py after the lifecycle: collect the addresses of the new   *)
(* log lines, then judge each and enforce a BLOCK.                         *)
(*                                                                         *)
(* Enforcement is one try block: find_ip, add_ip, PENDING, wait, find_ip   *)
(* again, mark_blocked, ACTIVE; an exception in any of them sets FAILED    *)
(* and the loop goes on.  The addresses are visited in the order of their  *)
(* text, which the model does not know: any order is allowed.              *)
(***************************************************************************)
EXTENDS WorkerState

\* One new line of the log: the address is recorded and remembered.
CollectLine(ip) ==
    /\ phase = "collect"
    /\ ip \in logged \ todo
    /\ Upsert(ip, record_seen(db[ip]))
    /\ todo' = todo \cup {ip}
    /\ UNCHANGED <<phase, pc, cur, item, dry, at, listVars, envVars>>

\* End of file: the offset is saved, before any address is judged.  What was
\* written to a new log while the old one was read is left for the next run.
CollectDone ==
    /\ phase = "collect"
    /\ \E left \in SUBSET logged :
        /\ left # {} => Rotates
        /\ logged \ todo \subseteq left
        /\ logged' = left
    /\ position' = TRUE
    /\ IF todo = {} THEN Exit ELSE Enter("check", todo)
    /\ UNCHANGED <<db, listVars, now, faults>>
-----------------------------------------------------------------------------
\* Mutation: the address is looked at again and again.
SkipActive_Stays(ip) ==
    /\ Picks("check", ip)
    /\ ActiveBlock(db[ip])
    /\ UNCHANGED <<runVars, db, listVars, envVars>>

\* The lifecycle manages this address.
SkipActive(ip) ==
    /\ Picks("check", ip)
    /\ ActiveBlock(db[ip])
    /\ Skip(ip)
    /\ UNCHANGED <<db, listVars, envVars>>

\* Mutation: a cached BLOCK that was not enforced is enforced from the cache.
SkipCached_Enforces(ip) ==
    /\ Picks("check", ip)
    /\ ~ActiveBlock(db[ip])
    /\ ~needs_reputation_check(db[ip], now)
    /\ IF db[ip].decision = "BLOCK" /\ ~dry
       THEN Begin(ip, "find_ip", NULL)
       ELSE Skip(ip)
    /\ UNCHANGED <<db, listVars, envVars>>

\* The last check is recent enough, whatever became of its verdict.
SkipCached(ip) ==
    /\ Picks("check", ip)
    /\ ~ActiveBlock(db[ip])
    /\ ~needs_reputation_check(db[ip], now)
    /\ Skip(ip)
    /\ UNCHANGED <<db, listVars, envVars>>

\* Mutation: the addresses of the lifecycle are not left to it.
CheckDue_Active(ip) ==
    /\ Picks("check", ip)
    /\ needs_reputation_check(db[ip], now)

CheckDue(ip) ==
    /\ Picks("check", ip)
    /\ ~ActiveBlock(db[ip])
    /\ needs_reputation_check(db[ip], now)

\* AbuseIPDB cannot be asked, or its answer cannot be saved: set_error.
CheckError(ip) ==
    /\ CheckDue(ip)
    /\ Fault("abuse") \/ Fault("db")
    /\ Skip(ip)
    /\ UNCHANGED <<db, listVars>>

\* Mutation: MONITOR is enforced as well.
CheckScored_Monitor(ip, score) ==
    /\ CheckDue(ip)
    /\ Update(ip, update_reputation(db[ip], score, decide(score), now))
    /\ IF decide(score) # "ALLOW" /\ ~dry
       THEN Begin(ip, "find_ip", NULL)
       ELSE Skip(ip)
    /\ UNCHANGED <<listVars, envVars>>

\* Mutation: the dry-run test is inverted.
CheckScored_DryInverted(ip, score) ==
    /\ CheckDue(ip)
    /\ Update(ip, update_reputation(db[ip], score, decide(score), now))
    /\ IF decide(score) = "BLOCK" /\ dry
       THEN Begin(ip, "find_ip", NULL)
       ELSE Skip(ip)
    /\ UNCHANGED <<listVars, envVars>>

\* Only a BLOCK outside a dry run goes on to Cloudflare.
CheckScored(ip, score) ==
    /\ CheckDue(ip)
    /\ Update(ip, update_reputation(db[ip], score, decide(score), now))
    /\ IF decide(score) = "BLOCK" /\ ~dry
       THEN Begin(ip, "find_ip", NULL)
       ELSE Skip(ip)
    /\ UNCHANGED <<listVars, envVars>>
-----------------------------------------------------------------------------
(* Enforcing the block of cur.                                             *)

\* Mutation: adopting an item always starts the lifecycle again.
FindExisting_Restarts ==
    /\ pc = "find_ip"
    /\ items[cur] # NULL
    /\ item' = items[cur]
    /\ GoTo("mark_blocked")
    /\ UNCHANGED <<db, listVars, envVars>>

\* Mutation: an adopted item never gets a lifecycle.
FindExisting_NoLifecycle ==
    /\ pc = "find_ip"
    /\ items[cur] # NULL
    /\ item' = items[cur]
    /\ GoTo("mark_active")
    /\ UNCHANGED <<db, listVars, envVars>>

\* Already listed: adopt the item; the lifecycle starts only if it has not.
FindExisting ==
    /\ pc = "find_ip"
    /\ items[cur] # NULL
    /\ item' = items[cur]
    /\ GoTo(IF db[cur].blocked_at = NULL THEN "mark_blocked" ELSE "mark_active")
    /\ UNCHANGED <<db, listVars, envVars>>

FindNone ==
    /\ pc = "find_ip"
    /\ items[cur] = NULL
    /\ GoTo("add_ip")
    /\ UNCHANGED <<db, item, listVars, envVars>>

\* As with a delete, an earlier attempt may have been accepted unseen.
AddAccepted ==
    /\ pc = "add_ip"
    /\ op' = AddOf(cur)
    /\ \/ UNCHANGED <<late, envVars>>
       \/ /\ Fault("lost")
          /\ late' = late \cup {AddOf(cur)}
    /\ GoTo("mark_pending")
    /\ UNCHANGED <<db, items, item>>

MarkPending ==
    /\ pc = "mark_pending"
    /\ Update(cur, update_cloudflare_state(db[cur], "PENDING", NULL))
    /\ GoTo("wait_add")
    /\ UNCHANGED <<item, listVars, envVars>>

AddCompleted ==
    /\ pc = "wait_add"
    /\ op.status = "completed"
    /\ DropOperation
    /\ GoTo("verify")
    /\ UNCHANGED <<db, item, envVars>>

\* Mutation: any item of the list is taken for the one just added.
VerifyFound_AnyItem ==
    /\ pc = "verify"
    /\ \E ip \in IP : items[ip] # NULL /\ item' = items[ip]
    /\ GoTo("mark_blocked")
    /\ UNCHANGED <<db, listVars, envVars>>

\* Mutation: a new item never gets a lifecycle.
VerifyFound_NoLifecycle ==
    /\ pc = "verify"
    /\ items[cur] # NULL
    /\ item' = items[cur]
    /\ GoTo("mark_active")
    /\ UNCHANGED <<db, listVars, envVars>>

VerifyFound ==
    /\ pc = "verify"
    /\ items[cur] # NULL
    /\ item' = items[cur]
    /\ GoTo("mark_blocked")
    /\ UNCHANGED <<db, listVars, envVars>>

MarkBlocked ==
    /\ pc = "mark_blocked"
    /\ Update(cur, mark_blocked(db[cur], now))
    /\ GoTo("mark_active")
    /\ UNCHANGED <<item, listVars, envVars>>

MarkActive ==
    /\ pc = "mark_active"
    /\ Update(cur, update_cloudflare_state(db[cur], "ACTIVE", item))
    /\ NextAddress
    /\ UNCHANGED <<listVars, envVars>>

\* What makes a call of the enforcement raise.
EnforceRaises ==
    \/ /\ pc \in {"find_ip", "add_ip", "verify"}
       /\ Fault("rejected")
    \/ /\ pc = "wait_add"
       /\ op.status = "failed"
       /\ UNCHANGED envVars
    \/ /\ pc = "wait_add"
       /\ op.status # "failed"
       /\ Fault("timeout")
    \/ /\ pc = "verify"
       /\ items[cur] = NULL    \* completed, but not found in the list
       /\ UNCHANGED envVars
    \/ /\ pc \in {"mark_pending", "mark_blocked", "mark_active"}
       /\ Fault("db")

\* except Exception: FAILED, set_error, and on to the next address.
EnforceFails ==
    /\ EnforceRaises
    /\ Update(cur, update_cloudflare_state(db[cur], "FAILED", NULL))
    /\ DropOperation
    /\ NextAddress

\* Accepted, but the client only ever saw errors.
AddLost ==
    /\ pc = "add_ip"
    /\ Fault("lost")
    /\ late' = late \cup {AddOf(cur)}
    /\ Update(cur, update_cloudflare_state(db[cur], "FAILED", NULL))
    /\ NextAddress
    /\ UNCHANGED <<items, op>>

FinishRun ==
    /\ phase = "check"
    /\ pc = "pick"
    /\ todo = {}
    /\ Exit
    /\ UNCHANGED <<db, listVars, envVars>>
-----------------------------------------------------------------------------
PipelineStep ==
    \/ \E ip \in IP :
        \/ CollectLine(ip)
        \/ SkipActive(ip)
        \/ SkipCached(ip)
        \/ CheckError(ip)
        \/ \E score \in Scores : CheckScored(ip, score)
    \/ CollectDone
    \/ FindExisting
    \/ FindNone
    \/ AddAccepted
    \/ AddLost
    \/ MarkPending
    \/ AddCompleted
    \/ VerifyFound
    \/ MarkBlocked
    \/ MarkActive
    \/ EnforceFails
    \/ FinishRun
=============================================================================
