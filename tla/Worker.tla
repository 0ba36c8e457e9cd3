------------------------------- MODULE Worker -------------------------------
(***************************************************************************)
(* The whole system: runs of the worker one after the other (src/app/      *)
(* main.py, started by the systemd timer), the Cloudflare list that its    *)
(* operations change in their own time, visitors, the clock and faults.    *)
(***************************************************************************)
EXTENDS BlockLifecycle, ReputationPipeline

Init == DBInit /\ ListInit /\ WorkerInit

\* The timer starts a run: settings are loaded, and the lifecycle begins by
\* querying the expired blocks.
Start ==
    /\ phase = "idle"
    /\ dry' \in DryRunModes
    /\ phase' = "expire"
    /\ todo' = get_expired_blocks(now)
    /\ at' = now
    /\ UNCHANGED <<pc, cur, item, db, listVars, envVars>>

\* The run dies.  The table and the saved offset stay as they are, and so do
\* operations already accepted.
Interrupt ==
    /\ phase # "idle"
    /\ Fault("crash")
    /\ Exit
    /\ DropOperation
    /\ UNCHANGED db
-----------------------------------------------------------------------------
(* The list.                                                               *)

\* Ids are never reused: a new one differs from every id still known.
Fresh(id) ==
    /\ \A ip \in IP : items[ip] # id /\ db[ip].cloudflare_item_id # id
    /\ item # id
    /\ op # NULL => op.item # id
    /\ \A o \in late : o.item # id

TakesEffect(o) ==
    \/ /\ o.kind = "add"
       /\ items[o.ip] = NULL
       /\ \E id \in ItemId : Fresh(id) /\ AddTakesEffect(o.ip, id)
    \/ /\ o.kind = "add"
       /\ items[o.ip] # NULL
       /\ UNCHANGED items
    \/ /\ o.kind = "delete"
       /\ DeleteTakesEffect(o.item)

OperationPending == op # NULL /\ op.status = "pending"

OperationCompletes ==
    /\ OperationPending
    /\ TakesEffect(op)
    /\ op' = [op EXCEPT !.status = "completed"]
    /\ UNCHANGED <<late, db, envVars, runVars>>

\* Deleting an unknown item may be reported as a failure; anything else that
\* fails is a fault.
OperationFails ==
    /\ OperationPending
    /\ \/ /\ op.kind = "delete"
          /\ ~Listed(op.item)
          /\ UNCHANGED envVars
       \/ Fault("opfail")
    /\ op' = [op EXCEPT !.status = "failed"]
    /\ UNCHANGED <<items, late, db, runVars>>

LateCompletes ==
    \E o \in late :
        /\ TakesEffect(o)
        /\ late' = late \ {o}
        /\ UNCHANGED <<op, db, envVars, runVars>>

LateFails ==
    \E o \in late :
        /\ Fault("opfail")
        /\ late' = late \ {o}
        /\ UNCHANGED <<items, op, db, runVars>>

\* The manual unblock of docs/PRODUCTION_RUNBOOK.md.
OperatorRemoves(ip) ==
    /\ items[ip] # NULL
    /\ Fault("operator")
    /\ items' = [items EXCEPT ![ip] = NULL]
    /\ UNCHANGED <<op, late, db, runVars>>

\* A person puts an address on the list: main adopts the item like its own.
OperatorAdds(ip) ==
    /\ items[ip] = NULL
    /\ TakesEffect(AddOf(ip))
    /\ Fault("operator")
    /\ UNCHANGED <<op, late, db, runVars>>
-----------------------------------------------------------------------------
(* The visitors and the clock.                                             *)

Request(ip) ==
    /\ ip \notin logged
    /\ items[ip] = NULL \/ OriginExposed
    /\ logged' = logged \cup {ip}
    /\ UNCHANGED <<db, listVars, now, faults, position, runVars>>

\* The log is rotated or truncated: lines that no run has read may be out of its
\* reach for ever (nginx.py:147-157).
Rotate ==
    /\ Rotates
    /\ \E kept \in SUBSET logged : kept # logged /\ logged' = kept
    /\ UNCHANGED <<db, listVars, now, faults, position, runVars>>

Tick ==
    /\ now < MaxTime
    /\ phase = "idle" \/ SlowRuns
    /\ now' = now + 1
    /\ UNCHANGED <<db, listVars, faults, logged, position, runVars>>
-----------------------------------------------------------------------------
RunStep == Start \/ LifecycleStep \/ PipelineStep

Next ==
    \/ RunStep
    \/ Interrupt
    \/ OperationCompletes
    \/ OperationFails
    \/ LateCompletes
    \/ LateFails
    \/ \E ip \in IP : OperatorRemoves(ip) \/ OperatorAdds(ip) \/ Request(ip)
    \/ Rotate
    \/ Tick

Spec == Init /\ [][Next]_vars

\* The timer starts a run again and again and a run that is not interrupted
\* goes on; accepted operations end; time passes.  Requests, rotations and
\* faults need not happen.
Fairness ==
    /\ WF_vars(RunStep)
    /\ WF_vars(OperationCompletes \/ OperationFails)
    /\ WF_vars(LateCompletes)
    /\ WF_vars(Tick)

FairSpec == Spec /\ Fairness
=============================================================================
