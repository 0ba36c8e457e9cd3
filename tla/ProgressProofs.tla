--------------------------- MODULE ProgressProofs ---------------------------
(***************************************************************************)
(* Machine-checked proof that every call of a run brings the run nearer to *)
(* its end, whatever the call answers: what RunsEnd needs besides          *)
(* fairness.                                                               *)
(***************************************************************************)
EXTENDS WorkerProofs, FiniteSetTheorems

\* What RunsProgress says of one step.
Nearer ==
    \/ PhasesLeft[phase'] < PhasesLeft[phase]
    \/ /\ phase' = phase
       /\ \/ AddressesLeft' < AddressesLeft
          \/ /\ AddressesLeft' = AddressesLeft
             /\ CallsLeft[pc'] < CallsLeft[pc]

(* Taking an address out of a loop leaves one less.                        *)
LEMMA OneLess ==
    ASSUME IsFiniteSet(IP), NEW S \in SUBSET IP
    PROVE  /\ Cardinality(S) \in Nat
           /\ \A ip \in S : Cardinality(S \ {ip}) < Cardinality(S)
<1>1. IsFiniteSet(S)
  BY FS_Subset
<1>2. Cardinality(S) \in Nat
  BY <1>1, FS_CardinalityType
<1>3. ASSUME NEW ip \in S
      PROVE  Cardinality(S \ {ip}) < Cardinality(S)
  <2>1. Cardinality(S \ {ip}) = Cardinality(S) - 1
    BY <1>1, FS_RemoveElement
  <2> QED
    BY <1>2, <2>1
<1> QED
  BY <1>2, <1>3

(* An address is taken, and its first call is next or it is done already.  *)
LEMMA AddressTaken ==
    ASSUME IsFiniteSet(IP), TypeOK, phase # "collect", NEW ip \in todo,
           Skip(ip) \/ \E step \in Step : \E id \in MaybeItem : Begin(ip, step, id)
    PROVE  Nearer
<1>1. phase' = phase /\ todo' = todo \ {ip} /\ todo \in SUBSET IP
  BY DEF Skip, Begin, TypeOK, WorkerTypeOK
<1>2. AddressesLeft = Cardinality(todo) /\ AddressesLeft' = Cardinality(todo \ {ip})
  BY <1>1 DEF AddressesLeft
<1> QED
  BY <1>1, <1>2, OneLess DEF Nearer

(* A call is made, and fewer are left for the address.                     *)
LEMMA CallMade ==
    ASSUME UNCHANGED <<phase, todo>>, CallsLeft[pc'] < CallsLeft[pc]
    PROVE  Nearer
BY DEF Nearer, AddressesLeft

(* The calls of a release, in their order.                                 *)
LEMMA ReleaseNearer ==
    ASSUME \/ MarkRecheck \/ DeleteAccepted \/ DeleteLost \/ MarkPendingDelete
           \/ DeleteCompleted \/ MarkReleased \/ ReleaseFails
    PROVE  Nearer
<1>1. UNCHANGED <<phase, todo>>
  BY DEF MarkRecheck, DeleteAccepted, DeleteLost, MarkPendingDelete, DeleteCompleted,
     MarkReleased, ReleaseFails, GoTo, NextAddress
<1>2. \/ pc \in {"mark_recheck", "delete", "mark_pending_delete", "wait_delete",
                 "mark_released"} /\ pc' = "pick"
      \/ pc = "delete" /\ pc' = "mark_pending_delete"
      \/ pc = "mark_pending_delete" /\ pc' = "wait_delete"
      \/ pc = "wait_delete" /\ pc' = "mark_released"
  BY DEF MarkRecheck, DeleteAccepted, DeleteLost, MarkPendingDelete, DeleteCompleted,
     MarkReleased, ReleaseFails, ReleaseRaises, GoTo, NextAddress
<1>3. CallsLeft[pc'] < CallsLeft[pc]
  BY <1>2 DEF CallsLeft
<1> QED
  BY <1>1, <1>3, CallMade

(* The calls of an enforcement, in their order.                            *)
LEMMA EnforcementNearer ==
    ASSUME \/ FindExisting \/ FindNone \/ AddAccepted \/ AddLost \/ MarkPending
           \/ AddCompleted \/ VerifyFound \/ MarkBlocked \/ MarkActive \/ EnforceFails
    PROVE  Nearer
<1>1. UNCHANGED <<phase, todo>>
  BY DEF FindExisting, FindNone, AddAccepted, AddLost, MarkPending, AddCompleted,
     VerifyFound, MarkBlocked, MarkActive, EnforceFails, GoTo, NextAddress
<1>2. \/ pc \in {"find_ip", "add_ip", "mark_pending", "wait_add", "verify",
                 "mark_blocked", "mark_active"} /\ pc' = "pick"
      \/ pc = "find_ip" /\ pc' \in {"mark_blocked", "mark_active", "add_ip"}
      \/ pc = "add_ip" /\ pc' = "mark_pending"
      \/ pc = "mark_pending" /\ pc' = "wait_add"
      \/ pc = "wait_add" /\ pc' = "verify"
      \/ pc = "verify" /\ pc' = "mark_blocked"
      \/ pc = "mark_blocked" /\ pc' = "mark_active"
  BY DEF FindExisting, FindNone, AddAccepted, AddLost, MarkPending, AddCompleted,
     VerifyFound, MarkBlocked, MarkActive, EnforceFails, EnforceRaises, GoTo, NextAddress
<1>3. CallsLeft[pc'] < CallsLeft[pc]
  BY <1>2 DEF CallsLeft
<1> QED
  BY <1>1, <1>3, CallMade

(* A loop is over and the next one begins, or the run ends.                *)
LEMMA LoopOver ==
    ASSUME TypeOK, QueryDue \/ EndLifecycle \/ CollectDone \/ FinishRun
    PROVE  Nearer
<1>1. \/ phase = "expire" /\ phase' = "recheck"
      \/ phase = "recheck" /\ phase' = "collect"
      \/ phase = "collect" /\ phase' \in {"check", "idle"}
      \/ phase = "check" /\ phase' = "idle"
  BY DEF QueryDue, EndLifecycle, CollectDone, FinishRun, Enter, Exit
<1> QED
  BY <1>1 DEF Nearer, PhasesLeft

(* Reading a line leaves one address less that the run could still meet.   *)
LEMMA LineCollected ==
    ASSUME IsFiniteSet(IP), TypeOK, NEW ip \in IP, CollectLine(ip)
    PROVE  Nearer
<1>1. phase = "collect" /\ phase' = phase /\ todo' = todo \cup {ip} /\ ip \in IP \ todo
  BY DEF CollectLine
<1>2. IP \ todo' = (IP \ todo) \ {ip}
  BY <1>1
<1>3. /\ AddressesLeft = Cardinality(IP \ todo)
      /\ AddressesLeft' = Cardinality((IP \ todo) \ {ip})
  BY <1>1, <1>2 DEF AddressesLeft
<1> QED
  BY <1>1, <1>3, OneLess DEF Nearer

(* Every step of a run.                                                    *)
LEMMA StepNearer ==
    ASSUME IsFiniteSet(IP), TypeOK, RunStep, phase # "idle"
    PROVE  Nearer
<1>1. ~Start
  BY DEF Start
<1>2. ASSUME NEW ip \in IP,
             \/ ExpireSkip(ip) \/ ExpireBegin(ip) \/ RecheckSkip(ip) \/ RecheckError(ip)
             \/ SkipActive(ip) \/ SkipCached(ip) \/ CheckError(ip)
             \/ \E score \in Scores : RecheckScored(ip, score) \/ CheckScored(ip, score)
      PROVE  Nearer
  <2>1. phase # "collect" /\ ip \in todo
    BY <1>2 DEF ExpireSkip, ExpireBegin, ExpireNext, RecheckSkip, RecheckError,
       RecheckScored, RecheckNext, SkipActive, SkipCached, CheckError, CheckScored,
       CheckDue, Picks
  <2>2. NULL \in MaybeItem /\ db[ip].cloudflare_item_id \in MaybeItem
    BY DEF MaybeItem, TypeOK, DBTypeOK, Row
  <2>3. {"delete", "mark_recheck", "find_ip"} \subseteq Step
    BY DEF Step
  <2>4. Skip(ip) \/ \E step \in Step : \E id \in MaybeItem : Begin(ip, step, id)
    BY <1>2, <2>2, <2>3 DEF ExpireSkip, ExpireBegin, RecheckSkip, RecheckError,
       RecheckScored, SkipActive, SkipCached, CheckError, CheckScored
  <2> QED
    BY <2>1, <2>4, AddressTaken
<1> QED
  BY <1>1, <1>2, ReleaseNearer, EnforcementNearer, LoopOver, LineCollected
     DEF RunStep, LifecycleStep, PipelineStep

(* What is left of a run is counted by natural numbers.                    *)
LEMMA LeftIsNatural ==
    ASSUME IsFiniteSet(IP), TypeOK
    PROVE  /\ PhasesLeft[phase] \in Nat
           /\ AddressesLeft \in Nat
           /\ CallsLeft[pc] \in Nat
<1>1. /\ phase \in Phase /\ pc \in Step
      /\ todo \in SUBSET IP /\ IP \ todo \in SUBSET IP
  BY DEF TypeOK, WorkerTypeOK
<1>2. Cardinality(todo) \in Nat /\ Cardinality(IP \ todo) \in Nat
  BY <1>1, OneLess
<1>3. PhasesLeft[phase] \in Nat
  BY <1>1 DEF PhasesLeft, Phase
<1>4. CallsLeft[pc] \in Nat
  BY <1>1 DEF CallsLeft, Step
<1> QED
  BY <1>2, <1>3, <1>4 DEF AddressesLeft

(* A run comes nearer to its end with every call, and only finitely often: *)
(* no answer, fault, visitor or operation makes it go on for ever.         *)
THEOREM RunsNearTheirEnd ==
    ASSUME IsFiniteSet(IP)
    PROVE  Spec => /\ RunsProgress
                   /\ [](/\ PhasesLeft[phase] \in Nat
                         /\ AddressesLeft \in Nat
                         /\ CallsLeft[pc] \in Nat)
<1> DEFINE Progress == RunStep /\ phase # "idle" =>
            \/ PhasesLeft[phase'] < PhasesLeft[phase]
            \/ /\ phase' = phase
               /\ \/ AddressesLeft' < AddressesLeft
                  \/ /\ AddressesLeft' = AddressesLeft
                     /\ CallsLeft[pc'] < CallsLeft[pc]
           Left == /\ PhasesLeft[phase] \in Nat
                   /\ AddressesLeft \in Nat
                   /\ CallsLeft[pc] \in Nat
<1>1. TypeOK /\ [Next]_vars => [Progress]_vars
  BY StepNearer DEF Nearer
<1>2. TypeOK => Left
  BY LeftIsNatural
<1> QED
  BY TypeCorrect, <1>1, <1>2, PTL DEF Spec, RunsProgress
=============================================================================
