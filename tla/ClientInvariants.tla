-------------------------- MODULE ClientInvariants --------------------------
(***************************************************************************)
(* Why ClientRequirements hold: what is true at each turn of the retry     *)
(* loop.  ClientProofs proves that every step keeps it.                    *)
(***************************************************************************)
EXTENDS ClientRequirements

\* What the turns of the retry loop up to attempt n may have taken.
Spent(n) == n * (MaxRequestTime + MaxDelay)

\* The strengthening of CallsAreBounded: a turn begins early enough.
Timing ==
    /\ pc = "request" => clock <= Lead + Spent(attempt)
    /\ pc = "sleep" => clock + delay <= Lead + Spent(attempt)
    /\ CallsAreBounded

Answered == pc = "request" /\ reply # NULL

\* The strengthening of WaitIsTrue: an answer about an operation that has ended
\* stays true.
Watching ==
    /\ pc # "idle" => outcome = "none"
    /\ pc = "sleep" => reply = NULL
    /\ method = "wait_for_operation" => operation_id # 0
    /\ Answered /\ method = "wait_for_operation" /\ reply.status # "none" =>
        ops[operation_id].status = reply.status
    /\ WaitIsTrue

\* The strengthening of OneOperationPerAttempt: an attempt that was not handled
\* yet, or was refused or limited, has started nothing.
Submitting ==
    /\ \A i \in DOMAIN ops : ops[i].call <= calls
    /\ method \notin Submits => Started = {}
    /\ pc = "sleep" => Cardinality(Started) <= attempt
    /\ pc = "request" /\ reply = NULL => Cardinality(Started) <= attempt
    /\ Answered /\ reply.code \in {"refused", "limited"} => Cardinality(Started) <= attempt
    /\ Answered /\ reply.code = "ok" /\ method \in Submits => reply.id \in Started
    /\ OneOperationPerAttempt

\* The strengthening of FindIsRight: what a lookup holds was true at some moment.
Finding ==
    /\ Finds => (ip \in list) \in moments
    /\ Answered /\ reply.code = "ok" /\ method = "find_ip" => reply.found \in moments
    /\ FindIsRight

\* What each turn of the retry loop keeps, whatever Cloudflare does meanwhile.
Turns ==
    /\ Timing
    /\ Watching
    /\ Submitting

\* No list is longer than what get_list_items reads (cloudflare.py:202).
OnePage == IsFiniteSet(IP) /\ Cardinality(IP) <= PageSize

\* What each step of a call keeps.
ClientInv == Turns /\ (OnePage => Finding)
=============================================================================
