----------------------- MODULE CollectorRequirements -----------------------
(***************************************************************************)
(* What reading the access log must keep true while Nginx writes it,       *)
(* logrotate replaces it and the runs of the worker die.                   *)
(***************************************************************************)
EXTENDS NginxCollector

\* The log has only grown, by whole lines.
Intact ==
    /\ Len(files) = 1
    /\ path # NULL
    /\ happened["truncate"] = 0
    /\ happened["tear"] = 0

Old(n) == n <= baseline \/ requests[n] = NULL

\* Nothing behind the saved offset was missed: whatever runs died and however
\* often the log was rotated, every request of the current file that the saved
\* offset has passed was counted, unless it was there before the first run
\* (nginx.py:138-163).
NothingSkipped ==
    /\ state # NULL
    /\ state.file_inode = path
    /\ happened["truncate"] = 0
    /\ happened["tear"] = 0
    => \A k \in 1 .. Len(files[path]) :
        k <= state.file_offset
        => Old(files[path][k].n) \/ files[path][k].n \in recorded

\* nginx.py:140 "Do NOT process historical log entries": what the first run
\* found in the log is never counted, by it or by a later run, in this file or
\* after a rotation.
HistoryIsNotRead ==
    happened["crash"] = 0 => \A n \in recorded : n > baseline

Counted(ip) == {n \in recorded : requests[n] = ip}

\* A request is counted once, and once more for every run that died: the offset
\* is saved after the lines (nginx.py:194, 202), by another transaction.
CountedOncePerRun ==
    Intact =>
        \A ip \in IP :
            /\ request_count[ip] >= Cardinality(Counted(ip))
            /\ request_count[ip] <= (1 + happened["crash"]) * Cardinality(Counted(ip))

\* Only an address that made a request is recorded (sqlite.py:95): an offset
\* never falls inside a line, unless a line was read before its end was visible
\* or the offset of one text was used in another.
OnlyClientsAreRecorded ==
    Intact => \A ip \in IP :
        request_count[ip] > 0 => \E n \in 1 .. Len(requests) : requests[n] = ip

\* The addresses behind the saved position, and those of this run.
Unread ==
    IF state = NULL \/ path = NULL THEN {}
    ELSE {requests[files[path][k].n] :
            k \in (state.file_offset + 1) .. Len(files[path])} \ {NULL}

Batch == IF state = NULL THEN {} ELSE ips

\* What the collector promises to main.
Promise == INSTANCE RequestLog WITH
    watching <- state # NULL, intact <- Intact, unread <- Unread, batch <- Batch

\* Reading file by file and line by line keeps the promise of RequestLog: an
\* address leaves the unread part of the log only in a batch that was handed to
\* main, although a run may die at any step.
KeepsPromise == Promise!Spec

Logged(n) ==
    /\ state # NULL
    /\ n \in baseline + 1 .. Len(requests)
    /\ requests[n] # NULL

\* A request made after the first run is counted some day, as long as the log
\* only grows.
RequestsAreCounted ==
    \A n \in 1 .. MaxRequests : Logged(n) ~> n \in recorded \/ ~Intact

\* nginx.py:112 "This allows the collector to survive: ... log rotation": a
\* request made after the first run is counted some day.
RequestsSurviveRotation ==
    \A n \in 1 .. MaxRequests : Logged(n) ~> n \in recorded
=============================================================================
