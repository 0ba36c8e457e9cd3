--------------------------- MODULE NginxCollector ---------------------------
(***************************************************************************)
(* src/app/collector/nginx.py: NginxCollector.collect, run after run, and  *)
(* the access log that Nginx writes and logrotate replaces meanwhile.      *)
(*                                                                         *)
(* A file is a sequence of stretches of text, and an offset is a number of *)
(* stretches.  A line is one stretch, or two when its length lets an       *)
(* offset of another file, or a reader that comes too early, fall inside   *)
(* it.  What a stretch says is what extract_ip_from_line makes of it when  *)
(* it is read without the one before it.  An inode is the number of its    *)
(* file: inodes are not reused.                                            *)
(***************************************************************************)
EXTENDS Domain, Sequences, FiniteSets

CONSTANTS
    Clients,       \* who makes requests; NULL: not a global IPv4 address
    SplitLines,    \* may a line be more than one stretch?
    MaxRequests,   \* bound: how many requests in one behaviour
    MaxFiles,      \* bound: how many access logs
    Troubles,      \* the kinds of trouble that may happen
    MaxTroubles    \* bound: how many of them in one behaviour

Trouble ==
    {"crash",      \* the run dies: killed, rebooted, an uncaught exception
     "truncate",   \* the file is emptied in place (copytruncate)
     "tear"}       \* a line is visible before its end is

\* A row of collector_state.
Position == [file_inode : Nat, file_offset : Nat]

ASSUME CollectorAssumption ==
    /\ NULL \notin Position
    /\ Clients \subseteq IP \cup {NULL}
    /\ SplitLines \in BOOLEAN
    /\ MaxRequests \in Nat
    /\ MaxFiles \in Nat \ {0}
    /\ Troubles \subseteq Trouble
    /\ MaxTroubles \in Nat

VARIABLES
    requests,        \* the client of every request made so far
    files,           \* the access logs, the current one last
    path,            \* the file at log_path, NULL while there is none
    happened,        \* how often each kind of trouble has happened
    state,           \* the row of collector_state, NULL at first
    request_count,   \* the column of ip_reputation, 0 without a row
    pc,              \* the next call of collect
    inode,           \* current_inode
    file,            \* the file that is open
    pos,             \* start_offset, then the position in the open file
    ips,             \* the addresses collected in this run
    recorded,        \* history: the requests counted from the beginning of their line
    baseline         \* history: the last request the first run found logged

logVars == <<requests, files, path>>
dbVars == <<state, request_count>>
runVars == <<pc, inode, file, pos, ips>>
vars == <<logVars, happened, dbVars, runVars, recorded, baseline>>

MaybeIP == IP \cup {NULL}

\* n: which request; says: the address it shows by itself; ends: its newline.
Stretch == [n : Nat, says : MaybeIP, ends : BOOLEAN]

TypeOK ==
    /\ requests \in Seq(MaybeIP)
    /\ files \in Seq(Seq(Stretch))
    /\ path \in {NULL, Len(files)}
    /\ happened \in [Trouble -> Nat]
    /\ state \in Position \cup {NULL}
    /\ request_count \in [IP -> Nat]
    /\ pc \in {"idle", "open", "read", "save"}
    /\ inode \in Nat
    /\ file \in Nat
    /\ pos \in Nat
    /\ ips \subseteq IP
    /\ recorded \subseteq Nat
    /\ baseline \in Nat

Init ==
    /\ requests = <<>>
    /\ files = << <<>> >>
    /\ path = 1
    /\ happened = [kind \in Trouble |-> 0]
    /\ state = NULL
    /\ request_count = [ip \in IP |-> 0]
    /\ pc = "idle"
    /\ inode = 0
    /\ file = 0
    /\ pos = 0
    /\ ips = {}
    /\ recorded = {}
    /\ baseline = 0
-----------------------------------------------------------------------------
(* Nginx and logrotate.                                                    *)

Happens(kind) ==
    /\ kind \in Troubles
    /\ happened["crash"] + happened["truncate"] + happened["tear"] < MaxTroubles
    /\ happened' = [happened EXCEPT ![kind] = @ + 1]

Log == files[Len(files)]

Written(text) == files' = [files EXCEPT ![Len(files)] = @ \o text]

Ended(text) == text # <<>> => text[Len(text)].ends

\* Stretch k of the text begins a line.
Begins(text, k) == k = 1 \/ text[k - 1].ends

\* The two stretches of the line of request n, cut behind the address and its
\* blank or before: what the client wrote in the rest of the line may begin with
\* any address, and the end of an address may be another address.
Halves(n, ip) ==
    {<<[n |-> n, says |-> cut[1], ends |-> FALSE],
       [n |-> n, says |-> cut[2], ends |-> TRUE]>> :
       cut \in ({ip} \X MaybeIP) \cup ({NULL} \X (MaybeIP \ ({ip} \ {NULL})))}

Lines(n, ip) ==
    {<<[n |-> n, says |-> ip, ends |-> TRUE]>>}
    \cup IF SplitLines THEN Halves(n, ip) ELSE {}

Request(ip) ==
    /\ Len(requests) < MaxRequests
    /\ Ended(Log)
    /\ requests' = Append(requests, ip)
    /\ \E line \in Lines(Len(requests'), ip) : Written(line)
    /\ UNCHANGED <<path, happened, dbVars, runVars, recorded, baseline>>

\* A line whose end is not visible yet.
Tear(ip) ==
    /\ Len(requests) < MaxRequests
    /\ Ended(Log)
    /\ requests' = Append(requests, ip)
    /\ \E line \in Halves(Len(requests'), ip) : Written(<<line[1]>>)
    /\ Happens("tear")
    /\ UNCHANGED <<path, dbVars, runVars, recorded, baseline>>

EndLine ==
    /\ ~Ended(Log)
    /\ LET front == Log[Len(Log)] IN
       \E line \in Halves(front.n, requests[front.n]) :
           line[1] = front /\ Written(<<line[2]>>)
    /\ UNCHANGED <<requests, path, happened, dbVars, runVars, recorded, baseline>>

\* logrotate moves the file away; Nginx goes on writing to it.
Rename ==
    /\ path # NULL
    /\ Len(files) < MaxFiles
    /\ Ended(Log)
    /\ path' = NULL
    /\ UNCHANGED <<requests, files, happened, dbVars, runVars, recorded, baseline>>

\* Nginx reopens its log: a new, empty file.
Reopen ==
    /\ path = NULL
    /\ Ended(Log)
    /\ files' = Append(files, <<>>)
    /\ path' = Len(files')
    /\ UNCHANGED <<requests, happened, dbVars, runVars, recorded, baseline>>

Truncate ==
    /\ path # NULL
    /\ Log # <<>>
    /\ Ended(Log)
    /\ files' = [files EXCEPT ![path] = <<>>]
    /\ Happens("truncate")
    /\ UNCHANGED <<requests, path, dbVars, runVars, recorded, baseline>>
-----------------------------------------------------------------------------
(* collect.                                                                *)

\* Mutation: the inode is not compared.
start_offset_AnyInode(current_inode, current_size) ==
    IF state = NULL THEN current_size
    ELSE IF current_size < state.file_offset THEN 0
    ELSE state.file_offset

\* Mutation: a log that has not grown is taken for a truncated one.
start_offset_NoGrowth(current_inode, current_size) ==
    IF state = NULL THEN current_size
    ELSE IF state.file_inode # current_inode THEN 0
    ELSE IF current_size <= state.file_offset THEN 0
    ELSE state.file_offset

\* Mutation: a first run reads the whole file.
start_offset_History(current_inode, current_size) ==
    IF state = NULL \/ state.file_inode # current_inode THEN 0
    ELSE IF current_size < state.file_offset THEN 0
    ELSE state.file_offset

\* Mutation: the saved offset is not used.
start_offset_End(current_inode, current_size) == current_size

\* At the end on the first run, at the beginning of a file that is another one
\* or has become shorter, and otherwise where the last run ended.
start_offset(current_inode, current_size) ==
    IF state = NULL THEN current_size
    ELSE IF state.file_inode # current_inode THEN 0
    ELSE IF current_size < state.file_offset THEN 0
    ELSE state.file_offset

\* stat and get_collector_state.  Without a file, collect raises at once.
Stat ==
    /\ pc = "idle"
    /\ path # NULL
    /\ inode' = path
    /\ pos' = start_offset(path, Len(files[path]))
    /\ baseline' = IF state = NULL THEN Len(requests) ELSE baseline
    /\ pc' = "open"
    /\ UNCHANGED <<logVars, happened, dbVars, file, ips, recorded>>

\* The file at log_path need not be the one stat saw.
Open ==
    /\ pc = "open"
    /\ path # NULL
    /\ file' = path
    /\ pc' = "read"
    /\ UNCHANGED <<logVars, happened, dbVars, inode, pos, ips, recorded, baseline>>

\* Mutation: the file is read by blocks, not by lines.
Joined_Never == FALSE

\* readline from pos: one stretch, or two when the first does not end a line.
Joined == ~files[file][pos + 1].ends /\ pos + 2 <= Len(files[file])

extract_ip ==
    IF Joined THEN requests[files[file][pos + 1].n] ELSE files[file][pos + 1].says

\* One line: an address is remembered and counted by record_seen.
ReadLine ==
    /\ pc = "read"
    /\ pos < Len(files[file])
    /\ pos' = IF Joined THEN pos + 2 ELSE pos + 1
    /\ LET n == files[file][pos + 1].n
           ip == extract_ip
           own == Begins(files[file], pos + 1) /\ ip = requests[n]
       IN
       IF ip = NULL
       THEN UNCHANGED <<ips, request_count, recorded>>
       ELSE /\ ips' = ips \cup {ip}
            /\ request_count' = [request_count EXCEPT ![ip] = @ + 1]
            /\ recorded' = IF own THEN recorded \cup {n} ELSE recorded
    /\ UNCHANGED <<logVars, happened, state, pc, inode, file, baseline>>

\* final_offset
EndOfFile ==
    /\ pc = "read"
    /\ pos >= Len(files[file])
    /\ pc' = "save"
    /\ UNCHANGED <<logVars, happened, dbVars, inode, file, pos, ips, recorded, baseline>>

\* collect returns or the run dies: what it held in memory is gone.
Leave ==
    /\ pc' = "idle"
    /\ inode' = 0
    /\ file' = 0
    /\ pos' = 0
    /\ ips' = {}

\* Mutation: the size at the time of the save is saved.
Save_CurrentSize ==
    /\ pc = "save"
    /\ state' = [file_inode |-> inode, file_offset |-> Len(files[file])]
    /\ Leave
    /\ UNCHANGED <<logVars, happened, request_count, recorded, baseline>>

\* Mutation: the position is not saved.
Save_NoPosition ==
    /\ pc = "save"
    /\ state' = [file_inode |-> inode, file_offset |-> NULL]
    /\ Leave
    /\ UNCHANGED <<logVars, happened, request_count, recorded, baseline>>

\* save_collector_state, and the addresses go to main.
Save ==
    /\ pc = "save"
    /\ state' = [file_inode |-> inode, file_offset |-> pos]
    /\ Leave
    /\ UNCHANGED <<logVars, happened, request_count, recorded, baseline>>

\* The log was moved away between stat and open.
OpenFails ==
    /\ pc = "open"
    /\ path = NULL
    /\ Leave
    /\ UNCHANGED <<logVars, happened, dbVars, recorded, baseline>>

Crash ==
    /\ pc # "idle"
    /\ Happens("crash")
    /\ Leave
    /\ UNCHANGED <<logVars, dbVars, recorded, baseline>>
-----------------------------------------------------------------------------
CollectStep == Stat \/ Open \/ OpenFails \/ ReadLine \/ EndOfFile \/ Save

Next ==
    \/ \E ip \in Clients : Request(ip) \/ Tear(ip)
    \/ EndLine
    \/ Rename
    \/ Reopen
    \/ Truncate
    \/ CollectStep
    \/ Crash

Spec == Init /\ [][Next]_vars

\* The timer starts run after run, each goes on until it ends or dies; a file
\* that was moved away is replaced and a line that was begun is ended.
FairSpec == Spec /\ WF_vars(CollectStep) /\ WF_vars(Reopen) /\ WF_vars(EndLine)
=============================================================================
