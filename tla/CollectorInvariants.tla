------------------------ MODULE CollectorInvariants ------------------------
(***************************************************************************)
(* The inductive invariant behind CollectorRequirements: what the text of  *)
(* a file looks like, what lies before a position and what lies after it.  *)
(***************************************************************************)
EXTENDS CollectorRequirements

Torn == happened["tear"] > 0

Truncated == happened["truncate"] > 0

\* A position at the beginning of a line.
Between(text, p) == p = 0 \/ text[p].ends

\* The stretches of a text are lines that show the requests of made, all of
\* them ended unless one was torn.
Lined(text, made, torn) ==
    \A k \in 1 .. Len(text) :
        /\ text[k].n \in 1 .. Len(made)
        /\ Begins(text, k) /\ text[k].ends => text[k].says = made[text[k].n]
        /\ ~text[k].ends =>
            /\ Begins(text, k)
            /\ k = Len(text) => torn
            /\ k < Len(text) => text[k + 1].ends /\ text[k + 1].n = text[k].n

LogInv ==
    /\ Len(files) > 0
    /\ \A i \in 1 .. Len(files) : Lined(files[i], requests, Torn)

\* What a run holds.
HeldInv ==
    /\ baseline <= Len(requests)
    /\ pc = "idle" => ips = {}
    /\ pc \in {"open", "read", "save"} => inode \in 1 .. Len(files)
    /\ pc \in {"read", "save"} => file \in inode .. Len(files)
    /\ state # NULL => state.file_inode \in 1 .. Len(files)
-----------------------------------------------------------------------------
\* Up to position p every request of file i is counted or old, and p is the
\* beginning of a line.
Covered(i, p) ==
    /\ p <= Len(files[i])
    /\ Between(files[i], p)
    /\ \A k \in 1 .. p : Old(files[i][k].n) \/ files[i][k].n \in recorded

\* The files the saved position and the run speak of, when nothing was torn or
\* truncated.
CoverInv ==
    ~Torn /\ ~Truncated =>
        /\ state # NULL /\ state.file_inode = path =>
            Covered(path, state.file_offset)
        /\ pc = "open" /\ inode = path => Covered(path, pos)
        /\ pc \in {"read", "save"} /\ inode = file => Covered(file, pos)
-----------------------------------------------------------------------------
\* Stretch k of a text is about a request after number last, or it is the rest
\* of a line.
Later(text, k, last) == text[k].n > last \/ ~Begins(text, k)

After(text, p, last) == \A k \in 1 .. Len(text) : k > p => Later(text, k, last)

\* What is after p is later, and so is all of a text that became shorter.
Ahead(text, p, last) ==
    /\ After(text, p, last)
    /\ Len(text) < p => After(text, 0, last)

\* Nothing of the history is ahead, until a run dies.
AheadInv ==
    happened["crash"] = 0 =>
        /\ \A n \in recorded : n > baseline
        /\ state = NULL /\ pc \in {"idle", "open"} => recorded = {}
        /\ state # NULL =>
            /\ \A j \in state.file_inode + 1 .. Len(files) : After(files[j], 0, baseline)
            /\ state.file_inode = path => Ahead(files[path], state.file_offset, baseline)
        /\ pc # "idle" => \A j \in inode + 1 .. Len(files) : After(files[j], 0, baseline)
        /\ pc = "open" /\ inode = path => Ahead(files[path], pos, baseline)
        /\ pc \in {"read", "save"} => Ahead(files[file], pos, baseline)
-----------------------------------------------------------------------------
\* What the run has read since the saved position is in its batch.
BatchInv ==
    Intact /\ state # NULL /\ pc # "idle" =>
        /\ pos >= state.file_offset
        /\ \A k \in state.file_offset + 1 .. pos :
            requests[files[1][k].n] \in ips \cup {NULL}
-----------------------------------------------------------------------------
\* A line is about a later request than all the text before it.
Ordered(text) == \A j \in 1 .. Len(text) : After(text, j, text[j].n)

\* Where the text has been read to: by the run, or by the last one that ended.
Reached == IF pc # "idle" THEN pos ELSE IF state # NULL THEN state.file_offset ELSE 0

\* The requests of an address that are counted and behind that position.
Passed(ip) == {n \in Counted(ip) : \E k \in 1 .. Reached : files[1][k].n = n}

\* A request behind the position is counted once and once for every run that
\* died, one that is ahead of it only by runs that died.
CountInv ==
    Intact =>
        /\ Ordered(files[1])
        /\ recorded \subseteq 1 .. Len(requests)
        /\ \A ip \in IP :
            /\ request_count[ip] >= Cardinality(Counted(ip))
            /\ request_count[ip] <=
                happened["crash"] * Cardinality(Counted(ip)) + Cardinality(Passed(ip))
-----------------------------------------------------------------------------
\* The text of the files is made of lines, the saved position and that of the
\* run lie between two of them, before them is only what was counted or is old,
\* after them only what is new, the run holds what it has read, and what was read
\* again was read by a run that died: so that a run may die anywhere and the next
\* one goes on without a gap.
CollectorInv == LogInv /\ HeldInv /\ CoverInv /\ AheadInv /\ BatchInv /\ CountInv
=============================================================================
