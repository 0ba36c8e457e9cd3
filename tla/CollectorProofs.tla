-------------------------- MODULE CollectorProofs --------------------------
(***************************************************************************)
(* Machine-checked proofs of the requirements of the collector, for any    *)
(* set of addresses, any number of requests and of log files, and any      *)
(* trouble.                                                                *)
(***************************************************************************)
EXTENDS CollectorInvariants, SequenceTheorems, FiniteSetTheorems, TLAPS

-----------------------------------------------------------------------------
(* Texts.                                                                  *)

Texts == Seq(Stretch)

(* A text with no stretch is the empty one.                                *)
LEMMA EmptyText ==
    ASSUME NEW text \in Texts
    PROVE  /\ Len(text) \in Nat
           /\ text # <<>> <=> Len(text) > 0
BY EmptySeq, LenProperties DEF Texts

(* The stretches of a text.                                                *)
LEMMA StretchOf ==
    ASSUME NEW text \in Texts, NEW k \in 1 .. Len(text)
    PROVE  /\ text[k].n \in Nat
           /\ text[k].says \in MaybeIP
           /\ text[k].ends \in BOOLEAN
<1>1. text[k] \in Stretch
  BY ElementOfSeq DEF Texts
<1> QED
  BY <1>1 DEF Stretch

(* Texts of one and of two stretches.                                      *)
LEMMA ShortTexts ==
    ASSUME NEW s \in Stretch, NEW t \in Stretch
    PROVE  /\ <<s>> \in Texts /\ Len(<<s>>) = 1 /\ <<s>>[1] = s
           /\ <<s, t>> \in Texts /\ Len(<<s, t>>) = 2
           /\ <<s, t>>[1] = s /\ <<s, t>>[2] = t
BY DEF Texts

(* The text of one stretch has no other.                                   *)
LEMMA OneStretch ==
    ASSUME NEW s \in Stretch
    PROVE  /\ <<s>> \in Texts
           /\ \A k \in 1 .. Len(<<s>>) : k = 1 /\ <<s>>[k] = s
<1>1. Len(<<s>>) = 1 /\ <<s>>[1] = s /\ <<s>> \in Texts
  BY ShortTexts
<1> QED
  BY <1>1

(* Appending to a text leaves what is there.                               *)
LEMMA Appended ==
    ASSUME NEW text \in Texts, NEW more \in Texts
    PROVE  /\ text \o more \in Texts
           /\ Len(text \o more) = Len(text) + Len(more)
           /\ \A k \in 1 .. Len(text) : (text \o more)[k] = text[k]
           /\ \A k \in 1 .. Len(more) : (text \o more)[Len(text) + k] = more[k]
<1>1. /\ Len(text) \in Nat
      /\ Len(more) \in Nat
  BY EmptyText
<1>2. \A i \in 1 .. Len(text) + Len(more) :
        (text \o more)[i] = IF i <= Len(text) THEN text[i] ELSE more[i - Len(text)]
  BY ConcatProperties DEF Texts
<1>3. ASSUME NEW k \in 1 .. Len(more)
      PROVE  (text \o more)[Len(text) + k] = more[k]
  BY <1>1, <1>2
<1> QED
  BY <1>1, <1>2, <1>3, ConcatProperties DEF Texts

(* The two halves of a line.                                               *)
LEMMA HalvesOf ==
    ASSUME NEW n \in Nat, NEW ip \in MaybeIP, NEW line \in Halves(n, ip)
    PROVE  /\ line \in Texts /\ Len(line) = 2
           /\ line[1] \in Stretch /\ line[2] \in Stretch
           /\ line[1].n = n /\ line[2].n = n
           /\ ~line[1].ends /\ line[2].ends
<1>1. PICK cut \in ({ip} \X MaybeIP) \cup ({NULL} \X (MaybeIP \ ({ip} \ {NULL}))) :
        line = <<[n |-> n, says |-> cut[1], ends |-> FALSE],
                 [n |-> n, says |-> cut[2], ends |-> TRUE]>>
  BY DEF Halves
<1>2. cut[1] \in MaybeIP /\ cut[2] \in MaybeIP
  BY <1>1 DEF MaybeIP
<1>3. /\ [n |-> n, says |-> cut[1], ends |-> FALSE] \in Stretch
      /\ [n |-> n, says |-> cut[2], ends |-> TRUE] \in Stretch
  BY <1>2 DEF Stretch
<1> QED
  BY <1>1, <1>2, <1>3, ShortTexts

(* A line is a text that shows its request.                                *)
LEMMA LinesOf ==
    ASSUME NEW n \in Nat, NEW ip \in MaybeIP, NEW line \in Lines(n, ip)
    PROVE  /\ line \in Texts
           /\ \/ /\ Len(line) = 1
                 /\ line[1] = [n |-> n, says |-> ip, ends |-> TRUE]
              \/ line \in Halves(n, ip)
<1>1. CASE line \in Halves(n, ip)
  BY <1>1, HalvesOf
<1>2. CASE line = <<[n |-> n, says |-> ip, ends |-> TRUE]>>
  <2>1. [n |-> n, says |-> ip, ends |-> TRUE] \in Stretch
    BY DEF Stretch
  <2> QED
    BY <1>2, <2>1, ShortTexts
<1> QED
  BY <1>1, <1>2 DEF Lines

(* A text that ended goes on with a line, and still shows its requests.    *)
LEMMA LineAdded ==
    ASSUME NEW text \in Texts, NEW made \in Seq(MaybeIP), NEW ip \in MaybeIP,
           NEW torn \in BOOLEAN,
           Lined(text, made, torn), Ended(text),
           NEW line \in Lines(Len(made) + 1, ip)
    PROVE  Lined(text \o line, Append(made, ip), torn)
<1> DEFINE more == Append(made, ip)
           n == Len(made) + 1
           all == text \o line
<1>1. /\ Len(made) \in Nat
      /\ Len(more) = n
      /\ more[n] = ip
      /\ \A i \in 1 .. Len(made) : more[i] = made[i]
  BY AppendProperties, LenProperties
<1>2. /\ line \in Texts
      /\ \/ Len(line) = 1 /\ line[1] = [n |-> n, says |-> ip, ends |-> TRUE]
         \/ /\ Len(line) = 2 /\ line[1].n = n /\ line[2].n = n
            /\ ~line[1].ends /\ line[2].ends
  <2>1. n \in Nat
    BY <1>1
  <2>2. /\ line \in Texts
        /\ \/ Len(line) = 1 /\ line[1] = [n |-> n, says |-> ip, ends |-> TRUE]
           \/ line \in Halves(n, ip)
    BY <2>1, LinesOf
  <2> HIDE DEF n
  <2>3. CASE line \in Halves(n, ip)
    BY <2>1, <2>3, HalvesOf
  <2> QED
    BY <2>2, <2>3
<1>3. /\ Len(text) \in Nat
      /\ Len(all) = Len(text) + Len(line)
      /\ \A k \in 1 .. Len(text) : all[k] = text[k]
      /\ \A k \in 1 .. Len(line) : all[Len(text) + k] = line[k]
  <2>1. Len(text) \in Nat
    BY EmptyText
  <2> QED
    BY <1>2, <2>1, Appended
<1>4. Len(text) > 0 => text[Len(text)].ends
  BY EmptyText DEF Ended
<1> HIDE DEF more, n, all
<1> SUFFICES ASSUME NEW k \in 1 .. Len(all)
             PROVE  /\ all[k].n \in 1 .. Len(more)
                    /\ Begins(all, k) /\ all[k].ends => all[k].says = more[all[k].n]
                    /\ ~all[k].ends =>
                        /\ Begins(all, k)
                        /\ k = Len(all) => torn
                        /\ k < Len(all) => all[k + 1].ends /\ all[k + 1].n = all[k].n
  BY DEF Lined, more, all
<1>5. CASE k <= Len(text)
  <2>1. /\ k \in 1 .. Len(text)
        /\ all[k] = text[k]
        /\ Begins(all, k) <=> Begins(text, k)
    BY <1>3, <1>5, <1>2 DEF Begins
  <2>2. k < Len(text) => all[k + 1] = text[k + 1]
    BY <1>3, <1>5
  <2>3. /\ text[k].n \in 1 .. Len(made)
        /\ Begins(text, k) /\ text[k].ends => text[k].says = made[text[k].n]
        /\ ~text[k].ends =>
            /\ Begins(text, k)
            /\ k < Len(text) => text[k + 1].ends /\ text[k + 1].n = text[k].n
    BY <2>1 DEF Lined
  <2>4. ~text[k].ends => k < Len(text)
    BY <1>3, <1>4, <1>5
  <2> QED
    BY <1>1, <1>2, <1>3, <2>1, <2>2, <2>3, <2>4 DEF n
<1>6. CASE k = Len(text) + 1
  <2>1. all[k] = line[1]
    BY <1>2, <1>3, <1>6
  <2>2. Begins(all, k)
    <3>1. Len(text) > 0 => Len(text) \in 1 .. Len(text) /\ k - 1 = Len(text)
      BY <1>3, <1>6
    <3>2. Len(text) > 0 => all[k - 1].ends
      BY <1>3, <1>4, <3>1
    <3> QED
      BY <1>3, <1>6, <3>2 DEF Begins
  <2>3. Len(line) = 2 => k + 1 = Len(all) /\ all[k + 1] = line[2]
    BY <1>2, <1>3, <1>6
  <2> QED
    BY <1>1, <1>2, <1>3, <1>6, <2>1, <2>2, <2>3 DEF n
<1>7. CASE k = Len(text) + 2
  <2>1. /\ Len(line) = 2
        /\ all[k] = line[2]
        /\ ~Begins(all, k)
    BY <1>2, <1>3, <1>7 DEF Begins
  <2> QED
    BY <1>1, <1>2, <1>3, <1>7, <2>1 DEF n
<1> QED
  BY <1>2, <1>3, <1>5, <1>6, <1>7

(* So does a text to which half a line is added: its beginning, while its  *)
(* end is not visible, or the end that was missing.                        *)
LEMMA HalfAdded ==
    ASSUME NEW text \in Texts, NEW made \in Seq(MaybeIP), NEW more \in Seq(MaybeIP),
           NEW torn \in BOOLEAN, NEW s \in Stretch,
           Lined(text, made, torn),
           Len(made) <= Len(more),
           \A n \in 1 .. Len(made) : more[n] = made[n],
           s.n \in 1 .. Len(more),
           Ended(text) <=> ~s.ends,
           ~Ended(text) => s.n = text[Len(text)].n
    PROVE  Lined(text \o <<s>>, more, torn \/ ~s.ends)
<1> DEFINE all == text \o <<s>>
           last == Len(text)
<1>1. /\ last \in Nat
      /\ Len(made) \in Nat
      /\ Len(more) \in Nat
      /\ Ended(text) <=> (last > 0 => text[last].ends)
  BY EmptyText, LenProperties DEF Ended
<1>2. /\ Len(all) = last + 1
      /\ \A k \in 1 .. last : all[k] = text[k]
      /\ all[last + 1] = s
  BY <1>1, ShortTexts, Appended
<1> HIDE DEF all, last
<1> SUFFICES ASSUME NEW k \in 1 .. Len(all)
             PROVE  /\ all[k].n \in 1 .. Len(more)
                    /\ Begins(all, k) /\ all[k].ends => all[k].says = more[all[k].n]
                    /\ ~all[k].ends =>
                        /\ Begins(all, k)
                        /\ k = Len(all) => torn \/ ~s.ends
                        /\ k < Len(all) => all[k + 1].ends /\ all[k + 1].n = all[k].n
  BY DEF Lined, all
<1>3. CASE k <= last
  <2>1. /\ k \in 1 .. last
        /\ all[k] = text[k]
        /\ Begins(all, k) <=> Begins(text, k)
        /\ k < last => all[k + 1] = text[k + 1]
        /\ k = last => all[k + 1] = s
    <3>1. k \in 1 .. last /\ k \in Nat
      BY <1>1, <1>2, <1>3
    <3>2. k < last => k + 1 \in 1 .. last
      BY <1>1, <3>1
    <3>3. k > 1 => k - 1 \in 1 .. last
      BY <1>1, <3>1
    <3>4. k > 1 => all[k - 1] = text[k - 1]
      BY <1>2, <3>3
    <3>5. Begins(all, k) <=> Begins(text, k)
      BY <3>1, <3>4 DEF Begins
    <3> QED
      BY <1>2, <3>1, <3>2, <3>5
  <2>2. /\ text[k].n \in 1 .. Len(made)
        /\ Begins(text, k) /\ text[k].ends => text[k].says = made[text[k].n]
        /\ ~text[k].ends =>
            /\ Begins(text, k)
            /\ k < last => text[k + 1].ends /\ text[k + 1].n = text[k].n
    BY <2>1 DEF Lined, last
  <2>3. ~text[k].ends /\ k = last => s.ends /\ s.n = text[k].n
    BY <1>1, <2>1 DEF last
  <2> QED
    BY <1>1, <1>2, <2>1, <2>2, <2>3
<1>4. CASE k = last + 1
  <2>1. Begins(all, k) <=> Ended(text)
    BY <1>1, <1>2, <1>4 DEF Begins
  <2> QED
    BY <1>1, <1>2, <1>4, <2>1
<1> QED
  BY <1>1, <1>2, <1>3, <1>4

(* More requests change nothing for the texts that are there, and neither  *)
(* does it when they may be torn.                                          *)
LEMMA LinedKept ==
    ASSUME NEW text \in Texts, NEW made \in Seq(MaybeIP), NEW more \in Seq(MaybeIP),
           NEW torn \in BOOLEAN, NEW tornLater \in BOOLEAN,
           Lined(text, made, torn),
           Len(made) <= Len(more),
           \A n \in 1 .. Len(made) : more[n] = made[n],
           torn => tornLater
    PROVE  Lined(text, more, tornLater)
<1>1. /\ Len(made) \in Nat
      /\ Len(more) \in Nat
  BY LenProperties
<1> QED
  BY <1>1 DEF Lined
-----------------------------------------------------------------------------
(* The steps of Nginx and logrotate.                                       *)

Base == TypeOK /\ LogInv /\ HeldInv

(* What the types and the files say of the current log.                    *)
LEMMA CurrentLog ==
    ASSUME Base
    PROVE  /\ files \in Seq(Texts)
           /\ Len(files) \in Nat \ {0}
           /\ \A i \in 1 .. Len(files) :
                /\ files[i] \in Texts
                /\ Len(files[i]) \in Nat
                /\ Lined(files[i], requests, Torn)
           /\ Log \in Texts
           /\ Lined(Log, requests, Torn)
           /\ Torn \in BOOLEAN
           /\ requests \in Seq(MaybeIP)
           /\ Len(requests) \in Nat
<1>1. /\ files \in Seq(Texts)
      /\ requests \in Seq(MaybeIP)
      /\ Torn \in BOOLEAN
  BY DEF Base, TypeOK, Texts, Torn
<1>2. /\ Len(files) \in Nat \ {0}
      /\ Len(requests) \in Nat
      /\ \A i \in 1 .. Len(files) : Lined(files[i], requests, Torn)
  BY <1>1, LenProperties DEF Base, LogInv
<1>3. \A i \in 1 .. Len(files) : files[i] \in Texts
  BY <1>1, ElementOfSeq
<1>4. \A i \in 1 .. Len(files) : Len(files[i]) \in Nat
  BY <1>3, EmptyText
<1> QED
  BY <1>1, <1>2, <1>3, <1>4 DEF Log

(* Writing adds to the current log and to no other file.                   *)
LEMMA WritesLog ==
    ASSUME Base, NEW more \in Texts, Written(more)
    PROVE  /\ files' \in Seq(Texts)
           /\ Len(files') = Len(files)
           /\ files'[Len(files)] = Log \o more
           /\ \A i \in 1 .. Len(files) : i # Len(files) => files'[i] = files[i]
<1>1. /\ files \in Seq(Texts)
      /\ Len(files) \in 1 .. Len(files)
      /\ Log \o more \in Texts
  BY CurrentLog, Appended
<1> QED
  BY <1>1, ExceptSeq DEF Written, Log

(* The log has grown: what was there is there, and what is new is about a  *)
(* new request or ends the last line.                                      *)
Grown ==
    /\ Len(files') = Len(files)
    /\ files' \in Seq(Texts)
    /\ Len(requests) <= Len(requests')
    /\ \A n \in 1 .. Len(requests) : requests'[n] = requests[n]
    /\ \A i \in 1 .. Len(files) :
        /\ Len(files[i]) <= Len(files'[i])
        /\ \A k \in 1 .. Len(files[i]) : files'[i][k] = files[i][k]
        /\ After(files'[i], Len(files[i]), Len(requests))

(* Adding to the current log makes it grow.                                *)
LEMMA Grows ==
    ASSUME Base, NEW more \in Texts, Written(more),
           Len(requests) <= Len(requests'),
           \A n \in 1 .. Len(requests) : requests'[n] = requests[n],
           \A k \in 1 .. Len(more) :
            more[k].n > Len(requests) \/ (k = 1 /\ ~Ended(Log))
    PROVE  Grown
<1>1. /\ files' \in Seq(Texts)
      /\ Len(files') = Len(files)
      /\ files'[Len(files)] = Log \o more
      /\ \A i \in 1 .. Len(files) : i # Len(files) => files'[i] = files[i]
  BY WritesLog
<1>2. /\ Log \in Texts
      /\ Len(Log) \in Nat
      /\ Len(more) \in Nat
      /\ Ended(Log) <=> (Len(Log) > 0 => Log[Len(Log)].ends)
  BY CurrentLog, EmptyText DEF Ended
<1>3. /\ Len(Log \o more) = Len(Log) + Len(more)
      /\ \A k \in 1 .. Len(Log) : (Log \o more)[k] = Log[k]
      /\ \A k \in 1 .. Len(more) : (Log \o more)[Len(Log) + k] = more[k]
  BY <1>2, Appended
<1>4. ASSUME NEW k \in 1 .. Len(Log \o more), k > Len(Log)
      PROVE  Later(Log \o more, k, Len(requests))
  <2>1. /\ k - Len(Log) \in 1 .. Len(more)
        /\ Len(Log) + (k - Len(Log)) = k
    BY <1>2, <1>3, <1>4
  <2>2. (Log \o more)[k] = more[k - Len(Log)]
    BY <1>3, <2>1
  <2>3. more[k - Len(Log)].n > Len(requests) \/ (k - Len(Log) = 1 /\ ~Ended(Log))
    BY <2>1
  <2>4. CASE k - Len(Log) = 1 /\ ~Ended(Log)
    <3>1. /\ k = Len(Log) + 1
          /\ Len(Log) \in 1 .. Len(Log)
          /\ ~Log[Len(Log)].ends
      BY <1>2, <2>4
    <3>2. k # 1 /\ ~(Log \o more)[k - 1].ends
      BY <1>2, <1>3, <3>1
    <3> QED
      BY <3>2 DEF Later, Begins
  <2> QED
    BY <2>2, <2>3, <2>4 DEF Later
<1>5. After(Log \o more, Len(Log), Len(requests))
  BY <1>4 DEF After
<1>6. ASSUME NEW i \in 1 .. Len(files)
      PROVE  /\ Len(files[i]) <= Len(files'[i])
             /\ \A k \in 1 .. Len(files[i]) : files'[i][k] = files[i][k]
             /\ After(files'[i], Len(files[i]), Len(requests))
  <2>1. CASE i = Len(files)
    <3>1. files[i] = Log /\ files'[i] = Log \o more
      BY <1>1, <2>1 DEF Log
    <3> QED
      BY <1>2, <1>3, <1>5, <3>1
  <2>2. CASE i # Len(files)
    <3>1. files'[i] = files[i] /\ Len(files[i]) \in Nat
      BY <1>1, <2>2, CurrentLog
    <3> QED
      BY <3>1 DEF After
  <2> QED
    BY <2>1, <2>2
<1> QED
  BY <1>1, <1>6 DEF Grown

(* The files are lines again when the current one is and no request is     *)
(* lost.                                                                   *)
LEMMA LinedAgain ==
    ASSUME Base, NEW more \in Texts, Written(more),
           requests' \in Seq(MaybeIP),
           Len(requests) <= Len(requests'),
           \A n \in 1 .. Len(requests) : requests'[n] = requests[n],
           Torn' \in BOOLEAN, Torn => Torn',
           Lined(Log \o more, requests', Torn')
    PROVE  LogInv'
<1>1. /\ Len(files') = Len(files)
      /\ files'[Len(files)] = Log \o more
      /\ \A i \in 1 .. Len(files) : i # Len(files) => files'[i] = files[i]
  BY WritesLog
<1>2. ASSUME NEW i \in 1 .. Len(files)
      PROVE  Lined(files'[i], requests', Torn')
  <2>1. /\ files[i] \in Texts
        /\ Lined(files[i], requests, Torn)
        /\ Torn \in BOOLEAN
        /\ requests \in Seq(MaybeIP)
    BY CurrentLog
  <2>2. Lined(files[i], requests', Torn')
    BY <2>1, LinedKept
  <2> QED
    BY <1>1, <2>2
<1> QED
  BY <1>1, <1>2, CurrentLog DEF LogInv

(* One more request in the sequence of them.                               *)
LEMMA OneMoreRequest ==
    ASSUME Base, NEW ip \in Clients, requests' = Append(requests, ip)
    PROVE  /\ ip \in MaybeIP
           /\ requests' \in Seq(MaybeIP)
           /\ Len(requests') = Len(requests) + 1
           /\ Len(requests') \in Nat
           /\ requests'[Len(requests')] = ip
           /\ Len(requests) <= Len(requests')
           /\ \A n \in 1 .. Len(requests) : requests'[n] = requests[n]
<1>1. ip \in MaybeIP
  BY CollectorAssumption DEF MaybeIP
<1>2. /\ requests \in Seq(MaybeIP)
      /\ Len(requests) \in Nat
  BY CurrentLog
<1> QED
  BY <1>1, <1>2, AppendProperties

(* A request is a line more.                                               *)
LEMMA RequestGrows ==
    ASSUME Base, NEW ip \in Clients, Request(ip)
    PROVE  Grown /\ LogInv' /\ requests' \in Seq(MaybeIP)
<1>1. PICK line \in Lines(Len(requests'), ip) : Written(line)
  BY DEF Request
<1>2. requests' = Append(requests, ip) /\ Ended(Log) /\ happened' = happened
  BY DEF Request
<1>3. /\ ip \in MaybeIP
      /\ requests' \in Seq(MaybeIP)
      /\ Len(requests') = Len(requests) + 1
      /\ Len(requests') \in Nat
      /\ Len(requests) <= Len(requests')
      /\ \A n \in 1 .. Len(requests) : requests'[n] = requests[n]
  BY <1>2, OneMoreRequest
<1>4. /\ Log \in Texts
      /\ Lined(Log, requests, Torn)
      /\ Torn \in BOOLEAN
      /\ requests \in Seq(MaybeIP)
      /\ Len(requests) \in Nat
  BY CurrentLog
<1>5. /\ line \in Texts
      /\ \A k \in 1 .. Len(line) : line[k].n = Len(requests')
  <2>1. /\ line \in Texts
        /\ \/ /\ Len(line) = 1
              /\ line[1] = [n |-> Len(requests'), says |-> ip, ends |-> TRUE]
           \/ line \in Halves(Len(requests'), ip)
    BY <1>1, <1>3, LinesOf
  <2>2. CASE line \in Halves(Len(requests'), ip)
    BY <2>2, <1>3, HalvesOf
  <2> QED
    BY <2>1, <2>2
<1>6. Lined(Log \o line, Append(requests, ip), Torn)
  BY <1>1, <1>2, <1>3, <1>4, LineAdded
<1>7. Torn' = Torn
  BY <1>2 DEF Torn
<1>8. LogInv'
  BY <1>1, <1>2, <1>3, <1>4, <1>5, <1>6, <1>7, LinedAgain
<1>9. Grown
  BY <1>1, <1>3, <1>4, <1>5, Grows
<1> QED
  BY <1>3, <1>8, <1>9

(* So is a request whose line is torn, without its end.                    *)
LEMMA TearGrows ==
    ASSUME Base, NEW ip \in Clients, Tear(ip)
    PROVE  Grown /\ LogInv' /\ requests' \in Seq(MaybeIP) /\ Torn'
<1>1. PICK line \in Halves(Len(requests'), ip) : Written(<<line[1]>>)
  BY DEF Tear
<1>2. requests' = Append(requests, ip) /\ Ended(Log)
  BY DEF Tear
<1>3. /\ ip \in MaybeIP
      /\ requests' \in Seq(MaybeIP)
      /\ Len(requests') = Len(requests) + 1
      /\ Len(requests') \in Nat
      /\ Len(requests) <= Len(requests')
      /\ \A n \in 1 .. Len(requests) : requests'[n] = requests[n]
  BY <1>2, OneMoreRequest
<1>4. /\ Log \in Texts
      /\ Lined(Log, requests, Torn)
      /\ Torn \in BOOLEAN
      /\ requests \in Seq(MaybeIP)
      /\ Len(requests) \in Nat
  BY CurrentLog
<1>5. Torn'
  BY DEF Tear, Happens, Torn, Base, TypeOK, Trouble
<1>6. /\ line[1] \in Stretch
      /\ line[1].n = Len(requests')
      /\ ~line[1].ends
  BY <1>1, <1>3, HalvesOf
<1>7. /\ <<line[1]>> \in Texts
      /\ \A k \in 1 .. Len(<<line[1]>>) : <<line[1]>>[k].n > Len(requests)
  <2>1. Len(requests') > Len(requests)
    BY <1>3, <1>4
  <2> QED
    BY <1>6, <2>1, OneStretch
<1>8. Lined(Log \o <<line[1]>>, requests', Torn \/ ~line[1].ends)
  <2>1. line[1].n \in 1 .. Len(requests')
    BY <1>3, <1>4, <1>6
  <2>2. Ended(Log) <=> ~line[1].ends
    BY <1>2, <1>6
  <2> QED
    BY <1>2, <1>3, <1>4, <1>6, <2>1, <2>2, HalfAdded
<1>9. Lined(Log \o <<line[1]>>, requests', Torn')
  <2>1. Torn \/ ~line[1].ends <=> TRUE
    BY <1>6
  <2>2. (Torn \/ ~line[1].ends) = TRUE /\ Torn' = TRUE
    BY <1>5, <2>1 DEF Torn
  <2> QED
    BY <1>8, <2>2
<1>10. Torn' \in BOOLEAN
  BY DEF Torn
<1>11. LogInv'
  BY <1>1, <1>3, <1>5, <1>7, <1>9, <1>10, LinedAgain
<1>12. Grown
  BY <1>1, <1>3, <1>7, Grows
<1> QED
  BY <1>3, <1>5, <1>11, <1>12

(* The end of a torn line.                                                 *)
LEMMA EndLineGrows ==
    ASSUME Base, EndLine
    PROVE  Grown /\ LogInv'
<1> DEFINE front == Log[Len(Log)]
<1>1. PICK line \in Halves(front.n, requests[front.n]) :
        line[1] = front /\ Written(<<line[2]>>)
  BY DEF EndLine
<1>2. ~Ended(Log) /\ requests' = requests /\ happened' = happened
  BY DEF EndLine
<1>3. /\ Log \in Texts
      /\ Lined(Log, requests, Torn)
      /\ Torn \in BOOLEAN
      /\ requests \in Seq(MaybeIP)
      /\ Len(requests) \in Nat
  BY CurrentLog
<1>4. Len(Log) \in 1 .. Len(Log)
  BY <1>2, <1>3, EmptyText DEF Ended
<1>5. front.n \in 1 .. Len(requests)
  BY <1>3, <1>4 DEF Lined
<1>6. /\ front.n \in Nat
      /\ requests[front.n] \in MaybeIP
  BY <1>3, <1>5, ElementOfSeq
<1>7. /\ line[2] \in Stretch
      /\ line[2].n = front.n
      /\ line[2].ends
  BY <1>1, <1>6, HalvesOf
<1> HIDE DEF front
<1>8. /\ <<line[2]>> \in Texts
      /\ \A k \in 1 .. Len(<<line[2]>>) : k = 1
  BY <1>7, OneStretch
<1>9. Lined(Log \o <<line[2]>>, requests, Torn \/ ~line[2].ends)
  BY <1>2, <1>3, <1>5, <1>7, HalfAdded DEF front
<1>10. (Torn \/ ~line[2].ends) = Torn
  BY <1>3, <1>7
<1>11. Torn' = Torn
  BY <1>2 DEF Torn
<1>12. Lined(Log \o <<line[2]>>, requests', Torn')
  BY <1>2, <1>9, <1>10, <1>11
<1>13. Len(requests) <= Len(requests') /\ \A n \in 1 .. Len(requests) : requests'[n] = requests[n]
  BY <1>2, <1>3
<1>14. LogInv'
  BY <1>1, <1>2, <1>3, <1>8, <1>11, <1>12, <1>13, LinedAgain
<1>15. Grown
  BY <1>1, <1>2, <1>8, <1>13, Grows
<1> QED
  BY <1>14, <1>15

(* Trouble is counted.                                                     *)
LEMMA TroubleCounts ==
    ASSUME TypeOK, NEW kind \in Trouble, Happens(kind)
    PROVE  /\ happened' \in [Trouble -> Nat]
           /\ happened'[kind] = happened[kind] + 1
           /\ happened'[kind] > 0
           /\ \A other \in Trouble : other # kind => happened'[other] = happened[other]
BY DEF TypeOK, Happens

(* A file that is reopened is a new one, and an empty one.                 *)
LEMMA Reopens ==
    ASSUME Base, Reopen
    PROVE  /\ files' \in Seq(Texts)
           /\ Len(files') = Len(files) + 1
           /\ path' = Len(files) + 1
           /\ \A i \in 1 .. Len(files) : files'[i] = files[i]
           /\ files'[Len(files) + 1] = <<>>
           /\ Len(files'[Len(files) + 1]) = 0
<1>1. files \in Seq(Texts) /\ Len(files) \in Nat
  BY CurrentLog
<1>2. <<>> \in Texts /\ Len(<<>>) = 0
  BY EmptySeq DEF Texts
<1> QED
  BY <1>1, <1>2, AppendProperties DEF Reopen

(* Truncating empties the current file.                                    *)
LEMMA Truncates ==
    ASSUME Base, Truncate
    PROVE  /\ files' \in Seq(Texts)
           /\ Len(files') = Len(files)
           /\ path = Len(files)
           /\ \A i \in 1 .. Len(files) : i # path => files'[i] = files[i]
           /\ files'[path] = <<>>
           /\ Len(files'[path]) = 0
<1>1. /\ files \in Seq(Texts)
      /\ Len(files) \in Nat \ {0}
      /\ path = Len(files)
  BY CurrentLog DEF Truncate, Base, TypeOK
<1>2. <<>> \in Texts /\ Len(<<>>) = 0
  BY EmptySeq DEF Texts
<1>3. path \in 1 .. Len(files)
  BY <1>1
<1> QED
  BY <1>1, <1>2, <1>3, ExceptSeq DEF Truncate

(* The files stay lines when one of them is new or emptied.                *)
LEMMA ReplacedLogs ==
    ASSUME Base, Reopen \/ Truncate
    PROVE  LogInv'
<1>1. /\ requests' = requests
      /\ Torn' = Torn
  BY TroubleCounts DEF Reopen, Truncate, Torn, Base, Trouble
<1>2. ASSUME NEW text, Len(text) = 0
      PROVE  Lined(text, requests, Torn)
  BY <1>2 DEF Lined
<1>3. CASE Reopen
  <2>1. \A i \in 1 .. Len(files) + 1 : Lined(files'[i], requests, Torn)
    BY <1>2, <1>3, Reopens, CurrentLog
  <2> QED
    BY <1>1, <1>3, <2>1, Reopens, CurrentLog DEF LogInv
<1>4. CASE Truncate
  <2>1. \A i \in 1 .. Len(files) : Lined(files'[i], requests, Torn)
    BY <1>2, <1>4, Truncates, CurrentLog
  <2> QED
    BY <1>1, <1>4, <2>1, Truncates, CurrentLog DEF LogInv
<1> QED
  BY <1>3, <1>4
-----------------------------------------------------------------------------
(* Types, and what a run holds.                                            *)

(* The next line of the open file and what it shows.                       *)
LEMMA NextLine ==
    ASSUME Base, ReadLine
    PROVE  /\ file \in 1 .. Len(files)
           /\ pos \in Nat
           /\ pos + 1 \in 1 .. Len(files[file])
           /\ files[file][pos + 1].n \in 1 .. Len(requests)
           /\ extract_ip \in MaybeIP
           /\ pos' \in Nat /\ pos < pos' /\ pos' <= Len(files[file])
<1>1. /\ file \in 1 .. Len(files)
      /\ pos \in Nat
      /\ pos < Len(files[file])
  BY CurrentLog DEF Base, TypeOK, HeldInv, ReadLine
<1>2. /\ files[file] \in Texts
      /\ Len(files[file]) \in Nat
      /\ Lined(files[file], requests, Torn)
      /\ requests \in Seq(MaybeIP)
  BY <1>1, CurrentLog
<1>3. pos + 1 \in 1 .. Len(files[file])
  BY <1>1, <1>2
<1>4. files[file][pos + 1].n \in 1 .. Len(requests)
  BY <1>2, <1>3 DEF Lined
<1>5. /\ requests[files[file][pos + 1].n] \in MaybeIP
      /\ files[file][pos + 1].says \in MaybeIP
  BY <1>2, <1>3, <1>4, ElementOfSeq, StretchOf
<1>6. extract_ip \in MaybeIP
  BY <1>5 DEF extract_ip
<1>7. pos' \in Nat /\ pos < pos' /\ pos' <= Len(files[file])
  BY <1>1, <1>2, <1>3 DEF ReadLine, Joined
<1> QED
  BY <1>1, <1>3, <1>4, <1>6, <1>7

(* What reading a line leaves alone and what it adds.                      *)
LEMMA LineRead ==
    ASSUME Base, ReadLine
    PROVE  /\ ips' = ips \cup ({extract_ip} \ {NULL})
           /\ extract_ip = NULL => UNCHANGED <<request_count, recorded>>
           /\ extract_ip # NULL =>
                request_count' = [request_count EXCEPT ![extract_ip] = @ + 1]
           /\ recorded' =
                IF /\ extract_ip # NULL
                   /\ Begins(files[file], pos + 1)
                   /\ extract_ip = requests[files[file][pos + 1].n]
                THEN recorded \cup {files[file][pos + 1].n} ELSE recorded
BY DEF ReadLine

(* The types and what a run holds at first.                                *)
LEMMA BaseInit == Init => Base
<1> SUFFICES ASSUME Init PROVE Base
  OBVIOUS
<1>1. << <<>> >> \in Seq(Texts) /\ Len(<< <<>> >>) = 1 /\ << <<>> >>[1] = <<>>
  <2>1. <<>> \in Texts
    BY EmptySeq DEF Texts
  <2> QED
    BY <2>1
<1>2. Len(<<>>) = 0 /\ <<>> \in Seq(MaybeIP)
  BY EmptySeq
<1>3. TypeOK
  BY <1>1, <1>2 DEF Init, TypeOK, Texts
<1>4. LogInv
  BY <1>1, <1>2 DEF Init, LogInv, Lined
<1>5. HeldInv
  BY <1>2 DEF Init, HeldInv
<1> QED
  BY <1>3, <1>4, <1>5 DEF Base

(* Every step keeps the types, the lines and what a run holds.             *)
LEMMA BaseStep ==
    ASSUME Base, [Next]_vars
    PROVE  Base'
<1>1. /\ TypeOK /\ LogInv /\ HeldInv
      /\ files \in Seq(Texts)
      /\ Len(files) \in Nat \ {0}
      /\ Len(requests) \in Nat
  BY CurrentLog DEF Base
<1> USE NullAssumption
<1>2. ASSUME NEW ip \in Clients, Request(ip)
      PROVE  Base'
  <2>1. Grown /\ LogInv' /\ requests' \in Seq(MaybeIP)
    BY <1>2, RequestGrows
  <2>2. Len(requests') \in Nat
    BY <2>1, LenProperties
  <2>3. TypeOK'
    BY <1>1, <1>2, <2>1 DEF TypeOK, Grown, Texts, Request, dbVars, runVars
  <2>4. HeldInv'
    BY <1>1, <1>2, <2>1, <2>2 DEF TypeOK, HeldInv, Grown, Request, dbVars, runVars
  <2> QED
    BY <2>1, <2>3, <2>4 DEF Base
<1>3. ASSUME NEW ip \in Clients, Tear(ip)
      PROVE  Base'
  <2>1. Grown /\ LogInv' /\ requests' \in Seq(MaybeIP)
    BY <1>3, TearGrows
  <2>2. Len(requests') \in Nat
    BY <2>1, LenProperties
  <2>3. happened' \in [Trouble -> Nat]
    BY <1>1, <1>3, TroubleCounts DEF Tear, Trouble
  <2>4. TypeOK'
    BY <1>1, <1>3, <2>1, <2>3 DEF TypeOK, Grown, Texts, Tear, dbVars, runVars
  <2>5. HeldInv'
    BY <1>1, <1>3, <2>1, <2>2 DEF TypeOK, HeldInv, Grown, Tear, dbVars, runVars
  <2> QED
    BY <2>1, <2>4, <2>5 DEF Base
<1>4. CASE EndLine
  <2>1. Grown /\ LogInv'
    BY <1>4, EndLineGrows
  <2>2. TypeOK'
    BY <1>1, <1>4, <2>1 DEF TypeOK, Grown, Texts, EndLine, dbVars, runVars
  <2>3. HeldInv'
    BY <1>1, <1>4, <2>1 DEF TypeOK, HeldInv, Grown, EndLine, dbVars, runVars
  <2> QED
    BY <2>1, <2>2, <2>3 DEF Base
<1>5. CASE Rename
  <2>1. TypeOK'
    BY <1>1, <1>5 DEF TypeOK, Rename, dbVars, runVars
  <2>2. LogInv' /\ HeldInv'
    BY <1>1, <1>5 DEF LogInv, HeldInv, Torn, Rename, dbVars, runVars
  <2> QED
    BY <2>1, <2>2 DEF Base
<1>6. CASE Reopen
  <2>1. TypeOK'
    BY <1>1, <1>6, Reopens DEF TypeOK, Texts, Reopen, dbVars, runVars
  <2>2. HeldInv'
    BY <1>1, <1>6, Reopens DEF TypeOK, HeldInv, Reopen, dbVars, runVars
  <2> QED
    BY <1>6, <2>1, <2>2, ReplacedLogs DEF Base
<1>7. CASE Truncate
  <2>1. happened' \in [Trouble -> Nat]
    BY <1>1, <1>7, TroubleCounts DEF Truncate, Trouble
  <2>2. TypeOK'
    BY <1>1, <1>7, <2>1, Truncates DEF TypeOK, Texts, Truncate, dbVars, runVars
  <2>3. HeldInv'
    BY <1>1, <1>7, Truncates DEF TypeOK, HeldInv, Truncate, dbVars, runVars
  <2> QED
    BY <1>7, <2>2, <2>3, ReplacedLogs DEF Base
<1>8. CASE Stat
  <2>1. path = Len(files) /\ path \in 1 .. Len(files)
    BY <1>1, <1>8 DEF TypeOK, Stat
  <2>2. Len(files[path]) \in Nat
    BY <2>1, CurrentLog
  <2>3. start_offset(path, Len(files[path])) \in Nat
    BY <1>1, <2>2 DEF TypeOK, Position, start_offset
  <2>4. TypeOK'
    BY <1>1, <1>8, <2>1, <2>3 DEF TypeOK, Stat, logVars, dbVars
  <2>5. LogInv' /\ HeldInv'
    BY <1>1, <1>8, <2>1 DEF LogInv, HeldInv, Torn, Stat, logVars, dbVars
  <2> QED
    BY <2>4, <2>5 DEF Base
<1>9. CASE Open
  <2>1. path = Len(files) /\ path \in 1 .. Len(files)
    BY <1>1, <1>9 DEF TypeOK, Open
  <2>2. TypeOK'
    BY <1>1, <1>9, <2>1 DEF TypeOK, Open, logVars, dbVars
  <2>3. LogInv' /\ HeldInv'
    BY <1>1, <1>9, <2>1 DEF LogInv, HeldInv, Torn, Open, logVars, dbVars
  <2> QED
    BY <2>2, <2>3 DEF Base
<1>10. CASE ReadLine
  <2>1. /\ extract_ip \in MaybeIP
        /\ files[file][pos + 1].n \in Nat
        /\ pos' \in Nat
    BY <1>1, <1>10, NextLine
  <2>2. /\ ips' \subseteq IP
        /\ recorded' \subseteq Nat
    BY <1>1, <1>10, <2>1, LineRead DEF TypeOK, MaybeIP
  <2>3. request_count' \in [IP -> Nat]
    <3>1. CASE extract_ip = NULL
      BY <1>1, <1>10, <3>1, LineRead DEF TypeOK
    <3>2. CASE extract_ip # NULL
      <4>1. extract_ip \in IP
        BY <2>1, <3>2 DEF MaybeIP
      <4>2. request_count[extract_ip] + 1 \in Nat
        BY <1>1, <4>1 DEF TypeOK
      <4> QED
        BY <1>1, <1>10, <3>2, <4>1, <4>2, LineRead DEF TypeOK
    <3> QED
      BY <3>1, <3>2
  <2>4. TypeOK'
    BY <1>1, <1>10, <2>1, <2>2, <2>3 DEF TypeOK, ReadLine, logVars
  <2>5. LogInv' /\ HeldInv'
    BY <1>1, <1>10 DEF LogInv, HeldInv, Torn, ReadLine, logVars
  <2> QED
    BY <2>4, <2>5 DEF Base
<1>11. CASE EndOfFile
  BY <1>1, <1>11 DEF Base, TypeOK, LogInv, HeldInv, Torn, EndOfFile, logVars, dbVars
<1>12. CASE Save
  BY <1>1, <1>12 DEF Base, TypeOK, Position, LogInv, HeldInv, Torn, Save, Leave, logVars
<1>13. CASE OpenFails
  BY <1>1, <1>13 DEF Base, TypeOK, LogInv, HeldInv, Torn, OpenFails, Leave, logVars,
       dbVars
<1>14. CASE Crash
  <2>1. /\ happened' \in [Trouble -> Nat]
        /\ Torn' = Torn
    BY <1>1, <1>14, TroubleCounts DEF Crash, Trouble, Torn
  <2> QED
    BY <1>1, <1>14, <2>1 DEF Base, TypeOK, LogInv, HeldInv, Crash, Leave, logVars, dbVars
<1>15. CASE UNCHANGED vars
  BY <1>1, <1>15 DEF Base, TypeOK, LogInv, HeldInv, Torn, vars, logVars, dbVars, runVars
<1> QED
  BY <1>2, <1>3, <1>4, <1>5, <1>6, <1>7, <1>8, <1>9, <1>10, <1>11, <1>12, <1>13,
     <1>14, <1>15 DEF Next, CollectStep

(* The log, the saved position and the memory of a run keep their types,   *)
(* whatever happens to the log and to the run.                             *)
THEOREM CollectorTypeCorrect == Spec => []TypeOK
<1>1. Base /\ [Next]_vars => Base'
  BY BaseStep
<1> QED
  BY BaseInit, <1>1, PTL DEF Spec, Base
-----------------------------------------------------------------------------
(* Nothing is skipped.                                                     *)

(* What is covered stays covered while the log grows.                      *)
LEMMA CoveredGrows ==
    ASSUME Base, Grown, NEW i \in 1 .. Len(files), NEW p \in Nat,
           Covered(i, p),
           baseline' = baseline, recorded \subseteq recorded'
    PROVE  Covered(i, p)'
<1>1. /\ Len(files[i]) \in Nat
      /\ Len(files[i]) <= Len(files'[i])
      /\ \A k \in 1 .. Len(files[i]) : files'[i][k] = files[i][k]
      /\ Lined(files[i], requests, Torn)
  BY CurrentLog DEF Grown
<1>2. Len(files'[i]) \in Nat
  <2>1. files' \in Seq(Texts) /\ i \in 1 .. Len(files')
    BY DEF Grown
  <2>2. files'[i] \in Texts
    BY <2>1, ElementOfSeq
  <2> QED
    BY <2>2, EmptyText
<1>3. p <= Len(files'[i]) /\ Between(files'[i], p)
  BY <1>1, <1>2 DEF Covered, Between
<1>4. ASSUME NEW k \in 1 .. p
      PROVE  Old(files[i][k].n)' \/ files'[i][k].n \in recorded'
  <2>1. /\ k \in 1 .. Len(files[i])
        /\ files'[i][k] = files[i][k]
    BY <1>1 DEF Covered
  <2>2. files[i][k].n \in 1 .. Len(requests)
    BY <1>1, <2>1 DEF Lined
  <2>3. requests'[files[i][k].n] = requests[files[i][k].n]
    BY <2>2 DEF Grown
  <2>4. Old(files[i][k].n) \/ files[i][k].n \in recorded
    BY DEF Covered
  <2> QED
    BY <2>1, <2>3, <2>4 DEF Old
<1> QED
  BY <1>3, <1>4 DEF Covered, Old

(* From the beginning of a line a whole line is read, and the address it   *)
(* shows.                                                                  *)
LEMMA WholeLine ==
    ASSUME Base, ReadLine, ~Torn, Covered(file, pos)
    PROVE  /\ Begins(files[file], pos + 1)
           /\ extract_ip = requests[files[file][pos + 1].n]
           /\ files[file][pos'].ends
           /\ \A k \in pos + 1 .. pos' : files[file][k].n = files[file][pos + 1].n
<1> DEFINE text == files[file]
           n == text[pos + 1].n
<1>1. /\ file \in 1 .. Len(files)
      /\ pos \in Nat
      /\ pos + 1 \in 1 .. Len(text)
  BY NextLine
<1>2. /\ Len(text) \in Nat
      /\ Lined(text, requests, FALSE)
  BY <1>1, CurrentLog DEF Torn
<1>3. pos' = IF Joined THEN pos + 2 ELSE pos + 1
  BY DEF ReadLine
<1>4. Begins(text, pos + 1)
  BY <1>1, <1>2 DEF Covered, Between, Begins
<1>5. CASE text[pos + 1].ends
  <2>1. ~Joined /\ pos' = pos + 1
    BY <1>3, <1>5 DEF Joined
  <2>2. text[pos + 1].says = requests[n]
    BY <1>1, <1>2, <1>4, <1>5 DEF Lined
  <2>3. \A k \in pos + 1 .. pos' : k = pos + 1
    BY <1>1, <2>1
  <2> QED
    BY <1>4, <1>5, <2>1, <2>2, <2>3 DEF extract_ip
<1>6. CASE ~text[pos + 1].ends
  <2>1. /\ pos + 1 = Len(text) => FALSE
        /\ pos + 1 < Len(text) =>
            text[(pos + 1) + 1].ends /\ text[(pos + 1) + 1].n = n
    BY <1>1, <1>2, <1>6 DEF Lined
  <2>2. (pos + 1) + 1 = pos + 2 /\ pos + 1 <= Len(text)
    BY <1>1, <1>2
  <2>3. pos + 1 < Len(text) /\ text[pos + 2].ends /\ text[pos + 2].n = n
    BY <1>1, <1>2, <2>1, <2>2
  <2>4. Joined /\ pos' = pos + 2
    BY <1>1, <1>2, <1>3, <1>6, <2>3 DEF Joined
  <2>5. \A k \in pos + 1 .. pos' : k = pos + 1 \/ k = pos + 2
    BY <1>1, <2>4
  <2> QED
    BY <1>4, <2>3, <2>4, <2>5 DEF extract_ip
<1> QED
  BY <1>5, <1>6

(* A line that is read whole is counted, or shows no address.              *)
LEMMA CoveredRead ==
    ASSUME Base, ReadLine, ~Torn, Covered(file, pos)
    PROVE  Covered(file, pos)'
<1> DEFINE text == files[file]
           n == text[pos + 1].n
<1>1. pos \in Nat /\ pos' \in Nat /\ pos' <= Len(text)
  BY NextLine
<1>2. /\ Begins(text, pos + 1)
      /\ extract_ip = requests[n]
      /\ text[pos'].ends
      /\ \A k \in pos + 1 .. pos' : text[k].n = n
  BY WholeLine
<1>3. files' = files /\ file' = file /\ requests' = requests /\ baseline' = baseline
  BY DEF ReadLine, logVars
<1>4. Old(n) \/ n \in recorded'
  BY <1>2, LineRead DEF Old
<1>5. recorded \subseteq recorded'
  BY LineRead
<1>6. ASSUME NEW k \in 1 .. pos'
      PROVE  Old(text[k].n) \/ text[k].n \in recorded'
  <2>1. CASE k <= pos
    <3>1. k \in 1 .. pos
      BY <1>1, <2>1
    <3> QED
      BY <1>5, <3>1 DEF Covered
  <2>2. CASE k > pos
    <3>1. k \in pos + 1 .. pos'
      BY <1>1, <2>2
    <3> QED
      BY <1>2, <1>4, <3>1
  <2> QED
    BY <1>1, <2>1, <2>2
<1> QED
  BY <1>1, <1>2, <1>3, <1>6 DEF Covered, Between, Old

(* Nobody reads a file in which something was torn and finds it whole.     *)
LEMMA TroubleStays ==
    ASSUME Base, [Next]_vars
    PROVE  /\ Torn => Torn'
           /\ Truncated => Truncated'
           /\ happened["crash"] <= happened'["crash"]
           /\ Crash => happened'["crash"] > 0
           /\ ~Crash => happened'["crash"] = happened["crash"]
<1>1. TypeOK /\ "crash" \in Trouble /\ "truncate" \in Trouble /\ "tear" \in Trouble
  BY DEF Base, Trouble
<1>2. CASE happened' = happened
  <2>1. happened["crash"] \in Nat
    BY <1>1 DEF TypeOK
  <2>2. ~Crash
    BY <1>1, <1>2, <2>1, TroubleCounts DEF Crash
  <2> QED
    BY <1>2, <2>1, <2>2 DEF Torn, Truncated
<1>3. ASSUME NEW kind \in {"tear", "truncate", "crash"}, Happens(kind)
      PROVE  /\ happened' \in [Trouble -> Nat]
             /\ happened'[kind] > 0
             /\ happened'[kind] = happened[kind] + 1
             /\ \A other \in Trouble : other # kind => happened'[other] = happened[other]
  BY <1>1, <1>3, TroubleCounts
<1>4. ASSUME NEW kind \in {"tear", "truncate"}, Happens(kind)
      PROVE  ~Crash
  <2>1. happened'["crash"] = happened["crash"] /\ happened["crash"] \in Nat
    BY <1>1, <1>3, <1>4 DEF TypeOK
  <2>2. ASSUME Crash
        PROVE  happened'["crash"] = happened["crash"] + 1
    <3>1. Happens("crash")
      BY <2>2 DEF Crash
    <3> QED
      BY <1>3, <3>1
  <2> QED
    BY <2>1, <2>2
<1>5. ASSUME NEW kind \in {"tear", "truncate"}, Happens(kind)
      PROVE  /\ Torn => Torn'
             /\ Truncated => Truncated'
             /\ happened'["crash"] = happened["crash"]
  <2>1. /\ happened["tear"] \in Nat
        /\ happened["truncate"] \in Nat
    BY <1>1 DEF TypeOK
  <2> QED
    BY <1>1, <1>3, <1>5, <2>1 DEF Torn, Truncated
<1>6. CASE Crash
  <2>1. Happens("crash")
    BY <1>6 DEF Crash
  <2>2. /\ happened'["crash"] = happened["crash"] + 1
        /\ happened'["crash"] > 0
        /\ happened'["tear"] = happened["tear"]
        /\ happened'["truncate"] = happened["truncate"]
    BY <1>1, <1>3, <2>1
  <2>3. happened["crash"] \in Nat
    BY <1>1 DEF TypeOK
  <2> QED
    BY <1>6, <2>2, <2>3 DEF Torn, Truncated
<1>7. \/ happened' = happened
      \/ Happens("tear")
      \/ Happens("truncate")
      \/ Crash
  BY DEF Next, CollectStep, Request, Tear, EndLine, Rename, Reopen, Truncate, Stat, Open,
     ReadLine, EndOfFile, Save, OpenFails, vars
<1>8. happened["crash"] \in Nat
  BY <1>1 DEF TypeOK
<1> QED
  BY <1>2, <1>4, <1>5, <1>6, <1>7, <1>8

(* What was covered, and what a step adds to it, is covered.               *)
LEMMA CoverStep ==
    ASSUME Base, CoverInv, [Next]_vars
    PROVE  CoverInv'
<1> SUFFICES ASSUME ~Torn', ~Truncated'
             PROVE  /\ state' # NULL /\ state'.file_inode = path' =>
                        Covered(path, state.file_offset)'
                    /\ pc' = "open" /\ inode' = path' => Covered(path, pos)'
                    /\ pc' \in {"read", "save"} /\ inode' = file' => Covered(file, pos)'
  BY DEF CoverInv
<1>1. ~Torn /\ ~Truncated
  BY TroubleStays
<1>2. /\ TypeOK /\ LogInv /\ HeldInv
      /\ Len(files) \in Nat \ {0}
      /\ \A i \in 1 .. Len(files) : Len(files[i]) \in Nat /\ Lined(files[i], requests, Torn)
  BY CurrentLog DEF Base
<1>3. /\ state # NULL /\ state.file_inode = path => Covered(path, state.file_offset)
      /\ pc = "open" /\ inode = path => Covered(path, pos)
      /\ pc \in {"read", "save"} /\ inode = file => Covered(file, pos)
  BY <1>1 DEF CoverInv
<1> USE NullAssumption
<1>4. ASSUME Grown, UNCHANGED <<path, state, runVars, recorded, baseline>>
      PROVE  CoverInv'
  <2>1. ASSUME state # NULL, state.file_inode = path
        PROVE  Covered(path, state.file_offset)'
    <3>1. path \in 1 .. Len(files) /\ state.file_offset \in Nat
      BY <1>2, <2>1 DEF TypeOK, Position, HeldInv
    <3> QED
      BY <1>3, <1>4, <2>1, <3>1, CoveredGrows DEF Covered
  <2>2. ASSUME pc = "open", inode = path
        PROVE  Covered(path, pos)'
    <3>1. path \in 1 .. Len(files) /\ pos \in Nat
      BY <1>2, <2>2 DEF TypeOK, HeldInv
    <3> QED
      BY <1>3, <1>4, <2>2, <3>1, CoveredGrows DEF Covered, runVars
  <2>3. ASSUME pc \in {"read", "save"}, inode = file
        PROVE  Covered(file, pos)'
    <3>1. file \in 1 .. Len(files) /\ pos \in Nat
      BY <1>2, <2>3 DEF TypeOK, HeldInv
    <3> QED
      BY <1>3, <1>4, <2>3, <3>1, CoveredGrows DEF Covered, runVars
  <2> QED
    BY <1>4, <2>1, <2>2, <2>3 DEF CoverInv, runVars
<1>5. CASE \E ip \in Clients : Request(ip)
  <2>1. Grown
    BY <1>5, RequestGrows
  <2> QED
    BY <1>4, <1>5, <2>1 DEF Request, dbVars, CoverInv
<1>6. CASE \E ip \in Clients : Tear(ip)
  BY <1>6, TearGrows
<1>7. CASE EndLine
  <2>1. Grown
    BY <1>7, EndLineGrows
  <2> QED
    BY <1>4, <1>7, <2>1 DEF EndLine, dbVars, CoverInv
<1>8. CASE Rename
  <2>1. path' = NULL
    BY <1>8 DEF Rename
  <2> QED
    BY <1>2, <1>3, <1>8, <2>1 DEF Rename, Covered, Old, TypeOK, HeldInv, dbVars, runVars
<1>9. CASE Reopen
  <2>1. /\ path' = Len(files) + 1
        /\ \A i \in 1 .. Len(files) : files'[i] = files[i]
    BY <1>9, Reopens
  <2>2. /\ state' # NULL => state'.file_inode \in 1 .. Len(files)
        /\ pc' = "open" => inode' \in 1 .. Len(files)
    BY <1>2, <1>9 DEF HeldInv, Reopen, dbVars, runVars
  <2>3. state' # NULL => state'.file_inode # path'
    BY <1>2, <2>1, <2>2
  <2>4. pc' = "open" => inode' # path'
    BY <1>2, <2>1, <2>2
  <2>5. ASSUME pc' \in {"read", "save"}, inode' = file'
        PROVE  Covered(file, pos)'
    <3>1. /\ file \in 1 .. Len(files)
          /\ Covered(file, pos)
          /\ file' = file /\ pos' = pos /\ requests' = requests
          /\ recorded' = recorded /\ baseline' = baseline
      BY <1>2, <1>3, <1>9, <2>5 DEF HeldInv, Reopen, runVars
    <3>2. files'[file] = files[file]
      BY <2>1, <3>1
    <3> QED
      BY <3>1, <3>2 DEF Covered, Old
  <2> QED
    BY <2>3, <2>4, <2>5
<1>10. CASE Truncate
  BY <1>10, TroubleCounts, <1>2 DEF Truncate, Truncated, Trouble
<1>11. CASE Stat
  <2>1. /\ path = Len(files) /\ path \in 1 .. Len(files)
        /\ Len(files[path]) \in Nat
    BY <1>2, <1>11 DEF TypeOK, Stat
  <2>2. /\ files' = files /\ requests' = requests /\ path' = path /\ recorded' = recorded
        /\ state' = state /\ pc' = "open" /\ inode' = path
        /\ pos' = start_offset(path, Len(files[path]))
        /\ baseline' = IF state = NULL THEN Len(requests) ELSE baseline
    BY <1>11 DEF Stat, logVars, dbVars
  <2>3. CASE state = NULL
    <3>1. pos' = Len(files[path]) /\ baseline' = Len(requests)
      BY <2>2, <2>3 DEF start_offset
    <3>2. Between(files[path], Len(files[path]))
      BY <1>1, <1>2, <2>1 DEF Between, Lined
    <3>3. \A k \in 1 .. Len(files[path]) : files[path][k].n <= Len(requests)
      <4>1. Lined(files[path], requests, Torn)
        BY <1>1, <1>2, <2>1
      <4>2. \A k \in 1 .. Len(files[path]) : files[path][k].n \in 1 .. Len(requests)
        BY <4>1 DEF Lined
      <4> QED
        BY <4>2
    <3>4. /\ pos' <= Len(files'[path'])
          /\ Between(files'[path'], pos')
          /\ \A k \in 1 .. pos' : files'[path'][k].n <= baseline'
      <4>1. files'[path'] = files[path] /\ pos' = Len(files[path])
        BY <2>2, <3>1
      <4>2. pos' <= Len(files'[path'])
        BY <2>1, <4>1
      <4>3. Between(files'[path'], pos')
        BY <3>2, <4>1
      <4>4. \A k \in 1 .. pos' : files'[path'][k].n <= baseline'
        BY <3>1, <3>3, <4>1
      <4> QED
        BY <4>2, <4>3, <4>4
    <3>5. Covered(path, pos)'
      BY <3>4 DEF Covered, Old
    <3> QED
      BY <2>2, <2>3, <3>5
  <2>4. CASE state # NULL
    <3>1. state.file_inode = path => Covered(path, state.file_offset)'
      BY <1>3, <2>2, <2>4 DEF Covered, Old
    <3>2. pos' = 0 \/ (state.file_inode = path /\ pos' = state.file_offset)
      BY <2>2, <2>4 DEF start_offset
    <3>3. pos' = 0 => Covered(path, pos)'
      BY <2>1, <2>2 DEF Covered, Between
    <3>4. pos' = state.file_offset /\ state.file_inode = path => Covered(path, pos)'
      BY <2>2, <3>1 DEF Covered, Old
    <3> QED
      BY <2>2, <2>4, <3>1, <3>2, <3>3, <3>4
  <2> QED
    BY <2>3, <2>4
<1>12. CASE Open
  BY <1>3, <1>12 DEF Open, Covered, Old, logVars, dbVars
<1>13. CASE ReadLine
  <2>1. pc' = "read" /\ inode' = inode /\ file' = file
    BY <1>13 DEF ReadLine
  <2>2. inode = file => Covered(file, pos)'
    BY <1>1, <1>3, <1>13, CoveredRead DEF ReadLine
  <2>3. recorded \subseteq recorded'
    BY <1>13, LineRead
  <2>4. state' # NULL /\ state'.file_inode = path' => Covered(path, state.file_offset)'
    BY <1>3, <1>13, <2>3 DEF ReadLine, Covered, Old, logVars
  <2> QED
    BY <2>1, <2>2, <2>4
<1>14. CASE EndOfFile
  BY <1>3, <1>14 DEF EndOfFile, Covered, Old, logVars, dbVars
<1>15. CASE Save
  <2>1. /\ files' = files /\ requests' = requests /\ path' = path
        /\ recorded' = recorded /\ baseline' = baseline /\ pc' = "idle"
        /\ state' = [file_inode |-> inode, file_offset |-> pos] /\ pc = "save"
    BY <1>15 DEF Save, Leave, logVars
  <2>2. ASSUME inode = path
        PROVE  file = path /\ Covered(file, pos)
    <3>1. file \in inode .. Len(files) /\ path = Len(files)
      BY <1>2, <2>1, <2>2 DEF TypeOK, HeldInv
    <3> QED
      BY <1>2, <1>3, <2>1, <2>2, <3>1
  <2>3. state'.file_inode = inode /\ state'.file_offset = pos
    BY <2>1
  <2>4. inode = path => Covered(path, state.file_offset)'
    BY <2>1, <2>2, <2>3 DEF Covered, Old
  <2> QED
    BY <2>1, <2>3, <2>4
<1>16. CASE OpenFails \/ Crash
  BY <1>3, <1>16 DEF OpenFails, Crash, Leave, Covered, Old, logVars, dbVars
<1>17. CASE UNCHANGED vars
  BY <1>3, <1>17 DEF vars, logVars, dbVars, runVars, Covered, Old
<1> QED
  BY <1>5, <1>6, <1>7, <1>8, <1>9, <1>10, <1>11, <1>12, <1>13, <1>14, <1>15, <1>16,
     <1>17 DEF Next, CollectStep
-----------------------------------------------------------------------------
(* History is not read.                                                    *)

(* Nothing is wrong with a text that is all later, from any position on.   *)
LEMMA AllAfter ==
    ASSUME NEW text, NEW p \in Nat, NEW last, After(text, 0, last)
    PROVE  Ahead(text, p, last)
BY DEF Ahead, After

(* What is ahead stays ahead while the log grows.                          *)
LEMMA AheadGrows ==
    ASSUME Base, Grown, NEW i \in 1 .. Len(files), NEW p \in Nat,
           NEW last \in Nat, last <= Len(requests)
    PROVE  /\ After(files[i], p, last) => After(files'[i], p, last)
           /\ Ahead(files[i], p, last) => Ahead(files'[i], p, last)
<1>1. /\ Len(files[i]) \in Nat
      /\ files[i] \in Texts
      /\ Len(requests) \in Nat
  BY CurrentLog
<1>2. /\ Len(files[i]) <= Len(files'[i])
      /\ \A k \in 1 .. Len(files[i]) : files'[i][k] = files[i][k]
      /\ After(files'[i], Len(files[i]), Len(requests))
  BY DEF Grown
<1>3. files'[i] \in Texts
  <2>1. files' \in Seq(Texts) /\ i \in 1 .. Len(files')
    BY DEF Grown
  <2> QED
    BY <2>1, ElementOfSeq
<1>4. Len(files'[i]) \in Nat
  BY <1>3, EmptyText
<1>5. ASSUME NEW q \in Nat, After(files[i], q, last)
      PROVE  After(files'[i], q, last)
  <2> SUFFICES ASSUME NEW k \in 1 .. Len(files'[i]), k > q
               PROVE  Later(files'[i], k, last)
    BY DEF After
  <2>1. CASE k <= Len(files[i])
    <3>1. k \in 1 .. Len(files[i])
      BY <1>1, <2>1
    <3>2. Later(files[i], k, last)
      BY <1>5, <3>1 DEF After
    <3>3. Begins(files'[i], k) = Begins(files[i], k)
      <4>1. k # 1 => k - 1 \in 1 .. Len(files[i])
        BY <1>1, <3>1
      <4> QED
        BY <1>2, <4>1 DEF Begins
    <3> QED
      BY <1>2, <3>1, <3>2, <3>3 DEF Later
  <2>2. CASE k > Len(files[i])
    <3>1. Later(files'[i], k, Len(requests))
      BY <1>2, <2>2 DEF After
    <3>2. files'[i][k].n \in Nat
      BY <1>3, StretchOf
    <3> QED
      BY <1>1, <3>1, <3>2 DEF Later
  <2> QED
    BY <1>1, <1>4, <2>1, <2>2
<1>6. Len(files'[i]) < p => Len(files[i]) < p
  BY <1>1, <1>2, <1>4
<1> QED
  BY <1>5, <1>6 DEF Ahead

(* The rest of a line that the offset fell into counts for nothing, and a   *)
(* whole line is about a later request.                                    *)
LEMMA AheadRead ==
    ASSUME Base, ReadLine, Ahead(files[file], pos, baseline),
           \A n \in recorded : n > baseline
    PROVE  /\ Ahead(files[file], pos', baseline)
           /\ \A n \in recorded' : n > baseline
<1> DEFINE text == files[file]
           n == text[pos + 1].n
<1>1. /\ file \in 1 .. Len(files)
      /\ pos \in Nat
      /\ pos + 1 \in 1 .. Len(text)
      /\ n \in 1 .. Len(requests)
      /\ pos' \in Nat /\ pos < pos' /\ pos' <= Len(text)
  BY NextLine
<1>2. /\ Len(text) \in Nat
      /\ Lined(text, requests, Torn)
  BY <1>1, CurrentLog
<1>3. Ahead(text, pos', baseline)
  <2>1. \A k \in 1 .. Len(text) : k > pos' => k > pos
    BY <1>1, <1>2
  <2>2. ~(Len(text) < pos')
    BY <1>1, <1>2
  <2> QED
    BY <2>1, <2>2 DEF Ahead, After
<1>4. Later(text, pos + 1, baseline)
  <2>1. pos + 1 > pos
    BY <1>1
  <2> QED
    BY <1>1, <2>1 DEF Ahead, After
<1>5. Begins(text, pos + 1) => n > baseline
  BY <1>4 DEF Later
<1>6. recorded' = recorded \/ (Begins(text, pos + 1) /\ recorded' = recorded \cup {n})
  BY LineRead
<1> QED
  BY <1>3, <1>5, <1>6

(* Nothing that is ahead of a run is history, whatever step is taken.      *)
LEMMA AheadStep ==
    ASSUME Base, AheadInv, [Next]_vars
    PROVE  AheadInv'
<1> SUFFICES ASSUME happened'["crash"] = 0
             PROVE  AheadInv'
  BY DEF AheadInv
<1>1. /\ TypeOK /\ LogInv /\ HeldInv
      /\ Len(files) \in Nat \ {0}
      /\ Len(requests) \in Nat
      /\ \A i \in 1 .. Len(files) : Len(files[i]) \in Nat
      /\ baseline \in Nat /\ baseline <= Len(requests)
      /\ pos \in Nat
      /\ state # NULL => state.file_offset \in Nat /\ state.file_inode \in 1 .. Len(files)
      /\ path # NULL => path = Len(files) /\ path \in 1 .. Len(files)
      /\ pc \in {"idle", "open", "read", "save"}
      /\ pc # "idle" => inode \in 1 .. Len(files)
      /\ pc \in {"read", "save"} => file \in inode .. Len(files) /\ file \in 1 .. Len(files)
  BY CurrentLog DEF Base, TypeOK, Position, HeldInv
<1>2. happened["crash"] = 0 /\ ~Crash
  <2>1. happened["crash"] \in Nat
    BY <1>1 DEF TypeOK, Trouble
  <2> QED
    BY <2>1, TroubleStays
<1>3. /\ \A n \in recorded : n > baseline
      /\ state = NULL /\ pc \in {"idle", "open"} => recorded = {}
      /\ state # NULL =>
          /\ \A j \in state.file_inode + 1 .. Len(files) : After(files[j], 0, baseline)
          /\ state.file_inode = path => Ahead(files[path], state.file_offset, baseline)
      /\ pc # "idle" => \A j \in inode + 1 .. Len(files) : After(files[j], 0, baseline)
      /\ pc = "open" /\ inode = path => Ahead(files[path], pos, baseline)
      /\ pc \in {"read", "save"} => Ahead(files[file], pos, baseline)
  BY <1>2 DEF AheadInv
<1> USE NullAssumption
<1>4. ASSUME /\ Len(files') \in Nat /\ Len(files) <= Len(files')
             /\ \A i \in 1 .. Len(files), p \in Nat :
                  /\ After(files[i], p, baseline) => After(files'[i], p, baseline)
                  /\ Ahead(files[i], p, baseline) => Ahead(files'[i], p, baseline)
             /\ \A i \in Len(files) + 1 .. Len(files') : After(files'[i], 0, baseline)
             /\ path' \in {path, NULL, Len(files) + 1}
             /\ UNCHANGED <<state, runVars, recorded, baseline>>
      PROVE  AheadInv'
  <2>1. ASSUME NEW i \in 1 .. Len(files),
               \A j \in i + 1 .. Len(files) : After(files[j], 0, baseline)
        PROVE  \A j \in i + 1 .. Len(files') : After(files'[j], 0, baseline)
    <3> TAKE j \in i + 1 .. Len(files')
    <3>1. CASE j <= Len(files)
      <4>1. j \in i + 1 .. Len(files) /\ j \in 1 .. Len(files)
        BY <1>1, <1>4, <3>1
      <4> QED
        BY <1>4, <2>1, <4>1
    <3>2. CASE j > Len(files)
      <4>1. j \in Len(files) + 1 .. Len(files')
        BY <1>1, <1>4, <3>2
      <4> QED
        BY <1>4, <4>1
    <3> QED
      BY <1>1, <1>4, <3>1, <3>2
  <2>2. ASSUME NEW i \in 1 .. Len(files), i = path'
        PROVE  i = path
    BY <1>1, <1>4, <2>2
  <2>3. /\ pc' = pc /\ inode' = inode /\ file' = file /\ pos' = pos
        /\ state' = state /\ recorded' = recorded /\ baseline' = baseline
    BY <1>4 DEF runVars
  <2>4. state' # NULL =>
          /\ \A j \in state'.file_inode + 1 .. Len(files') : After(files'[j], 0, baseline')
          /\ state'.file_inode = path' =>
              Ahead(files'[path'], state'.file_offset, baseline')
    BY <1>1, <1>3, <1>4, <2>1, <2>2, <2>3
  <2>5. /\ pc' # "idle" =>
            \A j \in inode' + 1 .. Len(files') : After(files'[j], 0, baseline')
        /\ pc' = "open" /\ inode' = path' => Ahead(files'[path'], pos', baseline')
        /\ pc' \in {"read", "save"} => Ahead(files'[file'], pos', baseline')
    BY <1>1, <1>3, <1>4, <2>1, <2>2, <2>3
  <2> QED
    BY <1>3, <2>3, <2>4, <2>5 DEF AheadInv
<1>5. ASSUME Grown, UNCHANGED <<path, state, runVars, recorded, baseline>>
      PROVE  AheadInv'
  <2>1. Len(files') = Len(files)
    BY <1>5 DEF Grown
  <2>2. \A i \in 1 .. Len(files), p \in Nat :
          /\ After(files[i], p, baseline) => After(files'[i], p, baseline)
          /\ Ahead(files[i], p, baseline) => Ahead(files'[i], p, baseline)
    BY <1>1, <1>5, AheadGrows
  <2>3. \A i \in Len(files) + 1 .. Len(files') : FALSE
    BY <1>1, <2>1
  <2> QED
    BY <1>1, <1>4, <1>5, <2>1, <2>2, <2>3
<1>6. CASE \E ip \in Clients : Request(ip)
  BY <1>5, <1>6, RequestGrows DEF Request, dbVars
<1>7. CASE \E ip \in Clients : Tear(ip)
  BY <1>5, <1>7, TearGrows DEF Tear, dbVars
<1>8. CASE EndLine
  BY <1>5, <1>8, EndLineGrows DEF EndLine, dbVars
<1>9. CASE Rename
  <2>1. /\ files' = files /\ path' = NULL
        /\ UNCHANGED <<state, runVars, recorded, baseline>>
    BY <1>9 DEF Rename, dbVars
  <2>2. \A i \in Len(files) + 1 .. Len(files') : FALSE
    BY <1>1, <2>1
  <2> QED
    BY <1>1, <1>4, <2>1, <2>2
<1>10. ASSUME NEW text, Len(text) = 0, NEW p \in Nat
       PROVE  /\ After(text, p, baseline)
              /\ Ahead(text, p, baseline)
  BY <1>10 DEF After, Ahead
<1>11. CASE Reopen
  <2>1. /\ Len(files') = Len(files) + 1
        /\ path' = Len(files) + 1
        /\ \A i \in 1 .. Len(files) : files'[i] = files[i]
        /\ Len(files'[Len(files) + 1]) = 0
    BY <1>11, Reopens
  <2>2. UNCHANGED <<state, runVars, recorded, baseline>>
    BY <1>11 DEF Reopen, dbVars
  <2>3. \A i \in Len(files) + 1 .. Len(files') : i = Len(files) + 1
    BY <1>1, <2>1
  <2>4. \A i \in Len(files) + 1 .. Len(files') : After(files'[i], 0, baseline)
    BY <1>10, <2>1, <2>3
  <2> QED
    BY <1>1, <1>4, <2>1, <2>2, <2>4
<1>12. CASE Truncate
  <2>1. /\ Len(files') = Len(files)
        /\ \A i \in 1 .. Len(files) : i # path => files'[i] = files[i]
        /\ Len(files'[path]) = 0
    BY <1>12, Truncates
  <2>2. path' = path /\ UNCHANGED <<state, runVars, recorded, baseline>>
    BY <1>12 DEF Truncate, dbVars
  <2>3. \A i \in Len(files) + 1 .. Len(files') : FALSE
    BY <1>1, <2>1
  <2>4. \A i \in 1 .. Len(files), p \in Nat :
          /\ After(files[i], p, baseline) => After(files'[i], p, baseline)
          /\ Ahead(files[i], p, baseline) => Ahead(files'[i], p, baseline)
    <3> TAKE i \in 1 .. Len(files), p \in Nat
    <3>1. CASE i = path
      BY <1>10, <2>1, <3>1
    <3>2. CASE i # path
      BY <2>1, <3>2
    <3> QED
      BY <3>1, <3>2
  <2>5. /\ Len(files') \in Nat /\ Len(files) <= Len(files')
        /\ \A i \in Len(files) + 1 .. Len(files') : After(files'[i], 0, baseline)
    BY <1>1, <2>1, <2>3
  <2> QED
    BY <1>4, <2>2, <2>4, <2>5
<1>13. CASE Stat
  <2>1. /\ files' = files /\ path' = path /\ recorded' = recorded
        /\ state' = state /\ pc' = "open" /\ inode' = path
        /\ pos' = start_offset(path, Len(files[path]))
        /\ baseline' = IF state = NULL THEN Len(requests) ELSE baseline
        /\ path \in 1 .. Len(files) /\ path = Len(files)
        /\ pc = "idle"
    BY <1>1, <1>13 DEF Stat, logVars, dbVars
  <2>2. \A j \in inode' + 1 .. Len(files') : FALSE
    BY <1>1, <2>1
  <2>3. CASE state = NULL
    <3>1. recorded' = {}
      BY <1>3, <2>1, <2>3
    <3>2. pos' = Len(files[path])
      BY <2>1, <2>3 DEF start_offset
    <3>3. Ahead(files[path], pos', baseline')
      <4>1. Len(files[path]) \in Nat
        BY <1>1, <2>1
      <4> QED
        BY <3>2, <4>1 DEF Ahead, After
    <3> QED
      BY <2>1, <2>2, <2>3, <3>1, <3>3 DEF AheadInv
  <2>4. CASE state # NULL
    <3>1. baseline' = baseline
      BY <2>1, <2>4
    <3>2. Ahead(files[path], pos', baseline)
      <4>1. CASE state.file_inode # path
        <5>1. pos' = 0
          BY <2>1, <2>4, <4>1 DEF start_offset
        <5>2. path \in state.file_inode + 1 .. Len(files)
          BY <1>1, <2>1, <2>4, <4>1
        <5> QED
          BY <1>3, <2>4, <5>1, <5>2, AllAfter
      <4>2. CASE state.file_inode = path /\ Len(files[path]) < state.file_offset
        <5>1. pos' = 0
          BY <2>1, <2>4, <4>2 DEF start_offset
        <5>2. After(files[path], 0, baseline)
          BY <1>3, <2>4, <4>2 DEF Ahead
        <5> QED
          BY <5>1, <5>2, AllAfter
      <4>3. CASE state.file_inode = path /\ ~(Len(files[path]) < state.file_offset)
        BY <1>3, <2>1, <2>4, <4>3 DEF start_offset
      <4> QED
        BY <4>1, <4>2, <4>3
    <3> QED
      BY <1>3, <2>1, <2>2, <2>4, <3>1, <3>2 DEF AheadInv
  <2> QED
    BY <2>3, <2>4
<1>14. CASE Open
  <2>1. /\ files' = files /\ path' = path /\ recorded' = recorded
        /\ state' = state /\ pc' = "read" /\ inode' = inode /\ pc = "open"
        /\ pos' = pos /\ baseline' = baseline /\ file' = path
        /\ path \in 1 .. Len(files) /\ path = Len(files)
    BY <1>1, <1>14 DEF Open, logVars, dbVars
  <2>2. CASE inode = path
    BY <1>3, <2>1, <2>2 DEF AheadInv
  <2>3. CASE inode # path
    <3>1. path \in inode + 1 .. Len(files)
      BY <1>1, <2>1, <2>3
    <3>2. Ahead(files[path], pos, baseline)
      BY <1>1, <1>3, <2>1, <3>1, AllAfter
    <3> QED
      BY <1>3, <2>1, <3>2 DEF AheadInv
  <2> QED
    BY <2>2, <2>3
<1>15. CASE ReadLine
  <2>1. /\ files' = files /\ path' = path /\ state' = state /\ pc' = "read"
        /\ inode' = inode /\ pc = "read" /\ baseline' = baseline /\ file' = file
    BY <1>15 DEF ReadLine, logVars
  <2>2. /\ Ahead(files[file], pos', baseline)
        /\ \A n \in recorded' : n > baseline
    BY <1>3, <1>15, <2>1, AheadRead
  <2> QED
    BY <1>3, <2>1, <2>2 DEF AheadInv
<1>16. CASE EndOfFile
  BY <1>3, <1>16 DEF EndOfFile, AheadInv, logVars, dbVars
<1>17. CASE Save
  <2>1. /\ files' = files /\ path' = path /\ recorded' = recorded
        /\ baseline' = baseline /\ pc' = "idle" /\ pc = "save"
        /\ state' = [file_inode |-> inode, file_offset |-> pos]
    BY <1>17 DEF Save, Leave, logVars
  <2>2. state'.file_inode = inode /\ state'.file_offset = pos /\ state' # NULL
    <3>1. inode \in Nat /\ pos \in Nat
      BY <1>1 DEF TypeOK
    <3>2. [file_inode |-> inode, file_offset |-> pos] \in Position
      BY <3>1 DEF Position
    <3> QED
      BY <2>1, <3>2, CollectorAssumption
  <2>3. inode = path => file = path
    <3>1. file \in inode .. Len(files) /\ inode \in 1 .. Len(files)
      BY <1>1, <2>1
    <3> QED
      BY <1>1, <3>1
  <2>4. \A j \in inode + 1 .. Len(files) : After(files[j], 0, baseline)
    BY <1>3, <2>1
  <2>5. inode = path => Ahead(files[path], pos, baseline)
    BY <1>3, <2>1, <2>3
  <2> QED
    BY <1>3, <2>1, <2>2, <2>4, <2>5 DEF AheadInv
<1>18. CASE OpenFails
  BY <1>3, <1>18 DEF OpenFails, Leave, AheadInv, logVars, dbVars
<1>19. CASE UNCHANGED vars
  BY <1>3, <1>19 DEF AheadInv, vars, logVars, dbVars, runVars
<1> QED
  BY <1>2, <1>6, <1>7, <1>8, <1>9, <1>11, <1>12, <1>13, <1>14, <1>15, <1>16, <1>17,
     <1>18, <1>19 DEF Next, CollectStep
-----------------------------------------------------------------------------
(* Nothing is forgotten.                                                   *)

(* In a log that has only grown there is one file, and everybody is in it. *)
LEMMA OneFile ==
    ASSUME Base, Intact
    PROVE  /\ Len(files) = 1 /\ path = 1
           /\ ~Torn /\ ~Truncated
           /\ state # NULL => state.file_inode = path /\ state.file_offset \in Nat
           /\ pc # "idle" => inode = path
           /\ pc \in {"read", "save"} => file = 1
<1>1. /\ Len(files) = 1 /\ path = 1
      /\ ~Torn /\ ~Truncated
  BY DEF Base, TypeOK, Intact, Torn, Truncated
<1>2. /\ state # NULL => state.file_inode \in 1 .. 1 /\ state.file_offset \in Nat
      /\ pc # "idle" => inode \in 1 .. 1
      /\ pc \in {"read", "save"} => file \in inode .. 1
  BY <1>1 DEF Base, TypeOK, Position, HeldInv
<1> QED
  BY <1>1, <1>2

(* The log is never repaired.                                              *)
LEMMA IntactBefore ==
    ASSUME Base, [Next]_vars, Intact'
    PROVE  Intact
<1> USE NullAssumption
<1>1. /\ TypeOK
      /\ Len(files) \in Nat \ {0}
  BY CurrentLog DEF Base
<1>2. ~Torn' /\ ~Truncated'
  BY DEF Intact, Torn, Truncated
<1>3. ~Torn /\ ~Truncated
  BY <1>2, TroubleStays
<1>4. happened["tear"] = 0 /\ happened["truncate"] = 0
  BY <1>1, <1>3 DEF TypeOK, Trouble, Torn, Truncated
<1>5. Len(files) = 1 /\ path # NULL
  <2>1. CASE \E ip \in Clients : Request(ip)
    BY <2>1, RequestGrows DEF Grown, Request, Intact
  <2>2. CASE \E ip \in Clients : Tear(ip)
    BY <2>2, TearGrows DEF Grown, Tear, Intact
  <2>3. CASE EndLine
    BY <2>3, EndLineGrows DEF Grown, EndLine, Intact
  <2>4. CASE Rename
    BY <2>4 DEF Rename, Intact
  <2>5. CASE Reopen
    BY <1>1, <2>5, Reopens DEF Intact
  <2>6. CASE Truncate
    BY <2>6, Truncates DEF Truncate, Intact
  <2>7. CASE UNCHANGED logVars
    BY <2>7 DEF logVars, Intact
  <2> QED
    BY <2>1, <2>2, <2>3, <2>4, <2>5, <2>6, <2>7 DEF Next, CollectStep, Stat, Open,
       ReadLine, EndOfFile, Save, OpenFails, Crash, vars
<1> QED
  BY <1>4, <1>5 DEF Intact

(* In such a log no line is without its end, and what may change it is a   *)
(* request.                                                                *)
LEMMA OnlyRequests ==
    ASSUME Base, [Next]_vars, Intact'
    PROVE  \/ \E ip \in Clients : Request(ip)
           \/ UNCHANGED logVars
<1> USE NullAssumption
<1>1. Intact
  BY IntactBefore
<1>2. ~Torn /\ Log \in Texts /\ Lined(Log, requests, Torn)
  BY <1>1, OneFile, CurrentLog
<1>3. ~EndLine
  <2>1. Log # <<>> => Len(Log) \in 1 .. Len(Log)
    BY <1>2, EmptyText
  <2> QED
    BY <1>2, <2>1 DEF Lined, EndLine, Ended
<1>4. ~\E ip \in Clients : Tear(ip)
  BY TearGrows DEF Torn, Intact
<1>5. ~Rename /\ ~Truncate
  <2>1. ~Rename
    BY DEF Rename, Intact
  <2>2. ASSUME Truncate
        PROVE  FALSE
    <3>1. Happens("truncate") /\ TypeOK
      BY <2>2 DEF Truncate, Base
    <3>2. happened'["truncate"] > 0
      BY <3>1, TroubleCounts DEF Trouble
    <3> QED
      BY <3>2 DEF Intact
  <2> QED
    BY <2>1, <2>2
<1>6. ~Reopen
  BY <1>1 DEF Reopen, Intact
<1> QED
  BY <1>3, <1>4, <1>5, <1>6 DEF Next, CollectStep, Stat, Open, ReadLine, EndOfFile,
     Save, OpenFails, Crash, vars

(* Where the saved position and the run are, in such a log.                *)
LEMMA InsideFile ==
    ASSUME Base, CoverInv, Intact
    PROVE  /\ state # NULL => Covered(1, state.file_offset)
           /\ pc # "idle" => Covered(1, pos)
<1>1. pc \in {"idle", "open", "read", "save"}
  BY DEF Base, TypeOK
<1> QED
  BY <1>1, OneFile DEF CoverInv

(* The run holds what it has read, whatever step is taken.                 *)
LEMMA BatchStep ==
    ASSUME Base, CoverInv, BatchInv, [Next]_vars
    PROVE  BatchInv'
<1> SUFFICES ASSUME Intact', state' # NULL, pc' # "idle"
             PROVE  /\ pos' >= state'.file_offset
                    /\ \A k \in state'.file_offset + 1 .. pos' :
                        requests'[files'[1][k].n] \in ips' \cup {NULL}
  BY DEF BatchInv
<1>1. /\ Intact
      /\ Len(files) = 1 /\ path = 1 /\ 1 \in 1 .. Len(files)
      /\ ~Torn
      /\ state # NULL => state.file_inode = path /\ state.file_offset \in Nat
      /\ pc # "idle" => inode = path
      /\ pc \in {"read", "save"} => file = 1
  BY IntactBefore, OneFile
<1>2. /\ state # NULL => Covered(1, state.file_offset)
      /\ pc # "idle" => Covered(1, pos)
  BY <1>1, InsideFile
<1>3. /\ pos \in Nat
      /\ Len(files[1]) \in Nat
      /\ Lined(files[1], requests, Torn)
  BY <1>1, CurrentLog DEF Base, TypeOK
<1>4. state # NULL /\ pc # "idle" =>
        /\ pos >= state.file_offset
        /\ \A k \in state.file_offset + 1 .. pos :
            requests[files[1][k].n] \in ips \cup {NULL}
  BY <1>1 DEF BatchInv
<1>5. CASE \E ip \in Clients : Request(ip)
  <2>1. /\ state' = state /\ pc' = pc /\ pos' = pos /\ ips' = ips
    BY <1>5 DEF Request, dbVars, runVars
  <2>2. Grown
    BY <1>5, RequestGrows
  <2>3. ASSUME NEW k \in state.file_offset + 1 .. pos
        PROVE  requests'[files'[1][k].n] = requests[files[1][k].n]
    <3>1. k \in 1 .. Len(files[1])
      BY <1>1, <1>2, <1>3, <2>1 DEF Covered
    <3>2. files[1][k].n \in 1 .. Len(requests)
      BY <1>3, <3>1 DEF Lined
    <3> QED
      BY <1>1, <2>2, <3>1, <3>2 DEF Grown
  <2> QED
    BY <1>4, <2>1, <2>3
<1>6. CASE Stat
  <2>1. /\ state' = state /\ path = 1
        /\ pos' = start_offset(path, Len(files[path]))
    BY <1>1, <1>6 DEF Stat, dbVars
  <2>2. state.file_offset \in Nat /\ state.file_offset <= Len(files[1])
    BY <1>1, <1>2, <2>1 DEF Covered
  <2>3. pos' = state.file_offset
    BY <1>1, <1>3, <2>1, <2>2 DEF start_offset
  <2> QED
    BY <2>1, <2>2, <2>3
<1>7. CASE ReadLine
  <2>1. /\ state' = state /\ files' = files /\ requests' = requests /\ pc = "read"
        /\ file = 1
    BY <1>1, <1>7 DEF ReadLine, logVars
  <2>2. /\ extract_ip = requests[files[1][pos + 1].n]
        /\ \A k \in pos + 1 .. pos' : files[1][k].n = files[1][pos + 1].n
    BY <1>1, <1>2, <1>7, <2>1, WholeLine
  <2>3. pos' \in Nat /\ pos < pos'
    BY <1>7, NextLine
  <2>4. /\ ips \subseteq ips'
        /\ extract_ip \in ips' \cup {NULL}
    BY <1>7, LineRead
  <2>5. ASSUME NEW k \in state.file_offset + 1 .. pos'
        PROVE  requests[files[1][k].n] \in ips' \cup {NULL}
    <3>1. CASE k <= pos
      <4>1. k \in state.file_offset + 1 .. pos
        BY <1>1, <1>3, <2>1, <2>3, <3>1
      <4> QED
        BY <1>4, <2>1, <2>4, <4>1
    <3>2. CASE k > pos
      <4>1. k \in pos + 1 .. pos'
        BY <1>1, <1>3, <2>1, <2>3, <3>2
      <4> QED
        BY <2>2, <2>4, <4>1
    <3> QED
      BY <1>1, <1>3, <2>1, <3>1, <3>2
  <2>6. pos' >= state.file_offset
    BY <1>1, <1>3, <1>4, <2>1, <2>3
  <2> QED
    BY <2>1, <2>5, <2>6
<1>8. CASE Open
  BY <1>4, <1>8 DEF Open, logVars, dbVars
<1>9. CASE EndOfFile
  BY <1>4, <1>9 DEF EndOfFile, logVars, dbVars
<1>10. CASE Save \/ OpenFails \/ Crash
  BY <1>10 DEF Save, OpenFails, Crash, Leave
<1>11. CASE UNCHANGED vars
  BY <1>4, <1>11 DEF vars, logVars, dbVars, runVars
<1>12. CASE UNCHANGED <<logVars, dbVars, runVars>>
  BY <1>4, <1>12 DEF logVars, dbVars, runVars
<1>13. CASE \/ \E ip \in Clients : Tear(ip)
            \/ EndLine \/ Rename \/ Reopen \/ Truncate
  <2>1. UNCHANGED <<dbVars, runVars>>
    BY <1>13 DEF Tear, EndLine, Rename, Reopen, Truncate
  <2> QED
    BY <1>5, <1>12, <2>1, OnlyRequests
<1> QED
  BY <1>5, <1>6, <1>7, <1>8, <1>9, <1>10, <1>11, <1>13 DEF Next, CollectStep
-----------------------------------------------------------------------------
(* Nothing is counted twice but by runs that died.  A request of an        *)
(* address is in C when it is counted, and in P when the position has      *)
(* passed it; x is how often the address was counted, c how many runs died.*)

(* More is passed.                                                         *)
LEMMA CountKept ==
    ASSUME NEW C, IsFiniteSet(C), NEW Q \in SUBSET C, NEW P \in SUBSET Q,
           NEW c \in Nat, NEW x \in Nat,
           x <= c * Cardinality(C) + Cardinality(P)
    PROVE  x <= c * Cardinality(C) + Cardinality(Q)
<1>1. IsFiniteSet(Q) /\ IsFiniteSet(P)
  BY FS_Subset
<1>2. /\ Cardinality(P) <= Cardinality(Q)
      /\ Cardinality(P) \in Nat /\ Cardinality(Q) \in Nat /\ Cardinality(C) \in Nat
  BY <1>1, FS_Subset, FS_CardinalityType
<1>3. c * Cardinality(C) \in Nat
  BY <1>2
<1> QED
  BY <1>2, <1>3

(* A run dies.                                                             *)
LEMMA CountAfterCrash ==
    ASSUME NEW C, IsFiniteSet(C), NEW Q \in SUBSET C, NEW P \in SUBSET C,
           NEW c \in Nat, NEW x \in Nat,
           x <= c * Cardinality(C) + Cardinality(P)
    PROVE  x <= (c + 1) * Cardinality(C) + Cardinality(Q)
<1>1. IsFiniteSet(Q) /\ IsFiniteSet(P)
  BY FS_Subset
<1>2. /\ Cardinality(P) <= Cardinality(C)
      /\ Cardinality(P) \in Nat /\ Cardinality(Q) \in Nat /\ Cardinality(C) \in Nat
  BY <1>1, FS_Subset, FS_CardinalityType
<1>3. /\ c * Cardinality(C) \in Nat
      /\ (c + 1) * Cardinality(C) = c * Cardinality(C) + Cardinality(C)
  BY <1>2
<1> QED
  BY <1>2, <1>3

(* A request that was not passed yet is counted, and passed.               *)
LEMMA CountAfterRead ==
    ASSUME NEW C, IsFiniteSet(C), NEW P \in SUBSET C, NEW n, n \notin P,
           NEW c \in Nat, NEW x \in Nat,
           x >= Cardinality(C),
           x <= c * Cardinality(C) + Cardinality(P)
    PROVE  /\ x + 1 >= Cardinality(C \cup {n})
           /\ x + 1 <= c * Cardinality(C \cup {n}) + Cardinality(P \cup {n})
<1>1. IsFiniteSet(P)
  BY FS_Subset
<1>2. /\ Cardinality(P) \in Nat /\ Cardinality(C) \in Nat
      /\ Cardinality(P \cup {n}) = Cardinality(P) + 1
      /\ Cardinality(C \cup {n}) \in {Cardinality(C), Cardinality(C) + 1}
  BY <1>1, FS_CardinalityType, FS_AddElement
<1>3. /\ c * Cardinality(C) \in Nat
      /\ c * (Cardinality(C) + 1) = c * Cardinality(C) + c
  BY <1>2
<1>4. c * Cardinality(C \cup {n}) \in Nat
      /\ c * Cardinality(C \cup {n}) >= c * Cardinality(C)
  BY <1>2, <1>3
<1> QED
  BY <1>2, <1>4

(* What is counted and passed of an address is a finite set.               *)
LEMMA CountedIsFinite ==
    ASSUME Base, CountInv, Intact, NEW ip \in IP
    PROVE  /\ IsFiniteSet(Counted(ip))
           /\ Passed(ip) \in SUBSET Counted(ip)
           /\ request_count[ip] \in Nat
           /\ happened["crash"] \in Nat
           /\ request_count[ip] >= Cardinality(Counted(ip))
           /\ request_count[ip] <=
                happened["crash"] * Cardinality(Counted(ip)) + Cardinality(Passed(ip))
<1>1. IsFiniteSet(1 .. Len(requests))
  BY CurrentLog, FS_Interval
<1>2. Counted(ip) \in SUBSET (1 .. Len(requests))
  BY DEF CountInv, Counted
<1>3. IsFiniteSet(Counted(ip))
  BY <1>1, <1>2, FS_Subset
<1>4. request_count[ip] \in Nat /\ happened["crash"] \in Nat
  BY DEF Base, TypeOK, Trouble
<1> QED
  BY <1>3, <1>4 DEF Passed, CountInv

(* The position, in a log that has only grown, is inside the file.         *)
LEMMA ReachedInside ==
    ASSUME Base, CoverInv, Intact
    PROVE  Reached \in 0 .. Len(files[1])
<1>1. /\ 1 \in 1 .. Len(files) /\ Len(files[1]) \in Nat
      /\ pos \in Nat
      /\ state # NULL => state.file_offset \in Nat
  BY OneFile, CurrentLog DEF Base, TypeOK
<1>2. /\ state # NULL => state.file_offset <= Len(files[1])
      /\ pc # "idle" => pos <= Len(files[1])
  BY InsideFile DEF Covered
<1> QED
  BY <1>1, <1>2 DEF Reached

(* A text stays ordered when one more line is added to it.                 *)
LEMMA OrderedLonger ==
    ASSUME NEW text \in Texts, NEW more \in Texts, NEW last \in Nat,
           Ordered(text),
           \A k \in 1 .. Len(text) : text[k].n <= last,
           \A k \in 1 .. Len(more) : more[k].n > last,
           \A k \in 1 .. Len(more) : k # 1 => ~Begins(more, k)
    PROVE  Ordered(text \o more)
<1> DEFINE all == text \o more
<1>1. /\ Len(text) \in Nat /\ Len(more) \in Nat
      /\ Len(all) = Len(text) + Len(more)
      /\ \A k \in 1 .. Len(text) : all[k] = text[k]
      /\ \A k \in 1 .. Len(more) : all[Len(text) + k] = more[k]
  BY Appended, EmptyText
<1> SUFFICES ASSUME NEW j \in 1 .. Len(all), NEW k \in 1 .. Len(all), k > j
             PROVE  Later(all, k, all[j].n)
  BY DEF Ordered, After
<1>2. CASE k <= Len(text)
  <2>1. /\ j \in 1 .. Len(text) /\ k \in 1 .. Len(text) /\ k - 1 \in 1 .. Len(text)
    BY <1>1, <1>2
  <2>2. all[j] = text[j] /\ all[k] = text[k] /\ all[k - 1] = text[k - 1]
    BY <1>1, <2>1
  <2>3. Later(text, k, text[j].n)
    BY <2>1 DEF Ordered, After
  <2> QED
    BY <2>2, <2>3 DEF Later, Begins
<1>3. CASE k > Len(text)
  <2>1. PICK l \in 1 .. Len(more) : k = Len(text) + l
    <3>1. k - Len(text) \in 1 .. Len(more) /\ k = Len(text) + (k - Len(text))
      BY <1>1, <1>3
    <3> QED
      BY <3>1
  <2>2. all[k].n > last
    BY <1>1, <2>1
  <2>3. CASE j <= Len(text)
    <3>1. all[j].n = text[j].n /\ text[j].n <= last /\ text[j].n \in Nat
      BY <1>1, <2>3, StretchOf
    <3>2. all[k].n \in Nat
      BY <1>1, <2>1, StretchOf
    <3> QED
      BY <2>2, <3>1, <3>2 DEF Later
  <2>4. CASE j > Len(text)
    <3>1. l # 1 /\ l - 1 \in 1 .. Len(more) /\ k - 1 = Len(text) + (l - 1) /\ k # 1
      BY <1>1, <2>1, <2>4
    <3>2. ~more[l - 1].ends
      BY <3>1 DEF Begins
    <3>3. all[k - 1] = more[l - 1]
      BY <1>1, <3>1
    <3> QED
      BY <3>1, <3>2, <3>3 DEF Later, Begins
  <2> QED
    BY <1>1, <2>3, <2>4
<1> QED
  BY <1>1, <1>2, <1>3

(* The line of a new request comes after all others.                       *)
LEMMA OrderedWithRequest ==
    ASSUME Base, Intact, NEW ip \in Clients, Request(ip), Ordered(files[1])
    PROVE  Ordered(files'[1])
<1>1. PICK line \in Lines(Len(requests'), ip) : Written(line)
  BY DEF Request
<1>2. /\ ip \in MaybeIP
      /\ Len(requests) \in Nat
      /\ Len(requests') = Len(requests) + 1
      /\ Len(requests') \in Nat
  BY CurrentLog, OneMoreRequest DEF Request
<1>3. /\ line \in Texts
      /\ \A k \in 1 .. Len(line) : line[k].n = Len(requests')
      /\ \A k \in 1 .. Len(line) : k # 1 => ~Begins(line, k)
  <2>1. CASE line \in Halves(Len(requests'), ip)
    <3>1. /\ line \in Texts /\ Len(line) = 2
          /\ line[1].n = Len(requests') /\ line[2].n = Len(requests')
          /\ ~line[1].ends
      BY <1>2, <2>1, HalvesOf
    <3>2. \A k \in 1 .. 2 : k = 1 \/ k = 2
      OBVIOUS
    <3> QED
      BY <3>1, <3>2 DEF Begins
  <2>2. CASE /\ line \in Texts
             /\ Len(line) = 1
             /\ line[1] = [n |-> Len(requests'), says |-> ip, ends |-> TRUE]
    BY <2>2
  <2> QED
    BY <1>1, <1>2, <2>1, <2>2, LinesOf
<1>4. /\ Log = files[1] /\ files[1] \in Texts
      /\ Lined(files[1], requests, Torn)
      /\ files'[1] = files[1] \o line
  BY <1>1, <1>3, OneFile, CurrentLog, WritesLog DEF Log
<1>5. \A k \in 1 .. Len(files[1]) : files[1][k].n <= Len(requests)
  BY <1>2, <1>4 DEF Lined
<1>6. \A k \in 1 .. Len(line) : line[k].n > Len(requests)
  BY <1>2, <1>3
<1> QED
  BY <1>2, <1>3, <1>4, <1>5, <1>6, OrderedLonger

(* What CountInv says of one address after a step.                         *)
CountedRight(ip) ==
    /\ request_count[ip] >= Cardinality(Counted(ip))
    /\ request_count[ip] <=
        happened["crash"] * Cardinality(Counted(ip)) + Cardinality(Passed(ip))

(* A step that counts nothing, in a file that keeps its text.              *)
LEMMA StillCounted ==
    ASSUME Base, CoverInv, CountInv, Intact,
           UNCHANGED <<happened, request_count, recorded>>,
           \A n \in 1 .. Len(requests) : requests'[n] = requests[n],
           \A k \in 1 .. Len(files[1]) : files'[1][k] = files[1][k],
           Reached' \in Nat, Reached <= Reached',
           NEW ip \in IP
    PROVE  CountedRight(ip)'
<1>1. Reached \in Nat /\ \A k \in 1 .. Reached : k \in 1 .. Len(files[1]) /\ k \in 1 .. Reached'
  BY ReachedInside, OneFile, CurrentLog
<1>2. Counted(ip)' = Counted(ip)
  BY DEF Counted, CountInv
<1>3. Passed(ip)' \in SUBSET Counted(ip) /\ Passed(ip) \in SUBSET Passed(ip)'
  BY <1>1, <1>2 DEF Passed
<1> DEFINE c == happened["crash"]
           x == request_count[ip]
           C == Counted(ip)
           Q == Passed(ip)'
<1>4. /\ IsFiniteSet(C) /\ c \in Nat /\ x \in Nat
      /\ x >= Cardinality(C) /\ x <= c * Cardinality(C) + Cardinality(Passed(ip))
  BY CountedIsFinite
<1>5. x <= c * Cardinality(C) + Cardinality(Q)
  <2> HIDE DEF c, x, C, Q
  <2> QED
    BY <1>3, <1>4, CountKept DEF C, Q
<1> QED
  BY <1>2, <1>4, <1>5 DEF CountedRight

(* A run that dies leaves what it has counted.                             *)
LEMMA CountedAtCrash ==
    ASSUME Base, CoverInv, CountInv, Intact, Crash, NEW ip \in IP
    PROVE  CountedRight(ip)'
<1>1. UNCHANGED <<requests, request_count, recorded>>
  BY DEF Crash, logVars, dbVars
<1>2. Counted(ip)' = Counted(ip) /\ Passed(ip)' \in SUBSET Counted(ip)
  BY <1>1 DEF Counted, Passed
<1>3. happened'["crash"] = happened["crash"] + 1
  BY TroubleCounts DEF Crash, Base, Trouble
<1> DEFINE c == happened["crash"]
           x == request_count[ip]
           C == Counted(ip)
           Q == Passed(ip)'
<1>4. /\ IsFiniteSet(C) /\ c \in Nat /\ x \in Nat /\ Passed(ip) \in SUBSET C
      /\ x >= Cardinality(C) /\ x <= c * Cardinality(C) + Cardinality(Passed(ip))
  BY CountedIsFinite
<1>5. x <= (c + 1) * Cardinality(C) + Cardinality(Q)
  <2> HIDE DEF c, x, C, Q
  <2> QED
    BY <1>2, <1>4, CountAfterCrash DEF C, Q
<1> QED
  BY <1>1, <1>2, <1>3, <1>4, <1>5 DEF CountedRight

(* A line that is read is about a request that was not passed yet.         *)
LEMMA CountedAtRead ==
    ASSUME Base, CoverInv, CountInv, Intact, ReadLine, NEW ip \in IP
    PROVE  CountedRight(ip)'
<1> USE NullAssumption
<1> DEFINE text == files[1]
           n == text[pos + 1].n
<1>1. /\ pc = "read" /\ pc' = "read" /\ file = 1
      /\ UNCHANGED <<requests, files, happened>>
      /\ Covered(1, pos) /\ ~Torn
      /\ Reached = pos /\ Reached' = pos'
  BY OneFile, InsideFile DEF ReadLine, logVars, Reached
<1>2. /\ pos \in Nat /\ pos' \in Nat /\ pos < pos'
      /\ pos + 1 \in 1 .. Len(text) /\ Len(text) \in Nat
      /\ n \in 1 .. Len(requests)
  BY <1>1, NextLine, CurrentLog
<1>3. /\ Begins(text, pos + 1)
      /\ extract_ip = requests[n]
      /\ \A k \in pos + 1 .. pos' : text[k].n = n
  BY <1>1, WholeLine
<1>4. CASE extract_ip # ip
  <2>1. /\ request_count'[ip] = request_count[ip]
        /\ recorded' = recorded \/ recorded' = recorded \cup {n}
    BY <1>1, <1>4, LineRead DEF Base, TypeOK
  <2>2. Counted(ip)' = Counted(ip)
    BY <1>1, <1>3, <1>4, <2>1 DEF Counted
  <2>3. /\ Passed(ip)' \in SUBSET Counted(ip)
        /\ Passed(ip) \in SUBSET Passed(ip)'
    <3>1. \A k \in 1 .. Reached : k \in 1 .. Reached'
      BY <1>1, <1>2
    <3> QED
      BY <1>1, <2>2, <3>1 DEF Passed
  <2> DEFINE c == happened["crash"]
             x == request_count[ip]
             C == Counted(ip)
             Q == Passed(ip)'
  <2>4. /\ IsFiniteSet(C) /\ c \in Nat /\ x \in Nat
        /\ x >= Cardinality(C) /\ x <= c * Cardinality(C) + Cardinality(Passed(ip))
    BY CountedIsFinite
  <2>5. x <= c * Cardinality(C) + Cardinality(Q)
    <3> HIDE DEF c, x, C, Q
    <3> QED
      BY <2>3, <2>4, CountKept DEF C, Q
  <2> QED
    BY <1>1, <2>1, <2>2, <2>4, <2>5 DEF CountedRight
<1>5. CASE extract_ip = ip
  <2>1. /\ request_count'[ip] = request_count[ip] + 1
        /\ recorded' = recorded \cup {n}
    BY <1>1, <1>3, <1>5, LineRead DEF Base, TypeOK
  <2>2. n \notin Passed(ip)
    <3>1. Begins(text, pos + 1)
      BY <1>1, <1>2 DEF Covered, Between, Begins
    <3>2. ASSUME NEW k \in 1 .. Reached
          PROVE  text[k].n # n
      <4>1. k \in 1 .. Len(text) /\ pos + 1 > k
        BY <1>1, <1>2
      <4>2. n > text[k].n
        BY <1>2, <3>1, <4>1 DEF CountInv, Ordered, After, Later
      <4>3. text[k].n \in Nat /\ n \in Nat
        BY <1>1, <1>2, <4>1, OneFile, CurrentLog, StretchOf
      <4> QED
        BY <4>2, <4>3
    <3> QED
      BY <3>2 DEF Passed
  <2>3. Counted(ip)' = Counted(ip) \cup {n}
    BY <1>1, <1>3, <1>5, <2>1 DEF Counted
  <2>4. Passed(ip)' = Passed(ip) \cup {n}
    <3>1. \A k \in 1 .. pos' : k \in 1 .. pos \/ k \in pos + 1 .. pos'
      BY <1>2
    <3>2. pos + 1 \in pos + 1 .. pos' /\ pos + 1 \in 1 .. pos'
          /\ \A k \in 1 .. pos : k \in 1 .. pos'
      BY <1>2
    <3> QED
      BY <1>1, <1>3, <2>3, <3>1, <3>2 DEF Passed
  <2> DEFINE c == happened["crash"]
             x == request_count[ip]
             C == Counted(ip)
             P == Passed(ip)
  <2>5. /\ IsFiniteSet(C) /\ P \in SUBSET C /\ c \in Nat /\ x \in Nat
        /\ x >= Cardinality(C) /\ x <= c * Cardinality(C) + Cardinality(P)
    BY CountedIsFinite
  <2>6. /\ x + 1 >= Cardinality(C \cup {n})
        /\ x + 1 <= c * Cardinality(C \cup {n}) + Cardinality(P \cup {n})
    <3> HIDE DEF c, x, C, n
    <3>1. n \notin P
      BY <2>2
    <3> HIDE DEF P
    <3> QED
      BY <2>5, <3>1, CountAfterRead
  <2> QED
    BY <1>1, <2>1, <2>3, <2>4, <2>6 DEF CountedRight
<1> QED
  BY <1>4, <1>5

(* A step that adds no line and lets nobody go back.                       *)
LEMMA CountedElsewhere ==
    ASSUME Base, CoverInv, CountInv, Intact,
           UNCHANGED <<logVars, happened, request_count, recorded>>,
           Reached' \in Nat, Reached <= Reached'
    PROVE  CountInv'
<1>1. requests' = requests /\ files' = files
  BY DEF logVars
<1>2. \A ip \in IP : CountedRight(ip)'
  BY <1>1, StillCounted
<1> QED
  BY <1>1, <1>2 DEF CountInv, CountedRight, Ordered, After, Later, Begins

(* The counts stay right, whatever step is taken.                          *)
LEMMA CountStep ==
    ASSUME Base, CoverInv, CountInv, [Next]_vars
    PROVE  CountInv'
<1> USE NullAssumption, CollectorAssumption
<1> SUFFICES ASSUME Intact'
             PROVE  CountInv'
  BY DEF CountInv
<1>1. Intact /\ Len(files) = 1 /\ path = 1 /\ 1 \in 1 .. Len(files)
  BY IntactBefore, OneFile
<1>2. /\ Reached \in Nat /\ Reached <= Len(files[1])
      /\ Len(files[1]) \in Nat
      /\ state # NULL => state.file_inode = path /\ state.file_offset \in Nat
      /\ pos \in Nat
  BY <1>1, ReachedInside, OneFile, CurrentLog DEF Base, TypeOK
<1>3. /\ Ordered(files[1])
      /\ recorded \subseteq 1 .. Len(requests)
  BY <1>1 DEF CountInv
<1>4. ASSUME NEW ip \in Clients, Request(ip)
      PROVE  CountInv'
  <2>1. /\ UNCHANGED <<happened, request_count, recorded>>
        /\ Reached' = Reached
    BY <1>4 DEF Request, dbVars, runVars, Reached
  <2>2. Grown
    BY <1>4, RequestGrows
  <2>3. \A a \in IP : CountedRight(a)'
    BY <1>1, <1>2, <2>1, <2>2, StillCounted DEF Grown
  <2>4. Ordered(files'[1])
    BY <1>1, <1>3, <1>4, OrderedWithRequest
  <2>5. recorded' \subseteq 1 .. Len(requests')
    <3>1. Len(requests) \in Nat /\ Len(requests') = Len(requests) + 1
      BY <1>4, CurrentLog, OneMoreRequest DEF Request
    <3> QED
      BY <1>3, <2>1, <3>1
  <2> QED
    BY <2>3, <2>4, <2>5 DEF CountInv, CountedRight, Ordered, After, Later, Begins
<1>5. CASE ReadLine
  <2>1. requests' = requests /\ files' = files
    BY <1>5 DEF ReadLine, logVars
  <2>2. \A ip \in IP : CountedRight(ip)'
    BY <1>1, <1>5, CountedAtRead
  <2>3. recorded' \subseteq 1 .. Len(requests)
    BY <1>3, <1>5, NextLine, LineRead
  <2> QED
    BY <1>3, <2>1, <2>2, <2>3
       DEF CountInv, CountedRight, Ordered, After, Later, Begins
<1>6. CASE Crash
  <2>1. requests' = requests /\ files' = files /\ recorded' = recorded
    BY <1>6 DEF Crash, logVars
  <2>2. \A ip \in IP : CountedRight(ip)'
    BY <1>1, <1>6, CountedAtCrash
  <2> QED
    BY <1>3, <2>1, <2>2
       DEF CountInv, CountedRight, Ordered, After, Later, Begins
<1>7. CASE Stat
  <2>1. /\ UNCHANGED <<logVars, happened, request_count, recorded>>
        /\ Reached = IF state # NULL THEN state.file_offset ELSE 0
        /\ Reached' = start_offset(1, Len(files[1]))
    BY <1>1, <1>7 DEF Stat, dbVars, Reached
  <2>2. Reached' \in Nat /\ Reached <= Reached'
    BY <1>1, <1>2, <2>1 DEF start_offset
  <2> QED
    BY <1>1, <2>1, <2>2, CountedElsewhere
<1>8. CASE Save
  <2>1. /\ UNCHANGED <<logVars, happened, request_count, recorded>>
        /\ pc # "idle" /\ pc' = "idle"
        /\ state' = [file_inode |-> inode, file_offset |-> pos]
    BY <1>8 DEF Save, Leave
  <2>2. state' # NULL
    <3>1. state' \in Position
      BY <2>1 DEF Position, Base, TypeOK
    <3> QED
      BY <3>1
  <2>3. Reached = pos /\ Reached' = pos
    BY <2>1, <2>2 DEF Reached
  <2> QED
    BY <1>1, <1>2, <2>1, <2>3, CountedElsewhere
<1>9. CASE Open \/ EndOfFile
  <2>1. /\ UNCHANGED <<logVars, happened, request_count, recorded>>
        /\ Reached' = Reached
    BY <1>9 DEF Open, EndOfFile, dbVars, Reached
  <2> QED
    BY <1>1, <1>2, <2>1, CountedElsewhere
<1>10. CASE OpenFails
  BY <1>1, <1>10 DEF OpenFails, Intact
<1>11. CASE UNCHANGED vars
  <2>1. /\ UNCHANGED <<logVars, happened, request_count, recorded>>
        /\ Reached' = Reached
    BY <1>11 DEF vars, dbVars, runVars, Reached
  <2> QED
    BY <1>1, <1>2, <2>1, CountedElsewhere
<1>12. CASE \/ \E ip \in Clients : Tear(ip)
            \/ EndLine \/ Rename \/ Reopen \/ Truncate
  <2>1. CASE UNCHANGED logVars
    <3>1. UNCHANGED <<dbVars, runVars, recorded>>
      BY <1>12 DEF Tear, EndLine, Rename, Reopen, Truncate
    <3>2. happened' = happened
      BY <1>1, <1>12, <2>1, TearGrows, TroubleCounts
         DEF Tear, EndLine, Rename, Reopen, Truncate, Intact, Torn, Base, Trouble, logVars
    <3>3. Reached' = Reached
      BY <3>1 DEF dbVars, runVars, Reached
    <3> QED
      BY <1>1, <1>2, <2>1, <3>1, <3>2, <3>3, CountedElsewhere DEF dbVars
  <2> QED
    BY <1>4, <1>12, <2>1, OnlyRequests
<1> QED
  BY <1>4, <1>5, <1>6, <1>7, <1>8, <1>9, <1>10, <1>11, <1>12 DEF Next, CollectStep
-----------------------------------------------------------------------------
(* The invariant and what follows from it.                                 *)

Inv == TypeOK /\ CollectorInv

(* The invariant holds at first.                                           *)
LEMMA InvInit == Init => Inv
<1> SUFFICES ASSUME Init PROVE Inv
  OBVIOUS
<1> USE NullAssumption
<1>1. Base
  BY BaseInit
<1>2. CoverInv /\ AheadInv /\ BatchInv /\ CountInv
  <2>1. CoverInv
    BY DEF Init, CoverInv
  <2>2. AheadInv
    BY DEF Init, AheadInv
  <2>3. BatchInv
    BY DEF Init, BatchInv
  <2>4. CountInv
    <3>1. Len(files[1]) = 0
      BY EmptySeq DEF Init
    <3>2. Ordered(files[1])
      BY <3>1 DEF Ordered
    <3>3. ASSUME NEW ip \in IP
          PROVE  /\ Counted(ip) = {} /\ Passed(ip) = {}
                 /\ request_count[ip] = 0 /\ happened["crash"] = 0
      BY DEF Init, Counted, Passed, Trouble
    <3>4. ASSUME NEW ip \in IP
          PROVE  CountedRight(ip)
      <4>1. Cardinality(Counted(ip)) = 0 /\ Cardinality(Passed(ip)) = 0
        BY <3>3, FS_EmptySet
      <4>2. happened["crash"] * 0 = 0
        BY <3>3
      <4> QED
        BY <3>3, <4>1, <4>2 DEF CountedRight
    <3>5. recorded \subseteq 1 .. Len(requests)
      BY DEF Init
    <3> QED
      BY <3>2, <3>4, <3>5 DEF CountInv, CountedRight
  <2> QED
    BY <2>1, <2>2, <2>3, <2>4
<1> QED
  BY <1>1, <1>2 DEF Inv, Base, CollectorInv

(* Every step keeps it.                                                    *)
LEMMA InvStep == Inv /\ [Next]_vars => Inv'
<1> SUFFICES ASSUME Inv, [Next]_vars PROVE Inv'
  OBVIOUS
<1>1. Base /\ CoverInv /\ AheadInv /\ BatchInv /\ CountInv
  BY DEF Inv, Base, CollectorInv
<1>2. Base' /\ CoverInv' /\ AheadInv' /\ BatchInv' /\ CountInv'
  BY <1>1, BaseStep, CoverStep, AheadStep, BatchStep, CountStep
<1> QED
  BY <1>2 DEF Inv, Base, CollectorInv

(* The text of the files is made of lines, positions lie between them,     *)
(* before them is what was counted and after them what is new.             *)
THEOREM CollectorInvariant == Spec => []CollectorInv
<1>1. Inv => CollectorInv
  BY DEF Inv
<1> QED
  BY InvInit, InvStep, <1>1, PTL DEF Spec

(* Every request of the current file before the saved position was counted *)
(* or found by the first run.                                              *)
THEOREM NothingIsSkipped == Spec => []NothingSkipped
<1>1. Inv => NothingSkipped
  <2> SUFFICES ASSUME Inv,
                      state # NULL, state.file_inode = path,
                      happened["truncate"] = 0, happened["tear"] = 0,
                      NEW k \in 1 .. Len(files[path]), k <= state.file_offset
               PROVE  Old(files[path][k].n) \/ files[path][k].n \in recorded
    BY DEF NothingSkipped
  <2>1. Covered(path, state.file_offset)
    BY DEF Inv, CollectorInv, CoverInv, Torn, Truncated
  <2>2. k \in 1 .. state.file_offset
    BY DEF Inv, TypeOK, Position
  <2> QED
    BY <2>1, <2>2 DEF Covered
<1> QED
  BY InvInit, InvStep, <1>1, PTL DEF Spec

(* What the first run found in the log is not counted by any run.          *)
THEOREM HistoryStaysUnread == Spec => []HistoryIsNotRead
<1>1. Inv => HistoryIsNotRead
  BY DEF Inv, CollectorInv, AheadInv, HistoryIsNotRead
<1> QED
  BY InvInit, InvStep, <1>1, PTL DEF Spec

(* A request is counted once, and once more for every run that died.       *)
THEOREM CountedOnce == Spec => []CountedOncePerRun
<1>1. Inv => CountedOncePerRun
  <2> SUFFICES ASSUME Inv, Intact, NEW ip \in IP
               PROVE  /\ request_count[ip] >= Cardinality(Counted(ip))
                      /\ request_count[ip] <=
                            (1 + happened["crash"]) * Cardinality(Counted(ip))
    BY DEF CountedOncePerRun
  <2> DEFINE c == happened["crash"]
             x == request_count[ip]
             C == Counted(ip)
  <2>1. /\ IsFiniteSet(C) /\ Passed(ip) \in SUBSET C /\ c \in Nat /\ x \in Nat
        /\ x >= Cardinality(C) /\ x <= c * Cardinality(C) + Cardinality(Passed(ip))
    BY CountedIsFinite DEF Inv, Base, CollectorInv
  <2>2. x <= c * Cardinality(C) + Cardinality(C)
    <3> HIDE DEF c, x, C
    <3> QED
      BY <2>1, CountKept
  <2>3. Cardinality(C) \in Nat /\ (1 + c) * Cardinality(C) = c * Cardinality(C) + Cardinality(C)
    <3>1. Cardinality(C) \in Nat /\ c \in Nat
      BY <2>1, FS_CardinalityType
    <3> HIDE DEF c, C
    <3> QED
      BY <3>1
  <2> QED
    BY <2>1, <2>2, <2>3
<1> QED
  BY InvInit, InvStep, <1>1, PTL DEF Spec

(* A line of a log that has only grown shows the address of its request.   *)
LEMMA ClientsStep ==
    ASSUME Inv, OnlyClientsAreRecorded, [Next]_vars
    PROVE  OnlyClientsAreRecorded'
<1> SUFFICES ASSUME Intact', NEW ip \in IP, request_count'[ip] > 0
             PROVE  \E n \in 1 .. Len(requests') : requests'[n] = ip
  BY DEF OnlyClientsAreRecorded
<1> USE NullAssumption
<1>1. Base /\ CoverInv /\ Intact
  BY IntactBefore DEF Inv, Base, CollectorInv
<1>2. request_count[ip] > 0 => \E n \in 1 .. Len(requests) : requests[n] = ip
  BY <1>1 DEF OnlyClientsAreRecorded
<1>3. CASE \E client \in Clients : Request(client)
  <2>1. /\ request_count' = request_count
        /\ Grown
        /\ Len(requests) \in Nat
        /\ requests' \in Seq(MaybeIP)
    BY <1>1, <1>3, RequestGrows, CurrentLog DEF Request, dbVars
  <2>2. PICK n \in 1 .. Len(requests) : requests[n] = ip
    BY <1>2, <2>1
  <2>3. Len(requests') \in Nat
    BY <2>1, LenProperties
  <2>4. n \in 1 .. Len(requests') /\ requests'[n] = ip
    BY <2>1, <2>2, <2>3 DEF Grown
  <2> QED
    BY <2>4
<1>4. CASE ReadLine
  <2>1. requests' = requests
    BY <1>4 DEF ReadLine, logVars
  <2>2. CASE extract_ip = ip
    <3>1. /\ extract_ip = requests[files[file][pos + 1].n]
          /\ files[file][pos + 1].n \in 1 .. Len(requests)
      <4>1. file = 1 /\ ~Torn /\ Covered(1, pos)
        BY <1>1, <1>4, OneFile, InsideFile DEF ReadLine
      <4> QED
        BY <1>1, <1>4, <4>1, WholeLine, NextLine
    <3> QED
      BY <2>1, <2>2, <3>1
  <2>3. CASE extract_ip # ip
    <3>1. request_count'[ip] = request_count[ip]
      <4>1. request_count \in [IP -> Nat]
        BY DEF Inv, TypeOK
      <4> QED
        BY <1>1, <1>4, <2>3, <4>1, LineRead
    <3> QED
      BY <1>2, <2>1, <3>1
  <2> QED
    BY <2>2, <2>3
<1>5. CASE UNCHANGED <<request_count, logVars>>
  BY <1>2, <1>5 DEF logVars
<1>6. CASE UNCHANGED request_count
  BY <1>1, <1>3, <1>5, <1>6, OnlyRequests
<1> QED
  BY <1>3, <1>4, <1>6 DEF Next, CollectStep, Tear, EndLine, Rename, Reopen, Truncate,
     Stat, Open, EndOfFile, Save, OpenFails, Crash, vars, dbVars

(* Only an address that made a request is counted.                         *)
THEOREM OnlyClientsCounted == Spec => []OnlyClientsAreRecorded
<1>1. Init => OnlyClientsAreRecorded
  BY DEF Init, OnlyClientsAreRecorded
<1> QED
  BY InvInit, InvStep, ClientsStep, <1>1, PTL DEF Spec
-----------------------------------------------------------------------------
(* The promise to main.                                                    *)

(* What is unread, in a log that has only grown.                           *)
LEMMA UnreadIs ==
    ASSUME Base, Intact, state # NULL
    PROVE  /\ Unread = {requests[files[1][k].n] :
                          k \in state.file_offset + 1 .. Len(files[1])} \ {NULL}
           /\ Batch = ips
<1> USE NullAssumption
<1>1. path = 1 /\ path # NULL
  BY OneFile
<1> QED
  BY <1>1 DEF Unread, Batch

(* What is unread and what was read are addresses.                         *)
LEMMA PromiseTypes == Base => Unread \subseteq IP /\ Batch \subseteq IP
<1> SUFFICES ASSUME Base PROVE Unread \subseteq IP /\ Batch \subseteq IP
  OBVIOUS
<1>1. Batch \subseteq IP
  BY DEF Base, TypeOK, Batch
<1>2. CASE state # NULL /\ path # NULL
  <2>1. path \in 1 .. Len(files) /\ state.file_offset \in Nat
    BY <1>2, CurrentLog DEF Base, TypeOK, Position
  <2>2. /\ Len(files[path]) \in Nat
        /\ Lined(files[path], requests, Torn)
        /\ requests \in Seq(MaybeIP)
    BY <2>1, CurrentLog
  <2>3. ASSUME NEW k \in state.file_offset + 1 .. Len(files[path])
        PROVE  requests[files[path][k].n] \in MaybeIP
    <3>1. k \in 1 .. Len(files[path])
      BY <2>1, <2>2
    <3>2. files[path][k].n \in 1 .. Len(requests)
      BY <2>2, <3>1 DEF Lined
    <3> QED
      BY <2>2, <3>2, ElementOfSeq
  <2> QED
    BY <1>1, <1>2, <2>3 DEF Unread, MaybeIP
<1>3. CASE state = NULL \/ path = NULL
  BY <1>1, <1>3 DEF Unread
<1> QED
  BY <1>2, <1>3

(* At first nothing was promised.                                          *)
LEMMA PromiseInit == Init => Promise!Init
<1> SUFFICES ASSUME Init PROVE Promise!Init
  OBVIOUS
<1> USE NullAssumption
<1>1. Len(files) = 1
  <2>1. files = << <<>> >>
    BY DEF Init
  <2> QED
    BY <2>1
<1>2. Intact = TRUE
  BY <1>1 DEF Init, Intact, Trouble
<1>3. state = NULL
  BY DEF Init
<1> QED
  BY <1>2, <1>3 DEF Unread, Batch, Promise!Init

(* A request is one more unread address, unless it is no address or nobody *)
(* is watching yet.                                                        *)
LEMMA RequestKeeps ==
    ASSUME Inv, Intact, Intact', NEW ip \in Clients, Request(ip)
    PROVE  [Promise!Next]_(Promise!logVars)
<1> USE NullAssumption
<1>1. Base /\ CoverInv
  BY DEF Inv, Base, CollectorInv
<1>2. /\ state' = state /\ ips' = ips /\ path' = path
      /\ requests' = Append(requests, ip)
      /\ ip \in MaybeIP
      /\ Intact = TRUE /\ Intact' = TRUE
      /\ Batch' = Batch
  <2>1. state' = state /\ ips' = ips /\ path' = path /\ requests' = Append(requests, ip)
    BY DEF Request, dbVars, runVars
  <2>2. Intact \in BOOLEAN /\ Intact' \in BOOLEAN
    BY DEF Intact
  <2> QED
    BY <1>1, <2>1, <2>2, OneMoreRequest DEF Batch
<1>3. CASE state = NULL
  <2>1. Unread' = Unread
    BY <1>2, <1>3 DEF Unread
  <2> QED
    BY <1>2, <2>1 DEF Promise!logVars
<1>4. CASE state # NULL
  <2> DEFINE p == state.file_offset
             text == files[1]
             grown == files'[1]
  <2>1. /\ Base' /\ state' # NULL
        /\ Unread = {requests[text[k].n] : k \in p + 1 .. Len(text)} \ {NULL}
        /\ Unread' = {requests'[grown[k].n] : k \in p + 1 .. Len(grown)} \ {NULL}
    <3>1. Base'
      BY <1>1, BaseStep DEF Next
    <3>2. Unread' = {requests'[grown[k].n] : k \in p + 1 .. Len(grown)} \ {NULL}
      <4>1. path' = 1 /\ path' # NULL
        BY <1>1, <1>2, OneFile
      <4> QED
        BY <1>2, <1>4, <4>1 DEF Unread
    <3> QED
      BY <1>1, <1>2, <1>4, <3>1, <3>2, UnreadIs
  <2>2. /\ p \in Nat /\ p <= Len(text)
        /\ Len(text) \in Nat
        /\ Lined(text, requests, Torn)
        /\ Len(files) = 1 /\ 1 \in 1 .. Len(files)
    BY <1>1, <1>4, OneFile, InsideFile, CurrentLog DEF Covered
  <2>3. \A k \in p + 1 .. Len(text) :
          /\ k \in p + 1 .. Len(grown)
          /\ requests'[grown[k].n] = requests[text[k].n]
    <3>1. Grown
      BY <1>1, RequestGrows
    <3>2. Len(grown) \in Nat
      BY <2>1, <2>2, CurrentLog, <3>1 DEF Grown, Base, TypeOK, Texts
    <3> TAKE k \in p + 1 .. Len(text)
    <3>3. k \in 1 .. Len(text)
      BY <2>2
    <3>4. text[k].n \in 1 .. Len(requests)
      BY <2>2, <3>3 DEF Lined
    <3> QED
      BY <2>2, <3>1, <3>2, <3>3, <3>4 DEF Grown
  <2>4. /\ \A k \in p + 1 .. Len(grown) :
              k \notin p + 1 .. Len(text) => requests'[grown[k].n] = ip
        /\ \E k \in p + 1 .. Len(grown) : requests'[grown[k].n] = ip
    <3>1. PICK line \in Lines(Len(requests'), ip) : Written(line)
      BY DEF Request
    <3>2. /\ Len(requests') \in Nat
          /\ requests'[Len(requests')] = ip
      BY <1>1, <1>2, OneMoreRequest
    <3>3. /\ line \in Texts
          /\ Len(line) \in Nat /\ Len(line) > 0
          /\ \A k \in 1 .. Len(line) : line[k].n = Len(requests')
      <4>1. /\ line \in Texts
            /\ \/ /\ Len(line) = 1
                  /\ line[1] = [n |-> Len(requests'), says |-> ip, ends |-> TRUE]
               \/ line \in Halves(Len(requests'), ip)
        BY <1>2, <3>1, <3>2, LinesOf
      <4>2. CASE line \in Halves(Len(requests'), ip)
        BY <1>2, <3>2, <4>2, HalvesOf
      <4>3. CASE /\ Len(line) = 1
                 /\ line[1] = [n |-> Len(requests'), says |-> ip, ends |-> TRUE]
        BY <4>1, <4>3
      <4> QED
        BY <4>1, <4>2, <4>3
    <3>4. /\ Len(grown) = Len(text) + Len(line)
          /\ \A k \in 1 .. Len(line) : grown[Len(text) + k] = line[k]
      <4>1. grown = text \o line /\ text \in Texts
        BY <1>1, <2>2, <3>1, <3>3, WritesLog, CurrentLog DEF Log
      <4> QED
        BY <3>3, <4>1, Appended
    <3>5. ASSUME NEW k \in p + 1 .. Len(grown), k > Len(text)
          PROVE  requests'[grown[k].n] = ip
      <4>1. k - Len(text) \in 1 .. Len(line) /\ Len(text) + (k - Len(text)) = k
        BY <2>2, <3>3, <3>4, <3>5
      <4>2. grown[k] = line[k - Len(text)]
        BY <3>4, <4>1
      <4> QED
        BY <3>2, <3>3, <4>1, <4>2
    <3>6. \A k \in p + 1 .. Len(grown) : k \notin p + 1 .. Len(text) => k > Len(text)
      BY <2>2
    <3>7. Len(text) + 1 \in p + 1 .. Len(grown) /\ Len(text) + 1 > Len(text)
      BY <2>2, <3>3, <3>4
    <3> QED
      BY <3>5, <3>6, <3>7
  <2>5. Unread' = Unread \cup ({ip} \ {NULL})
    <3> HIDE DEF p, text, grown
    <3> QED
      BY <2>1, <2>3, <2>4
  <2>6. CASE ip = NULL
    <3>1. Unread' = Unread
      BY <2>5, <2>6
    <3> QED
      BY <1>2, <3>1 DEF Promise!logVars
  <2>7. CASE ip # NULL
    <3>1. ip \in IP /\ Unread' = Unread \cup {ip}
      BY <1>2, <2>5, <2>7 DEF MaybeIP
    <3>2. Promise!Request(ip)
      BY <1>2, <1>4, <3>1 DEF Promise!Request
    <3> QED
      BY <1>2, <3>1, <3>2 DEF Promise!Next
  <2> QED
    BY <2>6, <2>7
<1> QED
  BY <1>3, <1>4

(* A line that is read is an unread address more in the batch.             *)
LEMMA ReadKeeps ==
    ASSUME Inv, Intact, Intact', ReadLine
    PROVE  [Promise!Next]_(Promise!logVars)
<1> USE NullAssumption
<1>1. Base /\ CoverInv /\ BatchInv
  BY DEF Inv, Base, CollectorInv
<1>2. /\ state' = state /\ UNCHANGED logVars
      /\ ips' = ips \cup ({extract_ip} \ {NULL})
      /\ Intact = TRUE /\ Intact' = TRUE
      /\ Unread' = Unread
  <2>1. state' = state /\ UNCHANGED logVars
    BY DEF ReadLine
  <2>2. Intact \in BOOLEAN /\ Intact' \in BOOLEAN
    BY DEF Intact
  <2> QED
    BY <1>1, <2>1, <2>2, LineRead DEF Unread, logVars
<1>3. CASE state = NULL \/ extract_ip = NULL
  <2>1. Batch' = Batch
    BY <1>2, <1>3 DEF Batch
  <2> QED
    BY <1>2, <2>1 DEF Promise!logVars
<1>4. CASE state # NULL /\ extract_ip # NULL
  <2>1. /\ Batch' = Batch \cup {extract_ip}
        /\ extract_ip \in IP
    BY <1>1, <1>2, <1>4, NextLine DEF Batch, MaybeIP
  <2>2. /\ pc = "read" /\ file = 1 /\ ~Torn /\ Covered(1, pos)
        /\ state.file_offset \in Nat
    BY <1>1, <1>4, OneFile, InsideFile DEF ReadLine
  <2>3. extract_ip = requests[files[1][pos + 1].n]
    BY <1>1, <2>2, WholeLine
  <2>4. pos + 1 \in state.file_offset + 1 .. Len(files[1])
    <3>1. pos >= state.file_offset
      BY <1>1, <1>4, <2>2 DEF BatchInv
    <3>2. pos \in Nat /\ pos + 1 \in 1 .. Len(files[1])
      BY <1>1, <2>2, NextLine
    <3>3. Len(files[1]) \in Nat
      BY <1>1, <2>2, CurrentLog, OneFile
    <3> QED
      BY <2>2, <3>1, <3>2, <3>3
  <2>5. extract_ip \in Unread
    BY <1>1, <1>4, <2>3, <2>4, UnreadIs
  <2>6. Promise!Record(extract_ip)
    BY <1>2, <2>1, <2>5 DEF Promise!Record
  <2> QED
    BY <1>2, <2>1, <2>6 DEF Promise!Next
<1> QED
  BY <1>3, <1>4

(* Saving the position commits the batch.                                  *)
LEMMA SaveKeeps ==
    ASSUME Inv, Intact, Intact', Save
    PROVE  [Promise!Next]_(Promise!logVars)
<1> USE NullAssumption
<1>1. Base /\ CoverInv /\ BatchInv
  BY DEF Inv, Base, CollectorInv
<1>2. /\ UNCHANGED logVars
      /\ state' = [file_inode |-> inode, file_offset |-> pos]
      /\ pc = "save" /\ ips' = {}
      /\ Intact = TRUE /\ Intact' = TRUE
  <2>1. Intact \in BOOLEAN /\ Intact' \in BOOLEAN
    BY DEF Intact
  <2> QED
    BY <2>1 DEF Save, Leave
<1>3. state' # NULL /\ state'.file_offset = pos /\ pos \in Nat
  <2>1. inode \in Nat /\ pos \in Nat
    BY <1>1 DEF Base, TypeOK
  <2>2. [file_inode |-> inode, file_offset |-> pos] \in Position
    BY <2>1 DEF Position
  <2> QED
    BY <1>2, <2>1, <2>2, CollectorAssumption
<1>4. Batch' = {}
  BY <1>2 DEF Batch
<1>5. Base'
  BY <1>1, BaseStep DEF Next, CollectStep
<1>6. (Unread \subseteq IP)'
  BY <1>5, PromiseTypes, PTL
<1>7. CASE state = NULL
  <2>1. Promise!Watch
    BY <1>2, <1>3, <1>4, <1>6, <1>7 DEF Promise!Watch
  <2> QED
    BY <1>2, <2>1 DEF Promise!Next
<1>8. CASE state # NULL
  <2> DEFINE p == state.file_offset
             said(k) == requests[files[1][k].n]
  <2>1. /\ Unread = {said(k) : k \in p + 1 .. Len(files[1])} \ {NULL}
        /\ Batch = ips
    BY <1>1, <1>8, UnreadIs
  <2>2. Unread' = {said(k) : k \in pos + 1 .. Len(files[1])} \ {NULL}
    <3>1. path' = 1 /\ path' # NULL /\ files' = files /\ requests' = requests
      BY <1>1, <1>2, OneFile DEF logVars
    <3> QED
      BY <1>3, <3>1 DEF Unread
  <2>3. /\ p \in Nat /\ pos >= p /\ Len(files[1]) \in Nat
        /\ \A k \in p + 1 .. pos : said(k) \in ips \cup {NULL}
    BY <1>1, <1>2, <1>8, OneFile, CurrentLog DEF BatchInv
  <2>4. \A k \in p + 1 .. Len(files[1]) :
          k \in p + 1 .. pos \/ k \in pos + 1 .. Len(files[1])
    BY <1>3, <2>3
  <2>5. \A k \in pos + 1 .. Len(files[1]) : k \in p + 1 .. Len(files[1])
    BY <1>3, <2>3
  <2> HIDE DEF p, said
  <2>6. Unread' \subseteq Unread /\ Unread \ Unread' \subseteq Batch
    BY <2>1, <2>2, <2>3, <2>4, <2>5
  <2>7. Promise!Commit
    BY <1>2, <1>3, <1>4, <1>8, <2>6 DEF Promise!Commit
  <2> QED
    BY <1>2, <2>7 DEF Promise!Next
<1> QED
  BY <1>7, <1>8

(* Every step of the collector is a step of RequestLog, or none.           *)
LEMMA PromiseStep ==
    ASSUME Inv, [Next]_vars
    PROVE  [Promise!Next]_(Promise!logVars)
<1> USE NullAssumption
<1>1. Base /\ Base'
  BY BaseStep DEF Inv, Base, CollectorInv
<1>2. CASE ~Intact'
  <2>1. Intact' = FALSE
    BY <1>2 DEF Intact
  <2>2. (Unread \subseteq IP /\ Batch \subseteq IP)'
    BY <1>1, PromiseTypes, PTL
  <2>3. (state # NULL)' \in BOOLEAN
    OBVIOUS
  <2>4. Promise!Damaged
    BY <2>1, <2>2, <2>3 DEF Promise!Damaged
  <2> QED
    BY <2>4 DEF Promise!Next
<1>3. CASE Intact'
  <2>1. Intact /\ Intact = TRUE /\ Intact' = TRUE
    <3>1. Intact
      BY <1>1, <1>3, IntactBefore
    <3>2. Intact \in BOOLEAN /\ Intact' \in BOOLEAN
      BY DEF Intact
    <3> QED
      BY <1>3, <3>1, <3>2
  <2>2. CASE \E ip \in Clients : Request(ip)
    BY <1>3, <2>1, <2>2, RequestKeeps
  <2>3. CASE ReadLine
    BY <1>3, <2>1, <2>3, ReadKeeps
  <2>4. CASE Save
    BY <1>3, <2>1, <2>4, SaveKeeps
  <2>5. CASE Crash
    <3>1. /\ state' = state /\ Unread' = Unread /\ Batch' = {}
      BY <2>5 DEF Crash, Leave, Unread, Batch, logVars, dbVars
    <3>2. Promise!Abort
      BY <2>1, <3>1 DEF Promise!Abort
    <3> QED
      BY <2>1, <3>2 DEF Promise!Next
  <2>6. ~OpenFails
    BY <2>1 DEF OpenFails, Intact
  <2>7. CASE UNCHANGED <<logVars, state, ips>>
    <3>1. Unread' = Unread /\ Batch' = Batch /\ state' = state
      BY <2>7 DEF Unread, Batch, logVars
    <3> QED
      BY <2>1, <3>1 DEF Promise!logVars
  <2>8. CASE UNCHANGED <<state, ips>>
    BY <1>1, <1>3, <2>2, <2>7, <2>8, OnlyRequests
  <2> QED
    BY <2>2, <2>3, <2>4, <2>5, <2>6, <2>8 DEF Next, CollectStep, Tear, EndLine, Rename,
       Reopen, Truncate, Stat, Open, EndOfFile, vars, dbVars, runVars
<1> QED
  BY <1>2, <1>3

(* Reading file by file and line by line implements RequestLog: as long as *)
(* the log only grows, an address leaves the unread part of it only in a   *)
(* batch that was committed, whatever runs die.                            *)
THEOREM PromiseKept == Spec => KeepsPromise
<1>1. Inv /\ [Next]_vars => [Promise!Next]_(Promise!logVars)
  BY PromiseStep
<1> QED
  BY InvInit, InvStep, PromiseInit, <1>1, PTL DEF Spec, KeepsPromise, Promise!Spec
=============================================================================
