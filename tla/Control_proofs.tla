---------------------------- MODULE Control_proofs ---------------------------
(***************************************************************************)
(* The control socket, loop()'s mailbox and the ring of log lines, for any  *)
(* commands, conn ids, writers and sizes of the ring: its types, that an    *)
(* operation uses the values of the command it was asked with, that the     *)
(* diagnostics' link is the one they asked for, and that the log command    *)
(* tells the recent lines.                                                  *)
(***************************************************************************)
EXTENDS Control, SequenceTheorems, FiniteSetTheorems, WellFoundedInduction, TLAPS

-----------------------------------------------------------------------------
(* The invariants.                                                          *)

In(s) == {s[i] : i \in DOMAIN s}

Boolean(f) == mem[f] \in BOOLEAN

\* Variables that are functions, and lists.
Shapes ==
    /\ mem = [f \in DOMAIN Cleared |-> mem[f]] /\ Boolean("wifi") /\ Boolean("flag")
    /\ links = [i \in Ids |-> links[i]]
    /\ asked = [b \in Boxes |-> asked[b]] /\ done = [b \in Boxes |-> done[b]]
    /\ \A b \in Boxes : asked[b] \in Seq(In(asked[b])) /\ done[b] \in Seq(In(done[b]))

\* What may be left of the stores of a command.
OtaStores  == {<<"host", "port", "res", "flag">>, <<"port", "res", "flag">>,
               <<"res", "flag">>, <<"flag">>, <<>>}
OpStores   == {<<"op">>, <<>>}
ConnStores == {<<"wifi", "addr1", "addr2", "type", "op">>,
               <<"addr1", "addr2", "type", "op">>, <<"addr2", "type", "op">>,
               <<"type", "op">>, <<"op">>, <<>>}
WifiStores == {<<"wifi">>, <<>>}

StoresLeft(c) ==
    CASE c.to = "ota" -> OtaStores
      [] c.to = "diag" /\ ~IsConn(c) -> OpStores
      [] IsConn(c) /\ c.whole -> ConnStores
      [] IsConn(c) /\ ~c.whole -> WifiStores

\* The control task stores nothing but of a command it has received whole.
StoreInv ==
    IF ctrlPc = "store"
    THEN line \in Cmds /\ line.to \in Boxes /\ todo \in StoresLeft(line)
    ELSE todo = <<>>

\* What may be left of the reads of a conn, and of a pull.
ConnReads == {<<"wifi", "addr1", "addr2", "type">>, <<"addr1", "addr2", "type">>,
              <<"addr2", "type">>, <<"type">>, <<>>}
OtaReads  == {<<"port", "host", "res">>, <<"host", "res">>, <<"res">>, <<>>}

\* loop() has read what it has not still to read.
LoopInv ==
    /\ loopPc \in {"taken", "run", "wifi", "pull"} => got = [f \in DOMAIN got |-> got[f]]
    /\ loopPc = "taken" => DOMAIN got = {"op"}
    /\ loopPc \in {"run", "wifi"} =>
           /\ bleUp \/ got.op \in InSafeMode
           /\ IF got.op = "conn" THEN reads \in ConnReads /\ DOMAIN got = ConnFields \ In(reads)
                                 ELSE reads = <<>> /\ DOMAIN got = {"op"}
    /\ loopPc = "wifi" => got.op = "conn" /\ reads = <<"addr1", "addr2", "type">>
    /\ loopPc = "pull" => reads \in OtaReads /\ DOMAIN got = OtaFields \ In(reads)

\* A command is stored and not acted on; the newest.
Open(b)   == Len(asked[b]) = Len(done[b]) + 1
Newest(b) == asked[b][Len(asked[b])]

Storing(b) == ctrlPc = "store" /\ todo # <<>> /\ line.to = b

(* Without hurry a place holds one command at most: it is filled by the     *)
(* last store, emptied when loop() takes it, and open until loop() is done. *)
InTurn ==
    /\ \A b \in Boxes : Open(b) \/ Len(asked[b]) = Len(done[b])
    /\ \A b \in Boxes : Storing(b) => ~Open(b)
    /\ Storing("diag") \/ Open("diag") => loopPc \notin {"wait", "cancel"}
    /\ Open("diag") <=> mem.op # None \/ loopPc \in {"run", "wifi"}
    /\ loopPc = "taken" => mem.op # None
    /\ mem.op # None => loopPc \notin {"run", "wifi"} /\ mem.op = Newest("diag").op
    /\ loopPc \in {"taken", "run", "wifi"} => got.op = Newest("diag").op
    /\ Open("ota") <=> mem.flag \/ loopPc = "pull"
    /\ mem.flag => loopPc # "pull"
    /\ loopPc = "flagged" => mem.flag

MailInv == Without({"hurry"}) => InTurn

OpenConn == Open("diag") /\ Newest("diag").op = "conn"

\* A request to drop WiFi is stored and not seen by loop() yet.
WifiDue ==
    \/ Storing("diag") /\ IsConn(line) /\ line.what.wifi /\ "wifi" \notin In(todo)
    \/ OpenConn /\ Newest("diag").wifi /\ (loopPc = "run" => "wifi" \in In(reads))

(* Where the values of a command are: in the line until they are stored, in *)
(* the variables from then on, and in what loop() has read.                 *)
Kept ==
    /\ ctrlPc = "store" => line.whole
    /\ Storing("ota") => \A f \in OtaFields \ In(todo) : mem[f] = line.what[f]
    /\ Storing("diag") /\ IsConn(line) =>
           \A f \in {"addr1", "addr2", "type"} \ In(todo) : mem[f] = line.what[f]
    /\ Open("ota") => \A f \in OtaFields : mem[f] = Newest("ota")[f]
    /\ OpenConn => \A f \in {"addr1", "addr2", "type"} : mem[f] = Newest("diag")[f]
    /\ bleUp => (mem.wifi <=> WifiDue)
    /\ loopPc \in {"run", "wifi"} => \A f \in DOMAIN got : got[f] = Newest("diag")[f]
    /\ loopPc = "pull" => \A f \in DOMAIN got : got[f] = Newest("ota")[f]
    /\ \A i \in DOMAIN asked.diag : \E c \in Cmds : c.to = "diag" /\ c.what = asked.diag[i]
    /\ \A i \in DOMAIN asked.ota : \E c \in Cmds : c.to = "ota" /\ c.what = asked.ota[i]

ValuesInv == Without({"hurry", "bad"}) => Kept

\* A link to the address of the last conn that was run.
WasLast(l) ==
    \E m \in DOMAIN done.diag :
        /\ "addr1" \in DOMAIN done.diag[m]
        /\ \A j \in DOMAIN done.diag : "addr1" \in DOMAIN done.diag[j] => j <= m
        /\ l = <<done.diag[m].addr1, done.diag[m].addr2>>

(* A conn finds no link from its line to its wait, the wait none but its    *)
(* own, and its connect is over when it is; a link of an API client that    *)
(* comes up afterwards is not the one the diagnostics hold.                 *)
OwnLinks ==
    /\ pending # NoLink => loopPc \in {"wait", "cancel"} /\ WasLast(pending)
    /\ loopPc = "wait" => \A i \in Ids : links[i] # NoLink => WasLast(links[i])
    /\ diagConnId # NoId /\ links[diagConnId] # NoLink => WasLast(links[diagConnId])
    /\ pending # NoLink \/ OpenConn \/ (Storing("diag") /\ IsConn(line))
           => \A i \in Ids : links[i] = NoLink

LinksInv == Without({"hurry", "again", "beside", "stale"}) => OwnLinks

-----------------------------------------------------------------------------
(* And of the ring of lines, with one task in logLine at a time.            *)

Quiet == \A w \in Writers : wpc[w] = "idle"

\* The one that is in logLine writes the next line, under its number.
OneWriter ==
    /\ \A v, w \in Writers : wpc[v] # "idle" /\ wpc[w] # "idle" => v = w
    /\ lines = IF Quiet THEN logged ELSE logged + 1
    /\ \A w \in Writers :
           /\ wpc[w] # "idle" => wseq[w] = logSeq /\ wline[w] = logged + 1
           /\ wpc[w] = "printing" => logRing[Slot(logSeq)].by = w
           /\ wpc[w] \in {"load", "store"} => logRing[Slot(logSeq)].line = logged + 1

\* Number n is that of the line logSeq - n calls back, and is in its slot
\* until a writer needs the slot.
RingInv ==
    /\ logSeq <= logged /\ (logged < SeqMod => logSeq = logged)
    /\ \A n \in 0 .. logSeq - 1 :
           logSeq - n < LogN \/ (logSeq - n = LogN /\ Quiet)
               => logRing[Slot(n)].line = logged + 1 - (logSeq - n)

\* What is still to be sent is in its slots, and no writer is at them.
ReaderInv ==
    IF reading
    THEN /\ \A k \in 0 .. Due(sq) - 1 :
                logRing[Slot((sq + k) % SeqMod)].line + Due(sq) = logged + 1 + k
         /\ \A w \in Writers : wpc[w] # "idle" => Slot(logSeq) \notin DueSlots(sq)
         /\ held # Unread => Due(sq) > 0 /\ held = logRing[Slot(sq)].line
         /\ \A i \in 1 .. Len(told) : told[i] + Due(sq) + Len(told) = logged + i
         /\ had <= logged
         /\ had < SeqMod => logged <= Due(sq) + Len(told) + (IF had > LogN THEN had - LogN ELSE 0)
    ELSE held = Unread /\ told = <<>>

-----------------------------------------------------------------------------
(* What is left of the stores of a command, and of the reads of loop():     *)
(* the first is done, and the others are left.                              *)
LEMMA InOf ==
    /\ In(<<>>) = {}
    /\ \A a : In(<<a>>) = {a}
    /\ \A a, b : In(<<a, b>>) = {a, b}
    /\ \A a, b, c : In(<<a, b, c>>) = {a, b, c}
    /\ \A a, b, c, d : In(<<a, b, c, d>>) = {a, b, c, d}
    /\ \A a, b, c, d, e : In(<<a, b, c, d, e>>) = {a, b, c, d, e}
<1>1. In(<<>>) = {}
  BY DEF In
<1>2. \A a : In(<<a>>) = {a}
  BY DEF In
<1>3. \A a, b : In(<<a, b>>) = {a, b}
  BY DEF In
<1>4. \A a, b, c : In(<<a, b, c>>) = {a, b, c}
  BY DEF In
<1>5. \A a, b, c, d : In(<<a, b, c, d>>) = {a, b, c, d}
  BY DEF In
<1>6. \A a, b, c, d, e : In(<<a, b, c, d, e>>) = {a, b, c, d, e}
  BY DEF In
<1> QED BY <1>1, <1>2, <1>3, <1>4, <1>5, <1>6

LEMMA Tails ==
    /\ \A a : <<a>> # <<>> /\ Head(<<a>>) = a /\ Tail(<<a>>) = <<>>
    /\ \A a, b : <<a, b>> # <<>> /\ Head(<<a, b>>) = a /\ Tail(<<a, b>>) = <<b>>
    /\ \A a, b, c : <<a, b, c>> # <<>> /\ Head(<<a, b, c>>) = a
                    /\ Tail(<<a, b, c>>) = <<b, c>>
    /\ \A a, b, c, d : <<a, b, c, d>> # <<>> /\ Head(<<a, b, c, d>>) = a
                       /\ Tail(<<a, b, c, d>>) = <<b, c, d>>
    /\ \A a, b, c, d, e : <<a, b, c, d, e>> # <<>> /\ Head(<<a, b, c, d, e>>) = a
                          /\ Tail(<<a, b, c, d, e>>) = <<b, c, d, e>>
  OBVIOUS

LEMMA OtaStore ==
    ASSUME NEW s \in OtaStores, s # <<>>
    PROVE  /\ Tail(s) \in OtaStores /\ In(Tail(s)) = In(s) \ {Head(s)}
           /\ Head(s) \in OtaFields \cup {"flag"}
           /\ Head(s) = "flag" <=> Tail(s) = <<>>
           /\ In(s) \subseteq OtaFields \cup {"flag"}
<1>1. CASE s = <<"host", "port", "res", "flag">>
  <2>1. Head(s) = "host" /\ Tail(s) = <<"port", "res", "flag">>
    BY <1>1, Tails
  <2>2. /\ In(s) = {"host", "port", "res", "flag"}
        /\ In(<<"port", "res", "flag">>) = {"port", "res", "flag"}
        /\ <<"port", "res", "flag">> # <<>>
    BY <1>1, InOf, Tails
  <2> QED BY <2>1, <2>2 DEF OtaStores, OtaFields
<1>2. CASE s = <<"port", "res", "flag">>
  <2>1. Head(s) = "port" /\ Tail(s) = <<"res", "flag">>
    BY <1>2, Tails
  <2>2. /\ In(s) = {"port", "res", "flag"}
        /\ In(<<"res", "flag">>) = {"res", "flag"}
        /\ <<"res", "flag">> # <<>>
    BY <1>2, InOf, Tails
  <2> QED BY <2>1, <2>2 DEF OtaStores, OtaFields
<1>3. CASE s = <<"res", "flag">>
  <2>1. Head(s) = "res" /\ Tail(s) = <<"flag">>
    BY <1>3, Tails
  <2>2. /\ In(s) = {"res", "flag"}
        /\ In(<<"flag">>) = {"flag"}
        /\ <<"flag">> # <<>>
    BY <1>3, InOf, Tails
  <2> QED BY <2>1, <2>2 DEF OtaStores, OtaFields
<1>4. CASE s = <<"flag">>
  <2>1. Head(s) = "flag" /\ Tail(s) = <<>>
    BY <1>4, Tails
  <2>2. /\ In(s) = {"flag"}
        /\ In(<<>>) = {}
    BY <1>4, InOf
  <2> QED BY <2>1, <2>2 DEF OtaStores, OtaFields
<1> QED BY <1>1, <1>2, <1>3, <1>4 DEF OtaStores

LEMMA OpStore ==
    ASSUME NEW s \in OpStores, s # <<>>
    PROVE  Tail(s) = <<>> /\ Head(s) = "op"
  BY InOf, Tails DEF OpStores

LEMMA WifiStore ==
    ASSUME NEW s \in WifiStores, s # <<>>
    PROVE  Tail(s) = <<>> /\ Head(s) = "wifi"
  BY InOf, Tails DEF WifiStores

LEMMA ConnStore ==
    ASSUME NEW s \in ConnStores, s # <<>>
    PROVE  /\ Tail(s) \in ConnStores /\ In(Tail(s)) = In(s) \ {Head(s)}
           /\ Head(s) \in ConnFields
           /\ Head(s) = "op" <=> Tail(s) = <<>>
           /\ Head(s) = "wifi" <=> "wifi" \in In(s)
<1>1. CASE s = <<"wifi", "addr1", "addr2", "type", "op">>
  <2>1. Head(s) = "wifi" /\ Tail(s) = <<"addr1", "addr2", "type", "op">>
    BY <1>1, Tails
  <2>2. /\ In(s) = {"wifi", "addr1", "addr2", "type", "op"}
        /\ In(<<"addr1", "addr2", "type", "op">>) = {"addr1", "addr2", "type", "op"}
        /\ <<"addr1", "addr2", "type", "op">> # <<>>
    BY <1>1, InOf, Tails
  <2> QED BY <2>1, <2>2 DEF ConnStores, ConnFields
<1>2. CASE s = <<"addr1", "addr2", "type", "op">>
  <2>1. Head(s) = "addr1" /\ Tail(s) = <<"addr2", "type", "op">>
    BY <1>2, Tails
  <2>2. /\ In(s) = {"addr1", "addr2", "type", "op"}
        /\ In(<<"addr2", "type", "op">>) = {"addr2", "type", "op"}
        /\ <<"addr2", "type", "op">> # <<>>
    BY <1>2, InOf, Tails
  <2> QED BY <2>1, <2>2 DEF ConnStores, ConnFields
<1>3. CASE s = <<"addr2", "type", "op">>
  <2>1. Head(s) = "addr2" /\ Tail(s) = <<"type", "op">>
    BY <1>3, Tails
  <2>2. /\ In(s) = {"addr2", "type", "op"}
        /\ In(<<"type", "op">>) = {"type", "op"}
        /\ <<"type", "op">> # <<>>
    BY <1>3, InOf, Tails
  <2> QED BY <2>1, <2>2 DEF ConnStores, ConnFields
<1>4. CASE s = <<"type", "op">>
  <2>1. Head(s) = "type" /\ Tail(s) = <<"op">>
    BY <1>4, Tails
  <2>2. /\ In(s) = {"type", "op"}
        /\ In(<<"op">>) = {"op"}
        /\ <<"op">> # <<>>
    BY <1>4, InOf, Tails
  <2> QED BY <2>1, <2>2 DEF ConnStores, ConnFields
<1>5. CASE s = <<"op">>
  <2>1. Head(s) = "op" /\ Tail(s) = <<>>
    BY <1>5, Tails
  <2>2. /\ In(s) = {"op"}
        /\ In(<<>>) = {}
    BY <1>5, InOf
  <2> QED BY <2>1, <2>2 DEF ConnStores, ConnFields
<1> QED BY <1>1, <1>2, <1>3, <1>4, <1>5 DEF ConnStores

LEMMA ConnRead ==
    ASSUME NEW s \in ConnReads, s # <<>>
    PROVE  /\ Tail(s) \in ConnReads /\ In(Tail(s)) = In(s) \ {Head(s)}
           /\ Head(s) \in {"wifi", "addr1", "addr2", "type"} /\ Head(s) \in In(s)
           /\ "op" \notin In(s)
           /\ Head(s) = "wifi" <=> "wifi" \in In(s)
           /\ Head(s) = "wifi" => Tail(s) = <<"addr1", "addr2", "type">>
<1>1. CASE s = <<"wifi", "addr1", "addr2", "type">>
  <2>1. Head(s) = "wifi" /\ Tail(s) = <<"addr1", "addr2", "type">>
    BY <1>1, Tails
  <2>2. /\ In(s) = {"wifi", "addr1", "addr2", "type"}
        /\ In(<<"addr1", "addr2", "type">>) = {"addr1", "addr2", "type"}
        /\ <<"addr1", "addr2", "type">> # <<>>
    BY <1>1, InOf, Tails
  <2> QED BY <2>1, <2>2 DEF ConnReads
<1>2. CASE s = <<"addr1", "addr2", "type">>
  <2>1. Head(s) = "addr1" /\ Tail(s) = <<"addr2", "type">>
    BY <1>2, Tails
  <2>2. /\ In(s) = {"addr1", "addr2", "type"}
        /\ In(<<"addr2", "type">>) = {"addr2", "type"}
        /\ <<"addr2", "type">> # <<>>
    BY <1>2, InOf, Tails
  <2> QED BY <2>1, <2>2 DEF ConnReads
<1>3. CASE s = <<"addr2", "type">>
  <2>1. Head(s) = "addr2" /\ Tail(s) = <<"type">>
    BY <1>3, Tails
  <2>2. /\ In(s) = {"addr2", "type"}
        /\ In(<<"type">>) = {"type"}
        /\ <<"type">> # <<>>
    BY <1>3, InOf, Tails
  <2> QED BY <2>1, <2>2 DEF ConnReads
<1>4. CASE s = <<"type">>
  <2>1. Head(s) = "type" /\ Tail(s) = <<>>
    BY <1>4, Tails
  <2>2. /\ In(s) = {"type"}
        /\ In(<<>>) = {}
    BY <1>4, InOf
  <2> QED BY <2>1, <2>2 DEF ConnReads
<1> QED BY <1>1, <1>2, <1>3, <1>4 DEF ConnReads

LEMMA OtaRead ==
    ASSUME NEW s \in OtaReads, s # <<>>
    PROVE  /\ Tail(s) \in OtaReads /\ In(Tail(s)) = In(s) \ {Head(s)}
           /\ Head(s) \in OtaFields /\ Head(s) \in In(s)
<1>1. CASE s = <<"port", "host", "res">>
  <2>1. Head(s) = "port" /\ Tail(s) = <<"host", "res">>
    BY <1>1, Tails
  <2>2. /\ In(s) = {"port", "host", "res"}
        /\ In(<<"host", "res">>) = {"host", "res"}
        /\ <<"host", "res">> # <<>>
    BY <1>1, InOf, Tails
  <2> QED BY <2>1, <2>2 DEF OtaReads, OtaFields
<1>2. CASE s = <<"host", "res">>
  <2>1. Head(s) = "host" /\ Tail(s) = <<"res">>
    BY <1>2, Tails
  <2>2. /\ In(s) = {"host", "res"}
        /\ In(<<"res">>) = {"res"}
        /\ <<"res">> # <<>>
    BY <1>2, InOf, Tails
  <2> QED BY <2>1, <2>2 DEF OtaReads, OtaFields
<1>3. CASE s = <<"res">>
  <2>1. Head(s) = "res" /\ Tail(s) = <<>>
    BY <1>3, Tails
  <2>2. /\ In(s) = {"res"}
        /\ In(<<>>) = {}
    BY <1>3, InOf
  <2> QED BY <2>1, <2>2 DEF OtaReads, OtaFields
<1> QED BY <1>1, <1>2, <1>3 DEF OtaReads

LEMMA Reads ==
    /\ <<"wifi", "addr1", "addr2", "type">> \in ConnReads
    /\ <<"addr1", "addr2", "type">> \in ConnReads
    /\ <<"addr1", "addr2", "type">> # <<>>
    /\ <<"port", "host", "res">> \in OtaReads
    /\ In(<<"wifi", "addr1", "addr2", "type">>) = ConnFields \ {"op"}
    /\ In(<<"addr1", "addr2", "type">>) = {"addr1", "addr2", "type"}
    /\ In(<<"port", "host", "res">>) = OtaFields
    /\ In(<<>>) = {}
  BY InOf DEF ConnReads, OtaReads, ConnFields, OtaFields

(* The stores of a command before the first of them: each of its values,    *)
(* the request to drop WiFi when there is one.                              *)
LEMMA StoresOf ==
    ASSUME NEW c \in Cmds
    PROVE  /\ c.to \in Boxes => Stores(c) \in StoresLeft(c)
           /\ c.to = "ctrl" => Stores(c) = <<>>
           /\ c.to = "ota" /\ c.whole => OtaFields \subseteq In(Stores(c))
           /\ IsConn(c) /\ c.whole =>
                /\ {"addr1", "addr2", "type"} \subseteq In(Stores(c))
                /\ c.what.wifi <=> "wifi" \in In(Stores(c))
  BY CmdsAssumption, InOf
     DEF Stores, StoresLeft, IsConn, OtaStores, ConnStores, OpStores, WifiStores, Boxes, OtaFields

LEMMA Smallest ==
    ASSUME NEW S \in SUBSET Nat, S # {}
    PROVE  \E i \in S : \A j \in S : ~(j < i)
<1> DEFINE R == OpToRel(<, Nat)
<1>1. \E i \in S : \A j \in S : ~(<<j, i>> \in R)
  <2> HIDE DEF R
  <2>1. IsWellFoundedOn(R, Nat)
    BY NatLessThanWellFounded DEF R
  <2> QED BY <2>1, WFMin
<1>2. \A i, j \in Nat : <<j, i>> \in R <=> j < i
  BY DEF OpToRel
<1> QED BY <1>1, <1>2

(* A list is one of its own elements.                                       *)
LEMMA ListOf ==
    ASSUME NEW S, NEW s \in Seq(S)
    PROVE  s \in Seq(In(s))
<1>1. Len(s) \in Nat /\ DOMAIN s = 1 .. Len(s) /\ s \in [1 .. Len(s) -> S]
  OBVIOUS
<1>2. s \in [1 .. Len(s) -> In(s)]
  BY <1>1 DEF In
<1> QED BY <1>1, <1>2, SeqDef

(* A list with one more at its end.                                         *)
LEMMA Appended ==
    ASSUME NEW s, s \in Seq(In(s)), NEW e
    PROVE  /\ Append(s, e) \in Seq(In(Append(s, e)))
           /\ Len(s) \in Nat /\ Len(Append(s, e)) = Len(s) + 1
           /\ DOMAIN s = 1 .. Len(s) /\ DOMAIN Append(s, e) = 1 .. Len(s) + 1
           /\ \A i \in 1 .. Len(s) : Append(s, e)[i] = s[i]
           /\ Append(s, e)[Len(s) + 1] = e
<1> DEFINE T == In(s) \cup {e}
<1>1. s \in Seq(T)
  BY SeqDef
<1>2. e \in T
  OBVIOUS
<1> HIDE DEF T
<1>3. Append(s, e) \in Seq(T)
  BY <1>1, <1>2, AppendProperties
<1>4. /\ Len(s) \in Nat /\ Len(Append(s, e)) = Len(s) + 1
      /\ \A i \in 1 .. Len(s) : Append(s, e)[i] = s[i]
      /\ Append(s, e)[Len(s) + 1] = e
  BY <1>1, <1>2, AppendProperties
<1>5. DOMAIN s = 1 .. Len(s) /\ DOMAIN Append(s, e) = 1 .. Len(s) + 1
  BY <1>1, <1>3, <1>4
<1>6. Append(s, e) \in Seq(In(Append(s, e)))
  BY <1>3, ListOf
<1> QED BY <1>4, <1>5, <1>6

-----------------------------------------------------------------------------
(* What the steps do.                                                       *)

LEMMA MemFields ==
    DOMAIN Cleared = {"op", "addr1", "addr2", "type", "wifi", "host", "port", "res", "flag"}
  BY DEF Cleared

\* Steps of the sockets, of the log and of its writers.
Elsewhere ==
    /\ UNCHANGED <<env, bleUp, line, todo, mem, loopPc, got, reads, diagConnId, links, pending,
                   asked, done, cmds>>
    /\ ctrlPc = "store" <=> ctrlPc' = "store"

LEMMA ElsewhereSteps ==
    ASSUME \/ Accept \/ CloseSocket \/ RecvByte \/ RecvNoLine \/ RecvNothing \/ LogStep
           \/ \E w \in Writers : LogCall(w) \/ Logging(w)
           \/ UNCHANGED vars
    PROVE  Elsewhere
<1>1. CASE Accept \/ CloseSocket \/ RecvByte \/ RecvNoLine \/ RecvNothing
  BY <1>1 DEF Elsewhere, Accept, CloseSocket, RecvByte, RecvNoLine, RecvNothing, loopv, ble, hist
<1>2. CASE LogStep
  BY <1>2 DEF Elsewhere, LogStep, loopv, ble, hist
<1>3. CASE \E w \in Writers : LogCall(w) \/ Logging(w)
  BY <1>3 DEF Elsewhere, LogCall, Logging, ctrl, loopv, ble, hist
<1>4. CASE UNCHANGED vars
  BY <1>4 DEF Elsewhere, vars, ctrl, loopv, ble, hist
<1> QED BY <1>1, <1>2, <1>3, <1>4

\* What is left of a command, by its kind.
LEMMA LeftOf ==
    ASSUME NEW c \in Cmds, c.to \in Boxes
    PROVE  \/ c.to = "ota" /\ StoresLeft(c) = OtaStores
           \/ c.to = "diag" /\ ~IsConn(c) /\ StoresLeft(c) = OpStores
           \/ c.to = "diag" /\ IsConn(c) /\ c.whole /\ StoresLeft(c) = ConnStores
           \/ c.to = "diag" /\ IsConn(c) /\ ~c.whole /\ StoresLeft(c) = WifiStores
<1>1. c.whole \in BOOLEAN
  BY CmdsAssumption
<1>2. CASE c.to = "ota"
  <2>1. ~IsConn(c)
    BY <1>2 DEF IsConn
  <2> QED BY <1>2, <2>1 DEF StoresLeft
<1>3. CASE c.to = "diag" /\ ~IsConn(c)
  BY <1>3 DEF StoresLeft
<1>4. CASE c.to = "diag" /\ IsConn(c) /\ c.whole
  BY <1>4 DEF StoresLeft
<1>5. CASE c.to = "diag" /\ IsConn(c) /\ ~c.whole
  BY <1>5 DEF StoresLeft
<1> QED BY <1>1, <1>2, <1>3, <1>4, <1>5 DEF Boxes

\* A step of handleCommand: the next store of the command under way.
LEMMA StoreEffect ==
    ASSUME Shapes, StoreInv, Store
    PROVE  LET f == Head(todo)
           IN  /\ UNCHANGED <<env, bleUp, ctrlPc, line, loopPc, got, reads, diagConnId, links,
                              pending, done>>
               /\ ctrlPc = "store" /\ todo # <<>> /\ line \in Cmds /\ line.to \in Boxes
               /\ todo \in StoresLeft(line) /\ todo' = Tail(todo) /\ f \in DOMAIN Cleared
               /\ mem' = [g \in DOMAIN Cleared |->
                             IF g = f THEN IF f = "flag" THEN TRUE ELSE line.what[f]
                                      ELSE mem[g]]
               /\ asked' = [b \in Boxes |->
                               IF b = line.to /\ f \in {"op", "flag"}
                               THEN Append(asked[b], line.what) ELSE asked[b]]
<1>1. /\ ctrlPc = "store" /\ todo # <<>> /\ line \in Cmds /\ line.to \in Boxes
      /\ todo \in StoresLeft(line)
  BY DEF StoreInv, Store
<1>2. Head(todo) \in DOMAIN Cleared
  <2>1. todo \in OtaStores \/ todo \in OpStores \/ todo \in ConnStores \/ todo \in WifiStores
    BY <1>1, LeftOf
  <2> QED BY <1>1, <2>1, OtaStore, OpStore, ConnStore, WifiStore, MemFields
          DEF OtaFields, ConnFields
<1>3. mem' = [g \in DOMAIN Cleared |->
                 IF g = Head(todo)
                 THEN IF Head(todo) = "flag" THEN TRUE ELSE line.what[Head(todo)]
                 ELSE mem[g]]
  <2>1. mem = [g \in DOMAIN Cleared |-> mem[g]]
    BY DEF Shapes
  <2>2. mem' = [mem EXCEPT ![Head(todo)] =
                    IF Head(todo) = "flag" THEN TRUE ELSE line.what[Head(todo)]]
    BY DEF Store, Value
  <2> QED BY <1>2, <2>1, <2>2
<1>4. asked' = [b \in Boxes |->
                   IF b = line.to /\ Head(todo) \in {"op", "flag"}
                   THEN Append(asked[b], line.what) ELSE asked[b]]
  <2>1. asked = [b \in Boxes |-> asked[b]]
    BY DEF Shapes
  <2>2. asked' = IF Head(todo) \in {"op", "flag"}
                 THEN [asked EXCEPT ![line.to] = Append(asked[line.to], line.what)] ELSE asked
    BY DEF Store
  <2> QED BY <1>1, <2>1, <2>2
<1> QED BY <1>1, <1>2, <1>3, <1>4 DEF Store, loopv, ble

\* What it stores, by the kind of command.
LEMMA StoreKinds ==
    ASSUME NEW c \in Cmds, c.to \in Boxes, NEW s \in StoresLeft(c), s # <<>>
    PROVE  LET f == Head(s)
           IN  /\ Tail(s) \in StoresLeft(c)
               /\ \/ /\ c.to = "ota" /\ In(Tail(s)) = In(s) \ {f}
                     /\ f \in OtaFields \cup {"flag"} /\ (f = "flag" <=> Tail(s) = <<>>)
                  \/ c.to = "diag" /\ ~IsConn(c) /\ f = "op" /\ Tail(s) = <<>>
                  \/ /\ IsConn(c) /\ c.whole /\ In(Tail(s)) = In(s) \ {f}
                     /\ f \in ConnFields /\ (f = "op" <=> Tail(s) = <<>>)
                     /\ f = "wifi" <=> "wifi" \in In(s)
                  \/ IsConn(c) /\ ~c.whole /\ f = "wifi" /\ Tail(s) = <<>>
<1>1. CASE c.to = "ota" /\ StoresLeft(c) = OtaStores
  BY <1>1, OtaStore
<1>2. CASE c.to = "diag" /\ ~IsConn(c) /\ StoresLeft(c) = OpStores
  <2>1. <<>> \in OpStores
    BY DEF OpStores
  <2> QED BY <1>2, <2>1, OpStore
<1>3. CASE c.to = "diag" /\ IsConn(c) /\ c.whole /\ StoresLeft(c) = ConnStores
  BY <1>3, ConnStore
<1>4. CASE c.to = "diag" /\ IsConn(c) /\ ~c.whole /\ StoresLeft(c) = WifiStores
  <2>1. <<>> \in WifiStores
    BY DEF WifiStores
  <2> QED BY <1>4, <2>1, WifiStore
<1> QED BY <1>1, <1>2, <1>3, <1>4, LeftOf

\* A list of done, with one more.
Did(b, r) == done' = [done EXCEPT ![b] = Append(@, r)]

LEMMA DidOne ==
    ASSUME Shapes, NEW b \in Boxes, NEW r, Did(b, r)
    PROVE  /\ done' = [x \in Boxes |-> IF x = b THEN Append(done[x], r) ELSE done[x]]
           /\ \A x \in Boxes : done'[x] \in Seq(In(done'[x]))
<1>1. done = [x \in Boxes |-> done[x]] /\ \A x \in Boxes : done[x] \in Seq(In(done[x]))
  BY DEF Shapes
<1>2. done' = [x \in Boxes |-> IF x = b THEN Append(done[x], r) ELSE done[x]]
  BY <1>1 DEF Did
<1>3. Append(done[b], r) \in Seq(In(Append(done[b], r)))
  BY <1>1, Appended
<1> QED BY <1>1, <1>2, <1>3

LEMMA AskedOne ==
    ASSUME Shapes, StoreInv, Store
    PROVE  /\ asked' = [b \in Boxes |-> asked'[b]]
           /\ \A b \in Boxes : asked'[b] \in Seq(In(asked'[b]))
<1>1. \A b \in Boxes : asked[b] \in Seq(In(asked[b]))
  BY DEF Shapes
<1>2. \A b \in Boxes : Append(asked[b], line.what) \in Seq(In(Append(asked[b], line.what)))
  BY <1>1, Appended
<1> QED BY <1>1, <1>2, StoreEffect

LEMMA Steps ==
    ASSUME [Next]_vars
    PROVE  \/ Elsewhere \/ (\E c \in Cmds : RecvLine(c)) \/ Store \/ SayOk
           \/ ReadOp \/ TakeOp \/ Read \/ ClearWifi \/ Run \/ ConnUp \/ ConnGiveUp \/ ConnCancel
           \/ ReadFlag \/ ClearFlag \/ PullEnds
           \/ \E i \in Ids : LinkUp(i) \/ ApiLink(i) \/ LinkLost(i)
  BY ElsewhereSteps DEF Next, Clients, CtrlTask, LoopTask, Stack

LEMMA ShapesStep ==
    ASSUME Shapes, StoreInv, [Next]_vars
    PROVE  Shapes'
<1>1. CASE \/ Elsewhere \/ (\E c \in Cmds : RecvLine(c)) \/ SayOk \/ ReadOp \/ Read
           \/ ConnUp \/ ConnGiveUp \/ ConnCancel \/ ReadFlag
  <2>1. UNCHANGED <<mem, links, asked, done>>
    BY <1>1 DEF Elsewhere, RecvLine, SayOk, ReadOp, Read, ConnUp, ConnGiveUp,
       ConnCancel, ReadFlag, ble, hist
  <2> QED BY <2>1 DEF Shapes, Boolean
<1>2. CASE Store
  <2>1. line.what.wifi \in BOOLEAN \/ Head(todo) # "wifi"
    BY <1>2, StoreEffect, StoreKinds, CmdsAssumption DEF IsConn, OtaFields
  <2>2. /\ mem' = [f \in DOMAIN Cleared |-> mem'[f]]
        /\ mem'["wifi"] \in BOOLEAN /\ mem'["flag"] \in BOOLEAN
    BY <1>2, <2>1, StoreEffect, MemFields DEF Shapes, Boolean
  <2> QED BY <1>2, <2>2, StoreEffect, AskedOne DEF Shapes, Boolean
<1>3. CASE TakeOp
  <2>1. mem' = [f \in DOMAIN Cleared |-> mem'[f]] /\ Boolean("wifi")' /\ Boolean("flag")'
    BY <1>3, MemFields DEF TakeOp, Shapes, Boolean
  <2>2. done' = done \/ Did("diag", [ignored |-> got.op])
    BY <1>3 DEF TakeOp, Did
  <2> QED BY <1>3, <2>1, <2>2, DidOne DEF TakeOp, Shapes, ble, Boxes
<1>4. CASE ClearWifi \/ ClearFlag
  <2>1. mem' = [f \in DOMAIN Cleared |-> mem'[f]] /\ Boolean("wifi")' /\ Boolean("flag")'
    BY <1>4, MemFields DEF ClearWifi, ClearFlag, Shapes, Boolean
  <2> QED BY <1>4, <2>1 DEF ClearWifi, ClearFlag, Shapes, ble, hist
<1>5. CASE Run
  <2>1. Did("diag", got) /\ UNCHANGED <<mem, asked>> /\ links' = [i \in Ids |-> links'[i]]
    BY <1>5 DEF Run, Did, Shapes, ble
  <2> QED BY <2>1, DidOne DEF Shapes, Boolean, Boxes
<1>6. CASE PullEnds
  <2>1. Did("ota", got) /\ UNCHANGED <<mem, asked, links>>
    BY <1>6 DEF PullEnds, Did, ble
  <2> QED BY <2>1, DidOne DEF Shapes, Boolean, Boxes
<1>7. CASE \E i \in Ids : LinkUp(i) \/ ApiLink(i) \/ LinkLost(i)
  <2>1. UNCHANGED <<mem, asked, done>> /\ links' = [i \in Ids |-> links'[i]]
    BY <1>7 DEF LinkUp, ApiLink, LinkLost, Shapes, hist
  <2> QED BY <2>1 DEF Shapes, Boolean
<1> QED BY <1>1, <1>2, <1>3, <1>4, <1>5, <1>6, <1>7, Steps

LEMMA StoreInvStep ==
    ASSUME Shapes, StoreInv, [Next]_vars
    PROVE  StoreInv'
<1>1. CASE Elsewhere
  BY <1>1 DEF Elsewhere, StoreInv
<1>2. CASE \E c \in Cmds : RecvLine(c)
  BY <1>2, StoresOf, CmdsAssumption DEF RecvLine, StoreInv, Boxes
<1>3. CASE Store
  BY <1>3, StoreEffect, StoreKinds DEF StoreInv
<1>4. CASE SayOk
  BY <1>4 DEF SayOk, StoreInv
<1>5. CASE \/ ReadOp \/ TakeOp \/ Read \/ ClearWifi \/ Run \/ ConnUp \/ ConnGiveUp \/ ConnCancel
           \/ ReadFlag \/ ClearFlag \/ PullEnds
           \/ \E i \in Ids : LinkUp(i) \/ ApiLink(i) \/ LinkLost(i)
  <2>1. UNCHANGED ctrl
    BY <1>5 DEF ReadOp, TakeOp, Read, ClearWifi, Run, ConnUp, ConnGiveUp, ConnCancel, ReadFlag,
       ClearFlag, PullEnds, LinkUp, ApiLink, LinkLost
  <2> QED BY <2>1 DEF StoreInv, ctrl
<1> QED BY <1>1, <1>2, <1>3, <1>4, <1>5, Steps

\* A read of runDiag.
LEMMA ConnGot ==
    ASSUME LoopInv, Read, loopPc = "run"
    PROVE  /\ reads # <<>> /\ reads \in ConnReads /\ reads' = Tail(reads) /\ reads' \in ConnReads
           /\ got' = [f \in DOMAIN got' |-> got'[f]]
           /\ DOMAIN got' = ConnFields \ In(reads') /\ got.op = "conn" /\ got'.op = "conn"
           /\ \A f \in DOMAIN got' :
                 IF f = Head(reads) THEN got'[f] = mem[f] ELSE f \in DOMAIN got /\ got'[f] = got[f]
           /\ bleUp' = bleUp /\ (bleUp' \/ got'.op \in InSafeMode)
           /\ loopPc' = IF Head(reads) = "wifi" /\ mem.wifi THEN "wifi" ELSE "run"
           /\ loopPc' = "wifi" => reads' = <<"addr1", "addr2", "type">>
<1>1. /\ got.op = "conn" /\ reads # <<>> /\ reads \in ConnReads
      /\ DOMAIN got = ConnFields \ In(reads) /\ (bleUp \/ got.op \in InSafeMode)
  BY DEF Read, LoopInv
<1>2. /\ got' = [f \in DOMAIN got \cup {Head(reads)} |->
                    IF f = Head(reads) THEN mem[f] ELSE got[f]]
      /\ reads' = Tail(reads) /\ bleUp' = bleUp
      /\ loopPc' = IF Head(reads) = "wifi" /\ mem.wifi THEN "wifi" ELSE "run"
  BY DEF Read
<1>3. DOMAIN got \cup {Head(reads)} = ConnFields \ In(reads')
  BY <1>1, <1>2, ConnRead DEF ConnFields
<1>4. got' = [f \in DOMAIN got' |-> got'[f]] /\ DOMAIN got' = ConnFields \ In(reads')
  BY <1>2, <1>3
<1>5. got'.op = "conn"
  <2>1. "op" \in DOMAIN got /\ Head(reads) # "op"
    BY <1>1, ConnRead DEF ConnFields
  <2> QED BY <1>1, <1>2, <2>1
<1> QED BY <1>1, <1>2, <1>4, <1>5, ConnRead

LEMMA LoopInvStep ==
    ASSUME Shapes, StoreInv, LoopInv, [Next]_vars
    PROVE  LoopInv'
<1>1. CASE \/ Elsewhere \/ (\E c \in Cmds : RecvLine(c)) \/ Store \/ SayOk
           \/ \E i \in Ids : LinkUp(i) \/ ApiLink(i) \/ LinkLost(i)
  <2>1. UNCHANGED <<loopPc, got, reads, bleUp>>
    BY <1>1, StoreEffect DEF Elsewhere, RecvLine, SayOk, LinkUp, ApiLink, LinkLost, loopv
  <2> QED BY <2>1 DEF LoopInv
<1>2. CASE ReadOp
  BY <1>2 DEF ReadOp, LoopInv
<1>3. CASE TakeOp
  BY <1>3, Reads DEF TakeOp, LoopInv, ConnFields
<1>4. CASE Read
  <2>1. CASE loopPc = "run"
    <3> QED BY <1>4, <2>1, ConnGot DEF LoopInv
  <2>2. CASE loopPc = "pull"
    BY <1>4, <2>2, OtaRead DEF Read, LoopInv, OtaFields
  <2> QED BY <1>4, <2>1, <2>2 DEF Read
<1>5. CASE ClearWifi
  BY <1>5, Reads DEF ClearWifi, LoopInv
<1>6. CASE Run \/ ConnUp \/ ConnGiveUp \/ ConnCancel \/ ReadFlag \/ PullEnds
  <2>1. loopPc' \in {"wait", "cancel", "ota", "reset", "flagged", "diag"}
    BY <1>6 DEF Run, ConnUp, ConnGiveUp, ConnCancel, ReadFlag, PullEnds
  <2> QED BY <2>1 DEF LoopInv
<1>7. CASE ClearFlag
  BY <1>7, Reads DEF ClearFlag, LoopInv
<1> QED BY <1>1, <1>2, <1>3, <1>4, <1>5, <1>6, <1>7, Steps

-----------------------------------------------------------------------------
(* One command at a time in each place.                                     *)

LEMMA Same ==
    ASSUME [Next]_vars
    PROVE  UNCHANGED <<env, bleUp>>
<1>1. CASE Elsewhere \/ \E c \in Cmds : RecvLine(c)
  BY <1>1 DEF Elsewhere, RecvLine
<1>2. CASE ~(Elsewhere \/ \E c \in Cmds : RecvLine(c))
  BY <1>2, Steps DEF Store, SayOk, ReadOp, TakeOp, Read, ClearWifi, Run, ConnUp,
     ConnGiveUp, ConnCancel, ReadFlag, ClearFlag, PullEnds, LinkUp, ApiLink, LinkLost
<1> QED BY <1>1, <1>2

LEMMA Counts ==
    ASSUME Shapes
    PROVE  \A b \in Boxes : /\ Len(asked[b]) \in Nat /\ Len(done[b]) \in Nat
                            /\ DOMAIN asked[b] = 1 .. Len(asked[b])
                            /\ DOMAIN done[b] = 1 .. Len(done[b])
  BY DEF Shapes

LEMMA DidCounts ==
    ASSUME Shapes, NEW b \in Boxes, NEW r, Did(b, r)
    PROVE  /\ Len(done'[b]) = Len(done[b]) + 1
           /\ DOMAIN done'[b] = 1 .. Len(done[b]) + 1
           /\ \A i \in 1 .. Len(done[b]) : done'[b][i] = done[b][i]
           /\ done'[b][Len(done[b]) + 1] = r
           /\ \A x \in Boxes \ {b} : done'[x] = done[x]
<1>1. done[b] \in Seq(In(done[b]))
  BY DEF Shapes
<1> QED BY <1>1, DidOne, Appended

LEMMA AskedCounts ==
    ASSUME Shapes, StoreInv, Store
    PROVE  \A b \in Boxes :
              IF b = line.to /\ Head(todo) \in {"op", "flag"}
              THEN /\ Len(asked'[b]) = Len(asked[b]) + 1 /\ Newest(b)' = line.what
                   /\ DOMAIN asked'[b] = 1 .. Len(asked[b]) + 1
                   /\ \A i \in 1 .. Len(asked[b]) : asked'[b][i] = asked[b][i]
              ELSE asked'[b] = asked[b]
<1> SUFFICES ASSUME NEW b \in Boxes
             PROVE  IF b = line.to /\ Head(todo) \in {"op", "flag"}
                    THEN /\ Len(asked'[b]) = Len(asked[b]) + 1 /\ Newest(b)' = line.what
                         /\ DOMAIN asked'[b] = 1 .. Len(asked[b]) + 1
                         /\ \A i \in 1 .. Len(asked[b]) : asked'[b][i] = asked[b][i]
                    ELSE asked'[b] = asked[b]
  OBVIOUS
<1>1. asked[b] \in Seq(In(asked[b]))
  BY DEF Shapes
<1>2. asked'[b] = IF b = line.to /\ Head(todo) \in {"op", "flag"}
                  THEN Append(asked[b], line.what) ELSE asked[b]
  BY StoreEffect
<1> QED BY <1>1, <1>2, Appended DEF Newest

LEMMA MailStep ==
    ASSUME Shapes, StoreInv, LoopInv, MailInv, [Next]_vars
    PROVE  MailInv'
<1> SUFFICES ASSUME "hurry" \notin env PROVE InTurn'
  BY Same DEF MailInv, Without
<1>0. InTurn
  BY DEF MailInv, Without
<1> USE DEF Boxes
<1>1. CASE Elsewhere
  BY <1>0, <1>1 DEF Elsewhere, InTurn, Open, Newest, Storing
<1>2. ASSUME NEW c \in Cmds, RecvLine(c) PROVE InTurn'
  <2>1. /\ UNCHANGED <<mem, loopPc, got, asked, done>> /\ todo' = Stores(c)
        /\ IF c.to = "ctrl" THEN ctrlPc' = "log" ELSE ctrlPc' = "store" /\ line' = c
    BY <1>2 DEF RecvLine, loopv
  <2>2. c.to \in Boxes => Settled(c.to)
    BY <1>2 DEF RecvLine, Allowed
  <2>3. \A b \in Boxes : Storing(b)' => ~Open(b) /\ loopPc \notin {"wait", "cancel"}
    BY <2>1, <2>2, Counts DEF Storing, Settled, Open
  <2> QED BY <1>0, <2>1, <2>3 DEF InTurn, Open, Newest
<1>3. CASE Store
  <2> DEFINE f == Head(todo)
  <2>1. /\ UNCHANGED <<loopPc, got, done>> /\ ctrlPc = "store" /\ ctrlPc' = "store"
        /\ line' = line /\ line \in Cmds /\ line.to \in Boxes
        /\ todo # <<>> /\ todo' = Tail(todo)
    BY <1>3, StoreEffect
  <2>2. Storing(line.to) /\ ~Open(line.to)
    BY <1>0, <2>1 DEF Storing, InTurn
  <2>3. CASE f \notin {"op", "flag"}
    <3>1. mem'.op = mem.op /\ mem'.flag = mem.flag /\ \A b \in Boxes : asked'[b] = asked[b]
      BY <1>3, <2>3, StoreEffect, AskedCounts, MemFields
    <3>2. \A b \in Boxes : Storing(b)' => Storing(b)
      BY <2>1 DEF Storing
    <3> QED BY <1>0, <2>1, <3>1, <3>2 DEF InTurn, Open, Newest
  <2>4. CASE f \in {"op", "flag"}
    <3>1. /\ Tail(todo) = <<>> /\ line.to = (IF f = "op" THEN "diag" ELSE "ota")
          /\ f = "op" => line.what.op # None
      BY <1>3, <2>1, <2>4, StoreEffect, StoreKinds, CmdsAssumption DEF IsConn, OtaFields, ConnFields
    <3>2. \A b \in Boxes : ~Storing(b)'
      BY <2>1, <3>1 DEF Storing
    <3>3. /\ Open(line.to)' /\ Newest(line.to)' = line.what
          /\ \A b \in Boxes \ {line.to} : asked'[b] = asked[b]
      <4>1. Len(asked'[line.to]) = Len(asked[line.to]) + 1
        BY <1>3, <2>1, <2>4, AskedCounts
      <4>2. Len(asked[line.to]) = Len(done[line.to])
        BY <1>0, <2>1, <2>2 DEF InTurn
      <4> QED BY <1>3, <2>1, <2>4, <4>1, <4>2, AskedCounts DEF Open
    <3>4. IF f = "op" THEN mem'.op = line.what.op /\ mem'.flag = mem.flag
                      ELSE mem'.flag = TRUE /\ mem'.op = mem.op
      BY <1>3, <2>4, StoreEffect, MemFields
    <3>5. CASE f = "op"
      BY <1>0, <2>1, <2>2, <3>1, <3>2, <3>3, <3>4, <3>5 DEF InTurn, Open, Newest
    <3>6. CASE f = "flag"
      BY <1>0, <2>1, <2>2, <3>1, <3>2, <3>3, <3>4, <3>6 DEF InTurn, Open, Newest
    <3> QED BY <2>4, <3>5, <3>6
  <2> QED BY <2>3, <2>4
<1>4. CASE SayOk
  BY <1>0, <1>4 DEF SayOk, InTurn, Open, Newest, Storing, loopv, hist
<1>5. CASE ReadOp
  BY <1>0, <1>5 DEF ReadOp, InTurn, Open, Newest, Storing, ctrl, hist
<1>6. CASE TakeOp
  <2>1. /\ UNCHANGED <<ctrlPc, line, todo, got, asked>> /\ loopPc = "taken"
        /\ mem'.op = None /\ mem'.flag = mem.flag
        /\ \/ loopPc' = "run" /\ UNCHANGED done
           \/ loopPc' = "ota" /\ Did("diag", [ignored |-> got.op])
    BY <1>6, MemFields DEF TakeOp, ctrl, Shapes, Did
  <2>2. CASE loopPc' = "run" /\ UNCHANGED done
    BY <1>0, <2>1, <2>2 DEF InTurn, Open, Newest, Storing
  <2>3. CASE loopPc' = "ota" /\ Did("diag", [ignored |-> got.op])
    <3>1. Len(done'.diag) = Len(done.diag) + 1 /\ done'.ota = done.ota
      BY <2>3, DidCounts
    <3>2. Open("diag")
      BY <1>0, <2>1 DEF InTurn
    <3>3. ~Open("diag")' /\ Len(asked'.diag) = Len(done'.diag) /\ (Open("ota")' <=> Open("ota"))
      BY <2>1, <3>1, <3>2, Counts DEF Open
    <3>4. \A b \in Boxes : Storing(b)' = Storing(b) /\ Newest(b)' = Newest(b)
      BY <2>1 DEF Storing, Newest
    <3>5. Len(asked'.ota) = Len(asked.ota) /\ Len(done'.ota) = Len(done.ota)
      BY <2>1, <3>1
    <3> QED BY <1>0, <2>1, <2>3, <3>2, <3>3, <3>4, <3>5 DEF InTurn
  <2> QED BY <2>1, <2>2, <2>3
<1>7. CASE Read
  <2>1. UNCHANGED <<ctrlPc, line, todo, mem, asked, done>>
    BY <1>7 DEF Read, ctrl, hist
  <2>2. CASE loopPc = "run"
    <3>1. loopPc' \in {"run", "wifi"} /\ got'.op = got.op
      BY <1>7, <2>2, ConnGot
    <3> QED BY <1>0, <2>1, <2>2, <3>1 DEF InTurn, Open, Newest, Storing
  <2>3. CASE loopPc = "pull"
    <3>1. Head(reads) # "wifi"
      BY <1>7, <2>3, OtaRead DEF LoopInv, Read, OtaFields
    <3>2. loopPc' = "pull"
      BY <1>7, <2>3, <3>1 DEF Read
    <3> QED BY <1>0, <2>1, <2>3, <3>2 DEF InTurn, Open, Newest, Storing
  <2> QED BY <1>7, <2>2, <2>3 DEF Read
<1>8. CASE ClearWifi
  <2>1. mem'.op = mem.op /\ mem'.flag = mem.flag
    BY <1>8, MemFields DEF ClearWifi, Shapes
  <2> QED BY <1>0, <1>8, <2>1 DEF ClearWifi, InTurn, Open, Newest, Storing, ctrl, hist
<1>9. CASE Run
  <2>1. /\ UNCHANGED <<ctrlPc, line, todo, mem, got, asked>> /\ loopPc = "run"
        /\ loopPc' \in {"wait", "ota", "reset"} /\ Did("diag", got)
    BY <1>9 DEF Run, ctrl, Did
  <2>2. Len(done'.diag) = Len(done.diag) + 1 /\ done'.ota = done.ota
    BY <2>1, DidCounts
  <2>3. Open("diag") /\ ~Storing("diag")
    BY <1>0, <2>1 DEF InTurn
  <2>4. ~Open("diag")' /\ Len(asked'.diag) = Len(done'.diag) /\ (Open("ota")' <=> Open("ota"))
    BY <2>1, <2>2, <2>3, Counts DEF Open
  <2>5. \A b \in Boxes : Storing(b)' = Storing(b) /\ Newest(b)' = Newest(b)
    BY <2>1 DEF Storing, Newest
  <2>6. Len(asked'.ota) = Len(asked.ota) /\ Len(done'.ota) = Len(done.ota)
    BY <2>1, <2>2
  <2> QED BY <1>0, <2>1, <2>3, <2>4, <2>5, <2>6 DEF InTurn
<1>10. CASE ConnUp \/ ConnGiveUp \/ ConnCancel \/ ReadFlag
  <2>1. /\ UNCHANGED <<ctrlPc, line, todo, mem, got, asked, done>>
        /\ loopPc \in {"wait", "cancel", "ota"}
        /\ loopPc' \in {"cancel", "ota", "flagged", "diag"}
        /\ loopPc' = "cancel" => loopPc = "wait"
        /\ loopPc' = "flagged" => mem.flag
    BY <1>10 DEF ConnUp, ConnGiveUp, ConnCancel, ReadFlag, ctrl, hist
  <2> QED BY <1>0, <2>1 DEF InTurn, Open, Newest, Storing
<1>11. CASE ClearFlag
  <2>1. mem'.op = mem.op /\ mem'.flag = FALSE
    BY <1>11, MemFields DEF ClearFlag, Shapes
  <2> QED BY <1>0, <1>11, <2>1 DEF ClearFlag, InTurn, Open, Newest, Storing, ctrl, hist
<1>12. CASE PullEnds
  <2>1. /\ UNCHANGED <<ctrlPc, line, todo, mem, got, asked>> /\ loopPc = "pull"
        /\ loopPc' \in {"reset", "diag"} /\ Did("ota", got)
    BY <1>12 DEF PullEnds, ctrl, Did
  <2>2. Len(done'.ota) = Len(done.ota) + 1 /\ done'.diag = done.diag
    BY <2>1, DidCounts
  <2>3. Open("ota")
    BY <1>0, <2>1 DEF InTurn
  <2>4. ~Open("ota")' /\ Len(asked'.ota) = Len(done'.ota) /\ (Open("diag")' <=> Open("diag"))
    BY <2>1, <2>2, <2>3, Counts DEF Open
  <2>5. \A b \in Boxes : Storing(b)' = Storing(b) /\ Newest(b)' = Newest(b)
    BY <2>1 DEF Storing, Newest
  <2>6. Len(asked'.diag) = Len(asked.diag) /\ Len(done'.diag) = Len(done.diag)
    BY <2>1, <2>2
  <2> QED BY <1>0, <2>1, <2>3, <2>4, <2>5, <2>6 DEF InTurn
<1>13. CASE \E i \in Ids : LinkUp(i) \/ ApiLink(i) \/ LinkLost(i)
  <2>1. UNCHANGED <<ctrlPc, line, todo, mem, loopPc, got, asked, done>>
    BY <1>13 DEF LinkUp, ApiLink, LinkLost, ctrl, loopv, hist
  <2> QED BY <1>0, <2>1 DEF InTurn, Open, Newest, Storing
<1> QED BY <1>1, <1>2, <1>3, <1>4, <1>5, <1>6, <1>7, <1>8, <1>9, <1>10, <1>11, <1>12, <1>13, Steps

-----------------------------------------------------------------------------
(* Where the values of a command are.                                       *)

\* The newest command of a place is one that a client has sent.
LEMMA NewestIs ==
    ASSUME Shapes, Kept, NEW b \in Boxes, Open(b)
    PROVE  \E c \in Cmds : c.to = b /\ c.what = Newest(b)
<1>1. Len(asked[b]) \in DOMAIN asked[b]
  BY Counts DEF Open
<1> QED BY <1>1 DEF Kept, Newest, Boxes

LEMMA NewestConn ==
    ASSUME Shapes, Kept, Open("diag")
    PROVE  IF Newest("diag").op = "conn"
           THEN /\ Newest("diag") = [f \in ConnFields |-> Newest("diag")[f]]
                /\ Newest("diag").wifi \in BOOLEAN
           ELSE Newest("diag") = [op |-> Newest("diag").op]
<1>1. PICK c \in Cmds : c.to = "diag" /\ c.what = Newest("diag")
  BY NewestIs DEF Boxes
<1>2. IF c.what.op = "conn"
      THEN c.what = [f \in ConnFields |-> c.what[f]] /\ c.what.wifi \in BOOLEAN
      ELSE c.what = [op |-> c.what.op]
  BY <1>1, CmdsAssumption
<1> QED BY <1>1, <1>2

\* Nothing of it moves, and loop() is at none of its reads.
LEMMA KeptSame ==
    ASSUME Kept,
           UNCHANGED <<bleUp, ctrlPc, line, todo, mem, asked, done>>,
           loopPc \notin {"run", "wifi", "pull"}, loopPc' \notin {"run", "wifi", "pull"}
    PROVE  Kept'
<1>1. /\ \A b \in Boxes : Open(b)' = Open(b) /\ Newest(b)' = Newest(b) /\ Storing(b)' = Storing(b)
      /\ OpenConn' = OpenConn
  BY DEF Open, Newest, Storing, OpenConn, Boxes
<1>2. WifiDue' <=> WifiDue
  BY <1>1 DEF WifiDue, Boxes
<1> QED BY <1>1, <1>2 DEF Kept, Boxes

LEMMA KeptStore ==
    ASSUME Shapes, StoreInv, Kept, InTurn, InTurn', Store
    PROVE  Kept'
<1> DEFINE f == Head(todo)
<1> USE DEF Boxes
<1>1. /\ UNCHANGED <<bleUp, loopPc, got, reads, done>> /\ ctrlPc = "store" /\ ctrlPc' = "store"
      /\ line' = line /\ line \in Cmds /\ line.to \in Boxes /\ line.whole
      /\ todo # <<>> /\ todo' = Tail(todo)
  BY StoreEffect DEF Kept
<1>2. /\ \A g \in DOMAIN Cleared \ {f} : mem'[g] = mem[g]
      /\ mem'[f] = IF f = "flag" THEN TRUE ELSE line.what[f]
  BY StoreEffect
<1>3. Storing(line.to) /\ ~Open(line.to)
  BY <1>1 DEF Storing, InTurn
<1>4. /\ \A i \in DOMAIN asked'.diag : \E c \in Cmds : c.to = "diag" /\ c.what = asked'.diag[i]
      /\ \A i \in DOMAIN asked'.ota : \E c \in Cmds : c.to = "ota" /\ c.what = asked'.ota[i]
  <2> SUFFICES ASSUME NEW b \in Boxes, NEW i \in DOMAIN asked'[b]
               PROVE  \E c \in Cmds : c.to = b /\ c.what = asked'[b][i]
    OBVIOUS
  <2>1. \A j \in DOMAIN asked[b] : \E c \in Cmds : c.to = b /\ c.what = asked[b][j]
    BY DEF Kept
  <2>2. CASE b = line.to /\ f \in {"op", "flag"}
    <3>1. /\ Len(asked'[b]) = Len(asked[b]) + 1 /\ asked'[b][Len(asked'[b])] = line.what
          /\ DOMAIN asked'[b] = 1 .. Len(asked[b]) + 1
          /\ \A j \in 1 .. Len(asked[b]) : asked'[b][j] = asked[b][j]
      BY <2>2, AskedCounts DEF Newest
    <3>2. Len(asked[b]) \in Nat /\ DOMAIN asked[b] = 1 .. Len(asked[b])
      BY Counts
    <3>3. CASE i = Len(asked[b]) + 1
      BY <1>1, <2>2, <3>1, <3>3
    <3>4. CASE i \in 1 .. Len(asked[b])
      BY <2>1, <3>1, <3>2, <3>4
    <3> QED BY <3>1, <3>2, <3>3, <3>4
  <2>3. CASE ~(b = line.to /\ f \in {"op", "flag"})
    BY <2>1, <2>3, AskedCounts
  <2> QED BY <2>2, <2>3
<1>5. CASE line.to = "ota"
  <2>1. /\ In(Tail(todo)) = In(todo) \ {f} /\ f \in OtaFields \cup {"flag"}
        /\ f = "flag" <=> Tail(todo) = <<>>
    BY <1>1, <1>5, StoreEffect, StoreKinds DEF IsConn
  <2>2. \A g \in {"addr1", "addr2", "type", "wifi"} : mem'[g] = mem[g]
    BY <1>2, <2>1, MemFields DEF OtaFields
  <2>3. \A g \in OtaFields \ In(Tail(todo)) : mem'[g] = line.what[g]
    <3> SUFFICES ASSUME NEW g \in OtaFields, g \notin In(Tail(todo)) PROVE mem'[g] = line.what[g]
      OBVIOUS
    <3>1. CASE g = f
      BY <1>2, <3>1 DEF OtaFields
    <3>2. CASE g # f
      BY <1>2, <1>3, <1>5, <2>1, <3>2, MemFields DEF Kept, OtaFields
    <3> QED BY <3>1, <3>2
  <2>4. /\ ~Storing("diag") /\ ~Storing("diag")' /\ asked'.diag = asked.diag
        /\ (OpenConn' <=> OpenConn) /\ Newest("diag")' = Newest("diag")
        /\ (WifiDue' <=> WifiDue)
    <3>1. asked'.diag = asked.diag
      BY <1>5, AskedCounts
    <3>2. ~Storing("diag") /\ ~Storing("diag")'
      BY <1>1, <1>5 DEF Storing
    <3> QED BY <1>1, <3>1, <3>2 DEF OpenConn, Open, Newest, WifiDue
  <2>5. Open("ota")' => \A g \in OtaFields : mem'[g] = Newest("ota")'[g]
    <3>1. CASE f = "flag"
      <4>1. In(Tail(todo)) = {} /\ Newest("ota")' = line.what
        BY <1>5, <2>1, <3>1, InOf, AskedCounts
      <4> QED BY <2>3, <4>1
    <3>2. CASE f # "flag"
      <4>1. asked'.ota = asked.ota
        BY <1>5, <2>1, <3>2, AskedCounts DEF OtaFields
      <4> QED BY <1>1, <1>3, <1>5, <4>1 DEF Open
    <3> QED BY <3>1, <3>2
  <2>6. loopPc # "pull"
    BY <1>3, <1>5 DEF InTurn
  <2> QED BY <1>1, <1>4, <1>5, <2>2, <2>3, <2>4, <2>5, <2>6 DEF Kept, Storing
<1>6. CASE line.to = "diag"
  <2>1. \/ ~IsConn(line) /\ f = "op" /\ Tail(todo) = <<>>
        \/ /\ IsConn(line) /\ In(Tail(todo)) = In(todo) \ {f}
           /\ f \in ConnFields /\ (f = "op" <=> Tail(todo) = <<>>)
           /\ f = "wifi" <=> "wifi" \in In(todo)
    BY <1>1, <1>6, StoreEffect, StoreKinds DEF IsConn
  <2>2. /\ \A g \in OtaFields : mem'[g] = mem[g]
        /\ asked'.ota = asked.ota /\ ~Storing("ota") /\ ~Storing("ota")'
        /\ (Open("ota")' <=> Open("ota")) /\ Newest("ota")' = Newest("ota")
    <3>1. asked'.ota = asked.ota
      BY <1>6, AskedCounts
    <3>2. \A g \in OtaFields : mem'[g] = mem[g]
      BY <1>2, <2>1, MemFields DEF OtaFields, ConnFields
    <3> QED BY <1>1, <1>6, <3>1, <3>2 DEF Storing, Open, Newest
  <2>3. loopPc \notin {"run", "wifi"} /\ ~OpenConn
    BY <1>3, <1>6 DEF InTurn, OpenConn
  <2>4. IsConn(line) =>
           \A g \in {"addr1", "addr2", "type"} \ In(Tail(todo)) : mem'[g] = line.what[g]
    <3> SUFFICES ASSUME IsConn(line), NEW g \in {"addr1", "addr2", "type"}, g \notin In(Tail(todo))
                 PROVE  mem'[g] = line.what[g]
      OBVIOUS
    <3>1. CASE g = f
      BY <1>2, <3>1
    <3>2. CASE g # f
      BY <1>2, <1>3, <1>6, <2>1, <3>2, MemFields DEF Kept
    <3> QED BY <3>1, <3>2
  <2>5. bleUp => (mem.wifi <=> IsConn(line) /\ line.what.wifi /\ "wifi" \notin In(todo))
    BY <1>3, <1>6, <2>3 DEF Kept, WifiDue
  <2>6. CASE f = "op"
    <3>1. /\ Newest("diag")' = line.what /\ Tail(todo) = <<>> /\ mem'.wifi = mem.wifi
          /\ ~Storing("diag")'
      BY <1>1, <1>2, <1>6, <2>1, <2>6, AskedCounts, MemFields DEF Storing
    <3>2. IsConn(line) => "wifi" \notin In(todo) /\ In(Tail(todo)) = {}
      BY <2>1, <2>6, <3>1, InOf
    <3>3. Open("diag")'
      BY <1>2, <2>6, CmdsAssumption, <1>1, <1>6 DEF InTurn
    <3>4. bleUp' => (mem'.wifi <=> WifiDue')
      BY <1>1, <1>6, <2>3, <2>5, <3>1, <3>2, <3>3 DEF WifiDue, OpenConn, IsConn
    <3>5. OpenConn' => \A g \in {"addr1", "addr2", "type"} : mem'[g] = Newest("diag")'[g]
      BY <1>6, <2>4, <3>1, <3>2 DEF OpenConn, IsConn
    <3> QED BY <1>1, <1>4, <2>2, <2>3, <3>1, <3>4, <3>5 DEF Kept
  <2>7. CASE f # "op"
    <3>1. IsConn(line) /\ f \in ConnFields /\ In(Tail(todo)) = In(todo) \ {f} /\ Tail(todo) # <<>>
      BY <2>1, <2>7
    <3>2. Storing("diag")' /\ ~OpenConn'
      <4>1. asked'.diag = asked.diag
        BY <2>7, <3>1, AskedCounts DEF ConnFields
      <4> QED BY <1>1, <1>6, <2>3, <3>1, <4>1 DEF Storing, OpenConn, Open, Newest
    <3>3. bleUp' => (mem'.wifi <=> WifiDue')
      <4>1. WifiDue' <=> line.what.wifi /\ "wifi" \notin In(Tail(todo))
        BY <1>1, <3>1, <3>2 DEF WifiDue
      <4>2. CASE f = "wifi"
        BY <1>1, <1>2, <3>1, <4>1, <4>2
      <4>3. CASE f # "wifi"
        BY <1>1, <1>2, <2>5, <3>1, <4>1, <4>3, MemFields
      <4> QED BY <4>2, <4>3
    <3> QED BY <1>1, <1>4, <1>6, <2>2, <2>3, <2>4, <3>1, <3>2, <3>3 DEF Kept
  <2> QED BY <2>6, <2>7
<1> QED BY <1>1, <1>5, <1>6

LEMMA ValuesStep ==
    ASSUME Shapes, StoreInv, LoopInv, MailInv, ValuesInv, [Next]_vars
    PROVE  ValuesInv'
<1> SUFFICES ASSUME "hurry" \notin env, "bad" \notin env PROVE Kept'
  BY Same DEF ValuesInv, Without
<1>0. Kept /\ InTurn /\ InTurn'
  BY MailStep, Same DEF ValuesInv, MailInv, Without
<1> USE DEF Boxes
<1>1. CASE Elsewhere
  BY <1>0, <1>1 DEF Elsewhere, Kept, Open, Newest, Storing, OpenConn, WifiDue
<1>2. ASSUME NEW c \in Cmds, RecvLine(c) PROVE Kept'
  <2>1. /\ UNCHANGED <<bleUp, mem, loopPc, got, reads, asked, done>> /\ todo' = Stores(c)
        /\ ctrlPc = "recv"
        /\ IF c.to = "ctrl" THEN ctrlPc' = "log" ELSE ctrlPc' = "store" /\ line' = c
        /\ c.to \in Boxes => c.whole
    BY <1>2 DEF RecvLine, loopv, Allowed
  <2>2. /\ \A b \in Boxes : Open(b)' = Open(b) /\ Newest(b)' = Newest(b) /\ ~Storing(b)
        /\ OpenConn' = OpenConn
    BY <2>1 DEF Open, Newest, Storing, OpenConn
  <2>3. Storing("diag")' /\ IsConn(c) /\ line' = c =>
           /\ {"addr1", "addr2", "type"} \subseteq In(todo')
           /\ c.what.wifi => "wifi" \in In(todo')
    BY <2>1, StoresOf DEF IsConn, Storing
  <2>4. Storing("ota")' => OtaFields \subseteq In(todo')
    BY <2>1, StoresOf DEF Storing
  <2>5. WifiDue' <=> WifiDue
    BY <2>1, <2>2, <2>3 DEF WifiDue, Storing
  <2>6. ctrlPc' = "store" => line'.whole
    BY <2>1, CmdsAssumption
  <2> QED BY <1>0, <2>1, <2>2, <2>3, <2>4, <2>5, <2>6 DEF Kept, Storing
<1>3. CASE Store
  BY <1>0, <1>3, KeptStore
<1>4. CASE SayOk
  <2>1. /\ UNCHANGED <<bleUp, todo, mem, loopPc, got, reads, asked, done>>
        /\ ctrlPc' = "close" /\ todo = <<>>
    BY <1>4 DEF SayOk, loopv, hist
  <2>2. \A b \in Boxes : ~Storing(b) /\ ~Storing(b)' /\ Open(b)' = Open(b) /\ Newest(b)' = Newest(b)
    BY <2>1 DEF Storing, Open, Newest
  <2>3. WifiDue' <=> WifiDue
    BY <2>1, <2>2 DEF WifiDue, OpenConn
  <2> QED BY <1>0, <2>1, <2>2, <2>3 DEF Kept, OpenConn
<1>5. CASE ReadOp
  BY <1>0, <1>5, KeptSame DEF ReadOp, ctrl, hist
<1>6. CASE TakeOp
  <2>1. /\ UNCHANGED <<bleUp, ctrlPc, line, todo, got, asked>> /\ loopPc = "taken"
        /\ \A g \in DOMAIN Cleared \ {"op"} : mem'[g] = mem[g]
        /\ \/ /\ loopPc' = "run" /\ UNCHANGED done
              /\ reads' = IF got.op = "conn" THEN <<"wifi", "addr1", "addr2", "type">> ELSE <<>>
           \/ loopPc' = "ota" /\ Did("diag", [ignored |-> got.op]) /\ ~bleUp
    BY <1>6 DEF TakeOp, ctrl, Shapes, Did
  <2>2. /\ \A g \in OtaFields \cup {"addr1", "addr2", "type", "wifi"} : mem'[g] = mem[g]
        /\ Open("diag") /\ ~Storing("diag")
    BY <1>0, <2>1, MemFields DEF InTurn, OtaFields
  <2>3. \A b \in Boxes : Newest(b)' = Newest(b) /\ Storing(b)' = Storing(b)
    BY <2>1 DEF Newest, Storing
  <2>4. CASE loopPc' = "run"
    <3>1. /\ UNCHANGED done
          /\ reads' = IF got.op = "conn" THEN <<"wifi", "addr1", "addr2", "type">> ELSE <<>>
      BY <2>1, <2>4
    <3>2. \A b \in Boxes : Open(b)' = Open(b)
      BY <2>1, <3>1 DEF Open
    <3>3. WifiDue' <=> WifiDue
      <4>1. OpenConn => "wifi" \in In(reads')
        BY <1>0, <2>1, <3>1, Reads DEF OpenConn, InTurn, ConnFields
      <4> QED BY <2>1, <2>3, <2>2, <2>4, <3>2, <4>1 DEF WifiDue, OpenConn
    <3>4. \A g \in DOMAIN got : got[g] = Newest("diag")[g]
      BY <1>0, <2>1 DEF LoopInv, InTurn
    <3> QED BY <1>0, <2>1, <2>2, <2>3, <2>4, <3>2, <3>3, <3>4 DEF Kept, OpenConn
  <2>5. CASE loopPc' = "ota"
    <3>1. Did("diag", [ignored |-> got.op]) /\ ~bleUp
      BY <2>1, <2>5
    <3>2. (Open("ota")' <=> Open("ota")) /\ ~Open("diag")'
      BY <1>0, <2>1, <2>2, <2>5, <3>1, DidCounts, Counts DEF Open
    <3> QED BY <1>0, <2>1, <2>2, <2>3, <2>5, <3>1, <3>2 DEF Kept, OpenConn
  <2> QED BY <2>1, <2>4, <2>5
<1>7. CASE Read
  <2>1. UNCHANGED <<bleUp, ctrlPc, line, todo, mem, asked, done>>
    BY <1>7 DEF Read, ctrl, hist
  <2>2. \A b \in Boxes : Open(b)' = Open(b) /\ Newest(b)' = Newest(b) /\ Storing(b)' = Storing(b)
    BY <2>1 DEF Open, Newest, Storing
  <2>3. CASE loopPc = "run"
    <3> DEFINE f == Head(reads)
    <3>1. /\ OpenConn /\ bleUp /\ ~Storing("diag")
          /\ Newest("diag").wifi \in BOOLEAN /\ mem.wifi \in BOOLEAN
      <4>1. Open("diag") /\ Newest("diag").op = "conn" /\ bleUp
        BY <1>0, <1>7, <2>3, ConnGot DEF InTurn, InSafeMode
      <4> QED BY <1>0, <4>1, NewestConn DEF OpenConn, InTurn, Shapes, Boolean
    <3>2. mem.wifi <=> Newest("diag").wifi /\ "wifi" \in In(reads)
      BY <1>0, <2>3, <3>1 DEF Kept, WifiDue
    <3>3. /\ f \in {"wifi", "addr1", "addr2", "type"} /\ In(reads') = In(reads) \ {f}
          /\ f = "wifi" <=> "wifi" \in In(reads)
          /\ loopPc' = IF f = "wifi" /\ mem.wifi THEN "wifi" ELSE "run"
      BY <1>7, <2>3, ConnGot, ConnRead
    <3>4. mem[f] = Newest("diag")[f]
      <4>1. CASE f = "wifi"
        BY <3>1, <3>2, <3>3, <4>1
      <4>2. CASE f # "wifi"
        BY <1>0, <3>1, <3>3, <4>2 DEF Kept
      <4> QED BY <4>1, <4>2
    <3>5. \A g \in DOMAIN got' : got'[g] = Newest("diag")[g]
      BY <1>0, <1>7, <2>3, <3>4, ConnGot DEF Kept
    <3>6. mem.wifi <=> WifiDue'
      BY <2>1, <2>2, <3>1, <3>2, <3>3 DEF WifiDue, OpenConn
    <3>7. loopPc' # "pull"
      BY <3>3
    <3> QED BY <1>0, <2>1, <2>2, <3>5, <3>6, <3>7 DEF Kept, OpenConn
  <2>4. CASE loopPc = "pull"
    <3>1. reads # <<>> /\ reads \in OtaReads /\ Head(reads) \in OtaFields
      BY <1>7, <2>4, OtaRead DEF Read, LoopInv
    <3>2. got' = [f \in DOMAIN got \cup {Head(reads)} |->
                     IF f = Head(reads) THEN mem[f] ELSE got[f]]
          /\ loopPc' = "pull"
      BY <1>7, <2>4, <3>1 DEF Read, OtaFields
    <3>3. Open("ota")
      BY <1>0, <2>4 DEF InTurn
    <3>4. \A g \in DOMAIN got' : got'[g] = Newest("ota")[g]
      BY <1>0, <2>4, <3>1, <3>2, <3>3 DEF Kept
    <3>5. WifiDue' <=> WifiDue
      BY <2>1, <2>2, <2>4, <3>2 DEF WifiDue, OpenConn
    <3>6. loopPc' = "pull" /\ (OpenConn' <=> OpenConn)
      BY <2>2, <3>2 DEF OpenConn
    <3>7. "ota" \in Boxes /\ "diag" \in Boxes
      OBVIOUS
    <3> HIDE DEF Boxes
    <3> QED BY <1>0, <2>1, <2>2, <2>4, <3>4, <3>5, <3>6, <3>7 DEF Kept
  <2> QED BY <1>7, <2>3, <2>4 DEF Read
<1>8. CASE ClearWifi
  <2>1. /\ UNCHANGED <<bleUp, ctrlPc, line, todo, got, reads, asked, done>>
        /\ loopPc = "wifi" /\ loopPc' = "run" /\ mem'.wifi = FALSE
        /\ \A g \in DOMAIN Cleared \ {"wifi"} : mem'[g] = mem[g]
    BY <1>8, MemFields DEF ClearWifi, ctrl, hist, Shapes
  <2>2. \A b \in Boxes : Open(b)' = Open(b) /\ Newest(b)' = Newest(b) /\ Storing(b)' = Storing(b)
    BY <2>1 DEF Open, Newest, Storing
  <2>3. ~WifiDue'
    <3>1. "wifi" \notin In(reads)
      BY <2>1, Reads DEF LoopInv
    <3>2. ~Storing("diag")
      BY <1>0, <2>1 DEF InTurn
    <3> QED BY <2>1, <2>2, <3>1, <3>2 DEF WifiDue
  <2>4. \A g \in OtaFields \cup {"addr1", "addr2", "type"} : mem'[g] = mem[g]
    BY <2>1, MemFields DEF OtaFields
  <2> QED BY <1>0, <2>1, <2>2, <2>3, <2>4 DEF Kept, OpenConn
<1>9. CASE Run
  <2>1. /\ UNCHANGED <<bleUp, ctrlPc, line, todo, mem, got, asked>> /\ loopPc = "run"
        /\ reads = <<>> /\ loopPc' \in {"wait", "ota", "reset"} /\ Did("diag", got)
    BY <1>9 DEF Run, ctrl, Did
  <2>2. /\ ~Open("diag")' /\ (Open("ota")' <=> Open("ota")) /\ ~Storing("diag")
        /\ \A b \in Boxes : Newest(b)' = Newest(b) /\ Storing(b)' = Storing(b)
    BY <1>0, <2>1, DidCounts, Counts DEF InTurn, Open, Newest, Storing
  <2>3. ~WifiDue /\ ~WifiDue'
    BY <2>1, <2>2, Reads DEF WifiDue, OpenConn
  <2> QED BY <1>0, <2>1, <2>2, <2>3 DEF Kept, OpenConn
<1>10. CASE ConnUp \/ ConnGiveUp \/ ConnCancel \/ ReadFlag
  <2>1. /\ UNCHANGED <<bleUp, ctrlPc, line, todo, mem, asked, done>>
        /\ loopPc \in {"wait", "cancel", "ota"}
        /\ loopPc' \in {"cancel", "ota", "flagged", "diag"}
        /\ loopPc' = "cancel" => loopPc = "wait"
    BY <1>10 DEF ConnUp, ConnGiveUp, ConnCancel, ReadFlag, ctrl, hist
  <2> QED BY <1>0, <2>1, KeptSame
<1>11. CASE ClearFlag
  <2>1. /\ UNCHANGED <<bleUp, ctrlPc, line, todo, asked, done>>
        /\ loopPc = "flagged" /\ loopPc' = "pull" /\ DOMAIN got' = {}
        /\ \A g \in DOMAIN Cleared \ {"flag"} : mem'[g] = mem[g]
    BY <1>11, MemFields DEF ClearFlag, ctrl, hist, Shapes
  <2>2. \A b \in Boxes : Open(b)' = Open(b) /\ Newest(b)' = Newest(b) /\ Storing(b)' = Storing(b)
    BY <2>1 DEF Open, Newest, Storing
  <2>3. WifiDue' <=> WifiDue
    BY <2>1, <2>2 DEF WifiDue, OpenConn
  <2>4. \A g \in OtaFields \cup {"addr1", "addr2", "type", "wifi"} : mem'[g] = mem[g]
    BY <2>1, MemFields DEF OtaFields
  <2> QED BY <1>0, <2>1, <2>2, <2>3, <2>4 DEF Kept, OpenConn
<1>12. CASE PullEnds
  <2>1. /\ UNCHANGED <<bleUp, ctrlPc, line, todo, mem, got, asked>> /\ loopPc = "pull"
        /\ loopPc' \in {"reset", "diag"} /\ Did("ota", got)
    BY <1>12 DEF PullEnds, ctrl, Did
  <2>2. /\ ~Open("ota")' /\ (Open("diag")' <=> Open("diag"))
        /\ \A b \in Boxes : Newest(b)' = Newest(b) /\ Storing(b)' = Storing(b)
    BY <1>0, <2>1, DidCounts, Counts DEF InTurn, Open, Newest, Storing
  <2>3. WifiDue' <=> WifiDue
    BY <2>1, <2>2 DEF WifiDue, OpenConn
  <2> QED BY <1>0, <2>1, <2>2, <2>3 DEF Kept, OpenConn
<1>13. CASE \E i \in Ids : LinkUp(i) \/ ApiLink(i) \/ LinkLost(i)
  <2>1. UNCHANGED <<bleUp, ctrlPc, line, todo, mem, loopPc, got, reads, asked, done>>
    BY <1>13 DEF LinkUp, ApiLink, LinkLost, ctrl, loopv, hist
  <2> QED BY <1>0, <2>1 DEF Kept, Open, Newest, Storing, OpenConn, WifiDue
<1> QED BY <1>1, <1>2, <1>3, <1>4, <1>5, <1>6, <1>7, <1>8, <1>9, <1>10, <1>11, <1>12, <1>13, Steps

\* What was done stays as it was asked.
LEMMA AsAskedKept ==
    ASSUME NEW b, NEW i, AsAsked(b, i), bleUp' = bleUp,
           done'[b][i] = done[b][i], asked'[b][i] = asked[b][i]
    PROVE  AsAsked(b, i)'
  BY DEF AsAsked

LEMMA RunStep ==
    ASSUME Shapes, StoreInv, LoopInv, MailInv, ValuesInv, RunAsAsked, [Next]_vars
    PROVE  RunAsAsked'
<1> SUFFICES ASSUME "hurry" \notin env, "bad" \notin env,
                    NEW b \in Boxes
             PROVE  /\ Len(done'[b]) <= Len(asked'[b])
                    /\ \A i \in DOMAIN done'[b] : AsAsked(b, i)'
  BY Same DEF RunAsAsked, Without
<1>0. /\ Kept /\ InTurn /\ InTurn'
      /\ \A x \in Boxes : Len(done[x]) <= Len(asked[x]) /\ \A i \in DOMAIN done[x] : AsAsked(x, i)
  BY MailStep, Same DEF ValuesInv, MailInv, RunAsAsked, Without
<1>1. /\ Len(done[b]) \in Nat /\ Len(asked[b]) \in Nat
      /\ DOMAIN done[b] = 1 .. Len(done[b]) /\ bleUp' = bleUp
  BY Counts, Same
<1>2. CASE UNCHANGED <<asked, done>>
  BY <1>0, <1>1, <1>2, AsAskedKept
<1>3. CASE Store
  <2>1. /\ done' = done /\ Len(asked'[b]) >= Len(asked[b])
        /\ \A i \in 1 .. Len(asked[b]) : asked'[b][i] = asked[b][i]
    BY <1>1, <1>3, StoreEffect, AskedCounts
  <2>2. \A i \in DOMAIN done[b] : i \in 1 .. Len(asked[b])
    BY <1>0, <1>1
  <2>3. Len(asked'[b]) \in Nat
    BY <1>1, <1>3, AskedCounts
  <2> QED BY <1>0, <1>1, <2>1, <2>2, <2>3, AsAskedKept
<1>4. ASSUME NEW x \in Boxes, NEW r, Did(x, r), UNCHANGED asked, Open(x),
             r = IF x = "ota" \/ bleUp \/ Newest(x).op \in InSafeMode
                 THEN Newest(x) ELSE [ignored |-> Newest(x).op]
      PROVE  Len(done'[b]) <= Len(asked'[b]) /\ \A i \in DOMAIN done'[b] : AsAsked(b, i)'
  <2>1. CASE b # x
    BY <1>0, <1>1, <1>4, <2>1, DidCounts, AsAskedKept
  <2>2. CASE b = x
    <3>1. /\ Len(done'[b]) = Len(asked[b]) /\ DOMAIN done'[b] = 1 .. Len(done[b]) + 1
          /\ Len(asked[b]) = Len(done[b]) + 1
      BY <1>1, <1>4, <2>2, DidCounts DEF Open
    <3>2. \A i \in 1 .. Len(done[b]) : AsAsked(b, i)'
      BY <1>0, <1>1, <1>4, <2>2, DidCounts, AsAskedKept
    <3>3. ASSUME NEW n, n = Len(done[b]) + 1 PROVE AsAsked(b, n)'
      <4>1. done'[b][n] = r /\ asked'[b][n] = Newest(b)
        BY <1>4, <2>2, <3>1, <3>3, DidCounts DEF Newest
      <4>2. r = IF b = "ota" \/ bleUp \/ Newest(b).op \in InSafeMode
                THEN Newest(b) ELSE [ignored |-> Newest(b).op]
        BY <1>4, <2>2
      <4> QED BY <1>1, <4>1, <4>2 DEF AsAsked
    <3>4. \A i \in DOMAIN done'[b] : i \in 1 .. Len(done[b]) \/ i = Len(done[b]) + 1
      BY <1>1, <3>1
    <3>5. \A i \in DOMAIN done'[b] : AsAsked(b, i)'
      BY <3>2, <3>3, <3>4
    <3>6. Len(done'[b]) <= Len(asked'[b])
      BY <1>1, <1>4, <3>1
    <3> QED BY <3>5, <3>6
  <2> QED BY <2>1, <2>2
<1>5. CASE TakeOp /\ ~UNCHANGED <<asked, done>>
  <2>1. /\ Did("diag", [ignored |-> got.op]) /\ asked' = asked /\ loopPc = "taken"
        /\ ~bleUp /\ got.op \notin InSafeMode
    BY <1>5 DEF TakeOp, Did
  <2>2. Open("diag") /\ got.op = Newest("diag").op
    BY <1>0, <2>1 DEF InTurn
  <2> QED BY <1>4, <2>1, <2>2 DEF Boxes
<1>6. CASE Run
  <2>1. Did("diag", got) /\ asked' = asked /\ loopPc = "run" /\ reads = <<>>
    BY <1>6 DEF Run, Did
  <2>2. Open("diag") /\ got.op = Newest("diag").op /\ (bleUp \/ got.op \in InSafeMode)
    BY <1>0, <2>1 DEF InTurn, LoopInv
  <2>3. got = Newest("diag")
    <3>1. got = [f \in DOMAIN got |-> Newest("diag")[f]]
      BY <1>0, <2>1 DEF LoopInv, Kept
    <3>2. DOMAIN got = IF got.op = "conn" THEN ConnFields ELSE {"op"}
      BY <2>1, Reads DEF LoopInv
    <3> QED BY <1>0, <2>2, <3>1, <3>2, NewestConn
  <2> QED BY <1>4, <2>1, <2>2, <2>3 DEF Boxes
<1>7. CASE PullEnds
  <2>1. Did("ota", got) /\ asked' = asked /\ loopPc = "pull" /\ reads = <<>>
    BY <1>7 DEF PullEnds, Did
  <2>2. Open("ota")
    BY <1>0, <2>1 DEF InTurn
  <2>3. got = Newest("ota")
    <3>1. got = [f \in OtaFields |-> Newest("ota")[f]]
      BY <1>0, <2>1, Reads DEF LoopInv, Kept
    <3>2. PICK c \in Cmds : c.to = "ota" /\ c.what = Newest("ota")
      BY <1>0, <2>2, NewestIs DEF Boxes
    <3>3. Newest("ota") = [f \in OtaFields |-> Newest("ota")[f]]
      BY <3>2, CmdsAssumption
    <3> QED BY <3>1, <3>3
  <2> QED BY <1>4, <2>1, <2>2, <2>3 DEF Boxes
<1>8. CASE \/ Elsewhere \/ (\E c \in Cmds : RecvLine(c)) \/ SayOk
           \/ ReadOp \/ Read \/ ClearWifi \/ ConnUp \/ ConnGiveUp \/ ConnCancel
           \/ ReadFlag \/ ClearFlag
           \/ \E i \in Ids : LinkUp(i) \/ ApiLink(i) \/ LinkLost(i)
  <2>1. UNCHANGED <<asked, done>>
    BY <1>8 DEF Elsewhere, RecvLine, SayOk, ReadOp, Read, ClearWifi, ConnUp, ConnGiveUp,
       ConnCancel, ReadFlag, ClearFlag, LinkUp, ApiLink, LinkLost, hist
  <2> QED BY <1>2, <2>1
<1> QED BY <1>2, <1>3, <1>5, <1>6, <1>7, <1>8, Steps

-----------------------------------------------------------------------------
(* The links of a conn.                                                     *)

LEMMA LastKept ==
    ASSUME Shapes, NEW l, WasLast(l),
           \/ done'.diag = done.diag
           \/ \E r : Did("diag", r) /\ "addr1" \notin DOMAIN r
    PROVE  WasLast(l)'
<1>1. CASE done'.diag = done.diag
  BY <1>1 DEF WasLast
<1>2. ASSUME NEW r, Did("diag", r), "addr1" \notin DOMAIN r PROVE WasLast(l)'
  <2>1. PICK m \in DOMAIN done.diag :
           /\ "addr1" \in DOMAIN done.diag[m]
           /\ \A j \in DOMAIN done.diag : "addr1" \in DOMAIN done.diag[j] => j <= m
           /\ l = <<done.diag[m].addr1, done.diag[m].addr2>>
    BY DEF WasLast
  <2>2. /\ Len(done.diag) \in Nat /\ DOMAIN done.diag = 1 .. Len(done.diag)
        /\ DOMAIN done'.diag = 1 .. Len(done.diag) + 1
        /\ \A j \in 1 .. Len(done.diag) : done'.diag[j] = done.diag[j]
        /\ done'.diag[Len(done.diag) + 1] = r
    BY <1>2, Counts, DidCounts DEF Boxes
  <2>3. m \in DOMAIN done'.diag /\ done'.diag[m] = done.diag[m]
    BY <2>1, <2>2
  <2>4. \A j \in DOMAIN done'.diag : "addr1" \in DOMAIN done'.diag[j] => j <= m
    <3> SUFFICES ASSUME NEW j \in DOMAIN done'.diag, "addr1" \in DOMAIN done'.diag[j]
                 PROVE  j <= m
      OBVIOUS
    <3>1. j \in 1 .. Len(done.diag)
      BY <1>2, <2>2
    <3> QED BY <2>1, <2>2, <3>1
  <2> QED BY <2>1, <2>3, <2>4 DEF WasLast
<1> QED BY <1>1, <1>2

LEMMA LastNew ==
    ASSUME Shapes, NEW r, Did("diag", r), "addr1" \in DOMAIN r,
           NEW l, l = <<r.addr1, r.addr2>>
    PROVE  WasLast(l)'
<1>1. /\ Len(done.diag) \in Nat /\ DOMAIN done'.diag = 1 .. Len(done.diag) + 1
      /\ done'.diag[Len(done.diag) + 1] = r
  BY Counts, DidCounts DEF Boxes
<1>2. \A j \in DOMAIN done'.diag : j <= Len(done.diag) + 1
  BY <1>1
<1>3. Len(done.diag) + 1 \in DOMAIN done'.diag
  BY <1>1
<1> QED BY <1>1, <1>2, <1>3 DEF WasLast

LEMMA LastIs ==
    ASSUME Shapes, NEW l, WasLast(l)
    PROVE  LastConn = l
<1>1. PICK m \in DOMAIN done.diag :
         /\ "addr1" \in DOMAIN done.diag[m]
         /\ \A j \in DOMAIN done.diag : "addr1" \in DOMAIN done.diag[j] => j <= m
         /\ l = <<done.diag[m].addr1, done.diag[m].addr2>>
  BY DEF WasLast
<1> DEFINE ran == {i \in DOMAIN done.diag : "addr1" \in DOMAIN done.diag[i]}
           last == CHOOSE i \in ran : \A j \in ran : j <= i
<1>2. ran \subseteq Nat
  BY Counts DEF Boxes
<1>3. m \in ran /\ \A j \in ran : j <= m
  BY <1>1
<1>4. last \in ran /\ \A j \in ran : j <= last
  <2> HIDE DEF ran
  <2> QED BY <1>3
<1>5. last = m
  <2> HIDE DEF ran, last
  <2> QED BY <1>2, <1>3, <1>4
<1>6. LastConn = <<done.diag[last].addr1, done.diag[last].addr2>>
  BY DEF LastConn
<1> QED BY <1>1, <1>5, <1>6

\* The least of the conn ids that have a link is one.
LEMMA LowestIs ==
    ASSUME \E i \in Ids : links[i] # NoLink
    PROVE  LowestLink \in Ids
<1> DEFINE S == {i \in Ids : links[i] # NoLink}
<1>1. PICK i \in S : \A j \in S : ~(j < i)
  <2>1. S \in SUBSET Nat /\ S # {}
    BY IdsAssumption
  <2> HIDE DEF S
  <2> QED BY <2>1, Smallest
<1>2. i \in Ids /\ links[i] # NoLink /\ \A j \in Ids : j < i => links[j] = NoLink
  BY <1>1
<1> QED BY <1>2 DEF LowestLink

LEMMA LinksStep ==
    ASSUME Types, Shapes, StoreInv, LoopInv, MailInv, LinksInv, [Next]_vars
    PROVE  LinksInv'
<1> SUFFICES ASSUME "hurry" \notin env, "again" \notin env,
                    "beside" \notin env, "stale" \notin env
             PROVE  OwnLinks'
  BY Same DEF LinksInv, Without
<1>0. OwnLinks /\ InTurn /\ InTurn' /\ diagConnId \in Ids \cup {NoId}
  BY MailStep, Same DEF LinksInv, MailInv, Without, Types
<1> USE DEF Boxes
\* No link is made, none is begun, and no conn is asked for.
<1>1. ASSUME \/ done'.diag = done.diag
             \/ \E r : Did("diag", r) /\ "addr1" \notin DOMAIN r,
             \A i \in Ids : links'[i] \in {links[i], NoLink},
             diagConnId' \in {diagConnId, NoId}, loopPc' = "wait" => loopPc = "wait",
             \/ pending' = NoLink
             \/ /\ pending' = pending
                /\ loopPc \in {"wait", "cancel"} => loopPc' \in {"wait", "cancel"},
             OpenConn' \/ (Storing("diag") /\ IsConn(line))' =>
                OpenConn \/ (Storing("diag") /\ IsConn(line)) \/ \A i \in Ids : links[i] = NoLink
      PROVE  OwnLinks'
  <2>1. \A i \in Ids : links'[i] # NoLink /\ WasLast(links[i])
                          => WasLast(links[i])' /\ links'[i] = links[i]
    BY <1>1, LastKept
  <2>2. pending' # NoLink => /\ loopPc' \in {"wait", "cancel"} /\ WasLast(pending)'
                             /\ pending' = pending
    BY <1>0, <1>1, LastKept DEF OwnLinks
  <2>3. loopPc' = "wait" => \A i \in Ids : links'[i] # NoLink => WasLast(links[i])'
    BY <1>0, <1>1, <2>1 DEF OwnLinks
  <2>4. diagConnId' # NoId /\ links'[diagConnId'] # NoLink => WasLast(links[diagConnId])'
    <3> SUFFICES ASSUME diagConnId' # NoId, links'[diagConnId'] # NoLink
                 PROVE  WasLast(links[diagConnId])'
      OBVIOUS
    <3>1. diagConnId' = diagConnId /\ diagConnId \in Ids
      BY <1>0, <1>1
    <3>2. links[diagConnId] # NoLink /\ WasLast(links[diagConnId])
      BY <1>0, <1>1, <3>1 DEF OwnLinks
    <3>3. WasLast(links[diagConnId])' /\ links'[diagConnId] = links[diagConnId]
      BY <1>1, <3>1, <3>2, LastKept
    <3> QED BY <3>1, <3>3 DEF WasLast
  <2>5. pending' # NoLink \/ OpenConn' \/ (Storing("diag") /\ IsConn(line))'
           => \A i \in Ids : links'[i] = NoLink
    BY <1>0, <1>1, <2>2 DEF OwnLinks
  <2> QED BY <2>2, <2>3, <2>4, <2>5 DEF OwnLinks
<1>2. CASE \/ Elsewhere \/ SayOk \/ ReadOp \/ Read \/ ClearWifi \/ ReadFlag \/ ClearFlag
  <2>1. /\ UNCHANGED <<links, pending, diagConnId, asked, done>>
        /\ loopPc \in {"wait", "cancel"} => loopPc' = loopPc
        /\ loopPc' = "wait" => loopPc = "wait"
        /\ Storing("diag")' => Storing("diag") /\ line' = line
    BY <1>2 DEF Elsewhere, SayOk, ReadOp, Read, ClearWifi, ReadFlag, ClearFlag, ctrl, loopv,
       ble, hist, Storing
  <2>2. OpenConn' <=> OpenConn
    BY <2>1 DEF OpenConn, Open, Newest
  <2> QED BY <1>1, <2>1, <2>2
<1>3. ASSUME NEW c \in Cmds, RecvLine(c) PROVE OwnLinks'
  <2>1. /\ UNCHANGED <<links, pending, diagConnId, asked, done, loopPc>>
        /\ ctrlPc' = "store" => line' = c
        /\ IsConn(c) => \A i \in Ids : links[i] = NoLink
    BY <1>3 DEF RecvLine, ble, loopv, Allowed, IsConn
  <2>2. OpenConn' <=> OpenConn
    BY <2>1 DEF OpenConn, Open, Newest
  <2>3. (Storing("diag") /\ IsConn(line))' => \A i \in Ids : links[i] = NoLink
    BY <2>1 DEF Storing, IsConn
  <2> QED BY <1>1, <2>1, <2>2, <2>3
<1>4. CASE Store
  <2>1. /\ UNCHANGED <<links, pending, diagConnId, done, loopPc, ctrlPc, line>>
        /\ todo # <<>> /\ ctrlPc = "store"
    BY <1>4, StoreEffect
  <2>2. (Storing("diag") /\ IsConn(line))' => Storing("diag") /\ IsConn(line)
    BY <2>1 DEF Storing, IsConn
  <2>3. OpenConn' => OpenConn \/ (Storing("diag") /\ IsConn(line))
    <3>1. CASE line.to = "diag" /\ Head(todo) \in {"op", "flag"}
      <4>1. Newest("diag")' = line.what
        BY <1>4, <3>1, AskedCounts
      <4> QED BY <2>1, <3>1, <4>1 DEF OpenConn, Storing, IsConn
    <3>2. CASE ~(line.to = "diag" /\ Head(todo) \in {"op", "flag"})
      <4>1. asked'.diag = asked.diag
        BY <1>4, <3>2, AskedCounts
      <4> QED BY <2>1, <4>1 DEF OpenConn, Open, Newest
    <3> QED BY <3>1, <3>2
  <2> QED BY <1>1, <2>1, <2>2, <2>3
<1>5. CASE TakeOp
  <2>1. /\ UNCHANGED <<links, pending, diagConnId, asked, ctrlPc, line, todo>>
        /\ loopPc = "taken" /\ loopPc' # "wait"
        /\ done' = done \/ Did("diag", [ignored |-> got.op])
    BY <1>5 DEF TakeOp, ctrl, ble, Did
  <2>2. Open("diag") /\ ~Storing("diag") /\ ~Storing("diag")'
    BY <1>0, <2>1 DEF InTurn, Storing
  <2>3. OpenConn' => OpenConn
    BY <2>1, <2>2 DEF OpenConn, Newest
  <2>4. "addr1" \notin DOMAIN [ignored |-> got.op]
    OBVIOUS
  <2> QED BY <1>1, <2>1, <2>2, <2>3, <2>4
<1>6. CASE Run
  <2>1. /\ UNCHANGED <<asked, ctrlPc, line, todo>> /\ loopPc = "run" /\ reads = <<>>
        /\ Did("diag", got) /\ loopPc' \in {"wait", "ota", "reset"}
    BY <1>6 DEF Run, ctrl, Did
  <2>2. Open("diag") /\ ~Storing("diag") /\ ~Storing("diag")' /\ got.op = Newest("diag").op
    BY <1>0, <2>1 DEF InTurn, Storing
  <2>3. ~OpenConn'
    BY <2>1, <2>2, DidCounts, Counts DEF OpenConn, Open
  <2>4. CASE got.op = "conn"
    <3>1. /\ UNCHANGED links /\ loopPc' = "wait" /\ diagConnId' = NoId
          /\ pending' \in {<<got.addr1, got.addr2>>, NoLink}
      BY <1>6, <2>4 DEF Run
    <3>2. \A i \in Ids : links[i] = NoLink
      BY <1>0, <2>2, <2>4 DEF OwnLinks, OpenConn
    <3>3. "addr1" \in DOMAIN got
      BY <2>1, <2>4, Reads DEF LoopInv, ConnFields
    <3>4. ASSUME NEW l, l = <<got.addr1, got.addr2>> PROVE WasLast(l)'
      BY <2>1, <3>3, <3>4, LastNew
    <3>5. pending' # NoLink => WasLast(pending)'
      BY <3>1, <3>4 DEF WasLast
    <3> QED BY <3>1, <3>2, <3>5 DEF OwnLinks
  <2>5. CASE got.op # "conn"
    <3>1. /\ UNCHANGED pending /\ \A i \in Ids : links'[i] \in {links[i], NoLink}
          /\ diagConnId' \in {diagConnId, NoId} /\ loopPc' # "wait"
      BY <1>6, <2>5 DEF Run, ble
    <3>2. "addr1" \notin DOMAIN got
      BY <2>1, <2>5 DEF LoopInv
    <3>3. loopPc \notin {"wait", "cancel"}
      BY <2>1
    <3> QED BY <1>1, <2>1, <2>2, <2>3, <3>1, <3>2, <3>3
  <2> QED BY <2>4, <2>5
<1>7. CASE ConnUp \/ ConnGiveUp \/ ConnCancel
  <2>1. UNCHANGED <<links, asked, done, ctrlPc, line, todo>>
    BY <1>7 DEF ConnUp, ConnGiveUp, ConnCancel, ble, ctrl, hist
  <2>2. /\ OpenConn' <=> OpenConn
        /\ (Storing("diag") /\ IsConn(line))' = (Storing("diag") /\ IsConn(line))
    BY <2>1 DEF OpenConn, Open, Newest, Storing, IsConn
  <2>3. CASE ConnUp
    <3>1. /\ loopPc = "wait" /\ \E i \in Ids : links[i] # NoLink
          /\ diagConnId' = LowestLink /\ loopPc' = "ota" /\ pending' = pending
      BY <2>3 DEF ConnUp
    <3>2. pending' = NoLink
      BY <1>0, <3>1 DEF OwnLinks
    <3>3. diagConnId' \in Ids
      BY <3>1, LowestIs
    <3>4. links'[diagConnId'] # NoLink => WasLast(links'[diagConnId'])
      BY <1>0, <2>1, <3>1, <3>3 DEF OwnLinks
    <3>5. links'[diagConnId'] # NoLink => WasLast(links[diagConnId])'
      BY <2>1, <3>4 DEF WasLast
    <3> QED BY <1>0, <2>1, <2>2, <3>1, <3>2, <3>5 DEF OwnLinks
  <2>4. CASE ConnGiveUp
    BY <1>1, <2>1, <2>2, <2>4 DEF ConnGiveUp, ble
  <2>5. CASE ConnCancel
    BY <1>1, <2>1, <2>2, <2>5 DEF ConnCancel
  <2> QED BY <1>7, <2>3, <2>4, <2>5
<1>8. CASE PullEnds
  <2>1. /\ UNCHANGED <<links, pending, diagConnId, asked, ctrlPc, line, todo>>
        /\ loopPc = "pull" /\ loopPc' # "wait" /\ Did("ota", got)
    BY <1>8 DEF PullEnds, ctrl, ble, Did
  <2>2. done'.diag = done.diag
    BY <2>1, DidCounts
  <2>3. /\ OpenConn' <=> OpenConn
        /\ (Storing("diag") /\ IsConn(line))' = (Storing("diag") /\ IsConn(line))
    BY <2>1, <2>2 DEF OpenConn, Open, Newest, Storing, IsConn
  <2> QED BY <1>1, <2>1, <2>2, <2>3
<1>9. ASSUME NEW i \in Ids, LinkUp(i) \/ ApiLink(i) \/ LinkLost(i) PROVE OwnLinks'
  <2>1. UNCHANGED <<asked, done, ctrlPc, line, todo, loopPc, diagConnId>>
    BY <1>9 DEF LinkUp, ApiLink, LinkLost, ctrl, loopv, hist
  <2>2. /\ (OpenConn' <=> OpenConn)
        /\ (Storing("diag") /\ IsConn(line))' <=> (Storing("diag") /\ IsConn(line))
    BY <2>1 DEF OpenConn, Open, Newest, Storing, IsConn
  <2>3. \A l : WasLast(l)' <=> WasLast(l)
    BY <2>1 DEF WasLast
  <2>4. CASE LinkLost(i)
    BY <1>1, <2>1, <2>2, <2>4 DEF LinkLost, Shapes
  <2>5. CASE LinkUp(i)
    <3>1. /\ pending # NoLink /\ pending' = NoLink
          /\ \A j \in Ids : links'[j] = IF j = i THEN pending ELSE links[j]
      BY <2>5 DEF LinkUp, Shapes
    <3>2. /\ WasLast(pending) /\ \A j \in Ids : links[j] = NoLink
          /\ ~OpenConn /\ ~Storing("diag")
      BY <1>0, <3>1 DEF OwnLinks, InTurn, OpenConn
    <3>3. \A j \in Ids : links'[j] # NoLink => WasLast(links'[j])
      BY <3>1, <3>2
    <3>4. \A j \in Ids : links'[j] # NoLink => WasLast(links[j])'
      BY <2>1, <3>3 DEF WasLast
    <3>5. diagConnId' # NoId /\ links'[diagConnId'] # NoLink => WasLast(links[diagConnId])'
      BY <1>0, <2>1, <3>3 DEF WasLast
    <3> QED BY <2>2, <3>1, <3>2, <3>4, <3>5 DEF OwnLinks
  <2>6. CASE ApiLink(i)
    <3>1. /\ ~ConnDue /\ i # diagConnId /\ pending' = pending
          /\ \A j \in Ids \ {i} : links'[j] = links[j]
      BY <2>6 DEF ApiLink, Allowed, Shapes
    <3>2. loopPc \notin {"wait", "cancel"} /\ ~IsConn(line)
      BY <3>1 DEF ConnDue
    <3>3. ~OpenConn
      BY <3>1, Counts DEF ConnDue, OpenConn, Open, Newest
    <3>4. pending = NoLink
      BY <1>0, <3>2 DEF OwnLinks
    <3>5. diagConnId' # NoId /\ links'[diagConnId'] # NoLink => WasLast(links'[diagConnId'])
      BY <1>0, <2>1, <3>1 DEF OwnLinks
    <3>6. diagConnId' # NoId /\ links'[diagConnId'] # NoLink => WasLast(links[diagConnId])'
      BY <2>1, <3>5 DEF WasLast
    <3> QED BY <2>1, <2>2, <3>1, <3>2, <3>3, <3>4, <3>6 DEF OwnLinks
  <2> QED BY <1>9, <2>4, <2>5, <2>6
<1> QED BY <1>2, <1>3, <1>4, <1>5, <1>6, <1>7, <1>8, <1>9, Steps

-----------------------------------------------------------------------------
(* The ring of lines: its numbers wrap at SeqMod, its slots at LogN.        *)

LEMMA Wraps ==
    ASSUME NEW S \in Nat \ {0}, NEW r \in 0 .. S - 1
    PROVE  r % S = r /\ (r + S) % S = r
<1>1. r % S = r
  OBVIOUS
<1>2. (r + S) % S = r
  <2> DEFINE q == (r + S) \div S
  <2>1. r + S = S * q + ((r + S) % S) /\ (r + S) % S \in 0 .. S - 1 /\ q \in Nat
    OBVIOUS
  <2>2. q >= 2 => S * q >= 2 * S
    BY <2>1
  <2>3. q # 0
    BY <2>1
  <2> HIDE DEF q
  <2> QED BY <2>1, <2>2, <2>3
<1> QED BY <1>1, <1>2

LEMMA Numbers ==
    ASSUME NEW n \in 0 .. SeqMod - 1
    PROVE  /\ Plus(n) = IF n + 1 = SeqMod THEN 0 ELSE n + 1
           /\ Plus(n) \in 0 .. SeqMod - 1
           /\ \A k \in 0 .. SeqMod :
                  (n + k) % SeqMod = IF n + k < SeqMod THEN n + k ELSE n + k - SeqMod
<1>1. SeqMod \in Nat \ {0} /\ SeqMod > 1
  BY LogAssumption
<1>2. \A k \in 0 .. SeqMod : (n + k) % SeqMod = IF n + k < SeqMod THEN n + k ELSE n + k - SeqMod
  <2> SUFFICES ASSUME NEW k \in 0 .. SeqMod
               PROVE  (n + k) % SeqMod = IF n + k < SeqMod THEN n + k ELSE n + k - SeqMod
    OBVIOUS
  <2>1. CASE n + k < SeqMod
    BY <1>1, <2>1
  <2>2. CASE n + k >= SeqMod
    <3>1. n + k - SeqMod \in 0 .. SeqMod - 1
      BY <1>1, <2>2
    <3>2. ((n + k - SeqMod) + SeqMod) % SeqMod = n + k - SeqMod
      BY <1>1, <3>1, Wraps
    <3> QED BY <1>1, <2>2, <3>2
  <2> QED BY <1>1, <2>1, <2>2
<1> QED BY <1>1, <1>2 DEF Plus

LEMMA Gap ==
    ASSUME NEW m \in 0 .. SeqMod - 1, NEW n \in 0 .. SeqMod - 1
    PROVE  (m + SeqMod - n) % SeqMod = IF n <= m THEN m - n ELSE m + SeqMod - n
<1>1. SeqMod \in Nat \ {0} /\ SeqMod - n \in 0 .. SeqMod /\ m + SeqMod - n = m + (SeqMod - n)
  BY LogAssumption
<1>2. (m + (SeqMod - n)) % SeqMod = IF m + (SeqMod - n) < SeqMod
                                    THEN m + (SeqMod - n) ELSE m + (SeqMod - n) - SeqMod
  BY <1>1, Numbers
<1> QED BY <1>1, <1>2

LEMMA DueIs ==
    ASSUME logSeq \in 0 .. SeqMod - 1, NEW n \in 0 .. SeqMod - 1
    PROVE  /\ Due(n) = IF n <= logSeq THEN logSeq - n ELSE logSeq + SeqMod - n
           /\ Due(n) \in 0 .. SeqMod - 1
<1>1. Due(n) = IF n <= logSeq THEN logSeq - n ELSE logSeq + SeqMod - n
  BY Gap DEF Due
<1> QED BY <1>1, LogAssumption

\* From n, the number Due(n) later is the next one.
LEMMA DueEnd ==
    ASSUME logSeq \in 0 .. SeqMod - 1, NEW n \in 0 .. SeqMod - 1
    PROVE  (n + Due(n)) % SeqMod = logSeq
<1>1. SeqMod \in Nat \ {0}
  BY LogAssumption
<1>2. Due(n) \in 0 .. SeqMod /\ Due(n) = IF n <= logSeq THEN logSeq - n ELSE logSeq + SeqMod - n
  BY <1>1, DueIs
<1>3. (n + Due(n)) % SeqMod = IF n + Due(n) < SeqMod THEN n + Due(n) ELSE n + Due(n) - SeqMod
  BY <1>2, Numbers
<1> QED BY <1>1, <1>2, <1>3

LEMMA Slots ==
    /\ \A n \in Nat : Slot(n) \in 0 .. LogN - 1
    /\ \A a, b \in Nat : a < b /\ b < a + LogN => Slot(a) # Slot(b)
    /\ \A a \in Nat : Slot(a + LogN) = Slot(a)
<1>1. \A n \in Nat : Slot(n) \in 0 .. LogN - 1
  BY LogAssumption DEF Slot
<1>2. ASSUME NEW a \in Nat, NEW b \in Nat, a <= b, Slot(a) = Slot(b)
      PROVE  \E d \in Int : b - a = LogN * d
  <2> DEFINE p == a \div LogN  q == b \div LogN
  <2>1. /\ a = LogN * p + (a % LogN) /\ b = LogN * q + (b % LogN)
        /\ p \in Nat /\ q \in Nat /\ a % LogN \in Nat
    BY LogAssumption
  <2> HIDE DEF p, q
  <2>2. b - a = LogN * (q - p)
    BY <1>2, <2>1, LogAssumption DEF Slot
  <2> QED BY <2>1, <2>2
<1>3. ASSUME NEW a \in Nat, NEW b \in Nat, a < b, b < a + LogN PROVE Slot(a) # Slot(b)
  <2> SUFFICES ASSUME Slot(a) = Slot(b) PROVE FALSE
    OBVIOUS
  <2>1. PICK d \in Int : b - a = LogN * d
    BY <1>2, <1>3
  <2>2. d >= 1 => LogN * d >= LogN
    BY LogAssumption
  <2>3. d <= 0 => LogN * d <= 0
    BY LogAssumption
  <2> QED BY <1>3, <2>1, <2>2, <2>3, LogAssumption
<1>4. ASSUME NEW a \in Nat PROVE Slot(a + LogN) = Slot(a)
  <2> DEFINE p == a \div LogN  q == (a + LogN) \div LogN
  <2>1. /\ a = LogN * p + (a % LogN) /\ a + LogN = LogN * q + ((a + LogN) % LogN)
        /\ p \in Nat /\ q \in Nat /\ a % LogN \in 0 .. LogN - 1
        /\ (a + LogN) % LogN \in 0 .. LogN - 1
    BY LogAssumption
  <2> HIDE DEF p, q
  <2>2. ((a + LogN) % LogN) - (a % LogN) = LogN * (p + 1 - q)
    BY <2>1, LogAssumption
  <2>3. p + 1 - q >= 1 => LogN * (p + 1 - q) >= LogN
    BY <2>1, LogAssumption
  <2>4. p + 1 - q <= -1 => LogN * (p + 1 - q) <= -LogN
    BY <2>1, LogAssumption
  <2>5. p + 1 - q = 0
    BY <2>1, <2>2, <2>3, <2>4, LogAssumption
  <2> QED BY <2>1, <2>2, <2>5, LogAssumption DEF Slot
<1> QED BY <1>1, <1>3, <1>4

\* What the writers and the reader of the log do in a step of Control.
LEMMA LogSteps ==
    ASSUME [Next]_vars
    PROVE  \/ UNCHANGED logVars
           \/ \E w \in Writers :
                 \/ Call(w) /\ (Overlaps(w) => "race" \in env) /\ (Laps(w) => "lap" \in env)
                 \/ PrintBegin(w) \/ PrintEnd(w) \/ LoadSeq(w) \/ StoreSeq(w)
           \/ LogBegin /\ (BeginsLapped => "lap" \in env)
           \/ Measure \/ SendLine \/ LogEnd
<1>1. CASE LogStep
  BY <1>1 DEF LogStep, Allowed
<1>2. CASE \E w \in Writers : LogCall(w) \/ Logging(w)
  BY <1>2 DEF LogCall, Logging, Allowed
<1>3. CASE \/ Accept \/ CloseSocket \/ RecvByte \/ RecvNoLine \/ RecvNothing
           \/ (\E c \in Cmds : RecvLine(c)) \/ Store \/ SayOk
  BY <1>3 DEF Accept, CloseSocket, RecvByte, RecvNoLine, RecvNothing, RecvLine, Store, SayOk
<1>4. CASE LoopTask \/ Stack
  BY <1>4 DEF LoopTask, Stack, ReadOp, TakeOp, Read, ClearWifi, Run, ConnUp, ConnGiveUp, ConnCancel,
     ReadFlag, ClearFlag, PullEnds, LinkUp, ApiLink, LinkLost
<1>5. CASE UNCHANGED vars
  BY <1>5 DEF vars
<1> QED BY <1>1, <1>2, <1>3, <1>4, <1>5 DEF Next, Clients, CtrlTask

LEMMA Lines ==
    ASSUME LogTypes
    PROVE  /\ \A n \in Nat : Slot(n) \in 0 .. LogN - 1
           /\ \A n \in Nat : logRing[Slot(n)].line \in 0 .. MaxLines + 1
           /\ \A w \in Writers : wseq[w] \in Nat
           /\ logSeq \in Nat /\ sq \in Nat
<1>1. \A n \in 0 .. LogN - 1 :
         logRing[n] \in [line : 0 .. MaxLines + 1, by : Writers \cup {"nobody"}]
  BY DEF LogTypes
<1>2. \A n \in 0 .. LogN - 1 : logRing[n].line \in 0 .. MaxLines + 1
  BY <1>1
<1>3. (\A w \in Writers : wseq[w] \in Nat) /\ logSeq \in Nat /\ sq \in Nat
  BY LogAssumption DEF LogTypes
<1> QED BY <1>2, <1>3, Slots

LEMMA LogTypesStep ==
    ASSUME LogTypes, [Next]_vars
    PROVE  LogTypes'
<1> USE LogAssumption
<1>1. CASE UNCHANGED logVars
  BY <1>1 DEF logVars, writing, reader, LogTypes
<1>2. ASSUME NEW w \in Writers, Call(w) PROVE LogTypes'
  BY <1>2 DEF Call, WStep, reader, LogTypes
<1>3. ASSUME NEW w \in Writers, PrintBegin(w) PROVE LogTypes'
  <2>1. Garbled \in 0 .. MaxLines + 1 /\ Slot(wseq[w]) \in 0 .. LogN - 1
    BY Lines DEF Garbled
  <2> QED BY <1>3, <2>1 DEF PrintBegin, WStep, reader, LogTypes
<1>4. ASSUME NEW w \in Writers, PrintEnd(w) PROVE LogTypes'
  <2>1. Garbled \in 0 .. MaxLines + 1 /\ Slot(wseq[w]) \in 0 .. LogN - 1
    BY Lines DEF Garbled
  <2>2. wline[w] \in 0 .. MaxLines + 1
    BY DEF LogTypes
  <2> QED BY <1>4, <2>1, <2>2 DEF PrintEnd, WStep, reader, LogTypes
<1>5. ASSUME NEW w \in Writers, LoadSeq(w) PROVE LogTypes'
  BY <1>5 DEF LoadSeq, WStep, reader, LogTypes
<1>6. ASSUME NEW w \in Writers, StoreSeq(w) PROVE LogTypes'
  <2>1. Plus(wseq[w]) \in 0 .. SeqMod - 1
    BY Numbers DEF LogTypes
  <2>2. NoLine \in 0 .. MaxLines /\ 0 \in 0 .. SeqMod - 1
    BY DEF NoLine
  <2> QED BY <1>6, <2>1, <2>2 DEF StoreSeq, WStep, reader, LogTypes
<1>7. CASE LogBegin
  <2>1. Oldest \in 0 .. SeqMod - 1
    BY DEF Oldest, LogTypes
  <2> QED BY <1>7, <2>1 DEF LogBegin, writing, LogTypes
<1>8. CASE Measure
  <2>1. logRing[Slot(sq)].line \in 0 .. MaxLines + 2
    BY Lines
  <2> QED BY <1>8, <2>1 DEF Measure, writing, LogTypes
<1>9. CASE SendLine
  <2>1. Plus(sq) \in 0 .. SeqMod - 1
    BY Numbers DEF LogTypes
  <2>2. /\ Unread \in 0 .. MaxLines + 2
        /\ (IF logRing[Slot(sq)].line = held THEN held ELSE Garbled) \in 0 .. MaxLines + 2
    BY DEF Garbled, Unread, LogTypes
  <2>3. told' \in Seq(0 .. MaxLines + 2)
    BY <1>9, <2>2, AppendProperties DEF SendLine, LogTypes
  <2> QED BY <1>9, <2>1, <2>2, <2>3 DEF SendLine, writing, LogTypes
<1>10. CASE LogEnd
  <2>1. <<>> \in Seq(0 .. MaxLines + 2) /\ 0 \in 0 .. SeqMod - 1
    OBVIOUS
  <2> QED BY <1>10, <2>1 DEF LogEnd, writing, LogTypes
<1> QED BY <1>1, <1>2, <1>3, <1>4, <1>5, <1>6, <1>7, <1>8, <1>9, <1>10, LogSteps

(* With one writer at a time, the ring holds the last lines under their     *)
(* numbers.                                                                 *)
LEMMA PrintingAlone ==
    ASSUME LogTypes, OneWriter, RingInv, NEW w \in Writers,
           PrintBegin(w) \/ PrintEnd(w) \/ LoadSeq(w)
    PROVE  OneWriter' /\ RingInv'
<1>1. /\ wpc[w] # "idle" /\ ~Quiet /\ wseq[w] = logSeq /\ wline[w] = logged + 1
      /\ \A v \in Writers \ {w} : wpc[v] = "idle" /\ wpc'[v] = "idle"
  BY DEF PrintBegin, PrintEnd, LoadSeq, WStep, OneWriter, Quiet, LogTypes
<1>2. /\ UNCHANGED <<logSeq, lines, logged, wline>> /\ wseq' = wseq /\ wpc'[w] # "idle" /\ ~Quiet'
      /\ wpc'[w] = CASE PrintBegin(w) -> "printing"
                     [] PrintEnd(w)   -> "load"
                     [] LoadSeq(w)    -> "store"
  BY <1>1 DEF PrintBegin, PrintEnd, LoadSeq, WStep, Quiet, LogTypes
<1>3. /\ \A n \in Nat : Slot(n) # Slot(logSeq) => logRing'[Slot(n)] = logRing[Slot(n)]
      /\ PrintBegin(w) => logRing'[Slot(logSeq)].by = w
      /\ PrintEnd(w) => logRing'[Slot(logSeq)].line = logged + 1
      /\ LoadSeq(w) => logRing' = logRing
  <2>0. /\ \A n \in Nat : Slot(n) \in 0 .. LogN - 1
        /\ logSeq \in Nat /\ logRing = [n \in 0 .. LogN - 1 |-> logRing[n]]
    BY Lines DEF LogTypes
  <2>1. CASE PrintBegin(w)
    BY <1>1, <2>0, <2>1 DEF PrintBegin, PrintEnd, LoadSeq, WStep
  <2>2. CASE PrintEnd(w)
    <3>1. logRing[Slot(logSeq)].by = w
      BY <2>2 DEF PrintEnd, WStep, OneWriter
    <3>2. logRing' = [logRing EXCEPT ![Slot(logSeq)].line = logged + 1]
      BY <1>1, <2>2, <3>1 DEF PrintEnd
    <3>3. ~PrintBegin(w) /\ ~LoadSeq(w)
      BY <2>2 DEF PrintBegin, PrintEnd, LoadSeq, WStep
    <3>4. logRing[Slot(logSeq)] \in [line : 0 .. MaxLines + 1, by : Writers \cup {"nobody"}]
      BY <2>0 DEF LogTypes
    <3> QED BY <2>0, <3>2, <3>3, <3>4
  <2>3. CASE LoadSeq(w)
    BY <2>3 DEF PrintBegin, PrintEnd, LoadSeq, WStep
  <2> QED BY <2>1, <2>2, <2>3
<1>4. OneWriter'
  BY <1>1, <1>2, <1>3 DEF OneWriter, PrintBegin, PrintEnd, LoadSeq, WStep
<1>5. RingInv'
  <2>1. ASSUME NEW n \in 0 .. logSeq - 1, logSeq - n < LogN
        PROVE  logRing'[Slot(n)].line = logged + 1 - (logSeq - n)
    <3>1. n \in Nat /\ logSeq \in Nat /\ Slot(n) # Slot(logSeq)
      BY <2>1, Slots, Lines, LogAssumption
    <3> QED BY <1>3, <2>1, <3>1 DEF RingInv
  <2> QED BY <1>1, <1>2, <2>1 DEF RingInv
<1> QED BY <1>4, <1>5

LEMMA CallAlone ==
    ASSUME LogTypes, OneWriter, RingInv, NEW w \in Writers, Call(w), ~Overlaps(w)
    PROVE  OneWriter' /\ RingInv'
<1>1. \A v \in Writers : wpc[v] = "idle"
  BY DEF Overlaps, Call, WStep
<1>2. /\ \A v \in Writers : wpc'[v] = IF v = w THEN "print" ELSE "idle"
      /\ UNCHANGED <<logRing, logSeq, logged>> /\ lines' = logged + 1
      /\ wseq'[w] = logSeq /\ wline'[w] = logged + 1
  BY <1>1 DEF Call, WStep, LogTypes, OneWriter, Quiet
<1>3. ~Quiet' /\ Quiet
  BY <1>1, <1>2 DEF Quiet
<1> QED BY <1>2, <1>3 DEF OneWriter, RingInv

LEMMA StoreAlone ==
    ASSUME LogTypes, OneWriter, RingInv, NEW w \in Writers, StoreSeq(w)
    PROVE  OneWriter' /\ RingInv'
<1>1. /\ wpc[w] = "store" /\ ~Quiet
      /\ wseq[w] = logSeq /\ logRing[Slot(logSeq)].line = logged + 1 /\ lines = logged + 1
      /\ \A v \in Writers \ {w} : wpc[v] = "idle"
  BY DEF StoreSeq, WStep, OneWriter, Quiet
<1>2. /\ \A v \in Writers : wpc'[v] = "idle"
      /\ UNCHANGED <<logRing, lines>> /\ logSeq' = Plus(logSeq) /\ logged' = logged + 1
  BY <1>1 DEF StoreSeq, WStep, LogTypes
<1>3. Quiet'
  BY <1>2 DEF Quiet
<1>4. OneWriter'
  BY <1>1, <1>2, <1>3 DEF OneWriter
<1>5. logSeq \in 0 .. SeqMod - 1 /\ logged \in Nat
      /\ logSeq' = IF logSeq + 1 = SeqMod THEN 0 ELSE logSeq + 1
  BY <1>2, Numbers DEF LogTypes
<1>6. logSeq' <= logged' /\ (logged' < SeqMod => logSeq' = logged')
  BY <1>2, <1>5, LogAssumption DEF RingInv
<1>7. ASSUME NEW n \in 0 .. logSeq' - 1, logSeq' - n <= LogN
      PROVE  logRing'[Slot(n)].line = logged' + 1 - (logSeq' - n)
  <2>1. logSeq' = logSeq + 1 /\ n \in 0 .. logSeq
    BY <1>5, <1>7
  <2>2. CASE n = logSeq
    BY <1>1, <1>2, <1>5, <2>1, <2>2
  <2>3. CASE n # logSeq
    <3>1. n \in 0 .. logSeq - 1 /\ logSeq - n < LogN
      BY <1>5, <1>7, <2>1, <2>3, LogAssumption
    <3>2. logRing[Slot(n)].line = logged + 1 - (logSeq - n)
      BY <3>1 DEF RingInv
    <3> QED BY <1>2, <1>5, <2>1, <3>1, <3>2
  <2> QED BY <2>2, <2>3
<1>8. \A n \in 0 .. logSeq' - 1 : logSeq' - n < LogN \/ (logSeq' - n = LogN /\ Quiet')
         => logRing'[Slot(n)].line = logged' + 1 - (logSeq' - n)
  BY <1>5, <1>7, LogAssumption
<1> QED BY <1>4, <1>6, <1>8 DEF RingInv

LEMMA RingStep ==
    ASSUME LogTypes, OneWriter, RingInv, "race" \notin env, [Next]_vars
    PROVE  OneWriter' /\ RingInv'
<1>1. CASE UNCHANGED writing
  BY <1>1 DEF writing, OneWriter, RingInv, Quiet
<1>2. UNCHANGED logVars \/ LogBegin \/ Measure \/ SendLine \/ LogEnd => UNCHANGED writing
  BY DEF logVars, LogBegin, Measure, SendLine, LogEnd
<1> QED BY <1>1, <1>2, LogSteps, CallAlone, PrintingAlone, StoreAlone

-----------------------------------------------------------------------------
(* The reader that no writer laps.                                          *)

LEMMA Ranges ==
    ASSUME LogTypes
    PROVE  /\ LogN \in Nat \ {0} /\ SeqMod \in Nat \ {0} /\ LogN < SeqMod /\ MaxLines \in Nat
           /\ logSeq \in 0 .. SeqMod - 1 /\ sq \in 0 .. SeqMod - 1 /\ Due(sq) \in 0 .. SeqMod - 1
           /\ logged \in Nat /\ had \in Nat /\ held \in Nat
           /\ Len(told) \in Nat /\ \A i \in 1 .. Len(told) : told[i] \in Nat
<1>1. LogN \in Nat \ {0} /\ SeqMod \in Nat \ {0} /\ LogN < SeqMod /\ MaxLines \in Nat
  BY LogAssumption
<1>2. /\ logSeq \in 0 .. SeqMod - 1 /\ sq \in 0 .. SeqMod - 1
      /\ logged \in Nat /\ had \in Nat /\ held \in 0 .. MaxLines + 2
      /\ told \in Seq(0 .. MaxLines + 2)
  BY DEF LogTypes
<1>3. Due(sq) \in 0 .. SeqMod - 1
  BY <1>2, DueIs
<1>4. held \in Nat
  BY <1>1, <1>2
<1>5. Len(told) \in Nat /\ \A i \in 1 .. Len(told) : told[i] \in 0 .. MaxLines + 2
  <2>1. Len(told) \in Nat /\ told \in [1 .. Len(told) -> 0 .. MaxLines + 2]
    BY <1>2, LenProperties
  <2> QED BY <2>1
<1>6. \A i \in 1 .. Len(told) : told[i] \in Nat
  BY <1>1, <1>5
<1> QED BY <1>1, <1>2, <1>3, <1>4, <1>5, <1>6

\* The slot of the line k further holds a line.
LEMMA DueLines ==
    ASSUME LogTypes
    PROVE  \A k \in Nat : /\ (sq + k) % SeqMod \in Nat
                          /\ Slot((sq + k) % SeqMod) \in 0 .. LogN - 1
                          /\ logRing[Slot((sq + k) % SeqMod)].line \in Nat
<1>1. \A k \in Nat : (sq + k) % SeqMod \in Nat
  BY Ranges
<1>2. \A n \in 0 .. MaxLines + 1 : n \in Nat
  BY Ranges
<1> QED BY <1>1, <1>2, Lines

\* The lines due have slots of their own, and the next number has another.
LEMMA Fits ==
    ASSUME LogTypes, ReaderInv, reading, Slot(logSeq) \notin DueSlots(sq)
    PROVE  Due(sq) < LogN
<1>1. Due(sq) \in Nat /\ LogN \in Nat /\ logSeq \in Nat /\ logged \in Nat
  BY Ranges
<1> SUFFICES ASSUME Due(sq) >= LogN PROVE FALSE
  BY <1>1
<1> DEFINE f == [k \in 0 .. LogN |->
                    IF k = LogN THEN Slot(logSeq) ELSE Slot((sq + k) % SeqMod)]
<1>3. f \in [0 .. LogN -> 0 .. LogN - 1]
  <2>1. Slot(logSeq) \in 0 .. LogN - 1
    BY <1>1, Slots
  <2>2. \A k \in 0 .. LogN : Slot((sq + k) % SeqMod) \in 0 .. LogN - 1
    BY <1>1, DueLines
  <2> QED BY <2>1, <2>2
<1>4. /\ IsFiniteSet(0 .. LogN) /\ Cardinality(0 .. LogN) = LogN + 1
      /\ IsFiniteSet(0 .. LogN - 1) /\ Cardinality(0 .. LogN - 1) = LogN
  <2>1. LogN \in Int /\ LogN - 1 \in Int /\ 0 \in Int /\ LogN > 0
    BY Ranges
  <2>2. /\ IsFiniteSet(0 .. LogN) /\ Cardinality(0 .. LogN) = IF 0 > LogN THEN 0 ELSE LogN - 0 + 1
        /\ IsFiniteSet(0 .. LogN - 1)
        /\ Cardinality(0 .. LogN - 1) = IF 0 > LogN - 1 THEN 0 ELSE (LogN - 1) - 0 + 1
    BY <2>1, FS_Interval
  <2> QED BY <2>1, <2>2
<1>5. PICK j, k \in 0 .. LogN : j < k /\ f[j] = f[k]
  <2>1. PICK j, k \in 0 .. LogN : j # k /\ f[j] = f[k]
    <3>1. Cardinality(0 .. LogN - 1) < Cardinality(0 .. LogN)
      BY <1>1, <1>4
    <3> HIDE DEF f
    <3> QED BY <1>3, <1>4, <3>1, FS_PigeonHole
  <2> HIDE DEF f
  <2> QED BY <1>1, <2>1
<1>6. f[j] = Slot((sq + j) % SeqMod) /\ j \in 0 .. Due(sq) - 1
  BY <1>1, <1>5
<1>7. CASE k = LogN
  BY <1>5, <1>6, <1>7 DEF DueSlots
<1>8. CASE k # LogN
  <2>1. f[k] = Slot((sq + k) % SeqMod) /\ k \in 0 .. Due(sq) - 1
    BY <1>1, <1>5, <1>8
  <2>2. /\ logRing[f[j]].line + Due(sq) = logged + 1 + j
        /\ logRing[f[k]].line + Due(sq) = logged + 1 + k
    <3> HIDE DEF f
    <3> QED BY <1>6, <2>1 DEF ReaderInv
  <2> HIDE DEF f
  <2> QED BY <1>1, <1>5, <2>2
<1> QED BY <1>7, <1>8

LEMMA ReaderPrinting ==
    ASSUME LogTypes, OneWriter, ReaderInv, NEW w \in Writers,
           (Call(w) /\ ~Laps(w)) \/ PrintBegin(w) \/ PrintEnd(w) \/ LoadSeq(w)
    PROVE  ReaderInv'
<1>1. UNCHANGED <<reading, sq, held, told, had, logSeq, logged>>
  BY DEF Call, PrintBegin, PrintEnd, LoadSeq, reader
<1>2. (Due(sq)' = Due(sq)) /\ (DueSlots(sq)' = DueSlots(sq))
  BY <1>1 DEF Due, DueSlots
<1>3. \A v \in Writers \ {w} : wpc'[v] = wpc[v]
  BY DEF Call, PrintBegin, PrintEnd, LoadSeq, WStep, LogTypes
<1> SUFFICES ASSUME reading PROVE ReaderInv'
  BY <1>1 DEF ReaderInv
<1>4. Slot(logSeq) \notin DueSlots(sq)
  BY DEF ReaderInv, Laps, Call, PrintBegin, PrintEnd, LoadSeq, WStep
<1>5. \A s \in DueSlots(sq) : logRing'[s] = logRing[s]
  <2>1. wpc[w] # "idle" => wseq[w] = logSeq
    BY DEF OneWriter
  <2>2. logRing' = logRing \/ \E v : logRing' = [logRing EXCEPT ![Slot(logSeq)] = v]
    <3>1. CASE Call(w) \/ LoadSeq(w)
      BY <3>1 DEF Call, LoadSeq
    <3>2. CASE PrintBegin(w)
      BY <2>1, <3>2 DEF PrintBegin, WStep
    <3>3. CASE PrintEnd(w)
      <4>1. /\ wseq[w] = logSeq
            /\ logRing' = [logRing EXCEPT ![Slot(wseq[w])].line =
                              IF logRing[Slot(wseq[w])].by = w THEN wline[w] ELSE Garbled]
        BY <2>1, <3>3 DEF PrintEnd, WStep
      <4> DEFINE v == [logRing[Slot(logSeq)] EXCEPT !.line =
                         IF logRing[Slot(logSeq)].by = w THEN wline[w] ELSE Garbled]
      <4>2. logRing' = [logRing EXCEPT ![Slot(logSeq)] = v]
        BY <4>1
      <4> HIDE DEF v
      <4> QED BY <4>2
    <3> QED BY <3>1, <3>2, <3>3
  <2>3. logRing = [s \in 0 .. LogN - 1 |-> logRing[s]]
    BY DEF LogTypes
  <2>4. DueSlots(sq) \subseteq 0 .. LogN - 1
    BY Ranges, DueLines DEF DueSlots
  <2> QED BY <1>4, <2>2, <2>3, <2>4
<1>6. \A k \in 0 .. Due(sq) - 1 : Slot((sq + k) % SeqMod) \in DueSlots(sq)
  BY DEF DueSlots
<1>7. Due(sq) > 0 => Slot(sq) \in DueSlots(sq)
  <2>1. sq \in 0 .. SeqMod - 1 /\ Due(sq) \in Nat /\ (sq + 0) % SeqMod = sq
    BY Numbers, DueIs, LogAssumption DEF LogTypes
  <2> QED BY <1>6, <2>1
<1> HIDE DEF DueSlots
<1> QED BY <1>1, <1>2, <1>4, <1>5, <1>6, <1>7 DEF ReaderInv

LEMMA ReaderStore ==
    ASSUME LogTypes, OneWriter, ReaderInv, NEW w \in Writers, StoreSeq(w)
    PROVE  ReaderInv'
<1>1. /\ wseq[w] = logSeq /\ logRing[Slot(logSeq)].line = logged + 1 /\ wpc[w] # "idle"
      /\ \A v \in Writers \ {w} : wpc[v] = "idle"
  BY DEF StoreSeq, WStep, OneWriter
<1>2. /\ \A v \in Writers : wpc'[v] = "idle"
      /\ UNCHANGED <<logRing, reading, sq, held, told, had>>
      /\ logSeq' = Plus(logSeq) /\ logged' = logged + 1
  BY <1>1 DEF StoreSeq, WStep, LogTypes, reader
<1> SUFFICES ASSUME reading PROVE ReaderInv'
  BY <1>2 DEF ReaderInv
<1>3. /\ Due(sq) < LogN /\ Due(sq) \in Nat /\ LogN \in Nat /\ LogN < SeqMod /\ SeqMod \in Nat
      /\ logged \in Nat /\ had \in Nat /\ Len(told) \in Nat
  <2>1. Slot(logSeq) \notin DueSlots(sq)
    BY <1>1 DEF ReaderInv
  <2> QED BY <2>1, Fits, Ranges
<1>4. Due(sq)' = Due(sq) + 1
  <2>1. /\ logSeq \in 0 .. SeqMod - 1 /\ sq \in 0 .. SeqMod - 1 /\ logSeq' \in 0 .. SeqMod - 1
        /\ logSeq' = IF logSeq + 1 = SeqMod THEN 0 ELSE logSeq + 1
    BY <1>2, Numbers DEF LogTypes
  <2>2. Due(sq) = IF sq <= logSeq THEN logSeq - sq ELSE logSeq + SeqMod - sq
    BY <2>1, DueIs
  <2>3. ASSUME NEW m, m = logSeq' PROVE (m + SeqMod - sq) % SeqMod = Due(sq) + 1
    <3>1. (m + SeqMod - sq) % SeqMod = IF sq <= m THEN m - sq ELSE m + SeqMod - sq
      BY <2>1, <2>3, Gap
    <3> QED BY <1>3, <2>1, <2>2, <2>3, <3>1
  <2> QED BY <1>2, <2>3 DEF Due
<1>5. \A k \in 0 .. Due(sq) : logRing[Slot((sq + k) % SeqMod)].line + Due(sq) = logged + 1 + k
  <2> SUFFICES ASSUME NEW k \in 0 .. Due(sq)
               PROVE  logRing[Slot((sq + k) % SeqMod)].line + Due(sq) = logged + 1 + k
    OBVIOUS
  <2>1. CASE k < Due(sq)
    BY <1>3, <2>1 DEF ReaderInv
  <2>2. CASE k = Due(sq)
    <3>1. (sq + k) % SeqMod = logSeq
      BY <2>2, DueEnd DEF LogTypes
    <3> QED BY <1>1, <1>3, <2>2, <3>1
  <2> QED BY <1>3, <2>1, <2>2
<1>6. \A k \in 0 .. Due(sq) : logRing[Slot((sq + k) % SeqMod)].line \in Nat
  BY <1>3, DueLines
<1>7. \A k \in 0 .. (Due(sq) + 1) - 1 :
         logRing[Slot((sq + k) % SeqMod)].line + (Due(sq) + 1) = (logged + 1) + 1 + k
  <2> SUFFICES ASSUME NEW k \in 0 .. (Due(sq) + 1) - 1
               PROVE  logRing[Slot((sq + k) % SeqMod)].line + (Due(sq) + 1) = (logged + 1) + 1 + k
    OBVIOUS
  <2>1. k \in 0 .. Due(sq)
    BY <1>3
  <2> DEFINE x == logRing[Slot((sq + k) % SeqMod)].line
  <2>2. x + Due(sq) = logged + 1 + k /\ x \in Nat
    BY <1>5, <1>6, <2>1
  <2>3. x + (Due(sq) + 1) = (logged + 1) + 1 + k
    <3> HIDE DEF x
    <3> QED BY <1>3, <2>1, <2>2
  <2> QED BY <2>3
<1>8. \A i \in 1 .. Len(told) : told[i] + (Due(sq) + 1) + Len(told) = (logged + 1) + i
  <2> SUFFICES ASSUME NEW i \in 1 .. Len(told)
               PROVE  told[i] + (Due(sq) + 1) + Len(told) = (logged + 1) + i
    OBVIOUS
  <2> DEFINE x == told[i]
  <2>1. x \in Nat /\ i \in Nat /\ x + Due(sq) + Len(told) = logged + i
    BY <1>3, Ranges DEF ReaderInv
  <2>2. x + (Due(sq) + 1) + Len(told) = (logged + 1) + i
    <3> HIDE DEF x
    <3> QED BY <1>3, <2>1
  <2> QED BY <2>2
<1>9. /\ held # Unread => Due(sq) + 1 > 0 /\ held = logRing[Slot(sq)].line
      /\ had <= logged + 1
      /\ had < SeqMod => logged + 1 <= (Due(sq) + 1) + Len(told)
                                       + (IF had > LogN THEN had - LogN ELSE 0)
  BY <1>3 DEF ReaderInv
<1> QED BY <1>2, <1>4, <1>7, <1>8, <1>9 DEF ReaderInv

LEMMA ReaderBegins ==
    ASSUME LogTypes, OneWriter, RingInv, ReaderInv, LogBegin, ~BeginsLapped
    PROVE  ReaderInv'
<1>1. /\ UNCHANGED <<logRing, logSeq, wpc, logged, held, told>>
      /\ reading' = TRUE /\ sq' = Oldest /\ had' = logged /\ held = Unread /\ told = <<>>
  BY DEF LogBegin, writing, ReaderInv
<1>2. /\ logSeq \in 0 .. SeqMod - 1 /\ Oldest \in 0 .. logSeq /\ logged \in Nat
      /\ LogN \in Nat \ {0} /\ SeqMod \in Nat
  BY LogAssumption DEF LogTypes, Oldest
<1> DEFINE d == logSeq - Oldest
<1>3. Due(Oldest) = d
  BY <1>2, DueIs
<1>4. ASSUME NEW n, n = sq' PROVE (Due(n)' = d) /\ (DueSlots(n)' = DueSlots(Oldest))
  BY <1>1, <1>3, <1>4 DEF Due, DueSlots
<1>5. (Due(sq)' = d) /\ (DueSlots(sq)' = DueSlots(Oldest))
  BY <1>1, <1>4 DEF Due, DueSlots
<1>6. \A w \in Writers : wpc[w] # "idle" => Slot(logSeq) \notin DueSlots(Oldest)
  BY DEF BeginsLapped, OneWriter
<1>7. \A k \in 0 .. d - 1 : (Oldest + k) % SeqMod = Oldest + k /\ Oldest + k \in 0 .. logSeq - 1
  <2> SUFFICES ASSUME NEW k \in 0 .. d - 1
               PROVE  (Oldest + k) % SeqMod = Oldest + k /\ Oldest + k \in 0 .. logSeq - 1
    OBVIOUS
  <2>1. Oldest + k \in 0 .. logSeq - 1 /\ k \in 0 .. SeqMod
    BY <1>2
  <2>2. (Oldest + k) % SeqMod = IF Oldest + k < SeqMod THEN Oldest + k ELSE Oldest + k - SeqMod
    <3>1. Oldest \in 0 .. SeqMod - 1
      BY <1>2
    <3> QED BY <2>1, <3>1, Numbers
  <2> QED BY <1>2, <2>1, <2>2
<1>8. d >= LogN => Quiet
  <2> SUFFICES ASSUME d >= LogN, NEW w \in Writers, wpc[w] # "idle" PROVE FALSE
    BY DEF Quiet
  <2>1. Oldest + LogN = logSeq /\ 0 \in 0 .. d - 1 /\ Oldest \in Nat
    BY <1>2 DEF Oldest
  <2>2. Slot(logSeq) = Slot(Oldest)
    BY <2>1, Slots
  <2>3. (Oldest + 0) % SeqMod = Oldest
    BY <1>2, <1>7, <2>1
  <2>4. Slot(Oldest) \in DueSlots(Oldest)
    BY <1>3, <2>1, <2>3 DEF DueSlots
  <2> QED BY <1>6, <2>2, <2>4
<1>9. \A k \in 0 .. d - 1 : logRing[Slot((Oldest + k) % SeqMod)].line + d = logged + 1 + k
  <2> SUFFICES ASSUME NEW k \in 0 .. d - 1
               PROVE  logRing[Slot((Oldest + k) % SeqMod)].line + d = logged + 1 + k
    OBVIOUS
  <2>1. (Oldest + k) % SeqMod = Oldest + k /\ Oldest + k \in 0 .. logSeq - 1
    BY <1>7
  <2>2. logSeq - (Oldest + k) = d - k /\ d <= LogN /\ k \in Nat /\ d \in Nat
    BY <1>2 DEF Oldest
  <2>3. logSeq - (Oldest + k) < LogN \/ (logSeq - (Oldest + k) = LogN /\ Quiet)
    <3> HIDE DEF d
    <3> QED BY <1>2, <1>8, <2>2
  <2>4. logRing[Slot(Oldest + k)].line = logged + 1 - (logSeq - (Oldest + k))
    BY <2>1, <2>3 DEF RingInv
  <2> HIDE DEF d
  <2> QED BY <1>2, <2>1, <2>2, <2>4
<1>10. had' < SeqMod => logged <= d + 0 + (IF logged > LogN THEN logged - LogN ELSE 0)
  BY <1>1, <1>2 DEF RingInv, Oldest
<1>11. Len(told) = 0
  BY <1>1
<1> HIDE DEF d
<1> QED BY <1>1, <1>2, <1>5, <1>6, <1>9, <1>10, <1>11 DEF ReaderInv

LEMMA ReaderSends ==
    ASSUME LogTypes, ReaderInv, SendLine
    PROVE  ReaderInv'
<1>1. /\ UNCHANGED <<logRing, logSeq, wpc, logged, had>> /\ reading /\ reading'
      /\ Due(sq) > 0 /\ held = logRing[Slot(sq)].line
      /\ sq' = Plus(sq) /\ held' = Unread /\ told' = Append(told, held)
  BY DEF SendLine, writing, ReaderInv
<1>2. /\ logSeq \in 0 .. SeqMod - 1 /\ sq \in 0 .. SeqMod - 1 /\ logged \in Nat /\ had \in Nat
      /\ LogN \in Nat \ {0} /\ SeqMod \in Nat /\ Due(sq) \in 0 .. SeqMod - 1 /\ held \in Nat
      /\ Len(told) \in Nat
  BY Ranges
<1>3. sq' \in 0 .. SeqMod - 1 /\ sq' = IF sq + 1 = SeqMod THEN 0 ELSE sq + 1
  BY <1>1, <1>2, Numbers
<1>4. Due(sq)' = Due(sq) - 1
  <2>1. Due(sq) = IF sq <= logSeq THEN logSeq - sq ELSE logSeq + SeqMod - sq
    BY <1>2, DueIs
  <2>2. ASSUME NEW n, n = sq' PROVE (logSeq + SeqMod - n) % SeqMod = Due(sq) - 1
    <3>1. (logSeq + SeqMod - n) % SeqMod = IF n <= logSeq THEN logSeq - n ELSE logSeq + SeqMod - n
      BY <1>2, <1>3, <2>2, Gap
    <3> QED BY <1>1, <1>2, <1>3, <2>1, <2>2, <3>1
  <2> QED BY <1>1, <2>2 DEF Due
<1>5. \A k \in 0 .. Due(sq) - 2 : (sq' + k) % SeqMod = (sq + (k + 1)) % SeqMod
  <2> SUFFICES ASSUME NEW k \in 0 .. Due(sq) - 2
               PROVE  (sq' + k) % SeqMod = (sq + (k + 1)) % SeqMod
    OBVIOUS
  <2>1. k \in 0 .. SeqMod /\ k + 1 \in 0 .. SeqMod
    BY <1>2
  <2>2. ASSUME NEW n, n = sq'
        PROVE  (n + k) % SeqMod = IF n + k < SeqMod THEN n + k ELSE n + k - SeqMod
    BY <1>3, <2>1, <2>2, Numbers
  <2>3. (sq + (k + 1)) % SeqMod = IF sq + (k + 1) < SeqMod
                                  THEN sq + (k + 1) ELSE sq + (k + 1) - SeqMod
    BY <1>2, <2>1, Numbers
  <2> QED BY <1>2, <1>3, <2>1, <2>2, <2>3
<1>6. \A k \in 0 .. Due(sq) - 1 :
         /\ logRing[Slot((sq + k) % SeqMod)].line + Due(sq) = logged + 1 + k
         /\ logRing[Slot((sq + k) % SeqMod)].line \in Nat
  <2>1. \A k \in 0 .. Due(sq) - 1 : k \in Nat
    BY <1>2
  <2> QED BY <1>1, <2>1, DueLines DEF ReaderInv
<1>7. \A k \in 0 .. (Due(sq) - 1) - 1 :
         logRing[Slot((sq' + k) % SeqMod)].line + (Due(sq) - 1) = logged + 1 + k
  <2> SUFFICES ASSUME NEW k \in 0 .. (Due(sq) - 1) - 1
               PROVE  logRing[Slot((sq' + k) % SeqMod)].line + (Due(sq) - 1) = logged + 1 + k
    OBVIOUS
  <2>1. k + 1 \in 0 .. Due(sq) - 1 /\ k \in 0 .. Due(sq) - 2 /\ k \in Nat
    BY <1>2
  <2>2. /\ logRing[Slot((sq + (k + 1)) % SeqMod)].line + Due(sq) = logged + 1 + (k + 1)
        /\ logRing[Slot((sq + (k + 1)) % SeqMod)].line \in Nat
    BY <1>6, <2>1
  <2>3. (sq' + k) % SeqMod = (sq + (k + 1)) % SeqMod
    BY <1>5, <2>1
  <2> DEFINE x == logRing[Slot((sq + (k + 1)) % SeqMod)].line
  <2>4. x + Due(sq) = logged + 1 + (k + 1) /\ x \in Nat
    BY <2>2
  <2>5. x + (Due(sq) - 1) = logged + 1 + k
    <3> HIDE DEF x
    <3> QED BY <1>2, <2>1, <2>4
  <2> QED BY <2>3, <2>5
<1>8. DueSlots(sq)' \subseteq DueSlots(sq)
  <2>1. DueSlots(sq)' = {Slot((sq' + k) % SeqMod) : k \in 0 .. (Due(sq) - 1) - 1}
    BY <1>4 DEF DueSlots
  <2>2. \A k \in 0 .. (Due(sq) - 1) - 1 : Slot((sq' + k) % SeqMod) \in DueSlots(sq)
    <3> SUFFICES ASSUME NEW k \in 0 .. (Due(sq) - 1) - 1
                 PROVE  Slot((sq' + k) % SeqMod) \in DueSlots(sq)
      OBVIOUS
    <3>1. k + 1 \in 0 .. Due(sq) - 1 /\ k \in 0 .. Due(sq) - 2
      BY <1>2
    <3> QED BY <1>5, <3>1 DEF DueSlots
  <2> QED BY <2>1, <2>2
<1>9. /\ Len(told') = Len(told) + 1 /\ told'[Len(told) + 1] = held
      /\ \A i \in 1 .. Len(told) : told'[i] = told[i]
  <2>1. told \in Seq(0 .. MaxLines + 2) /\ held \in 0 .. MaxLines + 2
    BY DEF LogTypes
  <2>2. /\ Len(Append(told, held)) = Len(told) + 1 /\ Append(told, held)[Len(told) + 1] = held
        /\ \A i \in 1 .. Len(told) : Append(told, held)[i] = told[i]
    BY <2>1, AppendProperties
  <2> QED BY <1>1, <2>2
<1>10. \A i \in 1 .. Len(told) + 1 : told'[i] + (Due(sq) - 1) + (Len(told) + 1) = logged + i
  <2> SUFFICES ASSUME NEW i \in 1 .. Len(told) + 1
               PROVE  told'[i] + (Due(sq) - 1) + (Len(told) + 1) = logged + i
    OBVIOUS
  <2>1. CASE i = Len(told) + 1
    <3>1. held + Due(sq) = logged + 1
      <4>1. (sq + 0) % SeqMod = sq /\ 0 \in 0 .. Due(sq) - 1
        <5>1. 0 \in 0 .. SeqMod /\ sq + 0 = sq /\ sq < SeqMod
          BY <1>2
        <5>2. (sq + 0) % SeqMod = sq
          BY <1>2, <5>1, Numbers
        <5> QED BY <1>1, <1>2, <5>2
      <4>2. held = logRing[Slot((sq + 0) % SeqMod)].line
        BY <1>1, <4>1
      <4>3. held + Due(sq) = logged + 1 + 0
        BY <1>6, <4>1, <4>2
      <4> QED BY <1>2, <4>3
    <3>2. told'[i] = held
      BY <1>9, <2>1
    <3>3. held + (Due(sq) - 1) + (Len(told) + 1) = logged + (Len(told) + 1)
      BY <1>2, <3>1
    <3> QED BY <2>1, <3>2, <3>3
  <2>2. CASE i \in 1 .. Len(told)
    <3>1. told[i] + Due(sq) + Len(told) = logged + i /\ told[i] \in Nat
      BY <1>1, <2>2, Ranges DEF ReaderInv
    <3>2. told'[i] = told[i]
      BY <1>9, <2>2
    <3> QED BY <1>2, <2>2, <3>1, <3>2
  <2> QED BY <1>2, <2>1, <2>2
<1>11. /\ had <= logged
       /\ had < SeqMod => logged <= (Due(sq) - 1) + (Len(told) + 1)
                                    + (IF had > LogN THEN had - LogN ELSE 0)
  BY <1>1, <1>2 DEF ReaderInv
<1>12. \A w \in Writers : wpc[w] # "idle" => Slot(logSeq) \notin DueSlots(sq)'
  BY <1>1, <1>8 DEF ReaderInv
<1> QED BY <1>1, <1>4, <1>7, <1>9, <1>10, <1>11, <1>12 DEF ReaderInv

LEMMA ReaderStep ==
    ASSUME LogTypes, OneWriter, RingInv, ReaderInv,
           "race" \notin env, "lap" \notin env, [Next]_vars
    PROVE  ReaderInv'
<1>1. CASE UNCHANGED logVars
  BY <1>1 DEF logVars, writing, reader, ReaderInv, Due, DueSlots
<1>2. CASE Measure
  <2>1. /\ UNCHANGED <<writing, reading, sq, told, had>> /\ reading
        /\ held' = logRing[Slot(sq)].line /\ sq # logSeq
    BY <1>2 DEF Measure
  <2>2. Due(sq) > 0
    <3>1. Due(sq) = IF sq <= logSeq THEN logSeq - sq ELSE logSeq + SeqMod - sq
      BY Ranges, DueIs
    <3> QED BY <2>1, <3>1, Ranges
  <2>3. (Due(sq)' = Due(sq)) /\ (DueSlots(sq)' = DueSlots(sq))
    BY <2>1 DEF Due, DueSlots, writing
  <2> QED BY <2>1, <2>2, <2>3 DEF ReaderInv, writing
<1>3. CASE LogEnd
  BY <1>3 DEF LogEnd, ReaderInv
<1> QED BY <1>1, <1>2, <1>3, LogSteps, ReaderPrinting, ReaderStore, ReaderBegins, ReaderSends

LEMMA RecentLines ==
    ASSUME LogTypes, ReaderInv, reading
    PROVE  LET end == logged - Due(sq)
           IN  /\ told = [i \in 1 .. Len(told) |-> end - Len(told) + i]
               /\ logged < SeqMod =>
                      end - Len(told) <= (IF had > LogN THEN had - LogN ELSE 0)
<1>1. /\ Len(told) \in Nat /\ logged \in Nat /\ had \in Nat
      /\ Due(sq) \in Nat /\ LogN \in Nat /\ SeqMod \in Nat
  BY Ranges
<1>2. \A i \in 1 .. Len(told) : told[i] = (logged - Due(sq)) - Len(told) + i
  <2> SUFFICES ASSUME NEW i \in 1 .. Len(told)
               PROVE  told[i] = (logged - Due(sq)) - Len(told) + i
    OBVIOUS
  <2>1. told[i] + Due(sq) + Len(told) = logged + i /\ told[i] \in Nat /\ i \in Nat
    BY Ranges DEF ReaderInv
  <2> QED BY <1>1, <2>1
<1>3. told = [i \in 1 .. Len(told) |-> (logged - Due(sq)) - Len(told) + i]
  <2>1. told = [i \in 1 .. Len(told) |-> told[i]]
    BY DEF LogTypes
  <2> QED BY <1>2, <2>1
<1>4. logged < SeqMod =>
         (logged - Due(sq)) - Len(told) <= (IF had > LogN THEN had - LogN ELSE 0)
  BY <1>1 DEF ReaderInv
<1> QED BY <1>3, <1>4

-----------------------------------------------------------------------------
(* The types.                                                               *)

LEMMA CtrlPlaces ==
    ASSUME Types, [Next]_vars
    PROVE  ctrlPc' \in {"accept", "recv", "store", "log", "close"} /\ idle' \in 0 .. MaxIdle
<1> USE BoundsAssumption DEF Types
<1>1. CASE Accept \/ CloseSocket \/ RecvByte \/ RecvNoLine \/ RecvNothing \/ LogStep
  BY <1>1 DEF Accept, CloseSocket, RecvByte, RecvNoLine, RecvNothing, LogStep
<1>2. CASE (\E c \in Cmds : RecvLine(c)) \/ Store \/ SayOk
  BY <1>2 DEF RecvLine, Store, SayOk
<1>3. CASE LoopTask \/ Stack \/ (\E w \in Writers : LogCall(w) \/ Logging(w)) \/ UNCHANGED vars
  BY <1>3 DEF LoopTask, Stack, ReadOp, TakeOp, Read, ClearWifi, Run, ConnUp, ConnGiveUp, ConnCancel,
     ReadFlag, ClearFlag, PullEnds, LinkUp, ApiLink, LinkLost, LogCall, Logging, vars, ctrl
<1> QED BY <1>1, <1>2, <1>3 DEF Next, Clients, CtrlTask

LEMMA TypesStep ==
    ASSUME Types, LoopInv, [Next]_vars
    PROVE  Types'
<1> USE BoundsAssumption DEF Types
<1>1. CASE Elsewhere
  BY <1>1, CtrlPlaces DEF Elsewhere
<1>2. ASSUME NEW c \in Cmds, RecvLine(c) PROVE Types'
  <2>1. cmds' \in 0 .. MaxCmds
    BY <1>2, CmdsAssumption DEF RecvLine
  <2> QED BY <1>2, <2>1 DEF RecvLine, ble, loopv
<1>3. CASE Store \/ SayOk
  BY <1>3 DEF Store, SayOk, ble, loopv, hist
<1>4. CASE \/ ReadOp \/ TakeOp \/ Read \/ ClearWifi \/ ConnGiveUp \/ ConnCancel
           \/ ReadFlag \/ ClearFlag \/ PullEnds
  BY <1>4 DEF ReadOp, TakeOp, Read, ClearWifi, ConnGiveUp, ConnCancel, ReadFlag, ClearFlag,
     PullEnds, ctrl, ble, hist
<1>5. CASE Run
  <2>1. /\ UNCHANGED <<bleUp, ctrl, cmds>> /\ loopPc' \in {"wait", "ota", "reset"}
        /\ diagConnId' \in {diagConnId, NoId}
        /\ pending' # NoLink => pending' = pending \/ got.op = "conn"
    BY <1>5 DEF Run, ble
  <2>2. got.op = "conn" => bleUp
    BY <1>5 DEF Run, LoopInv, InSafeMode
  <2> QED BY <2>1, <2>2 DEF ctrl
<1>6. CASE ConnUp
  BY <1>6, LowestIs DEF ConnUp, ctrl, hist
<1>7. ASSUME NEW i \in Ids, LinkUp(i) \/ ApiLink(i) \/ LinkLost(i) PROVE Types'
  BY <1>7 DEF LinkUp, ApiLink, LinkLost, ctrl, loopv, hist
<1> QED BY <1>1, <1>2, <1>3, <1>4, <1>5, <1>6, <1>7, Steps

-----------------------------------------------------------------------------
(* The start.                                                               *)

LEMMA Starts ==
    ASSUME Init
    PROVE  /\ Types /\ Shapes /\ StoreInv /\ LoopInv /\ MailInv /\ ValuesInv /\ LinksInv
           /\ RunAsAsked
<1>1. /\ mem = Cleared /\ ctrlPc = "accept" /\ loopPc = "diag" /\ todo = <<>>
      /\ \A b \in Boxes : asked[b] = <<>> /\ done[b] = <<>>
      /\ \A i \in Ids : links[i] = NoLink
      /\ pending = NoLink
  BY DEF Init
<1>2. \A b \in Boxes : /\ Len(asked[b]) = 0 /\ Len(done[b]) = 0
                       /\ DOMAIN asked[b] = {} /\ DOMAIN done[b] = {}
  BY <1>1
<1>3. ~Open("diag") /\ ~Open("ota") /\ ~OpenConn /\ \A b : ~Storing(b)
  BY <1>1, <1>2 DEF Boxes, Open, OpenConn, Storing
<1>4. mem.op = None /\ mem.wifi = FALSE /\ mem.flag = FALSE /\ DOMAIN mem = DOMAIN Cleared
  BY <1>1 DEF Cleared
<1>5. Types
  BY BoundsAssumption DEF Init, Types, NoId
<1>6. Shapes
  <2>1. <<>> \in Seq(In(<<>>))
    OBVIOUS
  <2>2. mem = [f \in DOMAIN Cleared |-> mem[f]]
    BY <1>1 DEF Cleared
  <2> QED BY <1>1, <1>4, <2>1, <2>2 DEF Init, Shapes, Boolean
<1>7. StoreInv /\ LoopInv
  BY <1>1 DEF StoreInv, LoopInv
<1>8. InTurn
  BY <1>1, <1>2, <1>3, <1>4 DEF InTurn, Boxes
<1>9. Kept
  BY <1>1, <1>2, <1>3, <1>4 DEF Kept, WifiDue, Boxes
<1>10. OwnLinks
  BY <1>1, <1>3 DEF Init, OwnLinks
<1>11. RunAsAsked
  BY <1>2 DEF RunAsAsked
<1> QED BY <1>5, <1>6, <1>7, <1>8, <1>9, <1>10, <1>11 DEF MailInv, ValuesInv, LinksInv

LEMMA LogStarts ==
    ASSUME Init
    PROVE  LogTypes /\ OneWriter /\ RingInv /\ ReaderInv
<1> USE LogAssumption
<1>1. LogTypes
  <2>1. logRing \in [0 .. LogN - 1 -> [line : 0 .. MaxLines + 1, by : Writers \cup {"nobody"}]]
    BY DEF Init, LogInit, NoLine
  <2>2. held \in 0 .. MaxLines + 2 /\ told \in Seq(0 .. MaxLines + 2)
    BY DEF Init, LogInit, Unread
  <2>3. /\ wseq \in [Writers -> 0 .. SeqMod - 1] /\ wline \in [Writers -> 0 .. MaxLines]
        /\ wpc \in [Writers -> {"idle", "print", "printing", "load", "store"}]
    BY DEF Init, LogInit, NoLine
  <2>4. /\ logSeq \in 0 .. SeqMod - 1 /\ lines \in 0 .. MaxLines /\ logged \in Nat
        /\ reading \in BOOLEAN /\ sq \in 0 .. SeqMod - 1 /\ had \in Nat
    <3>1. 0 \in 0 .. SeqMod - 1 /\ 0 \in 0 .. MaxLines /\ 0 \in Nat
      OBVIOUS
    <3> QED BY <3>1 DEF Init, LogInit
  <2> QED BY <2>1, <2>2, <2>3, <2>4 DEF LogTypes
<1>2. OneWriter /\ RingInv /\ ReaderInv
  BY DEF Init, LogInit, OneWriter, Quiet, RingInv, ReaderInv
<1> QED BY <1>1, <1>2

-----------------------------------------------------------------------------
(* The theorems.                                                            *)

(* The tasks are at the places, and the link of the diagnostics, the lines  *)
(* and the numbers of the log in the ranges, that the code gives them; and  *)
(* a connect is under way only while BLE is up.  The other three say what   *)
(* is left of a command's stores and reads, a list of handleCommand's and   *)
(* runDiag's.                                                               *)
THEOREM TypeCorrect == Spec => [](TypeOK /\ Shapes /\ StoreInv /\ LoopInv)
<1> DEFINE Inv == Types /\ LogTypes /\ Shapes /\ StoreInv /\ LoopInv
<1>1. Init => Inv
  BY Starts, LogStarts
<1>2. Inv /\ [Next]_vars => Inv'
  BY TypesStep, LogTypesStep, ShapesStep, StoreInvStep, LoopInvStep
<1>3. Inv => TypeOK /\ Shapes /\ StoreInv /\ LoopInv
  BY DEF TypeOK
<1> QED BY <1>1, <1>2, <1>3, PTL DEF Spec

(* handleCommand leaves a command in global variables and loop() reads them *)
(* one at a time; yet, when no command comes before loop() is done with the *)
(* last and every command parses, an operation or a pull uses the values of *)
(* the one command that was stored, each once and in order.                 *)
THEOREM RunsWhatWasAsked == Spec => []RunAsAsked
<1> DEFINE Inv == Shapes /\ StoreInv /\ LoopInv /\ MailInv /\ ValuesInv /\ RunAsAsked
<1>1. Init => Inv
  BY Starts
<1>2. Inv /\ [Next]_vars => Inv'
  BY ShapesStep, StoreInvStep, LoopInvStep, MailStep, ValuesStep, RunStep
<1> QED BY <1>1, <1>2, PTL DEF Spec

(* runDiag takes the lowest link there is for the one it asked for; yet,    *)
(* also with links of API clients beside it, the link it calls connected,   *)
(* and that disc takes down, is to the address of the last conn that was    *)
(* run, or is down: the wait that gives up cancels its connect.  Left out:  *)
(* another link that is up before the conn ends, and an API link with the   *)
(* conn id of a diagnostic link that was lost.                              *)
THEOREM LinkIsAsked == Spec => []DiagLinkIsAsked
<1> DEFINE Inv == Types /\ Shapes /\ StoreInv /\ LoopInv /\ MailInv /\ LinksInv
<1>1. Init => Inv
  BY Starts
<1>2. Inv /\ [Next]_vars => Inv'
  BY TypesStep, ShapesStep, StoreInvStep, LoopInvStep, MailStep, LinksStep
<1>3. Inv => DiagLinkIsAsked
  <2> SUFFICES ASSUME Inv, Without({"hurry", "again", "beside", "stale"}), diagConnId # NoId,
                      links[diagConnId] # NoLink
               PROVE  links[diagConnId] = LastConn
    BY DEF DiagLinkIsAsked
  <2>1. diagConnId \in Ids
    BY DEF Types
  <2>2. WasLast(links[diagConnId])
    BY <2>1 DEF LinksInv, OwnLinks
  <2> QED BY <2>2, LastIs
<1> QED BY <1>1, <1>2, <1>3, PTL DEF Spec

(* With one task in logLine at a time, and no line written into a slot that *)
(* is still to be sent, the log command sends the run of lines before the   *)
(* one it is at, whole and in order, and began LOGRING_N lines back; after  *)
(* the 16-bit number of a line wraps, the older ones are passed over.       *)
THEOREM LogTellsTheRecent == Spec => []LogIsRecent
<1> DEFINE Inv == /\ LogTypes /\ (Without({"race"}) => OneWriter /\ RingInv)
                  /\ Without({"race", "lap"}) => ReaderInv
<1>1. Init => Inv
  BY LogStarts
<1>2. Inv /\ [Next]_vars => Inv'
  <2> SUFFICES ASSUME Inv, [Next]_vars PROVE Inv'
    OBVIOUS
  <2>1. env' = env /\ LogTypes'
    BY Same, LogTypesStep
  <2>2. ASSUME "race" \notin env PROVE OneWriter' /\ RingInv'
    BY <2>2, RingStep DEF Without
  <2>3. ASSUME "race" \notin env, "lap" \notin env PROVE ReaderInv'
    BY <2>3, ReaderStep DEF Without
  <2> QED BY <2>1, <2>2, <2>3 DEF Without
<1>3. Inv => LogIsRecent
  BY RecentLines DEF LogIsRecent
<1> QED BY <1>1, <1>2, <1>3, PTL DEF Spec
=============================================================================
