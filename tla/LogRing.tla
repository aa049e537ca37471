------------------------------ MODULE LogRing -------------------------------
(***************************************************************************)
(* The ring of recent log lines (wbrg1_ble_proxy.ino: logLine) and the      *)
(* control task's command that reads it (ctrlTaskFn, "log").  loop() and    *)
(* the API task write lines, the control task reads them, and nothing       *)
(* keeps one from interrupting another: a line is printed into its slot and *)
(* the 16-bit number of the next is loaded and stored in steps of their     *)
(* own, and the reader measures a line before it sends it.                  *)
(*                                                                         *)
(* A line is its place in the order of the calls; the number printed before *)
(* it is left out.                                                          *)
(***************************************************************************)
EXTENDS Naturals, Sequences

CONSTANTS LogN,     \* LOGRING_N
          SeqMod,   \* 2^16
          Writers,  \* the tasks that write lines
          MaxLines  \* bound: lines written

ASSUME LogAssumption == /\ LogN \in Nat \ {0} /\ SeqMod \in Nat /\ SeqMod > LogN
                        /\ MaxLines \in Nat

VARIABLES
    logRing, logSeq,    \* the slots, who printed last into each, and the number of the next line
    wpc, wseq, wline,   \* a writer's place, the number it has loaded, its line
    lines,              \* history: calls of logLine
    logged,             \* history: lines whose number was stored
    reading, sq,        \* the reader is in its loop; the number it is at
    held,               \* the line it has measured
    told,               \* history: lines it has sent
    had                 \* history: lines logged when it began

writing == <<logRing, logSeq, wpc, wseq, wline, lines, logged>>
reader  == <<reading, sq, held, told, had>>
logVars == <<writing, reader>>

NoLine   == 0                       \* an empty slot
Garbled  == MaxLines + 1            \* part of a line, or parts of several
Unread   == MaxLines + 2            \* no line is measured
Slot(n)  == n % LogN
Plus(n)  == (n + 1) % SeqMod

LogInit ==
    /\ logRing = [i \in 0 .. LogN - 1 |-> [line |-> NoLine, by |-> "nobody"]]
    /\ logSeq = 0
    /\ wpc = [w \in Writers |-> "idle"] /\ wseq = [w \in Writers |-> 0]
    /\ wline = [w \in Writers |-> NoLine]
    /\ lines = 0 /\ logged = 0
    /\ reading = FALSE /\ sq = 0 /\ held = Unread /\ told = <<>> /\ had = 0

-----------------------------------------------------------------------------
(* logLine.                                                                 *)

WStep(w, from, to) == wpc[w] = from /\ wpc' = [wpc EXCEPT ![w] = to]

Call(w) ==
    /\ WStep(w, "idle", "print") /\ lines < MaxLines
    /\ lines' = lines + 1
    /\ wline' = [wline EXCEPT ![w] = lines + 1]
    /\ wseq' = [wseq EXCEPT ![w] = logSeq]
    /\ UNCHANGED <<logRing, logSeq, logged, reader>>

PrintBegin(w) ==
    /\ WStep(w, "print", "printing")
    /\ logRing' = [logRing EXCEPT ![Slot(wseq[w])] = [line |-> Garbled, by |-> w]]
    /\ UNCHANGED <<logSeq, wseq, wline, lines, logged, reader>>

PrintEnd(w) ==
    /\ WStep(w, "printing", "load")
    /\ logRing' = [logRing EXCEPT ![Slot(wseq[w])].line =
                       IF logRing[Slot(wseq[w])].by = w THEN wline[w] ELSE Garbled]
    /\ UNCHANGED <<logSeq, wseq, wline, lines, logged, reader>>

\* logSeq++, a load and a store.
LoadSeq(w) ==
    /\ WStep(w, "load", "store")
    /\ wseq' = [wseq EXCEPT ![w] = logSeq]
    /\ UNCHANGED <<logRing, logSeq, wline, lines, logged, reader>>

StoreSeq(w) ==
    /\ WStep(w, "store", "idle")
    /\ logSeq' = Plus(wseq[w])
    /\ logged' = logged + 1
    /\ wseq' = [wseq EXCEPT ![w] = 0] /\ wline' = [wline EXCEPT ![w] = NoLine]
    /\ UNCHANGED <<logRing, lines, reader>>

-----------------------------------------------------------------------------
(* The "log" command.                                                       *)

\* Seeded fault: the oldest line is the one a ring that is not full begins with.
OldestEarly == IF logSeq >= LogN THEN logSeq - LogN + 1 ELSE 0

Oldest == IF logSeq > LogN THEN logSeq - LogN ELSE 0

LogBegin ==
    /\ ~reading
    /\ reading' = TRUE
    /\ sq' = Oldest
    /\ had' = logged
    /\ UNCHANGED <<held, told, writing>>

Measure ==
    /\ reading /\ sq # logSeq /\ held = Unread
    /\ held' = logRing[Slot(sq)].line
    /\ UNCHANGED <<reading, sq, told, had, writing>>

\* An empty slot sends an empty line.
SendLine ==
    /\ reading /\ held # Unread
    /\ told' = Append(told, IF logRing[Slot(sq)].line = held THEN held ELSE Garbled)
    /\ sq' = Plus(sq) /\ held' = Unread
    /\ UNCHANGED <<reading, had, writing>>

LogEnd ==
    /\ reading /\ sq = logSeq /\ held = Unread
    /\ reading' = FALSE
    /\ sq' = 0 /\ told' = <<>> /\ had' = 0
    /\ UNCHANGED <<held, writing>>

-----------------------------------------------------------------------------
(* Two events the environments of Control leave out or let happen.          *)

\* The lines the reader has still to send, were it at number n, and their slots.
Due(n)     == (logSeq + SeqMod - n) % SeqMod
DueSlots(n) == {Slot((n + k) % SeqMod) : k \in 0 .. Due(n) - 1}

\* A writer takes the slot of a line that is still to be sent.
Laps(w) == reading /\ Slot(logSeq) \in DueSlots(sq)

\* A reader begins with the slot that a writer is at.
BeginsLapped ==
    \E w \in Writers : wpc[w] # "idle" /\ Slot(wseq[w]) \in DueSlots(Oldest)

Overlaps(w) == \E v \in Writers \ {w} : wpc[v] # "idle"

LogTypes ==
    /\ logRing \in [0 .. LogN - 1 -> [line : 0 .. MaxLines + 1, by : Writers \cup {"nobody"}]]
    /\ logSeq \in 0 .. SeqMod - 1 /\ lines \in 0 .. MaxLines /\ logged \in Nat
    /\ wpc \in [Writers -> {"idle", "print", "printing", "load", "store"}]
    /\ wseq \in [Writers -> 0 .. SeqMod - 1] /\ wline \in [Writers -> 0 .. MaxLines]
    /\ reading \in BOOLEAN /\ sq \in 0 .. SeqMod - 1 /\ held \in 0 .. MaxLines + 2
    /\ told \in Seq(0 .. MaxLines + 2) /\ had \in Nat
=============================================================================
