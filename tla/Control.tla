------------------------------ MODULE Control -------------------------------
(***************************************************************************)
(* The control socket on port 6054 (wbrg1_ble_proxy.ino: ctrlTaskFn,        *)
(* handleCommand, runDiag, the end of loop()): "One command per             *)
(* connection: read a line, handle, reply, close" (line 368).  The control  *)
(* task leaves a command in global variables, one store at a time, and says *)
(* "ok"; loop() finds it in a later pass and reads those variables one at a *)
(* time.  The ring of log lines, which the control task reads itself, is    *)
(* EXTENDed.                                                                *)
(*                                                                         *)
(* A command is a record: "to" is who acts on it, "what" the values it      *)
(* leaves, "whole" FALSE when the six bytes of its address, or the three     *)
(* words of an ota, do not parse: handleCommand drops it as it drops a word *)
(* it does not know, and "ok" is said.  An address is two bytes long.  Left   *)
(* out: the words of commands and answers, and what an operation does       *)
(* beyond diagConnId and the link.                                          *)
(*                                                                         *)
(* External: the clients, the BLE stack, the pull of an image (it reads the *)
(* port when it is called, the host when it connects, the path when it      *)
(* asks), the watchdog, whether a start brings BLE up.                      *)
(*                                                                         *)
(* Events of an environment (env): "hurry", a command comes before loop()   *)
(* is done with the last one for the same place; "bad", a command that does *)
(* not parse; "again", a conn while a link is up; "api", links of API       *)
(* clients, "beside", that come up while a conn is due or under way, and    *)
(* "stale", with the conn id diagConnId still has; "trickle", bytes that never end a line; "chat", lines are       *)
(* written (BOUND: then clients ask for the log and nothing else), and with *)
(* it "race", two tasks write at once, and "lap", a writer comes to a line  *)
(* a reader has still to send.                                              *)
(***************************************************************************)
EXTENDS LogRing, Integers, FiniteSets

CONSTANTS Cmds,     \* commands a client may send
          Ids,      \* conn ids
          MaxCmds,  \* bound: commands for loop() in a boot
          MaxIdle,  \* rounds of silence that end a client (25)
          Envs      \* sets of events that may happen

Boxes == {"diag", "ota"}
None  == "none"
ConnFields == {"op", "addr1", "addr2", "type", "wifi"}
OtaFields  == {"host", "port", "res"}

(* What a command carries: a conn its address, type and whether to drop     *)
(* WiFi first, a pull its three words, another operation itself.            *)
ASSUME CmdsAssumption ==
    \A c \in Cmds :
        /\ c.to \in Boxes \cup {"ctrl"} /\ c.whole \in BOOLEAN
        /\ c.to = "ota" => c.what = [f \in OtaFields |-> c.what[f]]
        /\ c.to = "diag" =>
               /\ c.what.op # None
               /\ IF c.what.op = "conn"
                  THEN c.what = [f \in ConnFields |-> c.what[f]] /\ c.what.wifi \in BOOLEAN
                  ELSE c.what = [op |-> c.what.op]

ASSUME IdsAssumption == Ids \subseteq Nat

ASSUME BoundsAssumption == MaxCmds \in Nat /\ MaxIdle \in Nat

NoCmd == [to |-> "nobody"]
NoId  == -1             \* no conn id
NoLink == <<>>
Api   == <<"api">>      \* the peer of an API client's link

VARIABLES
    env, bleUp,
    ctrlPc, idle, line, \* control task: place, silent rounds, command
    todo,               \* the stores left of it
    mem,                \* diagOp, diagAddr, diagType, diagWifiOff, ota...
    loopPc, got, reads, \* loop(): place, what it has read, what it will read
    diagConnId, links,  \* the link the diagnostics hold; the stack's links
    pending,            \* the connect the stack is at
    asked, done,        \* history: commands stored, and acted on; how many
    oks, cmds           \* were said "ok" to, and how many were sent

ctrl   == <<ctrlPc, idle, line, todo>>
ble    == <<diagConnId, links, pending>>
loopv  == <<loopPc, got, reads>>
hist   == <<asked, done, oks, cmds>>
vars   == <<env, bleUp, ctrl, mem, loopv, ble, hist, logVars>>

Cleared == [op |-> None, addr1 |-> 0, addr2 |-> 0, type |-> 0, wifi |-> FALSE,
            host |-> None, port |-> None, res |-> None, flag |-> FALSE]

Init ==
    /\ env \in Envs /\ bleUp \in BOOLEAN
    /\ ctrlPc = "accept" /\ idle = 0 /\ line = NoCmd /\ todo = <<>>
    /\ mem = Cleared
    /\ loopPc = "diag" /\ got = <<>> /\ reads = <<>>
    /\ diagConnId = NoId /\ links = [i \in Ids |-> NoLink] /\ pending = NoLink
    /\ asked = [b \in Boxes |-> <<>>] /\ done = [b \in Boxes |-> <<>>]
    /\ oks = [b \in Boxes |-> 0] /\ cmds = 0
    /\ LogInit

IsConn(c) == c.to = "diag" /\ c.what.op = "conn"

Allowed(event, happens) == happens => event \in env

-----------------------------------------------------------------------------
(* The control task: ctrlTaskFn.                                            *)

Accept ==
    /\ ctrlPc = "accept"
    /\ ctrlPc' = "recv" /\ idle' = 0
    /\ UNCHANGED <<env, bleUp, line, todo, mem, loopv, ble, hist, logVars>>

CloseSocket ==
    /\ ctrlPc = "close"
    /\ ctrlPc' = "accept" /\ idle' = 0
    /\ UNCHANGED <<env, bleUp, line, todo, mem, loopv, ble, hist, logVars>>

\* Seeded fault: the mailbox is filled first.
StoresOpFirst(c) ==
    CASE c.to = "ota" /\ c.whole -> <<"flag", "host", "port", "res">>
      [] c.to = "diag" /\ ~IsConn(c) -> <<"op">>
      [] IsConn(c) /\ ~c.whole -> IF c.what.wifi THEN <<"wifi">> ELSE <<>>
      [] IsConn(c) /\ c.whole ->
             IF c.what.wifi THEN <<"wifi", "op", "addr1", "addr2", "type">>
                            ELSE <<"op", "addr1", "addr2", "type">>
      [] OTHER -> <<>>

\* What handleCommand stores of a command, in order: nothing, or the request
\* to drop WiFi alone, of one that does not parse.
Stores(c) ==
    CASE c.to = "ota" /\ c.whole -> <<"host", "port", "res", "flag">>
      [] c.to = "diag" /\ ~IsConn(c) -> <<"op">>
      [] IsConn(c) /\ ~c.whole -> IF c.what.wifi THEN <<"wifi">> ELSE <<>>
      [] IsConn(c) /\ c.whole ->
             IF c.what.wifi THEN <<"wifi", "addr1", "addr2", "type", "op">>
                            ELSE <<"addr1", "addr2", "type", "op">>
      [] OTHER -> <<>>

\* loop() is done with what it was asked.
Settled(b) == Len(done[b]) = Len(asked[b]) /\ loopPc \notin {"wait", "cancel"}

RecvLine(c) ==
    /\ ctrlPc = "recv"
    /\ IF "chat" \in env THEN c.to = "ctrl" ELSE cmds < MaxCmds
    /\ c.to \in Boxes =>
           /\ Allowed("hurry", ~Settled(c.to))
           /\ Allowed("bad", ~c.whole)
           /\ Allowed("again", IsConn(c) /\ \E i \in Ids : links[i] # NoLink)
    /\ line' = (IF c.to = "ctrl" THEN NoCmd ELSE c) /\ todo' = Stores(c)
    /\ cmds' = IF c.to = "ctrl" THEN cmds ELSE cmds + 1
    /\ ctrlPc' = IF c.to = "ctrl" THEN "log" ELSE "store"
    /\ UNCHANGED <<env, bleUp, idle, mem, loopv, ble, asked, done, oks, logVars>>

\* A line without a character, or the end of the stream.
RecvNoLine ==
    /\ ctrlPc = "recv"
    /\ ctrlPc' = "close"
    /\ UNCHANGED <<env, bleUp, idle, line, todo, mem, loopv, ble, hist, logVars>>

RecvByte ==
    /\ ctrlPc = "recv" /\ "trickle" \in env
    /\ idle' = 0
    /\ UNCHANGED <<env, bleUp, ctrlPc, line, todo, mem, loopv, ble, hist, logVars>>

\* Seeded fault: the rounds are not counted.
RecvNothingUncounted ==
    /\ ctrlPc = "recv"
    /\ IF idle > MaxIdle THEN ctrlPc' = "close" ELSE UNCHANGED ctrlPc
    /\ UNCHANGED <<env, bleUp, idle, line, todo, mem, loopv, ble, hist, logVars>>

\* "recv_data doesn't reliably return 0 on peer close, so we also cap idle time"
RecvNothing ==
    /\ ctrlPc = "recv"
    /\ IF idle >= MaxIdle
       THEN ctrlPc' = "close" /\ UNCHANGED idle
       ELSE idle' = idle + 1 /\ UNCHANGED ctrlPc
    /\ UNCHANGED <<env, bleUp, line, todo, mem, loopv, ble, hist, logVars>>

\* The value of a field; the mailbox is filled when op or flag is stored.
Value(f) == IF f = "flag" THEN TRUE ELSE line.what[f]

Store ==
    /\ ctrlPc = "store" /\ todo # <<>>
    /\ mem' = [mem EXCEPT ![Head(todo)] = Value(Head(todo))]
    /\ todo' = Tail(todo)
    /\ asked' = IF Head(todo) \in {"op", "flag"}
                THEN [asked EXCEPT ![line.to] = Append(@, line.what)]
                ELSE asked
    /\ UNCHANGED <<env, bleUp, ctrlPc, idle, line, loopv, ble, done, oks, cmds, logVars>>

\* "ok", whatever was stored.
SayOk ==
    /\ ctrlPc = "store" /\ todo = <<>>
    /\ ctrlPc' = "close" /\ line' = NoCmd
    /\ oks' = [oks EXCEPT ![line.to] = @ + 1]
    /\ UNCHANGED <<env, bleUp, idle, todo, mem, loopv, ble, asked, done, cmds, logVars>>

LogStep ==
    /\ ctrlPc = "log"
    /\ \/ LogBegin /\ Allowed("lap", BeginsLapped) /\ UNCHANGED ctrlPc
       \/ (Measure \/ SendLine) /\ UNCHANGED ctrlPc
       \/ LogEnd /\ ctrlPc' = "close"
    /\ UNCHANGED <<env, bleUp, idle, line, todo, mem, loopv, ble, hist>>

-----------------------------------------------------------------------------
(* loop(): runDiag.                                                         *)

\* Operations that need no BLE: 6, 7, 11, 14 and 15.
InSafeMode == {"reboot", "flashid"}

\* Seeded fault: without BLE the mailbox is not looked at.
ReadOpUp ==
    /\ loopPc = "diag"
    /\ got' = [op |-> mem.op]
    /\ loopPc' = IF mem.op = None \/ ~bleUp THEN "ota" ELSE "taken"
    /\ UNCHANGED <<env, bleUp, ctrl, mem, reads, ble, hist, logVars>>

ReadOp ==
    /\ loopPc = "diag"
    /\ got' = [op |-> mem.op]
    /\ loopPc' = IF mem.op = None THEN "ota" ELSE "taken"
    /\ UNCHANGED <<env, bleUp, ctrl, mem, reads, ble, hist, logVars>>

\* What it will read of a connect; the order is that of runDiag.
TakeOp ==
    /\ loopPc = "taken"
    /\ mem' = [mem EXCEPT !.op = None]
    /\ IF bleUp \/ got.op \in InSafeMode
       THEN /\ loopPc' = "run"
            /\ reads' = IF got.op = "conn" THEN <<"wifi", "addr1", "addr2", "type">> ELSE <<>>
            /\ UNCHANGED done
       ELSE /\ done' = [done EXCEPT !.diag = Append(@, [ignored |-> got.op])]
            /\ loopPc' = "ota"
            /\ UNCHANGED reads
    /\ UNCHANGED <<env, bleUp, ctrl, got, ble, asked, oks, cmds, logVars>>

Read ==
    /\ loopPc \in {"run", "pull"} /\ reads # <<>>
    /\ got' = [f \in DOMAIN got \cup {Head(reads)} |->
                   IF f = Head(reads) THEN mem[f] ELSE got[f]]
    /\ reads' = Tail(reads)
    /\ loopPc' = IF Head(reads) = "wifi" /\ mem.wifi THEN "wifi" ELSE loopPc
    /\ UNCHANGED <<env, bleUp, ctrl, mem, ble, hist, logVars>>

ClearWifi ==
    /\ loopPc = "wifi"
    /\ mem' = [mem EXCEPT !.wifi = FALSE]
    /\ loopPc' = "run"
    /\ UNCHANGED <<env, bleUp, ctrl, got, reads, ble, hist, logVars>>

\* The operation itself.  A reset, by the command or the watchdog, starts
\* the device again at Init.
Run ==
    /\ loopPc = "run" /\ reads = <<>>
    /\ done' = [done EXCEPT !.diag = Append(@, got)]
    /\ CASE got.op = "conn" ->
              /\ diagConnId' = NoId
              /\ pending' \in {<<got.addr1, got.addr2>>, NoLink}  \* le_connect may refuse
              /\ loopPc' = "wait" /\ UNCHANGED links
         [] got.op = "disc" ->
              /\ links' = [i \in Ids |-> IF i = diagConnId THEN NoLink ELSE links[i]]
              /\ diagConnId' = NoId
              /\ loopPc' = "ota" /\ UNCHANGED pending
         [] got.op \in {"reboot", "hang"} -> loopPc' = "reset" /\ UNCHANGED ble
         [] OTHER -> loopPc' = "ota" /\ UNCHANGED ble
    /\ UNCHANGED <<env, bleUp, ctrl, mem, got, reads, asked, oks, cmds, logVars>>

LowestLink == CHOOSE i \in Ids : links[i] # NoLink /\ \A j \in Ids : j < i => links[j] = NoLink

\* The wait of 6 s ends with the first link there is, or without one.
ConnUp ==
    /\ loopPc = "wait" /\ \E i \in Ids : links[i] # NoLink
    /\ diagConnId' = LowestLink
    /\ loopPc' = "ota"
    /\ UNCHANGED <<env, bleUp, ctrl, mem, got, reads, links, pending, hist, logVars>>

ConnGiveUp ==
    /\ loopPc = "wait" /\ \A i \in Ids : links[i] = NoLink
    /\ loopPc' = "cancel"
    /\ UNCHANGED <<env, bleUp, ctrl, mem, got, reads, ble, hist, logVars>>

\* Seeded fault: the connect is not cancelled.
ConnCancelKeeps ==
    /\ loopPc = "cancel"
    /\ loopPc' = "ota"
    /\ UNCHANGED <<env, bleUp, ctrl, mem, got, reads, ble, hist, logVars>>

\* A link that came up since the last look stays, and nobody knows of it.
ConnCancel ==
    /\ loopPc = "cancel"
    /\ pending' = NoLink
    /\ loopPc' = "ota"
    /\ UNCHANGED <<env, bleUp, ctrl, mem, got, reads, diagConnId, links, hist, logVars>>

-----------------------------------------------------------------------------
(* loop(): the pull of an image.                                            *)

ReadFlag ==
    /\ loopPc = "ota"
    /\ loopPc' = IF mem.flag THEN "flagged" ELSE "diag"
    /\ UNCHANGED <<env, bleUp, ctrl, mem, got, reads, ble, hist, logVars>>

ClearFlag ==
    /\ loopPc = "flagged"
    /\ mem' = [mem EXCEPT !.flag = FALSE]
    /\ loopPc' = "pull" /\ got' = <<>> /\ reads' = <<"port", "host", "res">>
    /\ UNCHANGED <<env, bleUp, ctrl, ble, hist, logVars>>

PullEnds ==
    /\ loopPc = "pull" /\ reads = <<>>
    /\ done' = [done EXCEPT !.ota = Append(@, got)]
    /\ loopPc' \in {"reset", "diag"}        \* pulled, or failed
    /\ UNCHANGED <<env, bleUp, ctrl, mem, got, reads, ble, asked, oks, cmds, logVars>>

-----------------------------------------------------------------------------
(* The BLE stack, and the writers of lines.                                 *)

LinkUp(i) ==
    /\ links[i] = NoLink /\ pending # NoLink
    /\ links' = [links EXCEPT ![i] = pending] /\ pending' = NoLink
    /\ UNCHANGED <<env, bleUp, ctrl, mem, loopv, diagConnId, hist, logVars>>

\* A conn that was sent, and has not come to its end.
ConnDue == \/ IsConn(line)
           \/ \E i \in DOMAIN asked.diag :
                 i > Len(done.diag) /\ asked.diag[i].op = "conn"
           \/ loopPc \in {"wait", "cancel"}

ApiLink(i) ==
    /\ links[i] = NoLink /\ bleUp /\ "api" \in env
    /\ Allowed("beside", ConnDue) /\ Allowed("stale", i = diagConnId)
    /\ links' = [links EXCEPT ![i] = Api]
    /\ UNCHANGED <<env, bleUp, ctrl, mem, loopv, diagConnId, pending, hist, logVars>>

LinkLost(i) ==
    /\ links[i] # NoLink
    /\ links' = [links EXCEPT ![i] = NoLink]
    /\ UNCHANGED <<env, bleUp, ctrl, mem, loopv, diagConnId, pending, hist, logVars>>

LogCall(w) ==
    /\ "chat" \in env
    /\ Allowed("race", Overlaps(w)) /\ Allowed("lap", Laps(w))
    /\ Call(w)
    /\ UNCHANGED <<env, bleUp, ctrl, mem, loopv, ble, hist>>

Logging(w) ==
    /\ PrintBegin(w) \/ PrintEnd(w) \/ LoadSeq(w) \/ StoreSeq(w)
    /\ UNCHANGED <<env, bleUp, ctrl, mem, loopv, ble, hist>>
-----------------------------------------------------------------------------
Clients == Accept \/ RecvByte \/ \E c \in Cmds : RecvLine(c)

CtrlTask == CloseSocket \/ RecvNothing \/ Store \/ SayOk \/ LogStep

LoopTask == \/ ReadOp \/ TakeOp \/ Read \/ ClearWifi \/ Run
            \/ ConnUp \/ ConnGiveUp \/ ConnCancel \/ ReadFlag \/ ClearFlag
            \/ PullEnds

Stack == \E i \in Ids : LinkUp(i) \/ ApiLink(i) \/ LinkLost(i)

\* After a reset the device starts again at Init.
Running == loopPc # "reset"

Next == Running /\ \/ Clients \/ RecvNoLine \/ CtrlTask \/ LoopTask \/ Stack
                   \/ \E w \in Writers : LogCall(w) \/ Logging(w)

Spec == Init /\ [][Next]_vars

(* The tasks run; a silent round of recv_data ends after 200 ms; a wait for *)
(* a link, and a pull, end.  Clients, the stack and callers of logLine owe  *)
(* nothing.                                                                 *)
FairSpec ==
    /\ Spec
    /\ WF_vars(Running /\ CtrlTask) /\ WF_vars(Running /\ LoopTask)
    /\ \A w \in Writers : WF_vars(Running /\ Logging(w))

-----------------------------------------------------------------------------
(* Properties.                                                              *)

Types ==
    /\ bleUp \in BOOLEAN
    /\ ctrlPc \in {"accept", "recv", "store", "log", "close"}
    /\ idle \in 0 .. MaxIdle /\ line \in Cmds \cup {NoCmd} /\ cmds \in 0 .. MaxCmds
    /\ loopPc \in {"diag", "taken", "run", "wifi", "wait", "cancel", "ota",
                  "flagged", "pull", "reset"}
    /\ diagConnId \in Ids \cup {NoId} /\ (pending # NoLink => bleUp)

TypeOK == Types /\ LogTypes

Without(events) == env \cap events = {}

AsAsked(b, i) ==
    done[b][i] = IF b = "ota" \/ bleUp \/ asked[b][i].op \in InSafeMode
                 THEN asked[b][i]
                 ELSE [ignored |-> asked[b][i].op]

(* An operation, or a pull, uses the values of one command: the one that    *)
(* was stored, each once and in order, with the address, the type and the   *)
(* request to drop WiFi it came with ("connw: drop WiFi before connecting", *)
(* line 268), or it is ignored in safe mode.  Left out: a command in a      *)
(* hurry, and a connw whose address does not parse, which leaves its        *)
(* request to the next conn.                                                *)
RunAsAsked ==
    Without({"hurry", "bad"}) =>
        \A b \in Boxes : /\ Len(done[b]) <= Len(asked[b])
                         /\ \A i \in DOMAIN done[b] : AsAsked(b, i)

\* The n-th command of a box was stored, or said "ok" to.
Owed(b, n) ==
    /\ Without({"hurry"})
    /\ Len(asked[b]) >= n \/ (Without({"bad"}) /\ oks[b] >= n)

(* Each command whose mailbox or flag was stored, and, when every command   *)
(* parses, each one said "ok" to, is acted on, or the device resets.  One   *)
(* that does not parse is said "ok" to as well, and never acted on.  (What  *)
(* is owed stays so, and what is done stays done: this is Owed ~> done.)    *)
AskedIsRun ==
    \A b \in Boxes : \A n \in 1 .. MaxCmds :
        []<>(Owed(b, n) => Len(done[b]) >= n \/ ~Running)

\* The address of the last conn that was run.
LastConn ==
    LET ran == {i \in DOMAIN done.diag : "addr1" \in DOMAIN done.diag[i]}
        last == done.diag[CHOOSE i \in ran : \A j \in ran : j <= i]
    IN  <<last.addr1, last.addr2>>

(* The link that runDiag calls connected, and that disc takes down, is the  *)
(* one its last conn asked for, or is down, also while API clients have     *)
(* links of their own: disc takes down none of theirs.  Left out: another   *)
(* link that is up before the conn ends, which the wait takes whoever has   *)
(* it (line 713), and an API link with the conn id of a diagnostic link     *)
(* that was lost, which disc takes down (line 726).                         *)
DiagLinkIsAsked ==
    Without({"hurry", "again", "beside", "stale"}) /\ diagConnId # NoId
        => links[diagConnId] \in {NoLink, LastConn}

(* "Ring of recent log lines, readable over the ctrl socket" (line 244):    *)
(* what the log command has sent at any time is the run of lines before the *)
(* one it is at, whole and in order, and began LOGRING_N lines back.  Left  *)
(* out: two tasks in logLine at once; a line written into a slot still to   *)
(* be sent, which a full ring's next line always is while the first line is *)
(* not sent; after 65536 lines the older ones are passed over.              *)
LogIsRecent ==
    Without({"race", "lap"}) /\ reading =>
        LET end == logged - Due(sq)
        IN  /\ told = [i \in 1 .. Len(told) |-> end - Len(told) + i]
            /\ logged < SeqMod =>
                   end - Len(told) <= (IF had > LogN THEN had - LogN ELSE 0)

(* "We also cap idle time (~5 s) to never wedge the accept loop on a dead   *)
(* socket" (line 370): the control task comes back to the next client,      *)
(* unless one sends bytes that never end a line.                            *)
NextClientServed ==
    Without({"trickle"}) => []<>(ctrlPc = "accept" \/ ~Running)
=============================================================================
