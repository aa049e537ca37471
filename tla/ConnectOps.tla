------------------------------ MODULE ConnectOps -----------------------------
(***************************************************************************)
(* BLE connections of the proxy (wbrg1_ble_proxy/esphome_api.cpp): three    *)
(* contexts share a slot table and a one-place mailbox without a lock.      *)
(*                                                                          *)
(*   API task   serveClient: takes a client's connect and disconnect        *)
(*              requests, posts them in the mailbox (_pendOp ...), blocks   *)
(*              on the binary semaphore _opSem with a timeout, answers; and *)
(*              frees the slots of the links the stack reported lost.       *)
(*   loop()     serviceBleOp: runs the posted operation, gives _opSem.      *)
(*   BLE stack  (external) brings links up and down, and sets _discMask.    *)
(*                                                                          *)
(* In each behaviour, env is the set of the events beyond the ordinary that *)
(* may happen in it, so that a property can say what it depends on:         *)
(*   "stall"    loop() is away (scan recovery ladder, a diag connect, an    *)
(*              OTA pull) for longer than the API task waits on _opSem;     *)
(*   "late"     a link comes up when loop() no longer polls for it, before  *)
(*              the pending create-connection is cancelled;                 *)
(*   "reuse"    the stack gives a new link the conn id of a lost one whose  *)
(*              bit in _discMask the API task has not handled yet;          *)
(*   "preempt"  a link is lost between the API task's read of _discMask and *)
(*              the store that clears it;                                   *)
(*   "repeat"   the client asks to connect an address that has a slot;      *)
(*   "reset"    the board restarts at any moment (hardware watchdog, OTA,   *)
(*              power), and not only at the end of a failed scan recovery.  *)
(***************************************************************************)
EXTENDS Naturals, FiniteSets

CONSTANTS Addr,         \* device addresses
          None,         \* no address, no conn id, nothing told
          MaxConn,      \* MAX_CONN, and the links of beginCentral(3)
          MaxReq,       \* bound: requests over the life of the system
          Envs          \* the sets of events considered, see above

Events == {"stall", "late", "reuse", "preempt", "repeat", "reset"}

ASSUME NoneAssumption == None \notin Addr /\ None \notin Nat
ASSUME MaxConnAssumption == MaxConn \in Nat \ {0}
ASSUME MaxReqAssumption == MaxReq \in Nat
ASSUME EnvsAssumption == Envs \subseteq SUBSET Events

Slots  == 1 .. MaxConn
ConnId == 0 .. MaxConn - 1

VARIABLES
    env,                            \* what may happen in this behaviour
    conns,                          \* _conns: address (None: not used), connId
    pendOp, pendAddr,               \* the mailbox: _pendOp, _pendAddr
    pendOk, pendConnId,             \* and its answer: _pendOk, _pendConnId
    opSem,                          \* _opSem: TRUE when a token is in it
    discMask, resumeScan,           \* _discMask, _resumeScan
    apiPc, req, slot, mask,         \* API task: place, request, idx, mask
    overdue,                        \* API task: the wait may time out, or did
    loopPc, runOp, bd,              \* loop(): place, and its locals op and bd
    link, closing, creating,        \* stack: address of each link; links told
    scanning,                       \*   to close; pending connect; observer on
    view, freeTold,                 \* what the client was last told
    asked, running, done            \* history: requests by number (0: no one's)

mailbox  == <<pendOp, pendAddr, pendOk, pendConnId>>
apiVars  == <<apiPc, req, slot, mask, overdue>>
loopVars == <<loopPc, runOp, bd>>
stack    == <<link, closing, creating, scanning>>
told     == <<view, freeTold>>
history  == <<asked, running, done>>
vars == <<env, conns, mailbox, opSem, discMask, resumeScan, apiVars, loopVars,
          stack, told, history>>

Free == [address |-> None, connId |-> None]          \* Conn()
NoReq == [op |-> "none", address |-> None]

Used(s) == conns[s].address # None
SlotsOf(a) == {s \in Slots : Used(s) /\ conns[s].address = a}      \* findConn
SlotsOn(c) == {s \in Slots : Used(s) /\ conns[s].connId = c}       \* findConnByConnId
FreeSlots == {s \in Slots : ~Used(s)}                              \* freeConnSlot
Lowest(S) == {s \in S : \A t \in S : s <= t}         \* where a scan upwards stops

Linked(c) == link[c] # None
\* BLE.connected(i): a link whose disconnect was issued is no longer connected.
Connected(c) == Linked(c) /\ c \notin closing

Init ==
    /\ env \in Envs
    /\ conns = [s \in Slots |-> Free]
    /\ pendOp = "none" /\ pendAddr = None
    /\ pendOk = FALSE /\ pendConnId = None
    /\ opSem = FALSE
    /\ discMask = {} /\ resumeScan = FALSE
    /\ apiPc = "accept" /\ req = NoReq /\ slot = None /\ mask = {}
    /\ overdue = FALSE
    /\ loopPc = "poll" /\ runOp = "none" /\ bd = None
    /\ link = [c \in ConnId |-> None] /\ closing = {} /\ creating = None
    /\ scanning = TRUE
    /\ view = {} /\ freeTold = None
    /\ asked = 0 /\ running = 0 /\ done = 0

-----------------------------------------------------------------------------
(* API task: the client's session and the links the stack lost.             *)

ClientConnects ==
    /\ apiPc = "accept"
    /\ apiPc' = "svc"
    /\ view' = {} /\ freeTold' = None
    /\ UNCHANGED <<env, conns, mailbox, opSem, discMask, resumeScan, req, slot,
                   mask, overdue, loopVars, stack, history>>

\* serveClient returns and closeClient runs: the slots and links stay.
ClientLeaves ==
    /\ apiPc = "recv"
    /\ apiPc' = "accept"
    /\ UNCHANGED <<env, conns, mailbox, opSem, discMask, resumeScan, req, slot,
                   mask, overdue, loopVars, stack, told, history>>

SvcSkip ==
    /\ apiPc = "svc" /\ discMask = {}
    /\ apiPc' = "recv"
    /\ UNCHANGED <<env, conns, mailbox, opSem, discMask, resumeScan, req, slot,
                   mask, overdue, loopVars, stack, told, history>>

SvcRead ==
    /\ apiPc = "svc" /\ discMask # {}
    /\ mask' = discMask
    /\ apiPc' = "svcClear"
    /\ UNCHANGED <<env, conns, mailbox, opSem, discMask, resumeScan, req, slot,
                   overdue, loopVars, stack, told, history>>

SvcClear ==
    /\ apiPc = "svcClear"
    /\ discMask' = {}
    /\ apiPc' = "svcFree"
    /\ UNCHANGED <<env, conns, mailbox, opSem, resumeScan, req, slot, mask,
                   overdue, loopVars, stack, told, history>>

\* Seeded fault: the slot of a lost link is not freed.
SvcFreeForgets ==
    /\ apiPc = "svcFree"
    /\ \E c \in Lowest(mask) : mask' = mask \ {c}
    /\ UNCHANGED <<env, conns, mailbox, opSem, discMask, resumeScan, apiPc,
                   req, slot, overdue, loopVars, stack, told, history>>

\* Seeded fault: the client is not told of the lost link.
SvcFreeSilent ==
    /\ apiPc = "svcFree"
    /\ \E c \in Lowest(mask) :
         /\ mask' = mask \ {c}
         /\ conns' = [s \in Slots |-> IF s \in SlotsOn(c) THEN Free ELSE conns[s]]
    /\ UNCHANGED <<env, mailbox, opSem, discMask, resumeScan, apiPc, req, slot,
                   overdue, loopVars, stack, told, history>>

\* Seeded fault: the conn id is used as the index of the slot.
SvcFreeByIndex ==
    /\ apiPc = "svcFree"
    /\ \E c \in Lowest(mask) :
         /\ mask' = mask \ {c}
         /\ conns' = [conns EXCEPT ![c + 1] = Free]
         /\ view' = view \ {conns[c + 1].address}
    /\ UNCHANGED <<env, mailbox, opSem, discMask, resumeScan, apiPc, req, slot,
                   overdue, loopVars, stack, freeTold, history>>

\* One lost link: free its slot and answer (address, connected = false).
SvcFree ==
    /\ apiPc = "svcFree"
    /\ \E c \in Lowest(mask) :
         /\ mask' = mask \ {c}
         /\ \/ /\ SlotsOn(c) = {}
               /\ UNCHANGED <<conns, view>>
            \/ \E s \in Lowest(SlotsOn(c)) :
                  /\ conns' = [conns EXCEPT ![s] = Free]
                  /\ view' = view \ {conns[s].address}
    /\ UNCHANGED <<env, mailbox, opSem, discMask, resumeScan, apiPc, req, slot,
                   overdue, loopVars, stack, freeTold, history>>

\* Seeded fault: scanning is not resumed when the last link is lost.
SvcTailNoResume ==
    /\ apiPc = "svcFree" /\ mask = {}
    /\ freeTold' = Cardinality(FreeSlots)
    /\ apiPc' = "recv"
    /\ UNCHANGED <<env, conns, mailbox, opSem, discMask, resumeScan, req, slot,
                   mask, overdue, loopVars, stack, view, history>>

\* Seeded fault: the client is not told how many slots are free now.
SvcTailUntold ==
    /\ apiPc = "svcFree" /\ mask = {}
    /\ resumeScan' = (resumeScan \/ FreeSlots = Slots)
    /\ apiPc' = "recv"
    /\ UNCHANGED <<env, conns, mailbox, opSem, discMask, req, slot, mask,
                   overdue, loopVars, stack, told, history>>

SvcTail ==
    /\ apiPc = "svcFree" /\ mask = {}
    /\ resumeScan' = (resumeScan \/ FreeSlots = Slots)
    /\ freeTold' = Cardinality(FreeSlots)
    /\ apiPc' = "recv"
    /\ UNCHANGED <<env, conns, mailbox, opSem, discMask, req, slot, mask,
                   overdue, loopVars, stack, view, history>>

\* recv() times out, or the frames it brought are all handled.
NoFrame ==
    /\ apiPc = "recv"
    /\ apiPc' = "svc"
    /\ UNCHANGED <<env, conns, mailbox, opSem, discMask, resumeScan, req, slot,
                   mask, overdue, loopVars, stack, told, history>>

SubscribeConnectionsFree ==
    /\ apiPc = "recv"
    /\ freeTold' = Cardinality(FreeSlots)
    /\ UNCHANGED <<env, conns, mailbox, opSem, discMask, resumeScan, apiVars,
                   loopVars, stack, view, history>>

-----------------------------------------------------------------------------
(* API task: handleDeviceRequest.  The first shared access of a request is  *)
(* the store to _pendAddr.                                                  *)

RequestDisconnect(a) ==
    /\ apiPc = "recv" /\ asked < MaxReq
    /\ asked' = asked + 1
    /\ req' = [op |-> "disconnect", address |-> a]
    /\ pendAddr' = a
    /\ apiPc' = "arm"
    /\ UNCHANGED <<env, conns, pendOp, pendOk, pendConnId, opSem, discMask,
                   resumeScan, slot, mask, overdue, loopVars, stack, told,
                   running, done>>

\* Seeded fault: an address that has a slot is given a second one.
RequestConnectAnew(a) ==
    /\ apiPc = "recv" /\ asked < MaxReq
    /\ "repeat" \in env \/ SlotsOf(a) = {}
    /\ \E s \in Lowest(FreeSlots) : slot' = s
    /\ asked' = asked + 1
    /\ req' = [op |-> "connect", address |-> a]
    /\ pendAddr' = a
    /\ apiPc' = "reset"
    /\ UNCHANGED <<env, conns, pendOp, pendOk, pendConnId, opSem, discMask,
                   resumeScan, mask, overdue, loopVars, stack, told, running,
                   done>>

RequestConnect(a) ==
    /\ apiPc = "recv" /\ asked < MaxReq
    /\ "repeat" \in env \/ SlotsOf(a) = {}
    /\ \E s \in Lowest(IF SlotsOf(a) # {} THEN SlotsOf(a) ELSE FreeSlots) : slot' = s
    /\ asked' = asked + 1
    /\ req' = [op |-> "connect", address |-> a]
    /\ pendAddr' = a
    /\ apiPc' = "reset"
    /\ UNCHANGED <<env, conns, pendOp, pendOk, pendConnId, opSem, discMask,
                   resumeScan, mask, overdue, loopVars, stack, told, running,
                   done>>

\* No slot: the request is refused at once, without a ConnectionsFree.
RequestRefused(a) ==
    /\ apiPc = "recv" /\ asked < MaxReq
    /\ SlotsOf(a) = {} /\ FreeSlots = {}
    /\ asked' = asked + 1
    /\ view' = view \ {a}
    /\ UNCHANGED <<env, conns, mailbox, opSem, discMask, resumeScan, apiVars,
                   loopVars, stack, freeTold, running, done>>

ResetAnswer ==
    /\ apiPc = "reset"
    /\ pendOk' = FALSE /\ pendConnId' = None
    /\ apiPc' = "arm"
    /\ UNCHANGED <<env, conns, pendOp, pendAddr, opSem, discMask, resumeScan,
                   req, slot, mask, overdue, loopVars, stack, told, history>>

\* The store to _pendOp hands the request to loop().  The wait is overdue
\* from the start if loop() is still busy with an older operation.
Arm ==
    /\ apiPc = "arm"
    /\ pendOp' = req.op
    /\ pendOk' = IF req.op = "disconnect" THEN FALSE ELSE pendOk
    /\ overdue' = (loopPc # "poll")
    /\ apiPc' = "wait"
    /\ UNCHANGED <<env, conns, pendAddr, pendConnId, opSem, discMask,
                   resumeScan, req, slot, mask, loopVars, stack, told,
                   history>>

Take ==
    /\ apiPc = "wait" /\ opSem
    /\ opSem' = FALSE
    /\ overdue' = FALSE
    /\ apiPc' = "woke"
    /\ UNCHANGED <<env, conns, mailbox, discMask, resumeScan, req, slot, mask,
                   loopVars, stack, told, history>>

\* 12 s (connect) or 5 s (disconnect) passed.  The mailbox keeps the request.
TimeOut ==
    /\ apiPc = "wait" /\ ~opSem /\ overdue
    /\ apiPc' = "woke"
    /\ UNCHANGED <<env, conns, mailbox, opSem, discMask, resumeScan, req, slot,
                   mask, overdue, loopVars, stack, told, history>>

AnswerDisconnect ==
    /\ apiPc = "woke" /\ req.op = "disconnect"
    /\ view' = view \ {req.address}
    /\ freeTold' = Cardinality(FreeSlots)
    /\ req' = NoReq
    /\ apiPc' = "recv"
    /\ UNCHANGED <<env, conns, mailbox, opSem, discMask, resumeScan, slot,
                   mask, overdue, loopVars, stack, history>>

\* Seeded fault: the conn id in the mailbox is not looked at.
AnswerConnectedUnchecked ==
    /\ apiPc = "woke" /\ req.op = "connect" /\ pendOk
    /\ conns' = [conns EXCEPT ![slot] = [address |-> req.address,
                                         connId |-> pendConnId]]
    /\ view' = view \cup {req.address}
    /\ freeTold' = Cardinality(FreeSlots \ {slot})
    /\ req' = NoReq /\ slot' = None
    /\ apiPc' = "recv"
    /\ UNCHANGED <<env, mailbox, opSem, discMask, resumeScan, mask, overdue,
                   loopVars, stack, history>>

AnswerConnected ==
    /\ apiPc = "woke" /\ req.op = "connect"
    /\ pendOk /\ pendConnId # None
    /\ conns' = [conns EXCEPT ![slot] = [address |-> req.address,
                                         connId |-> pendConnId]]
    /\ view' = view \cup {req.address}
    /\ freeTold' = Cardinality(FreeSlots \ {slot})
    /\ req' = NoReq /\ slot' = None
    /\ apiPc' = "recv"
    /\ UNCHANGED <<env, mailbox, opSem, discMask, resumeScan, mask, overdue,
                   loopVars, stack, history>>

\* Seeded fault: only what loop() calls a failure is answered as one.
AnswerFailedNotOk ==
    /\ apiPc = "woke" /\ req.op = "connect"
    /\ ~pendOk
    /\ view' = view \ {req.address}
    /\ freeTold' = Cardinality(FreeSlots)
    /\ req' = NoReq /\ slot' = None
    /\ apiPc' = "recv"
    /\ UNCHANGED <<env, conns, mailbox, opSem, discMask, resumeScan, mask,
                   overdue, loopVars, stack, history>>

AnswerFailed ==
    /\ apiPc = "woke" /\ req.op = "connect"
    /\ ~(pendOk /\ pendConnId # None)
    /\ view' = view \ {req.address}
    /\ freeTold' = Cardinality(FreeSlots)
    /\ req' = NoReq /\ slot' = None
    /\ apiPc' = "recv"
    /\ UNCHANGED <<env, conns, mailbox, opSem, discMask, resumeScan, mask,
                   overdue, loopVars, stack, history>>

-----------------------------------------------------------------------------
(* loop(): serviceBleOp, execConnectLoop and execDisconnectLoop.            *)

ResumeScan ==
    /\ loopPc = "poll" /\ resumeScan
    /\ resumeScan' = FALSE
    /\ scanning' = TRUE
    /\ UNCHANGED <<env, conns, mailbox, opSem, discMask, apiVars, loopVars,
                   link, closing, creating, told, history>>

\* Seeded fault: the token is given as soon as the operation is picked up.
TakeOpGivesEarly ==
    /\ loopPc = "poll" /\ pendOp # "none"
    /\ runOp' = pendOp
    /\ running' = IF apiPc = "wait" THEN asked ELSE 0
    /\ opSem' = TRUE
    /\ loopPc' = "run"
    /\ UNCHANGED <<env, conns, mailbox, discMask, resumeScan, apiVars, bd,
                   stack, told, asked, done>>

TakeOp ==
    /\ loopPc = "poll" /\ pendOp # "none"
    /\ runOp' = pendOp
    /\ running' = IF apiPc = "wait" THEN asked ELSE 0
    /\ loopPc' = "run"
    /\ UNCHANGED <<env, conns, mailbox, opSem, discMask, resumeScan, apiVars,
                   bd, stack, told, asked, done>>

\* stopScan(), then connect() to whatever address the mailbox holds by now.
ConnectBegin ==
    /\ loopPc = "run" /\ runOp = "connect"
    /\ scanning' = FALSE
    /\ bd' = pendAddr
    /\ creating' = pendAddr
    /\ loopPc' = "linking"
    /\ UNCHANGED <<env, conns, mailbox, opSem, discMask, resumeScan, apiVars,
                   runOp, link, closing, told, history>>

\* Connected links without a slot: the one to the address asked for, or, since
\* getConnId() does not always find it, the lowest one, whatever its address.
Candidates ==
    LET loose == {c \in ConnId : Connected(c) /\ SlotsOn(c) = {}}
    IN  {c \in loose : link[c] = bd \/ \A d \in loose : c <= d}

\* Seeded fault: a link that has a slot already is taken for the new one.
LinkFoundAny ==
    /\ loopPc = "linking"
    /\ \E c \in ConnId : Connected(c) /\ pendConnId' = c
    /\ pendOk' = TRUE
    /\ loopPc' = "clear"
    /\ UNCHANGED <<env, conns, pendOp, pendAddr, opSem, discMask, resumeScan,
                   apiVars, runOp, bd, stack, told, history>>

LinkFound ==
    /\ loopPc = "linking"
    /\ \E c \in Candidates : pendConnId' = c
    /\ pendOk' = TRUE
    /\ loopPc' = "clear"
    /\ UNCHANGED <<env, conns, pendOp, pendAddr, opSem, discMask, resumeScan,
                   apiVars, runOp, bd, stack, told, history>>

\* Sixty polls found nothing.
GiveUp ==
    /\ loopPc = "linking" /\ Candidates = {}
    /\ pendOk' = FALSE
    /\ loopPc' = "cancel"
    /\ UNCHANGED <<env, conns, pendOp, pendAddr, pendConnId, opSem, discMask,
                   resumeScan, apiVars, runOp, bd, stack, told, history>>

\* cancelPendingConnects(), then startScan().
Cancel ==
    /\ loopPc = "cancel"
    /\ creating' = None
    /\ scanning' = TRUE
    /\ loopPc' = "clear"
    /\ UNCHANGED <<env, conns, mailbox, opSem, discMask, resumeScan, apiVars,
                   runOp, bd, link, closing, told, history>>

\* Seeded fault: the slot is given back and the link stays up.
DisconnectKeepsLink ==
    /\ loopPc = "run" /\ runOp = "disconnect"
    /\ conns' = [s \in Slots |-> IF s \in SlotsOf(pendAddr) THEN Free ELSE conns[s]]
    /\ scanning' = (scanning \/ FreeSlots \cup SlotsOf(pendAddr) = Slots)
    /\ pendOk' = TRUE
    /\ loopPc' = "clear"
    /\ UNCHANGED <<env, pendOp, pendAddr, pendConnId, opSem, discMask,
                   resumeScan, apiVars, runOp, bd, link, closing, creating,
                   told, history>>

Disconnect ==
    /\ loopPc = "run" /\ runOp = "disconnect"
    /\ \/ /\ SlotsOf(pendAddr) = {}
          /\ UNCHANGED <<conns, closing>>
       \/ \E s \in Lowest(SlotsOf(pendAddr)) :
             /\ conns' = [conns EXCEPT ![s] = Free]
             /\ closing' = closing \cup {c \in {conns[s].connId} : Linked(c)}
    /\ scanning' = (scanning \/ \A s \in Slots : ~Used(s)')
    /\ pendOk' = TRUE
    /\ loopPc' = "clear"
    /\ UNCHANGED <<env, pendOp, pendAddr, pendConnId, opSem, discMask,
                   resumeScan, apiVars, runOp, bd, link, creating, told,
                   history>>

Clear ==
    /\ loopPc = "clear"
    /\ pendOp' = "none"
    /\ loopPc' = "give"
    /\ UNCHANGED <<env, conns, pendAddr, pendOk, pendConnId, opSem, discMask,
                   resumeScan, apiVars, runOp, bd, stack, told, history>>

Give ==
    /\ loopPc = "give"
    /\ opSem' = TRUE
    /\ done' = running
    /\ loopPc' = "poll" /\ runOp' = "none" /\ bd' = None
    /\ UNCHANGED <<env, conns, mailbox, discMask, resumeScan, apiVars, stack,
                   told, asked, running>>

\* loop() is away for seconds: what runDiag, the ladder and the OTA pull do.
Stall ==
    /\ "stall" \in env
    /\ loopPc = "poll" /\ apiPc = "wait" /\ ~overdue
    /\ overdue' = TRUE
    /\ UNCHANGED <<env, conns, mailbox, opSem, discMask, resumeScan, apiPc,
                   req, slot, mask, loopVars, stack, told, history>>

\* The scan watchdog: no advert for 120 s and no link.  The ladder cancels the
\* pending connect and restarts the scanner, which takes seconds, and fails
\* (module Supervisor says why).
ScanWatchdog ==
    /\ "stall" \in env
    /\ loopPc = "poll" /\ ~scanning
    /\ \A c \in ConnId : ~Connected(c)
    /\ creating' = None
    /\ scanning' = TRUE
    /\ overdue' = (overdue \/ apiPc = "wait")
    /\ loopPc' = "ladder"
    /\ UNCHANGED <<env, conns, mailbox, opSem, discMask, resumeScan, apiPc,
                   req, slot, mask, runOp, bd, link, closing, told, history>>

\* ota_platform_reset() when the ladder is done, or any other restart: the
\* links are lost, the client's socket is closed, and setup() scans again.
Reboot ==
    /\ loopPc = "ladder" \/ "reset" \in env
    /\ conns' = [s \in Slots |-> Free]
    /\ pendOp' = "none" /\ pendAddr' = None
    /\ pendOk' = FALSE /\ pendConnId' = None
    /\ opSem' = FALSE
    /\ discMask' = {} /\ resumeScan' = FALSE
    /\ apiPc' = "accept" /\ req' = NoReq /\ slot' = None /\ mask' = {}
    /\ overdue' = FALSE
    /\ loopPc' = "poll" /\ runOp' = "none" /\ bd' = None
    /\ link' = [c \in ConnId |-> None] /\ closing' = {} /\ creating' = None
    /\ scanning' = TRUE
    /\ view' = {} /\ freeTold' = None
    /\ running' = 0 /\ done' = 0
    /\ UNCHANGED <<env, asked>>

-----------------------------------------------------------------------------
(* The BLE stack (external) and onDisconnect, its callback.                 *)

LinkUp(c) ==
    /\ creating # None
    /\ loopPc = "linking" \/ "late" \in env
    /\ link[c] = None
    /\ \A d \in ConnId : link[d] # creating
    /\ "reuse" \in env \/ c \notin discMask \cup mask
    /\ link' = [link EXCEPT ![c] = creating]
    /\ creating' = None
    /\ UNCHANGED <<env, conns, mailbox, opSem, discMask, resumeScan, apiVars,
                   loopVars, closing, scanning, told, history>>

\* The link is gone, by the peer's doing or ours: _discMask |= 1 << c.
LinkDrop(c) ==
    /\ Linked(c)
    /\ "preempt" \in env \/ apiPc # "svcClear"
    /\ link' = [link EXCEPT ![c] = None]
    /\ closing' = closing \ {c}
    /\ discMask' = discMask \cup {c}
    /\ UNCHANGED <<env, conns, mailbox, opSem, resumeScan, apiVars, loopVars,
                   creating, scanning, told, history>>

-----------------------------------------------------------------------------
Client ==
    \/ ClientConnects
    \/ ClientLeaves
    \/ SubscribeConnectionsFree
    \/ \E a \in Addr : \/ RequestDisconnect(a)
                       \/ RequestConnect(a)
                       \/ RequestRefused(a)

ApiStep ==
    \/ SvcSkip \/ SvcRead \/ SvcClear \/ SvcFree \/ SvcTail
    \/ NoFrame
    \/ ResetAnswer \/ Arm
    \/ Take \/ TimeOut
    \/ AnswerDisconnect \/ AnswerConnected \/ AnswerFailed

LoopStep ==
    \/ ResumeScan
    \/ TakeOp
    \/ ConnectBegin \/ LinkFound \/ GiveUp \/ Cancel
    \/ Disconnect
    \/ Clear \/ Give

Away == Stall \/ ScanWatchdog

Stack == \E c \in ConnId : LinkUp(c) \/ LinkDrop(c)

Next == Client \/ ApiStep \/ LoopStep \/ Away \/ Reboot \/ Stack

Spec == Init /\ [][Next]_vars

(* The two tasks keep running; xSemaphoreTake and recv() have timeouts; the *)
(* scan watchdog runs on every pass of loop(), and its ladder ends; the     *)
(* stack ends a disconnect it was told to make; and a client that is gone   *)
(* comes back, as Home Assistant does.                                      *)
FairSpec ==
    /\ Spec
    /\ WF_vars(ApiStep)
    /\ WF_vars(LoopStep)
    /\ WF_vars(ScanWatchdog)
    /\ WF_vars(loopPc = "ladder" /\ Reboot)
    /\ WF_vars(ClientConnects)
    /\ WF_vars(\E c \in closing : LinkDrop(c))

-----------------------------------------------------------------------------
(* Properties.                                                              *)

Conn == [address : Addr, connId : ConnId] \cup {Free}
Request == [op : {"connect", "disconnect"}, address : Addr] \cup {NoReq}

TypeEnv == env \in Envs

TypeSlots == conns \in [Slots -> Conn]

TypeMailbox ==
    /\ pendOp \in {"none", "connect", "disconnect"}
    /\ pendAddr \in Addr \cup {None}
    /\ pendOk \in BOOLEAN /\ pendConnId \in ConnId \cup {None}
    /\ opSem \in BOOLEAN
    /\ discMask \subseteq ConnId /\ resumeScan \in BOOLEAN

TypeApi ==
    /\ apiPc \in {"accept", "svc", "svcClear", "svcFree", "recv", "reset",
                  "arm", "wait", "woke"}
    /\ req \in Request /\ slot \in Slots \cup {None} /\ mask \subseteq ConnId
    /\ overdue \in BOOLEAN

TypeLoop ==
    /\ loopPc \in {"poll", "run", "linking", "cancel", "clear", "give",
                  "ladder"}
    /\ runOp \in {"none", "connect", "disconnect"} /\ bd \in Addr \cup {None}

TypeStack ==
    /\ link \in [ConnId -> Addr \cup {None}] /\ closing \subseteq ConnId
    /\ creating \in Addr \cup {None} /\ scanning \in BOOLEAN

TypeTold ==
    /\ view \subseteq Addr /\ freeTold \in 0 .. MaxConn \cup {None}
    /\ asked \in 0 .. MaxReq /\ running \in 0 .. MaxReq /\ done \in 0 .. MaxReq

TypeOK ==
    TypeEnv /\ TypeSlots /\ TypeMailbox /\ TypeApi /\ TypeLoop /\ TypeStack /\ TypeTold

SlotAddrUnique ==
    \A s, t \in Slots :
        Used(s) /\ Used(t) /\ conns[s].address = conns[t].address => s = t

SlotConnIdUnique ==
    \A s, t \in Slots :
        Used(s) /\ Used(t) /\ conns[s].connId = conns[t].connId => s = t

\* While a connect is under way no other slot can get its address, and the conn
\* id in the mailbox, once it is there, is in no slot.
ConnectPending ==
    apiPc \in {"reset", "arm", "wait", "woke"} /\ req.op = "connect" =>
        /\ req.address \in Addr /\ slot \in Slots
        /\ SlotsOf(req.address) \subseteq {slot}
        /\ apiPc # "reset" /\ pendConnId # None => SlotsOn(pendConnId) = {}

(* findConn and findConnByConnId stop at the first slot with an address or  *)
(* a conn id: two slots must never hold the same one, or a request, a       *)
(* notification or a lost link could go to the wrong one.  It is so although *)
(* the slot of a connect is chosen before the wait and filled after it.     *)
SlotInv == SlotAddrUnique /\ SlotConnIdUnique /\ ConnectPending

\* The ordinary: neither task is held up, and the stack is never too early.
Calm == env \subseteq {"repeat", "reset"}

SlotMatchesLink ==
    \A s \in Slots :
        Used(s) => \/ link[conns[s].connId] = conns[s].address
                   \/ conns[s].connId \in discMask \cup mask

Loose(c) == Connected(c) /\ SlotsOn(c) = {}

NoOrphanLink ==
    \A c \in ConnId :
        Loose(c) => \/ loopPc = "linking"
                    \/ apiPc \in {"wait", "woke"} /\ pendOk /\ pendConnId = c

(* The slots and the links are the same picture.  A slot says which device  *)
(* its conn id reaches, until the loss of that link is on its way to the    *)
(* API task, when no operation outlives its request and no loss meets       *)
(* another link; and no link is up that nobody can use or close: each one   *)
(* has a slot, or is the one a connect is setting up.                       *)
SlotsAreTheLinks == Calm => SlotMatchesLink /\ NoOrphanLink

(* A request that wakes because of a token, not of a timeout, wakes when    *)
(* loop() has done with that very request: it "gives it when done"          *)
(* (esphome_api.cpp:543), when it is never away too long.                   *)
WakeMeansDone ==
    "stall" \notin env /\ apiPc = "woke" /\ ~overdue => done = asked

(* Why: the mailbox is used by one request at a time, from Arm to Take, and *)
(* a token is its own.                                                      *)
MailboxInv ==
    "stall" \notin env =>
        /\ ~overdue
        /\ apiPc # "wait" => loopPc = "poll" /\ pendOp = "none" /\ ~opSem
        /\ apiPc \in {"reset", "arm"} => req.op # "none"
        /\ apiPc = "wait" /\ loopPc = "poll" => (opSem <=> pendOp = "none")
        /\ opSem => loopPc = "poll" /\ done = asked
        /\ loopPc # "poll" => running = asked
        /\ loopPc = "give" => pendOp = "none"
        /\ apiPc = "woke" => done = asked

Busy == apiPc \in {"reset", "arm", "wait", "woke"}
Disconnecting == loopPc = "run" /\ runOp = "disconnect"

\* The answer to a connect that loop() has made.
Made == apiPc \in {"wait", "woke"} /\ req.op = "connect" /\ pendOk /\ pendConnId # None

(* Why SlotsAreTheLinks, once MailboxInv holds: loop() works for the        *)
(* request that waits, and for a connect the stack has at most one link     *)
(* without a slot, that of the request's address.                           *)
OperationInv ==
    Calm =>
        /\ apiPc = "wait" => pendOp \in {"none", req.op}
        /\ loopPc \in {"run", "linking", "cancel", "clear"} => pendOp = req.op
        /\ loopPc = "run" => runOp = req.op
        /\ loopPc \in {"linking", "cancel"} => req.op = "connect" /\ bd = req.address
        /\ req.op = "connect" /\ (\/ apiPc = "arm"
                                  \/ apiPc = "wait" /\ pendOp # "none" /\ loopPc # "clear")
               => ~pendOk
        /\ creating # None => loopPc \in {"linking", "cancel"} /\ creating = bd

LinkInv ==
    Calm =>
        /\ SlotMatchesLink
        /\ \A c, d \in ConnId : Linked(c) /\ link[c] = link[d] => c = d
        /\ \A c \in ConnId : Loose(c) =>
               \/ loopPc = "linking" /\ creating = None /\ link[c] = bd
               \/ Made /\ pendConnId = c
        /\ Made => /\ link[pendConnId] \in {req.address, None}
                   /\ Used(slot) => ~Linked(conns[slot].connId)

ViewHasSlot == \A a \in view : SlotsOf(a) # {}

FreeToldIsFree == "stall" \notin env => freeTold \in {None, Cardinality(FreeSlots)}

(* Between two requests, what the client was last told is so: an address it *)
(* believes connected has a slot, and it is not left waiting on a forgotten *)
(* device; and the number of free slots is the number there is, when no     *)
(* operation outlives its request.                                          *)
ToldIsTrue == apiPc = "recv" => ViewHasSlot /\ FreeToldIsFree

(* Why: the slot of an address the client believes in is freed only by what *)
(* it is then told of, and by an operation for the address of the request   *)
(* that is under way; the slot of a connect is free or has its address.     *)
ViewInv ==
    /\ Busy => pendAddr = req.address /\ req.op # "none"
    /\ Busy /\ req.op = "connect" => ~Used(slot) \/ conns[slot].address = req.address
    /\ \A a \in view : SlotsOf(a) # {} \/ (Busy /\ a = req.address)
    /\ apiPc \in {"wait", "woke"} /\ req.op = "connect" => pendOp # "disconnect"
    /\ apiPc \in {"arm", "wait", "woke"} /\ req.op = "connect" /\ pendConnId # None =>
           ~Disconnecting /\ (pendOp = "disconnect" => loopPc = "clear")
    /\ ~Busy /\ pendAddr \in view => pendOp # "disconnect" /\ ~Disconnecting

FreeToldInv ==
    "stall" \notin env /\ apiPc \notin {"svcFree", "wait", "woke"} =>
        freeTold \in {None, Cardinality(FreeSlots)}

\* The link of each slot is up, or its loss is remembered.
SlotsKnowLoss ==
    \A s \in Slots :
        Used(s) => \/ Linked(conns[s].connId)
                   \/ conns[s].connId \in discMask \cup mask

(* A link lost while it has a slot is remembered until the slot is freed:   *)
(* "conn_ids disconnected by the stack, awaiting loop()/API-task handling"  *)
(* (esphome_api.h:126), when none is lost between the read and the clear of *)
(* the mask.                                                                *)
LossRemembered == "preempt" \notin env => SlotsKnowLoss

(* Why: a slot's link, and the one the mailbox names, is up or in the mask. *)
MaskInv ==
    /\ SlotsKnowLoss
    /\ apiPc \notin {"svcClear", "svcFree"} => mask = {}
    /\ apiPc = "svcClear" => discMask \subseteq mask
    /\ apiPc \in {"arm", "wait", "woke"} /\ req.op = "connect" /\ pendConnId # None =>
           Linked(pendConnId) \/ pendConnId \in discMask

LossInv == "preempt" \notin env => MaskInv

(* serviceDisconnects sends "responses for dropped links"                   *)
(* (esphome_api.h:128): it never takes the slot of a link that is up, when  *)
(* conn ids are not reused before their loss is handled.                    *)
OnlyLostLinksFreed ==
    [][SvcFree /\ "reuse" \notin env => \A s \in Slots :
           Used(s) /\ conns'[s] = Free => ~Connected(conns[s].connId)]_vars

(* The API task waits for an operation only so long: the client is answered, *)
(* or the board has restarted.                                              *)
EveryRequestAnswered ==
    apiPc = "wait" ~> apiPc \in {"recv", "accept"}

(* When the last link is gone the scanner comes back.                       *)
ScanComesBack ==
    (\A c \in ConnId : ~Linked(c)) ~> (scanning \/ \E c \in ConnId : Linked(c))
=============================================================================
