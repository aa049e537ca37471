------------------------------- MODULE GattOps -------------------------------
(***************************************************************************)
(* GATT requests of the client (wbrg1_ble_proxy/esphome_api.cpp).  The API  *)
(* task takes one request at a time, says in the shared fields _rw... or    *)
(* _disc... what it waits for, starts the operation, and blocks on the      *)
(* binary semaphore _rwSem or _discSem with a timeout; callbacks of the BLE *)
(* stack store a result and give the semaphore.  A callback preempts the    *)
(* API task and not the other way round, so each one is a single step.      *)
(*                                                                          *)
(* External: the stack, which answers the operations of a connection in     *)
(* order, or drops them when the link is lost; and the device, of which we  *)
(* keep one characteristic with handles CccdOf[a] for its CCCD.             *)
(*                                                                          *)
(* In each behaviour, env is the set of the events beyond the ordinary that *)
(* may happen in it:                                                        *)
(*   "late"      an answer comes after the API task has stopped waiting;    *)
(*   "command"   the stack reports a write without response as well, by the *)
(*               same callback;                                             *)
(*   "reuse"     a new link gets the conn id of a lost one that still has a *)
(*               slot, or whose loss the API task has yet to deal with;     *)
(*   "missed"    a link comes up when its request no longer waits for it;   *)
(*   "noSlot"    the client asks for the services of a device without slot. *)
(***************************************************************************)
EXTENDS Naturals, Sequences, SequencesExt

CONSTANTS Addr,         \* device addresses
          ConnId,       \* conn ids of the stack
          Handle,       \* attribute handles
          CccdOf,       \* of each device, the handle of its CCCD
          None,         \* no connection, no device
          MaxReq,       \* bound: requests over the life of the system
          WriteAt,      \* bound: the handles writes are asked of
          Envs          \* the sets of events considered, see above

Events == {"late", "command", "reuse", "missed", "noSlot"}

ASSUME NoneAssumption == None \notin Addr /\ None \notin ConnId
ASSUME HandleAssumption == Handle \subseteq Nat \ {0}
ASSUME CccdAssumption == CccdOf \in [Addr -> Handle]
ASSUME MaxReqAssumption == MaxReq \in Nat
ASSUME EnvsAssumption == Envs \subseteq SUBSET Events

Phases == <<"services", "characteristics", "descriptors">>

VARIABLES
    env,                \* what may happen in this behaviour
    conn,               \* the slot table: conn id of each address (ConnectOps)
    link,               \* stack: address at the other end of each conn id
    lost,               \* _discMask: conn ids whose slots are yet to be freed
    rwConn, rwHandle,   \* _rwConnId, _rwHandle: what a result must match
    rwCause,            \* _rwCause: "unset" (0xFFFF), "ok" (0), "error"
    rwVal,              \* _rwBuf and _rwLen: whose value, 0 when empty
    rwSem,              \* _rwSem: TRUE when a token is in it
    discConn,           \* _discConnId
    discState,          \* _discState: "idle", "done", "failed"
    discSem,            \* _discSem
    table,              \* _svc, _chr and _dsc: [dev, phase] of what was found
    apiPc, req,         \* API task: where it is, and with which request
    ops,                \* stack: operations under way
    asked,              \* history: requests so far, the number of the last
    issued, written,    \* history: what each one started; writes that succeeded
    answer              \* the answer to the client, until the next request

slots   == <<conn, link, lost>>
rw      == <<rwConn, rwHandle, rwCause, rwVal, rwSem>>
disc    == <<discConn, discState, discSem, table>>
api     == <<apiPc, req>>
history == <<asked, issued, written>>
vars == <<env, slots, rw, disc, api, ops, history, answer>>

NoReq == [kind |-> "none", address |-> None, handle |-> 0]
NoOp == [address |-> None, dev |-> None, handle |-> 0]
NoAnswer == [n |-> 0, kind |-> "none", result |-> "ok", val |-> 0, list |-> <<>>]

Init ==
    /\ env \in Envs
    /\ conn = [a \in Addr |-> None] /\ link = [c \in ConnId |-> None]
    /\ lost = {}
    /\ rwConn = None /\ rwHandle = 0
    /\ rwCause = "unset" /\ rwVal = 0 /\ rwSem = FALSE
    /\ discConn = None /\ discState = "idle" /\ discSem = FALSE /\ table = <<>>
    /\ apiPc = "idle" /\ req = NoReq
    /\ ops = {}
    /\ asked = 0
    /\ issued = [n \in 1 .. MaxReq |-> NoOp]
    /\ written = {}
    /\ answer = NoAnswer

\* The API task answers request n and is ready for the next one.
Answer(n, kind, result, val, list) ==
    /\ answer' = [n |-> n, kind |-> kind, result |-> result, val |-> val,
                  list |-> list]
    /\ apiPc' = "idle" /\ req' = NoReq

-----------------------------------------------------------------------------
(* Links and slots (modules ConnectOps and NotifyRing): what the API task   *)
(* finds of them between two GATT requests.  Bound: links come up and slots *)
(* change as long as a request may still find them.                         *)

SlotsOn(c) == {a \in Addr : conn[a] = c}
Linked(a) == \E c \in ConnId : link[c] = a

\* Nothing is known of the conn id.
Free(c) == SlotsOn(c) = {} /\ c \notin lost

\* The slot gets the address's own new link, or any that no slot has.
Connect(a) ==
    /\ apiPc = "idle" /\ asked < MaxReq
    /\ \E c \in ConnId :
         /\ SlotsOn(c) = {}
         /\ \/ /\ link[c] = None /\ ~Linked(a) /\ link' = [link EXCEPT ![c] = a]
               /\ Free(c) \/ "reuse" \in env
            \/ link[c] # None /\ UNCHANGED link
         /\ conn' = [conn EXCEPT ![a] = c]
    /\ UNCHANGED <<env, lost, rw, disc, api, ops, history, answer>>

\* A link that no connect request waits for, or that it passes over because a
\* slot has the conn id.
ConnectMissed(a) ==
    /\ apiPc = "idle" /\ asked < MaxReq /\ ~Linked(a)
    /\ \E c \in ConnId :
         /\ link[c] = None
         /\ (IF Free(c) THEN "missed" ELSE "reuse") \in env
         /\ link' = [link EXCEPT ![c] = a]
    /\ UNCHANGED <<env, conn, lost, rw, disc, api, ops, history, answer>>

\* Operations of the link are dropped without a word.
LinkLost(c) ==
    /\ link[c] # None
    /\ link' = [link EXCEPT ![c] = None]
    /\ lost' = lost \cup {c}
    /\ ops' = {o \in ops : o.conn # c}
    /\ UNCHANGED <<env, conn, rw, disc, api, history, answer>>

\* serviceDisconnects
SlotsFreed ==
    /\ apiPc = "idle" /\ asked < MaxReq /\ lost # {}
    /\ conn' = [a \in Addr |-> IF conn[a] \in lost THEN None ELSE conn[a]]
    /\ lost' = {}
    /\ UNCHANGED <<env, link, rw, disc, api, ops, history, answer>>

-----------------------------------------------------------------------------
(* API task: handleGattRead, handleGattWrite and handleGattNotify.          *)

\* What is waited for, and no result yet, is stored one by one.  Only a read
\* empties the buffer.
Expect(kind, a, h) ==
    /\ rwConn' = conn[a]
    /\ req' = [kind |-> kind, address |-> a, handle |-> h]
    /\ apiPc' = "handle" /\ answer' = NoAnswer
    /\ UNCHANGED <<rwHandle, rwCause, rwVal, rwSem>>

ExpectHandle ==
    /\ apiPc = "handle"
    /\ rwHandle' = req.handle
    /\ apiPc' = "cause"
    /\ UNCHANGED <<env, slots, rwConn, rwCause, rwVal, rwSem, disc, req, ops, history,
                   answer>>

ExpectCause ==
    /\ apiPc = "cause"
    /\ rwCause' = "unset"
    /\ apiPc' = IF req.kind = "read" THEN "len" ELSE "drain"
    /\ UNCHANGED <<env, slots, rwConn, rwHandle, rwVal, rwSem, disc, req, ops, history,
                   answer>>

ExpectLen ==
    /\ apiPc = "len"
    /\ rwVal' = 0
    /\ apiPc' = "drain"
    /\ UNCHANGED <<env, slots, rwConn, rwHandle, rwCause, rwSem, disc, req, ops,
                   history, answer>>

\* A read, a write request or a write command of the client.
Request(kind, a, h) ==
    /\ apiPc = "idle" /\ asked < MaxReq
    /\ asked' = asked + 1
    /\ \/ /\ conn[a] # None
          /\ Expect(kind, a, h)
       \/ /\ conn[a] = None
          /\ Answer(asked + 1, kind, "refused", 0, <<>>)
          /\ UNCHANGED rw
    /\ UNCHANGED <<env, slots, disc, ops, issued, written>>

\* The CCCD handleGattNotify finds: the table says whose it is.
Cccds == {CccdOf[i.dev] : i \in {i \in ToSet(table) : i.phase = "descriptors"}}

RequestNotify(a) ==
    /\ apiPc = "idle" /\ asked < MaxReq
    /\ asked' = asked + 1
    /\ \/ /\ conn[a] # None /\ Cccds # {}
          /\ \E h \in Cccds : /\ \A k \in Cccds : h <= k
                              /\ Expect("notify", a, h)
       \/ /\ conn[a] # None /\ Cccds = {}
          /\ Answer(asked + 1, "notify", "noCccd", 0, <<>>)
          /\ UNCHANGED rw
       \/ /\ conn[a] = None
          /\ Answer(asked + 1, "notify", "refused", 0, <<>>)
          /\ UNCHANGED rw
    /\ UNCHANGED <<env, slots, disc, ops, issued, written>>

\* A token left from before is taken away.
Drain ==
    /\ apiPc = "drain"
    /\ IF req.kind = "services"
       THEN discSem' = FALSE /\ UNCHANGED rwSem
       ELSE rwSem' = FALSE /\ UNCHANGED discSem
    /\ apiPc' = "start"
    /\ UNCHANGED <<env, slots, rwConn, rwHandle, rwCause, rwVal, discConn,
                   discState, table, req, ops, history, answer>>

\* The stack takes the operation on, if the link is up.
Started(c, phase) ==
    /\ link[c] # None
    /\ ops' = ops \cup {[n |-> asked, conn |-> c, kind |-> req.kind,
                        handle |-> req.handle, phase |-> phase, found |-> FALSE]}
    /\ issued' = [issued EXCEPT ![asked] = [address |-> req.address, dev |-> link[c],
                                            handle |-> req.handle]]

Start ==
    /\ apiPc = "start" /\ req.kind \in {"read", "write", "notify"}
    /\ Started(rwConn, 0)
    /\ apiPc' = "wait"
    /\ UNCHANGED <<env, slots, rw, disc, req, asked, written, answer>>

\* A write command is answered as soon as it is started.
StartCommand ==
    /\ apiPc = "start" /\ req.kind = "command"
    /\ Started(rwConn, 0)
    /\ Answer(asked, "command", "ok", 0, <<>>)
    /\ UNCHANGED <<env, slots, rw, disc, asked, written>>

StartRefused ==
    /\ apiPc = "start" /\ req.kind # "services"
    /\ Answer(asked, req.kind, "refused", 0, <<>>)
    /\ UNCHANGED <<env, slots, rw, disc, ops, history>>

Sem == IF req.kind = "services" THEN discSem ELSE rwSem

\* xSemaphoreTake returns pdTRUE ...
Take ==
    /\ apiPc = "wait" /\ Sem
    /\ IF req.kind = "services"
       THEN discSem' = FALSE /\ UNCHANGED rwSem
       ELSE rwSem' = FALSE /\ UNCHANGED discSem
    /\ apiPc' = "woke"
    /\ UNCHANGED <<env, slots, rwConn, rwHandle, rwCause, rwVal, discConn,
                   discState, table, req, ops, history, answer>>

\* Seeded fault: when the time is up, the wait starts again.
TimeOutAgain ==
    /\ apiPc = "wait" /\ ~Sem
    /\ UNCHANGED vars

\* ... or not: 5 s, for a discovery 10 s, have passed.
TimeOut ==
    /\ apiPc = "wait" /\ ~Sem
    /\ "late" \in env \/ \A o \in ops : o.n # asked
    /\ apiPc' = "timedOut"
    /\ UNCHANGED <<env, slots, rw, disc, req, ops, history, answer>>

\* Seeded fault: the cause of a result is not looked at.
CheckNoCause ==
    /\ apiPc = "woke" /\ req.kind # "services"
    /\ apiPc' = "good"
    /\ UNCHANGED <<env, slots, rw, disc, req, ops, history, answer>>

\* _rwCause is looked at, and once more for the error; then the value is copied.
CheckCause ==
    /\ apiPc = "woke" /\ req.kind # "services"
    /\ apiPc' = IF rwCause = "ok" THEN "good" ELSE "bad"
    /\ UNCHANGED <<env, slots, rw, disc, req, ops, history, answer>>

AnswerResult ==
    /\ apiPc = "good"
    /\ Answer(asked, req.kind, "ok", IF req.kind = "read" THEN rwVal ELSE 0, <<>>)
    /\ UNCHANGED <<env, slots, rw, disc, ops, history>>

\* The error is -2 if no cause was stored, or else the cause, which may be 0.
AnswerError ==
    /\ apiPc = "bad" \/ (apiPc = "timedOut" /\ req.kind # "services")
    /\ Answer(asked, req.kind,
              IF rwCause = "unset" THEN "timeout"
              ELSE IF rwCause = "error" THEN "cause" ELSE "zero", 0, <<>>)
    /\ UNCHANGED <<env, slots, rw, disc, ops, history>>

-----------------------------------------------------------------------------
(* API task: handleGetServices.                                             *)

RequestServices(a) ==
    /\ apiPc = "idle" /\ asked < MaxReq
    /\ conn[a] # None
    /\ asked' = asked + 1
    /\ table' = <<>>
    /\ req' = [kind |-> "services", address |-> a, handle |-> 0]
    /\ apiPc' = "discConn" /\ answer' = NoAnswer
    /\ UNCHANGED <<env, slots, rw, discConn, discState, discSem, ops, issued, written>>

ExpectConn ==
    /\ apiPc = "discConn"
    /\ discConn' = conn[req.address]
    /\ apiPc' = "discState"
    /\ UNCHANGED <<env, slots, rw, discState, discSem, table, req, ops, history, answer>>

ExpectState ==
    /\ apiPc = "discState"
    /\ discState' = "idle"
    /\ apiPc' = "drain"
    /\ UNCHANGED <<env, slots, rw, discConn, discSem, table, req, ops, history, answer>>

\* Nothing is sent.
RequestServicesNoSlot(a) ==
    /\ "noSlot" \in env
    /\ apiPc = "idle" /\ asked < MaxReq
    /\ conn[a] = None
    /\ asked' = asked + 1
    /\ answer' = NoAnswer
    /\ UNCHANGED <<env, slots, rw, disc, api, ops, issued, written>>

StartServices ==
    /\ apiPc = "start" /\ req.kind = "services"
    /\ Started(discConn, 1)
    /\ apiPc' = "wait"
    /\ UNCHANGED <<env, slots, rw, disc, req, asked, written, answer>>

\* Seeded fault: Done is not sent.
ServicesRefusedSilently ==
    /\ apiPc = "start" /\ req.kind = "services"
    /\ apiPc' = "idle" /\ req' = NoReq
    /\ UNCHANGED <<env, slots, rw, disc, ops, history, answer>>

ServicesRefused ==
    /\ apiPc = "start" /\ req.kind = "services"
    /\ Answer(asked, "services", "refused", 0, <<>>)
    /\ UNCHANGED <<env, slots, rw, disc, ops, history>>

\* Whatever the table holds is sent, and then Done; the state is only logged.
AnswerServices ==
    /\ apiPc \in {"woke", "timedOut"} /\ req.kind = "services"
    /\ Answer(asked, "services", IF discState = "done" THEN "ok" ELSE "partial", 0,
              table)
    /\ UNCHANGED <<env, slots, rw, disc, ops, history>>

-----------------------------------------------------------------------------
(* Callbacks of the stack.  It answers the operations of a link in order.   *)

First(o) == \A p \in ops : p.conn = o.conn => o.n <= p.n

Store(cause, val) ==
    /\ rwCause' = cause /\ rwVal' = val /\ rwSem' = TRUE
    /\ UNCHANGED <<rwConn, rwHandle>>

\* Seeded fault: any result of the connection is taken.
OnReadResultAny(o) ==
    /\ o.kind = "read" /\ First(o)
    /\ ops' = ops \ {o}
    /\ \E cause \in {"ok", "error"} :
         /\ IF o.conn = rwConn
            THEN Store(cause, IF cause = "ok" THEN o.n ELSE 0)
            ELSE UNCHANGED rw
    /\ UNCHANGED <<env, slots, disc, api, history, answer>>

OnReadResult(o) ==
    /\ o.kind = "read" /\ First(o)
    /\ ops' = ops \ {o}
    /\ \E cause \in {"ok", "error"} :
         /\ IF o.conn = rwConn /\ o.handle = rwHandle
            THEN Store(cause, IF cause = "ok" THEN o.n ELSE 0)
            ELSE UNCHANGED rw
    /\ UNCHANGED <<env, slots, disc, api, history, answer>>

\* The handle is not looked at, nor what kind of write it was.
OnWriteResult(o) ==
    /\ o.kind \in {"write", "notify"} \/ (o.kind = "command" /\ "command" \in env)
    /\ First(o)
    /\ ops' = ops \ {o}
    /\ \E cause \in {"ok", "error"} :
         /\ written' = IF cause = "ok" THEN written \cup {o.n} ELSE written
         /\ IF o.conn = rwConn THEN Store(cause, 0) ELSE UNCHANGED rw
    /\ UNCHANGED <<env, slots, disc, api, asked, issued, answer>>

CommandSent(o) ==
    /\ o.kind = "command" /\ "command" \notin env /\ First(o)
    /\ ops' = ops \ {o}
    /\ UNCHANGED <<env, slots, rw, disc, api, history, answer>>

OnDiscResult(o) ==
    /\ o.kind = "services" /\ First(o) /\ ~o.found
    /\ ops' = (ops \ {o}) \cup {[o EXCEPT !.found = TRUE]}
    /\ table' = IF o.conn = discConn
                THEN Append(table, [dev |-> issued[o.n].dev, phase |-> Phases[o.phase]])
                ELSE table
    /\ UNCHANGED <<env, slots, rw, discConn, discState, discSem, api, history,
                   answer>>

\* The end of a phase: the next one is started, which the stack may refuse
\* without anybody being told.
OnDiscPhase(o) ==
    /\ o.kind = "services" /\ First(o) /\ o.found /\ o.phase < Len(Phases)
    /\ \/ /\ o.conn = discConn
          /\ ops' = (ops \ {o}) \cup {[o EXCEPT !.phase = @ + 1, !.found = FALSE]}
       \/ ops' = ops \ {o}
    /\ UNCHANGED <<env, slots, rw, disc, api, history, answer>>

\* Seeded fault: the end of the services is taken for the end of it all.
OnDiscEndEarly(o) ==
    /\ o.kind = "services" /\ First(o)
    /\ ops' = ops \ {o}
    /\ IF o.conn = discConn
       THEN /\ discState' \in (IF o.found THEN {"done"} ELSE {}) \cup {"failed"}
            /\ discSem' = TRUE
       ELSE UNCHANGED <<discState, discSem>>
    /\ UNCHANGED <<env, slots, rw, discConn, table, api, history, answer>>

\* DISC_STATE_CHAR_DESCRIPTOR_DONE, or at any point DISC_STATE_FAILED.
OnDiscEnd(o) ==
    /\ o.kind = "services" /\ First(o)
    /\ ops' = ops \ {o}
    /\ IF o.conn = discConn
       THEN /\ discState' \in (IF o.found /\ o.phase = Len(Phases) THEN {"done"} ELSE {})
                              \cup {"failed"}
            /\ discSem' = TRUE
       ELSE UNCHANGED <<discState, discSem>>
    /\ UNCHANGED <<env, slots, rw, discConn, table, api, history, answer>>

-----------------------------------------------------------------------------
Client ==
    \E a \in Addr :
        \/ \E kind \in {"read", "write", "command"}, h \in Handle :
               (kind = "read" \/ h \in WriteAt) /\ Request(kind, a, h)
        \/ RequestNotify(a)
        \/ RequestServices(a)
        \/ RequestServicesNoSlot(a)

ApiStep ==
    \/ ExpectHandle \/ ExpectCause \/ ExpectLen \/ ExpectConn \/ ExpectState
    \/ Drain
    \/ Start \/ StartCommand \/ StartRefused
    \/ StartServices \/ ServicesRefused
    \/ Take \/ TimeOut
    \/ CheckCause \/ AnswerResult \/ AnswerError \/ AnswerServices

Callback ==
    \E o \in ops :
        \/ OnReadResult(o) \/ OnWriteResult(o) \/ CommandSent(o)
        \/ OnDiscResult(o) \/ OnDiscPhase(o) \/ OnDiscEnd(o)

Links ==
    \/ \E a \in Addr : Connect(a) \/ ConnectMissed(a)
    \/ \E c \in ConnId : LinkLost(c)
    \/ SlotsFreed

Next == Client \/ ApiStep \/ Callback \/ Links

Spec == Init /\ [][Next]_vars

(* The API task keeps running, xSemaphoreTake has a timeout, and the stack  *)
(* ends an operation of a link or loses the link.                           *)
FairSpec == Spec /\ WF_vars(ApiStep) /\ WF_vars(Callback)

-----------------------------------------------------------------------------
(* Properties.                                                              *)

Kinds == {"read", "write", "command", "notify", "services"}
Results == {"ok", "refused", "timeout", "cause", "zero", "noCccd", "partial"}

Op == [n : 1 .. MaxReq, conn : ConnId, handle : Handle \cup {0},
       kind : Kinds, phase : 0 .. 3, found : BOOLEAN]
Req == [kind : Kinds \cup {"none"}, address : Addr \cup {None},
        handle : Handle \cup {0}]
Issue   == [address : Addr \cup {None}, dev : Addr \cup {None},
            handle : Handle \cup {0}]
Finding == [dev : Addr, phase : ToSet(Phases)]
Reply   == [n : 0 .. MaxReq, kind : Kinds \cup {"none"}, result : Results,
            val : 0 .. MaxReq, list : Seq(Finding)]

TypeOK ==
    /\ env \in Envs
    /\ conn \in [Addr -> ConnId \cup {None}] /\ link \in [ConnId -> Addr \cup {None}]
    /\ lost \subseteq ConnId
    /\ rwConn \in ConnId \cup {None} /\ rwHandle \in Handle \cup {0}
    /\ rwCause \in {"unset", "ok", "error"} /\ rwVal \in 0 .. MaxReq
    /\ rwSem \in BOOLEAN /\ discSem \in BOOLEAN
    /\ discConn \in ConnId \cup {None} /\ discState \in {"idle", "done", "failed"}
    /\ table \in Seq(Finding)
    /\ apiPc \in {"idle", "handle", "cause", "len", "discConn", "discState", "drain",
                  "start", "wait", "woke", "timedOut", "good", "bad"}
    /\ req \in Req
    /\ ops \subseteq Op
    /\ issued \in [1 .. MaxReq -> Issue]
    /\ written \subseteq 1 .. MaxReq
    /\ asked \in 0 .. MaxReq
    /\ answer \in Reply

\* A result that reports an operation comes while it is waited for.
AnswersAreAwaited == env \cap {"late", "command"} = {}

\* A slot's conn id is of no other device: the link with it is the one that the
\* address's own connect request has seen come up, or it is lost.
SlotsAreOwn == env \cap {"reuse", "missed"} = {}

\* The operation of a request went to the device the client named.
WentWhereAsked(n) == SlotsAreOwn => issued[n].dev = issued[n].address

(* A value the client reads is of the handle it asked for, on the device    *)
(* the operation went to, however old the result that brought it and        *)
(* whatever is stored while the fields are being set or read; and that is   *)
(* the device it asked for, unless a connect has filled the slot with the   *)
(* link of another, or another has got the conn id of the slot              *)
(* (esphome_api.cpp:597-600 and 698-700: only the slot's conn id is used).  *)
ReadValueIsTheAttributes ==
    answer.kind = "read" /\ answer.val # 0 =>
        LET was == issued[answer.val]
            is  == issued[answer.n] IN
        /\ was.handle = is.handle /\ was.dev = is.dev
        /\ WentWhereAsked(answer.n)

(* "block on write semaphore; reply" (CONNECTABLE_DESIGN.md:62): a write is *)
(* acknowledged when the device has acknowledged that write.                *)
AckMeansWritten ==
    answer.kind \in {"write", "notify"} /\ answer.result = "ok" =>
        answer.n \in written

(* When answers come in time, each request gets its own: a write as above,  *)
(* a read what that read found ("read_result_cb fills a buffer; reply",     *)
(* CONNECTABLE_DESIGN.md:59), and an error a code that is not that of       *)
(* success ("on non-zero cause", CONNECTABLE_DESIGN.md:60).                 *)
AwaitedAnswersAreOwn ==
    AnswersAreAwaited =>
        /\ AckMeansWritten
        /\ answer.kind = "read" /\ answer.result = "ok" => answer.val = answer.n
        /\ answer.result # "zero"

(* "Per connection (keyed by conn_id): a table" (CONNECTABLE_DESIGN.md:49): *)
(* notifications are turned on at the CCCD of the device they are asked of. *)
NotifyWritesOwnCccd ==
    \A o \in ops : o.kind = "notify" =>
        o.handle = CccdOf[issued[o.n].address]

Whole(a) == [p \in 1 .. Len(Phases) |-> [dev |-> a, phase |-> Phases[p]]]

(* A discovery that ended well is reported as the device has it: all of it, *)
(* each attribute once and nothing of another device, when no result comes  *)
(* after the discovery was given up; and the device is the one asked for,   *)
(* unless the slot's conn id is another's.                                  *)
ServicesWhole ==
    "late" \notin env /\ answer.kind = "services" /\ answer.result = "ok" =>
        answer.list = Whole(issued[answer.n].dev) /\ WentWhereAsked(answer.n)

(* Every request has been answered by the time the next is taken (but one   *)
(* for the services of a device without slot): "still send Done so HA       *)
(* doesn't hang" (esphome_api.cpp:955).                                     *)
AnsweredInTurn ==
    "noSlot" \notin env /\ apiPc = "idle" => answer.n = asked

(* No request keeps the API task, which serves the whole connection.        *)
RequestEnds == []<>(apiPc = "idle")
=============================================================================
