---------------------------- MODULE Gatt_proofs ----------------------------
(***************************************************************************)
(* The GATT requests of the client, for any number of devices, conn ids,    *)
(* handles and requests: a value is of the handle asked for, on the device  *)
(* the request went to, which is the one asked for as long as every slot    *)
(* has its own link; an answer in time is of the request itself; a          *)
(* discovery that ended well is reported whole.                             *)
(*                                                                          *)
(* Then the discovery tables, for any device and any length of the tables   *)
(* and the buffers: the report is the device when it fits, what is cut off  *)
(* moves nothing, and notifications are turned on at the own CCCD.          *)
(***************************************************************************)
EXTENDS GattOps, GattTable, SequenceTheorems, FiniteSetTheorems, WellFoundedInduction, TLAPS

-----------------------------------------------------------------------------
(* The invariants.                                                          *)

Waited == {"wait", "woke", "timedOut", "good", "bad"}

Unstarted == {"handle", "cause", "len", "discConn", "discState", "drain", "start"}

\* The request under way has a number and a slot, whose conn id it waits for, and
\* no answer yet.
RequestInv ==
    apiPc # "idle" =>
        /\ asked \in 1 .. MaxReq /\ req.kind \in Kinds
        /\ req.address \in Addr /\ conn[req.address] # None
        /\ IF req.kind = "services"
           THEN /\ apiPc \notin {"handle", "cause", "len", "good", "bad"}
                /\ apiPc # "discConn" => discConn = conn[req.address]
           ELSE /\ apiPc \notin {"discConn", "discState"}
                /\ rwConn = conn[req.address]
                /\ apiPc # "handle" => rwHandle = req.handle
        /\ apiPc = "len" => req.kind = "read"
        /\ answer = NoAnswer
        /\ req.kind = "command" => apiPc \in Unstarted

\* An operation is that of one request, which was started, and its device is
\* at the other end of its link.
OpInv ==
    /\ \A o \in ops :
           /\ o.n \in 1 .. asked /\ (apiPc \in Unstarted => o.n < asked)
           /\ issued[o.n].dev = link[o.conn] /\ issued[o.n].handle = o.handle
           /\ link[o.conn] # None
           /\ o.kind = "services" => o.phase \in DOMAIN Phases
    /\ \A o, p \in ops : o.n = p.n => o = p

\* When no link is missed and no conn id reused, a link that is up has its slot,
\* a slot's link is its own, and operations went to the device they were asked of.
AskedInv ==
    SlotsAreOwn =>
        /\ \A c \in ConnId : link[c] # None => conn[link[c]] = c
        /\ \A c \in lost : link[c] = None
        /\ \A a \in Addr : conn[a] # None => link[conn[a]] \in {a, None}
        /\ \A n \in 1 .. MaxReq : issued[n].dev = issued[n].address

\* Requests i and j were for the same attribute of the same device.
Alike(i, j) == issued[i].dev = issued[j].dev /\ issued[i].handle = issued[j].handle

\* What a read has in the buffer is, from the time it was emptied, of the
\* attribute it asks for: of the device that its conn id reaches, and that it
\* has been sent to.
ReadInv ==
    /\ rwVal <= asked /\ (apiPc \in Unstarted => rwVal < asked)
    /\ apiPc \in Waited /\ req.kind # "services" =>
           /\ issued[asked].handle = rwHandle
           /\ link[rwConn] \in {issued[asked].dev, None}
    /\ req.kind = "read" /\ rwVal # 0 =>
           /\ apiPc \in Waited => Alike(rwVal, asked)
           /\ apiPc \in {"drain", "start"} /\ link[rwConn] # None =>
                  issued[rwVal].dev = link[rwConn] /\ issued[rwVal].handle = rwHandle

\* Without late answers and reports of commands, a result that is waited for
\* is that of the request under way, and it comes once.
OwnInv ==
    AnswersAreAwaited =>
        /\ \A o \in ops : o.kind # "command" =>
               /\ o.n = asked /\ apiPc = "wait" /\ o.kind = req.kind
               /\ IF req.kind = "services" THEN o.conn = discConn
                  ELSE o.conn = rwConn /\ ~rwSem
        /\ apiPc # "idle" /\ req.kind # "services" =>
               /\ apiPc \in {"len", "drain", "start", "timedOut"} => rwCause = "unset"
               /\ apiPc = "start" => ~rwSem
               /\ apiPc = "wait" => (rwSem <=> rwCause # "unset")
               /\ apiPc = "woke" => rwCause # "unset"
               /\ apiPc = "good" => rwCause = "ok"
               /\ apiPc = "bad" => rwCause = "error"
               /\ rwCause = "ok" /\ apiPc \notin {"handle", "cause"} =>
                      /\ req.kind = "read" => rwVal = asked
                      /\ req.kind \in {"write", "notify"} => asked \in written

\* What a device has up to a phase.
UpTo(a, k) == [p \in 1 .. k |-> [dev |-> a, phase |-> Phases[p]]]

\* Without late answers, a discovery fills the table phase by phase, and
\* nobody else does.
DiscoveryInv ==
    "late" \notin env =>
        /\ \A o \in ops : o.kind = "services" =>
               /\ o.n = asked /\ apiPc = "wait" /\ req.kind = "services"
               /\ o.conn = discConn /\ discState = "idle" /\ ~discSem
               /\ table = UpTo(issued[asked].dev, IF o.found THEN o.phase ELSE o.phase - 1)
        /\ req.kind = "services" =>
               /\ apiPc \in Unstarted => table = <<>>
               /\ apiPc \in {"drain", "start"} => discState = "idle"
               /\ apiPc = "start" => ~discSem
               /\ apiPc \in Waited /\ discState = "done" =>
                      table = Whole(issued[asked].dev)

-----------------------------------------------------------------------------
(* A phase of the discovery is one of three.                                *)
LEMMA PhaseNames ==
    /\ Len(Phases) = 3 /\ DOMAIN Phases = 1 .. 3
    /\ \A p \in 1 .. 3 : Phases[p] \in ToSet(Phases)
<1>1. Len(Phases) = 3 /\ DOMAIN Phases = 1 .. 3
  BY DEF Phases
<1> QED BY <1>1 DEF ToSet

(* What a request, an operation, an attribute and an answer may hold.       *)
LEMMA Records ==
    /\ NoReq \in Req /\ NoOp \in Issue
    /\ NoAnswer.kind = "none" /\ NoAnswer.n = 0 /\ NoAnswer.val = 0
    /\ NoAnswer.result = "ok" /\ NoAnswer \in Reply
    /\ \A k \in Kinds, a \in Addr, h \in Handle \cup {0} :
           [kind |-> k, address |-> a, handle |-> h] \in Req
    /\ \A r \in Req : /\ r.handle \in Handle \cup {0} /\ r.kind \in Kinds \cup {"none"}
                      /\ r.address \in Addr \cup {None}
    /\ \A o \in Op : /\ o.n \in 1 .. MaxReq /\ o.conn \in ConnId /\ o.kind \in Kinds
                      /\ o.handle \in Handle \cup {0} /\ o.phase \in 0 .. 3 /\ o.found \in BOOLEAN
    /\ \A i \in Issue : /\ i.dev \in Addr \cup {None} /\ i.handle \in Handle \cup {0}
                        /\ i.address \in Addr \cup {None}
    /\ \A f \in Finding : f.dev \in Addr
<1>1. <<>> \in Seq(Finding)
  OBVIOUS
<1> QED
  BY <1>1, MaxReqAssumption
     DEF NoReq, NoOp, NoAnswer, Kinds, Results, Req, Op, Issue, Reply, Finding

(* The environment does not change.                                         *)
LEMMA EnvKept == [Next]_vars => env' = env
BY DEF Next, vars, Client, ApiStep, Callback, Links, Connect, ConnectMissed, SlotsFreed,
   LinkLost, Request, RequestNotify, RequestServices, RequestServicesNoSlot,
   ExpectHandle, ExpectCause, ExpectLen, ExpectConn, ExpectState, CheckCause, Drain, Start, StartCommand, StartRefused, StartServices, ServicesRefused, Take, TimeOut,
   AnswerResult, AnswerError, AnswerServices, OnReadResult, OnWriteResult, CommandSent,
   OnDiscResult, OnDiscPhase, OnDiscEnd

-----------------------------------------------------------------------------
(* Types.                                                                   *)

LEMMA TypeLinks ==
    ASSUME TypeOK, Links
    PROVE  TypeOK'
<1> USE DEF TypeOK
<1>1. ASSUME NEW a \in Addr, Connect(a)
      PROVE  TypeOK'
  BY <1>1 DEF Connect, rw, disc, api, history
<1>2. ASSUME NEW a \in Addr, ConnectMissed(a)
      PROVE  TypeOK'
  BY <1>2 DEF ConnectMissed, rw, disc, api, history
<1>3. CASE SlotsFreed
  BY <1>3 DEF SlotsFreed, rw, disc, api, history
<1>4. ASSUME NEW c \in ConnId, LinkLost(c)
      PROVE  TypeOK'
  BY <1>4 DEF LinkLost, rw, disc, api, history
<1> QED BY <1>1, <1>2, <1>3, <1>4 DEF Links

(* An answer that is given is one.                                          *)
LEMMA Answered ==
    ASSUME NEW n \in 0 .. MaxReq, NEW kind \in Kinds, NEW result \in Results,
           NEW val \in 0 .. MaxReq, NEW list \in Seq(Finding),
           Answer(n, kind, result, val, list)
    PROVE  /\ answer' \in Reply
           /\ answer'.n = n /\ answer'.kind = kind /\ answer'.result = result
           /\ answer'.val = val /\ answer'.list = list
           /\ apiPc' = "idle" /\ req' \in Req
BY Records DEF Answer, Reply

(* A request is taken, and its conn id noted.                               *)
LEMMA Expected ==
    ASSUME TypeOK, NEW a \in Addr, conn[a] # None, NEW h \in Handle,
           NEW kind \in Kinds, Expect(kind, a, h)
    PROVE  /\ rwConn' = conn[a] /\ rwConn' \in ConnId
           /\ UNCHANGED <<rwHandle, rwCause, rwVal, rwSem>>
           /\ req' \in Req /\ req'.kind = kind /\ req'.handle = h /\ req'.address = a
           /\ apiPc' = "handle" /\ answer' = NoAnswer /\ answer' \in Reply
BY Records, MaxReqAssumption DEF Expect, TypeOK

(* The handle of a CCCD is a handle.                                        *)
LEMMA CccdHandles ==
    ASSUME TypeOK
    PROVE  Cccds \subseteq Handle
<1>1. ASSUME NEW i \in ToSet(table)
      PROVE  i.dev \in Addr
  <2>1. PICK k \in DOMAIN table : i = table[k]
    BY DEF ToSet
  <2> QED BY <2>1, Records, LenProperties DEF TypeOK
<1> QED BY <1>1, CccdAssumption DEF Cccds

LEMMA TypeClient ==
    ASSUME TypeOK, Client
    PROVE  TypeOK'
<1> USE DEF TypeOK
<1>0. /\ {"noCccd", "refused"} \subseteq Results /\ <<>> \in Seq(Finding)
      /\ {"read", "write", "command", "notify", "services"} \subseteq Kinds
  BY DEF Results, Kinds
<1>1. ASSUME asked < MaxReq, asked' = asked + 1, UNCHANGED <<env, slots, disc, ops, issued, written>>,
             NEW kind \in Kinds,
             \/ \E a \in Addr, h \in Handle : conn[a] # None /\ Expect(kind, a, h)
             \/ \E r \in {"noCccd", "refused"} : Answer(asked + 1, kind, r, 0, <<>>) /\ UNCHANGED rw
      PROVE  TypeOK'
  <2>1. asked + 1 \in 0 .. MaxReq /\ 0 \in 0 .. MaxReq
    BY <1>1, MaxReqAssumption
  <2>2. ASSUME NEW a \in Addr, NEW h \in Handle, conn[a] # None, Expect(kind, a, h)
        PROVE  TypeOK'
    BY <1>1, <2>1, <2>2, Expected DEF slots, disc
  <2>3. ASSUME NEW r \in {"noCccd", "refused"}, Answer(asked + 1, kind, r, 0, <<>>), UNCHANGED rw
        PROVE  TypeOK'
    BY <1>0, <1>1, <2>1, <2>3, Answered DEF slots, disc, rw
  <2> QED BY <1>1, <2>2, <2>3
<1>2. ASSUME NEW a \in Addr, NEW h \in Handle, NEW kind \in {"read", "write", "command"},
             Request(kind, a, h)
      PROVE  TypeOK'
  BY <1>0, <1>1, <1>2 DEF Request
<1>3. ASSUME NEW a \in Addr, RequestNotify(a)
      PROVE  TypeOK'
  BY <1>0, <1>1, <1>3, CccdHandles DEF RequestNotify
<1>4. ASSUME NEW a \in Addr, RequestServices(a)
      PROVE  TypeOK'
  BY <1>0, <1>4, Records, MaxReqAssumption DEF RequestServices, slots, rw
<1>5. ASSUME NEW a \in Addr, RequestServicesNoSlot(a)
      PROVE  TypeOK'
  BY <1>5, Records, MaxReqAssumption DEF RequestServicesNoSlot, slots, rw, disc, api
<1> QED BY <1>2, <1>3, <1>4, <1>5 DEF Client

\* The stack has taken operation o on, for the request under way.
Took(o, c, ph) ==
    /\ o.n = asked /\ o.conn = c /\ o.kind = req.kind /\ o.handle = req.handle
    /\ o.phase = ph /\ o.found = FALSE /\ ops' = ops \cup {o}
    /\ link[c] \in Addr /\ asked \in 1 .. MaxReq
    /\ issued' \in [1 .. MaxReq -> Issue]
    /\ issued'[asked] = [address |-> req.address, dev |-> link[c], handle |-> o.handle]
    /\ \A n \in 1 .. MaxReq \ {asked} : issued'[n] = issued[n]

(* The stack takes an operation on: the one of this request.                *)
LEMMA OpStarted ==
    ASSUME TypeOK, RequestInv, NEW c \in ConnId, NEW ph \in 0 .. 3, apiPc = "start",
           Started(c, ph)
    PROVE  \E o \in Op : Took(o, c, ph)
<1>1. /\ asked \in 1 .. MaxReq /\ req.kind \in Kinds /\ req.handle \in Handle \cup {0}
      /\ req.address \in Addr
      /\ link[c] \in Addr
  BY Records DEF RequestInv, Started, TypeOK
<1>2. [address |-> req.address, dev |-> link[c], handle |-> req.handle] \in Issue
  BY <1>1 DEF Issue
<1>3. [n |-> asked, conn |-> c, kind |-> req.kind, handle |-> req.handle, phase |-> ph,
       found |-> FALSE] \in Op
  BY <1>1 DEF Op
<1> QED BY <1>1, <1>2, <1>3 DEF Started, TypeOK, Took

LEMMA StartTyped ==
    ASSUME TypeOK, RequestInv, NEW c \in ConnId, NEW ph \in {0, 1}, apiPc = "start",
           Started(c, ph)
    PROVE  ops' \subseteq Op /\ issued' \in [1 .. MaxReq -> Issue]
<1>1. ph \in 0 .. 3 /\ ops \subseteq Op
  BY DEF TypeOK
<1>2. PICK o \in Op : ops' = ops \cup {o} /\ issued' \in [1 .. MaxReq -> Issue]
  BY <1>1, OpStarted DEF Took
<1> QED BY <1>1, <1>2

LEMMA TypeApiStep ==
    ASSUME TypeOK, RequestInv, ApiStep
    PROVE  TypeOK'
<1>0. /\ {"ok", "refused", "timeout", "cause", "zero", "partial"} \subseteq Results
      /\ 0 \in 0 .. MaxReq /\ <<>> \in Seq(Finding)
      /\ {"read", "write", "command", "notify", "services"} \subseteq Kinds
  BY MaxReqAssumption DEF Results, Kinds
<1>1. CASE Drain \/ Take \/ TimeOut \/ CheckCause
  BY <1>1 DEF Drain, Take, TimeOut, CheckCause, TypeOK, slots, rw, disc, history
<1>5. CASE ExpectHandle \/ ExpectCause \/ ExpectLen \/ ExpectConn \/ ExpectState
  <2>1. apiPc # "idle" =>
            req.handle \in Handle \cup {0} /\ conn[req.address] \in ConnId \cup {None}
    BY Records DEF RequestInv, TypeOK
  <2> QED BY <1>0, <1>5, <2>1 DEF ExpectHandle, ExpectCause, ExpectLen, ExpectConn,
             ExpectState, TypeOK, slots, rw, disc, history
<1>2. CASE Start \/ StartCommand
  <2>1. /\ Started(rwConn, 0) /\ apiPc = "start" /\ req.kind # "services"
        /\ UNCHANGED <<env, slots, rw, disc, asked, written>>
    BY <1>2 DEF Start, StartCommand
  <2>2. rwConn \in ConnId
    BY <2>1 DEF RequestInv, TypeOK
  <2>3. /\ ops' \subseteq Op /\ issued' \in [1 .. MaxReq -> Issue]
    BY <2>1, <2>2, StartTyped
  <2>4. apiPc' \in {"wait", "idle"} /\ req' \in Req /\ answer' \in Reply
    <3>1. CASE Start
      BY <3>1 DEF Start, TypeOK
    <3>2. CASE StartCommand
      <4>1. Answer(asked, "command", "ok", 0, <<>>) /\ asked \in 0 .. MaxReq
        BY <3>2 DEF StartCommand, TypeOK
      <4> QED BY <1>0, <4>1, Answered
    <3> QED BY <1>2, <3>1, <3>2
  <2> QED BY <2>1, <2>3, <2>4 DEF TypeOK, slots, rw, disc
<1>3. CASE StartServices
  <2>1. /\ Started(discConn, 1) /\ apiPc = "start" /\ apiPc' = "wait"
        /\ discConn \in ConnId /\ 1 \in 0 .. 3
        /\ UNCHANGED <<env, slots, rw, disc, req, asked, written, answer>>
    BY <1>3 DEF StartServices, RequestInv, TypeOK
  <2>2. /\ ops' \subseteq Op /\ issued' \in [1 .. MaxReq -> Issue]
    BY <2>1, StartTyped
  <2> QED BY <2>1, <2>2 DEF TypeOK, slots, rw, disc
<1>4. CASE StartRefused \/ ServicesRefused \/ AnswerResult \/ AnswerError \/ AnswerServices
  <2>1. UNCHANGED <<env, slots, rw, disc, ops, history>>
    BY <1>4 DEF StartRefused, ServicesRefused, AnswerResult, AnswerError, AnswerServices
  <2>2. \E n \in 0 .. MaxReq, kind \in Kinds, result \in Results, val \in 0 .. MaxReq,
           list \in Seq(Finding) : Answer(n, kind, result, val, list)
    <3>1. asked \in 0 .. MaxReq /\ rwVal \in 0 .. MaxReq /\ table \in Seq(Finding)
          /\ "services" \in Kinds /\ (apiPc # "idle" => req.kind \in Kinds)
      BY <1>0 DEF TypeOK, RequestInv
    <3>2. CASE StartRefused
      BY <1>0, <3>1, <3>2 DEF StartRefused
    <3>3. CASE ServicesRefused
      BY <1>0, <3>1, <3>3 DEF ServicesRefused
    <3>4. CASE AnswerResult
      BY <1>0, <3>1, <3>4 DEF AnswerResult
    <3>5. CASE AnswerError
      BY <1>0, <3>1, <3>5 DEF AnswerError
    <3>6. CASE AnswerServices
      BY <1>0, <3>1, <3>6 DEF AnswerServices
    <3> QED BY <1>4, <3>2, <3>3, <3>4, <3>5, <3>6
  <2>3. answer' \in Reply /\ apiPc' = "idle" /\ req' \in Req
    BY <2>2, Answered
  <2> QED BY <2>1, <2>3 DEF TypeOK, slots, rw, disc, history
<1> QED BY <1>1, <1>2, <1>3, <1>4, <1>5 DEF ApiStep

(* A discovery in its next phase is an operation.                           *)
LEMMA Advanced ==
    ASSUME NEW o \in Op, NEW k \in 1 .. 3
    PROVE  [o EXCEPT !.phase = k, !.found = FALSE] \in Op
<1>1. k \in 0 .. 3
  OBVIOUS
<1> QED BY <1>1 DEF Op

LEMMA TypeCallback ==
    ASSUME TypeOK, OpInv, Callback
    PROVE  TypeOK'
<1> SUFFICES ASSUME NEW o \in ops,
                    \/ OnReadResult(o) \/ OnWriteResult(o) \/ CommandSent(o)
                    \/ OnDiscResult(o) \/ OnDiscPhase(o) \/ OnDiscEnd(o)
             PROVE  TypeOK'
  BY DEF Callback
<1>1. /\ o \in Op /\ o.n \in 1 .. MaxReq /\ o.n \in 0 .. MaxReq /\ 0 \in 0 .. MaxReq
  BY Records, MaxReqAssumption DEF TypeOK
<1>2. CASE OnReadResult(o)
  <2>1. /\ UNCHANGED <<env, slots, rwConn, rwHandle, disc, api, history, answer>>
        /\ rwCause' \in {"unset", "ok", "error"} /\ rwVal' \in 0 .. MaxReq
        /\ rwSem' \in BOOLEAN /\ ops' \subseteq ops
    BY <1>1, <1>2 DEF OnReadResult, Store, TypeOK, rw
  <2> QED BY <2>1 DEF TypeOK, slots, disc, api, history
<1>3. CASE OnWriteResult(o)
  <2>1. /\ UNCHANGED <<env, slots, rwConn, rwHandle, disc, api, asked, issued, answer>>
        /\ rwCause' \in {"unset", "ok", "error"} /\ rwVal' \in 0 .. MaxReq
        /\ rwSem' \in BOOLEAN /\ ops' \subseteq ops /\ written' \subseteq 1 .. MaxReq
    BY <1>1, <1>3 DEF OnWriteResult, Store, TypeOK, rw
  <2> QED BY <2>1 DEF TypeOK, slots, disc, api
<1>4. CASE CommandSent(o)
  BY <1>4 DEF CommandSent, TypeOK, slots, rw, disc, api, history
<1>5. CASE OnDiscResult(o)
  <2>1. [o EXCEPT !.found = TRUE] \in Op
    BY <1>1 DEF Op
  <2>2. issued[o.n].dev \in Addr /\ o.phase \in 1 .. 3
    <3>1. o.kind = "services"
      BY <1>5 DEF OnDiscResult
    <3>2. /\ issued[o.n].dev = link[o.conn]
          /\ o.phase \in DOMAIN Phases /\ link[o.conn] # None
      BY <3>1 DEF OpInv
    <3>3. issued[o.n].dev = link[o.conn] /\ link[o.conn] \in Addr
      BY <1>1, <3>2, Records DEF TypeOK
    <3> QED BY <3>2, <3>3, PhaseNames
  <2>3. [dev |-> issued[o.n].dev, phase |-> Phases[o.phase]] \in Finding
    BY <2>2, PhaseNames DEF Finding
  <2>4. table' \in Seq(Finding)
    BY <1>5, <2>3, AppendProperties DEF OnDiscResult, TypeOK
  <2>5. /\ UNCHANGED <<env, slots, rw, discConn, discState, discSem, api, history, answer>>
        /\ ops' \subseteq Op
    BY <1>5, <2>1 DEF OnDiscResult, TypeOK
  <2> QED BY <2>4, <2>5 DEF TypeOK, slots, rw, api, history
<1>6. CASE OnDiscPhase(o)
  <2>1. o.phase < 3 => [o EXCEPT !.phase = @ + 1, !.found = FALSE] \in Op
    <3>1. o.phase < 3 => o.phase + 1 \in 1 .. 3
      BY <1>1, Records
    <3> QED BY <1>1, <3>1, Advanced
  <2>2. ops' \subseteq Op
    BY <1>6, <2>1, PhaseNames DEF OnDiscPhase, TypeOK
  <2> QED BY <1>6, <2>2 DEF OnDiscPhase, TypeOK, slots, rw, disc, api, history
<1>7. CASE OnDiscEnd(o)
  <2>1. /\ UNCHANGED <<env, slots, rw, discConn, table, api, history, answer>>
        /\ ops' \subseteq ops /\ discState' \in {"idle", "done", "failed"} /\ discSem' \in BOOLEAN
    BY <1>7 DEF OnDiscEnd, TypeOK
  <2> QED BY <2>1 DEF TypeOK, slots, rw, api, history
<1> QED BY <1>2, <1>3, <1>4, <1>5, <1>6, <1>7

LEMMA TypeStep ==
    ASSUME TypeOK, RequestInv, OpInv, [Next]_vars
    PROVE  TypeOK'
<1>1. CASE UNCHANGED vars
  BY <1>1 DEF TypeOK, vars, slots, rw, disc, api, history
<1> QED BY <1>1, TypeLinks, TypeClient, TypeApiStep, TypeCallback DEF Next

-----------------------------------------------------------------------------
(* The request under way, and the operations of the stack.                  *)

LEMMA RequestStep ==
    ASSUME TypeOK, RequestInv, [Next]_vars
    PROVE  RequestInv'
<1> USE DEF RequestInv
<1>0. {"read", "write", "command", "notify", "services"} \subseteq Kinds
  BY DEF Kinds
<1>1. CASE Links \/ Callback \/ UNCHANGED vars
  <2>1. /\ UNCHANGED <<apiPc, req, asked, answer, rwConn, rwHandle, discConn>>
        /\ apiPc # "idle" => UNCHANGED conn
    BY <1>1 DEF Links, Connect, ConnectMissed, SlotsFreed, LinkLost, Callback,
       OnReadResult, OnWriteResult, CommandSent, OnDiscResult, OnDiscPhase, OnDiscEnd,
       Store, vars, slots, rw, disc, api, history
  <2> QED BY <2>1
<1>2. CASE Client
  <2>1. ASSUME NEW a \in Addr, NEW h \in Handle, NEW kind \in Kinds, kind # "services",
               conn[a] # None, Expect(kind, a, h), asked < MaxReq, asked' = asked + 1,
               conn' = conn
        PROVE  RequestInv'
    <3>1. /\ rwConn' = conn[a] /\ req'.kind = kind /\ req'.handle = h /\ req'.address = a
          /\ apiPc' = "handle" /\ answer' = NoAnswer
      BY <2>1, Expected
    <3>2. asked' \in 1 .. MaxReq
      BY <2>1, MaxReqAssumption DEF TypeOK
    <3> QED BY <2>1, <3>1, <3>2 DEF Unstarted
  <2>2. ASSUME NEW a \in Addr, NEW h \in Handle, NEW kind \in {"read", "write", "command"},
               Request(kind, a, h)
        PROVE  RequestInv'
    BY <1>0, <2>1, <2>2 DEF Request, Answer, slots
  <2>3. ASSUME NEW a \in Addr, RequestNotify(a)
        PROVE  RequestInv'
    BY <1>0, <2>1, <2>3, CccdHandles DEF RequestNotify, Answer, slots
  <2>4. ASSUME NEW a \in Addr, RequestServices(a)
        PROVE  RequestInv'
    BY <1>0, <2>4, MaxReqAssumption DEF RequestServices, TypeOK, slots
  <2>5. ASSUME NEW a \in Addr, RequestServicesNoSlot(a)
        PROVE  RequestInv'
    BY <2>5 DEF RequestServicesNoSlot, api, slots
  <2> QED BY <1>2, <2>2, <2>3, <2>4, <2>5 DEF Client
<1>3. CASE Drain \/ Start \/ StartServices \/ Take \/ TimeOut \/ CheckCause
  <2>1. /\ UNCHANGED <<conn, req, asked, answer, rwConn, rwHandle, discConn>>
        /\ apiPc # "idle" /\ apiPc' \notin {"handle", "cause", "len", "discConn", "discState"}
        /\ apiPc \notin {"handle", "cause", "len", "discConn", "discState"}
        /\ apiPc' \in {"good", "bad"} => req.kind # "services"
        /\ apiPc' \notin Unstarted => apiPc \notin Unstarted \/ req.kind # "command"
    BY <1>3 DEF Drain, Start, StartServices, Take, TimeOut, CheckCause, Unstarted, slots,
       rw, disc, history
  <2> QED BY <2>1
<1>5. CASE ExpectHandle \/ ExpectCause \/ ExpectLen \/ ExpectConn \/ ExpectState
  BY <1>5 DEF ExpectHandle, ExpectCause, ExpectLen, ExpectConn, ExpectState, Unstarted,
     slots, rw, disc, history
<1>4. CASE \/ StartCommand \/ StartRefused \/ ServicesRefused
           \/ AnswerResult \/ AnswerError \/ AnswerServices
  BY <1>4 DEF StartCommand, StartRefused, ServicesRefused, AnswerResult, AnswerError,
     AnswerServices, Answer
<1> QED BY <1>1, <1>2, <1>3, <1>4, <1>5 DEF Next, ApiStep

(* What the API task does but start an operation leaves the operations      *)
(* alone; a request that is taken has a number no operation has.            *)
LEMMA OpsKept ==
    ASSUME TypeOK,
           \/ Client \/ Drain \/ StartRefused \/ ServicesRefused \/ Take \/ TimeOut
           \/ CheckCause \/ AnswerResult \/ AnswerError \/ AnswerServices
           \/ ExpectHandle \/ ExpectCause \/ ExpectLen \/ ExpectConn \/ ExpectState
    PROVE  /\ UNCHANGED <<ops, issued, link, conn, lost, written>> /\ asked' \in Nat
           /\ \/ asked' = asked /\ (apiPc' \in Unstarted => apiPc \in Unstarted)
              \/ asked' = asked + 1 /\ apiPc = "idle"
<1> asked \in Nat /\ asked + 1 \in Nat
  BY MaxReqAssumption DEF TypeOK
<1>1. CASE Client
  BY <1>1 DEF Client, Request, RequestNotify, RequestServices, RequestServicesNoSlot,
     slots
<1>2. CASE \/ Drain \/ StartRefused \/ ServicesRefused \/ Take \/ TimeOut \/ CheckCause
           \/ AnswerResult \/ AnswerError \/ AnswerServices
  BY <1>2 DEF Drain, StartRefused, ServicesRefused, Take, TimeOut, CheckCause, AnswerResult,
     AnswerError, AnswerServices, Answer, Unstarted, slots, history
<1>3. CASE ExpectHandle \/ ExpectCause \/ ExpectLen \/ ExpectConn \/ ExpectState
  BY <1>3 DEF ExpectHandle, ExpectCause, ExpectLen, ExpectConn, ExpectState, Unstarted,
     slots, history
<1> QED BY <1>1, <1>2, <1>3

(* An operation starts for the request under way, to the device its conn id *)
(* reaches.                                                                 *)
LEMMA Starting ==
    ASSUME TypeOK, RequestInv, Start \/ StartCommand \/ StartServices
    PROVE  \E o \in Op :
             /\ o.n = asked /\ o.kind = req.kind /\ o.handle = req.handle /\ o.found = FALSE
             /\ o.conn = (IF req.kind = "services" THEN discConn ELSE rwConn)
             /\ o.phase = (IF req.kind = "services" THEN 1 ELSE 0)
             /\ ops' = ops \cup {o}
             /\ link[o.conn] \in Addr /\ asked \in 1 .. MaxReq
             /\ issued'[asked].address = req.address
             /\ issued'[asked].dev = link[o.conn] /\ issued'[asked].handle = o.handle
             /\ \A n \in 1 .. MaxReq \ {asked} : issued'[n] = issued[n]
             /\ UNCHANGED <<asked, conn, link, lost, rw, disc, written>>
             /\ apiPc = "start"
             /\ apiPc' = (IF req.kind = "command" THEN "idle" ELSE "wait")
<1>1. CASE Start \/ StartCommand
  <2>1. /\ Started(rwConn, 0) /\ apiPc = "start" /\ req.kind # "services"
        /\ UNCHANGED <<asked, conn, link, lost, rw, disc, written>>
        /\ apiPc' = (IF req.kind = "command" THEN "idle" ELSE "wait")
    BY <1>1 DEF Start, StartCommand, Answer, slots
  <2>2. rwConn \in ConnId /\ 0 \in 0 .. 3
    BY <2>1 DEF RequestInv, TypeOK
  <2>3. PICK o \in Op : Took(o, rwConn, 0)
    BY <2>1, <2>2, OpStarted
  <2> QED BY <2>1, <2>3 DEF Took
<1>2. CASE StartServices
  <2>1. /\ Started(discConn, 1) /\ apiPc = "start" /\ req.kind = "services"
        /\ UNCHANGED <<asked, conn, link, lost, rw, disc, written>> /\ apiPc' = "wait"
    BY <1>2 DEF StartServices, slots
  <2>2. discConn \in ConnId /\ 1 \in 0 .. 3
    BY <2>1 DEF RequestInv, TypeOK
  <2>3. PICK o \in Op : Took(o, discConn, 1)
    BY <2>1, <2>2, OpStarted
  <2> QED BY <2>1, <2>3 DEF Took
<1> QED BY <1>1, <1>2

(* A callback ends an operation, or takes it a step further.                *)
LEMMA CalledBack ==
    ASSUME TypeOK, OpInv, Callback
    PROVE  /\ UNCHANGED <<asked, issued, link, conn, api, answer, discConn, rwConn, rwHandle>>
           /\ \E o \in ops :
                 \/ ops' = ops \ {o}
                 \/ \E q \in Op : /\ q.n = o.n /\ q.conn = o.conn /\ q.kind = o.kind
                                  /\ q.handle = o.handle /\ q.phase \in DOMAIN Phases
                                  /\ ops' = (ops \ {o}) \cup {q}
<1> PICK o \in ops : \/ OnReadResult(o) \/ OnWriteResult(o) \/ CommandSent(o)
                     \/ OnDiscResult(o) \/ OnDiscPhase(o) \/ OnDiscEnd(o)
  BY DEF Callback
<1>1. UNCHANGED <<asked, issued, link, conn, api, answer, discConn, rwConn, rwHandle>>
  BY DEF OnReadResult, OnWriteResult, CommandSent, OnDiscResult, OnDiscPhase, OnDiscEnd,
     Store, slots, history, rw, disc
<1>2. CASE OnReadResult(o) \/ OnWriteResult(o) \/ CommandSent(o) \/ OnDiscEnd(o)
  <2>1. ops' = ops \ {o}
    BY <1>2 DEF OnReadResult, OnWriteResult, CommandSent, OnDiscEnd
  <2> QED BY <1>1, <2>1
<1>3. CASE OnDiscResult(o)
  <2> DEFINE q == [o EXCEPT !.found = TRUE]
  <2>1. o \in Op /\ o.kind = "services" /\ ops' = (ops \ {o}) \cup {q}
    BY <1>3 DEF OnDiscResult, TypeOK
  <2>2. /\ q \in Op /\ q.n = o.n /\ q.conn = o.conn /\ q.kind = o.kind
        /\ q.handle = o.handle /\ q.phase = o.phase
    BY <2>1 DEF Op
  <2>3. o.phase \in DOMAIN Phases
    BY <2>1 DEF OpInv
  <2> HIDE DEF q
  <2> QED BY <1>1, <2>1, <2>2, <2>3
<1>4. CASE OnDiscPhase(o)
  <2> DEFINE k == o.phase + 1
             q == [o EXCEPT !.phase = k, !.found = FALSE]
  <2>1. o \in Op /\ o.kind = "services" /\ o.phase < 3
        /\ (ops' = ops \ {o} \/ ops' = (ops \ {o}) \cup {q})
    BY <1>4, PhaseNames DEF OnDiscPhase, TypeOK
  <2>2. k \in 1 .. 3
    BY <2>1, Records
  <2> HIDE DEF k
  <2>3. q \in Op
    BY <2>1, <2>2, Advanced
  <2>4. /\ q.n = o.n /\ q.conn = o.conn /\ q.kind = o.kind /\ q.handle = o.handle
        /\ q.phase = k
    BY <2>1 DEF Op
  <2> HIDE DEF q
  <2> QED BY <1>1, <2>1, <2>2, <2>3, <2>4, PhaseNames
<1> QED BY <1>2, <1>3, <1>4

LEMMA OpStep ==
    ASSUME TypeOK, RequestInv, OpInv, [Next]_vars
    PROVE  OpInv'
<1>0. /\ asked \in Nat /\ ops \subseteq Op /\ \A o \in ops : o.conn \in ConnId /\ o.n \in 1 .. MaxReq
  BY Records, MaxReqAssumption DEF TypeOK
<1>1. CASE \/ Client \/ Drain \/ StartRefused \/ ServicesRefused \/ Take \/ TimeOut
           \/ CheckCause \/ AnswerResult \/ AnswerError \/ AnswerServices
           \/ ExpectHandle \/ ExpectCause \/ ExpectLen \/ ExpectConn \/ ExpectState
  BY <1>0, <1>1, OpsKept DEF OpInv
<1>2. CASE Links \/ UNCHANGED vars
  <2>1. /\ UNCHANGED <<issued, asked, apiPc>> /\ ops' \subseteq ops
        /\ \A o \in ops' : link'[o.conn] = link[o.conn]
    <3>1. \A o \in ops : link[o.conn] # None
      BY DEF OpInv
    <3>2. CASE UNCHANGED vars \/ SlotsFreed
      BY <3>2 DEF api, history, vars, slots, SlotsFreed
    <3>3. ASSUME NEW a \in Addr, Connect(a) \/ ConnectMissed(a)
          PROVE  /\ UNCHANGED <<issued, asked, apiPc, ops>>
                 /\ \A o \in ops' : link'[o.conn] = link[o.conn]
      <4>1. /\ UNCHANGED <<issued, asked, apiPc, ops>>
            /\ \/ UNCHANGED link
               \/ \E c \in ConnId : link[c] = None /\ link' = [link EXCEPT ![c] = a]
        BY <3>3 DEF Connect, ConnectMissed, api, history
      <4> QED BY <1>0, <3>1, <4>1 DEF TypeOK
    <3>4. ASSUME NEW c \in ConnId, LinkLost(c)
          PROVE  /\ UNCHANGED <<issued, asked, apiPc>> /\ ops' \subseteq ops
                 /\ \A o \in ops' : link'[o.conn] = link[o.conn]
      BY <1>0, <3>4 DEF LinkLost, api, history, TypeOK
    <3> QED BY <1>2, <3>2, <3>3, <3>4 DEF Links
  <2> QED BY <2>1 DEF OpInv
<1>3. CASE Start \/ StartCommand \/ StartServices
  <2>1. PICK p \in Op :
             /\ p.n = asked /\ p.phase = (IF req.kind = "services" THEN 1 ELSE 0)
             /\ p.kind = req.kind /\ ops' = ops \cup {p} /\ link[p.conn] \in Addr
             /\ asked \in 1 .. MaxReq
             /\ issued'[asked].dev = link[p.conn] /\ issued'[asked].handle = p.handle
             /\ \A n \in 1 .. MaxReq \ {asked} : issued'[n] = issued[n]
             /\ UNCHANGED <<asked, link>> /\ apiPc = "start"
             /\ apiPc' = (IF req.kind = "command" THEN "idle" ELSE "wait")
    BY <1>3, Starting
  <2>2. \A o \in ops : o.n < asked /\ o.n # asked
    <3>1. apiPc = "start"
      BY <2>1
    <3>2. \A o \in ops : o.n < asked
      BY <3>1 DEF OpInv, Unstarted
    <3> QED BY <1>0, <3>2
  <2>3. \A o \in ops' :
           /\ o.n \in 1 .. asked /\ issued'[o.n].dev = link[o.conn] /\ issued'[o.n].handle = o.handle
           /\ link[o.conn] # None /\ (o.kind = "services" => o.phase \in DOMAIN Phases)
    <3>1. \A o \in ops :
             /\ o.n \in 1 .. asked /\ issued'[o.n].dev = link[o.conn] /\ issued'[o.n].handle = o.handle
             /\ link[o.conn] # None /\ (o.kind = "services" => o.phase \in DOMAIN Phases)
      BY <1>0, <2>1, <2>2 DEF OpInv
    <3>2. /\ asked \in 1 .. asked /\ link[p.conn] # None
          /\ (p.kind = "services" => p.phase \in DOMAIN Phases)
      BY <1>0, <2>1, PhaseNames, NoneAssumption
    <3> QED BY <2>1, <3>1, <3>2
  <2>4. \A o, p2 \in ops' : o.n = p2.n => o = p2
    BY <2>1, <2>2 DEF OpInv
  <2> QED BY <2>1, <2>3, <2>4 DEF OpInv, Unstarted
<1>4. CASE Callback
  <2>1. UNCHANGED <<asked, issued, link, apiPc>>
    BY <1>4, CalledBack DEF api
  <2>2. PICK o \in ops :
            \/ ops' = ops \ {o}
            \/ \E q \in Op : /\ q.n = o.n /\ q.conn = o.conn /\ q.kind = o.kind
                             /\ q.handle = o.handle /\ q.phase \in DOMAIN Phases
                             /\ ops' = (ops \ {o}) \cup {q}
    BY <1>4, CalledBack
  <2>3. CASE ops' = ops \ {o}
    BY <2>1, <2>3 DEF OpInv
  <2>4. ASSUME NEW q \in Op, q.n = o.n, q.conn = o.conn, q.kind = o.kind, q.handle = o.handle,
               q.phase \in DOMAIN Phases, ops' = (ops \ {o}) \cup {q}
        PROVE  OpInv'
    <3>1. \A x, y \in ops' : x.n = y.n => x = y
      BY <2>4 DEF OpInv
    <3>2. \A x \in ops' : /\ x.n \in 1 .. asked /\ (apiPc \in Unstarted => x.n < asked)
                          /\ issued[x.n].dev = link[x.conn] /\ issued[x.n].handle = x.handle
                          /\ link[x.conn] # None
                          /\ x.kind = "services" => x.phase \in DOMAIN Phases
      BY <2>4 DEF OpInv
    <3> QED BY <2>1, <3>1, <3>2 DEF OpInv
  <2> QED BY <2>2, <2>3, <2>4
<1> QED BY <1>1, <1>2, <1>3, <1>4 DEF Next, ApiStep

(* When no link is missed and no conn id reused, an operation goes to the   *)
(* device it was asked of.                                                  *)
LEMMA AskedStep ==
    ASSUME TypeOK, RequestInv, AskedInv, [Next]_vars
    PROVE  AskedInv'
<1> SUFFICES ASSUME SlotsAreOwn
             PROVE  AskedInv'
  BY EnvKept DEF AskedInv, SlotsAreOwn
<1>0. /\ \A c \in ConnId : link[c] # None => link[c] \in Addr /\ conn[link[c]] = c
      /\ \A c \in lost : c \in ConnId /\ link[c] = None
      /\ \A a \in Addr : conn[a] \in ConnId \cup {None}
      /\ \A n \in 1 .. MaxReq : issued[n].dev = issued[n].address
      /\ "reuse" \notin env /\ "missed" \notin env
  BY DEF AskedInv, SlotsAreOwn, SlotsOn, TypeOK
<1>a. \A a \in Addr : conn[a] # None => link[conn[a]] = a \/ link[conn[a]] = None
  BY DEF AskedInv
<1>1. CASE \/ Client \/ Drain \/ StartRefused \/ ServicesRefused \/ Take \/ TimeOut
           \/ CheckCause \/ AnswerResult \/ AnswerError \/ AnswerServices
           \/ ExpectHandle \/ ExpectCause \/ ExpectLen \/ ExpectConn \/ ExpectState
           \/ Callback \/ UNCHANGED vars
  <2>1. UNCHANGED <<issued, link, conn, lost>>
    <3>1. CASE UNCHANGED vars
      BY <3>1 DEF vars, slots, history
    <3>2. CASE Callback
      BY <3>2 DEF Callback, OnReadResult, OnWriteResult, CommandSent, OnDiscResult,
         OnDiscPhase, OnDiscEnd, slots, history
    <3> QED BY <1>1, <3>1, <3>2, OpsKept
  <2> QED BY <1>0, <1>a, <2>1 DEF AskedInv, SlotsOn
<1>2. CASE Start \/ StartCommand \/ StartServices
  <2>1. PICK p \in Op :
             /\ p.conn = (IF req.kind = "services" THEN discConn ELSE rwConn)
             /\ link[p.conn] \in Addr /\ asked \in 1 .. MaxReq
             /\ issued'[asked].address = req.address /\ issued'[asked].dev = link[p.conn]
             /\ \A n \in 1 .. MaxReq \ {asked} : issued'[n] = issued[n]
             /\ UNCHANGED <<conn, link, lost>> /\ apiPc = "start"
    BY <1>2, Starting
  <2>2. p.conn = conn[req.address] /\ req.address \in Addr /\ conn[req.address] # None
    BY <2>1 DEF RequestInv
  <2>3. link[p.conn] = req.address
    <3>1. link[conn[req.address]] \in {req.address, None}
      BY <1>a, <2>2
    <3> QED BY <2>1, <2>2, <3>1, NoneAssumption
  <2>4. \A n \in 1 .. MaxReq : issued'[n].dev = issued'[n].address
    BY <1>0, <2>1, <2>3
  <2> QED BY <1>0, <1>a, <2>1, <2>4 DEF AskedInv, SlotsOn
<1>3. ASSUME NEW a \in Addr, Connect(a)
      PROVE  AskedInv'
  <2>1. PICK c \in ConnId :
             /\ \A x \in Addr : conn[x] # c
             /\ \/ /\ link[c] = None /\ ~Linked(a) /\ link' = [link EXCEPT ![c] = a]
                   /\ c \notin lost
                \/ link[c] # None /\ UNCHANGED link
             /\ conn' = [conn EXCEPT ![a] = c]
    BY <1>0, <1>3 DEF Connect, Free, SlotsOn
  <2>2. /\ link[c] = None /\ link' = [link EXCEPT ![c] = a] /\ c \notin lost
        /\ \A d \in ConnId : link[d] # a
    BY <1>0, <2>1 DEF Linked
  <2>3. lost' = lost /\ UNCHANGED issued
    BY <1>3 DEF Connect, history
  <2>4. \A d \in ConnId : link'[d] # None => conn'[link'[d]] = d
    BY <1>0, <2>1, <2>2, NoneAssumption DEF TypeOK
  <2>5. \A d \in lost' : link'[d] = None
    BY <1>0, <2>2, <2>3 DEF TypeOK
  <2>6. \A x \in Addr : conn'[x] # None => link'[conn'[x]] \in {x, None}
    BY <1>0, <1>a, <2>1, <2>2, NoneAssumption DEF TypeOK
  <2> QED BY <1>0, <2>3, <2>4, <2>5, <2>6 DEF AskedInv, SlotsOn
<1>4. ASSUME NEW a \in Addr, ConnectMissed(a)
      PROVE  FALSE
  BY <1>0, <1>4 DEF ConnectMissed
<1>5. ASSUME NEW c \in ConnId, LinkLost(c)
      PROVE  AskedInv'
  <2>1. /\ link[c] # None /\ link' = [link EXCEPT ![c] = None] /\ lost' \subseteq lost \cup {c}
        /\ UNCHANGED <<conn, issued>>
    BY <1>5 DEF LinkLost, history
  <2>2. \A d \in ConnId : link'[d] = (IF d = c THEN None ELSE link[d])
    BY <2>1 DEF TypeOK
  <2>3. \A d \in lost' : link'[d] = None
    BY <1>0, <2>1, <2>2
  <2>4. /\ \A d \in ConnId : link'[d] # None => conn'[link'[d]] = d
        /\ \A x \in Addr : conn'[x] # None => link'[conn'[x]] \in {x, None}
    <3>1. ASSUME NEW d \in ConnId, link'[d] # None
          PROVE  conn'[link'[d]] = d
      <4>1. link'[d] = link[d] /\ link[d] # None
        BY <2>2, <3>1
      <4> QED BY <1>0, <2>1, <4>1
    <3>2. ASSUME NEW x \in Addr, conn[x] # None
          PROVE  link'[conn[x]] \in {x, None}
      <4>1. conn[x] \in ConnId
        BY <1>0, <3>2
      <4>2. link[conn[x]] = x \/ link[conn[x]] = None
        BY <1>a, <3>2
      <4> QED BY <2>2, <4>1, <4>2
    <3> QED BY <2>1, <3>1, <3>2
  <2> QED BY <1>0, <2>1, <2>3, <2>4 DEF AskedInv, SlotsOn
<1>6. CASE SlotsFreed
  <2>1. /\ conn' = [x \in Addr |-> IF conn[x] \in lost THEN None ELSE conn[x]]
        /\ lost' = {} /\ UNCHANGED <<link, issued>>
    BY <1>6 DEF SlotsFreed, history
  <2>2. ASSUME NEW d \in ConnId, link[d] # None
        PROVE  conn'[link[d]] = d
    <3>1. link[d] \in Addr /\ conn[link[d]] = d /\ d \notin lost
      BY <1>0, <2>2
    <3> QED BY <2>1, <3>1
  <2>3. \A x \in Addr : conn'[x] # None => link[conn'[x]] = x \/ link[conn'[x]] = None
    BY <1>a, <2>1
  <2> QED BY <1>0, <2>1, <2>2, <2>3 DEF AskedInv
<1> QED BY <1>1, <1>2, <1>3, <1>4, <1>5, <1>6 DEF Next, ApiStep, Links

-----------------------------------------------------------------------------
(* The value that is read.                                                  *)

LEMMA ReadStep ==
    ASSUME TypeOK, RequestInv, OpInv, ReadInv, [Next]_vars
    PROVE  ReadInv'
<1>0. asked \in Nat /\ rwVal \in Nat
  BY MaxReqAssumption DEF TypeOK
<1>1. CASE Client
  <2>1. UNCHANGED rwVal /\ asked' = asked + 1 /\ apiPc' \in {"idle", "handle", "discConn"}
    BY <1>1 DEF Client, Request, RequestNotify, RequestServices, RequestServicesNoSlot,
       Expect, Answer, rw, api
  <2> QED BY <1>0, <2>1 DEF ReadInv, Waited
<1>2. ASSUME UNCHANGED <<rwVal, asked>>, apiPc' = "idle"
      PROVE  ReadInv'
  BY <1>2 DEF ReadInv, Waited, Unstarted
<1>3. CASE StartCommand \/ StartRefused \/ ServicesRefused \/ AnswerResult \/ AnswerError
           \/ AnswerServices
  BY <1>2, <1>3 DEF StartCommand, StartRefused, ServicesRefused, AnswerResult, AnswerError,
     AnswerServices, Answer, rw, history
<1>4. CASE ExpectHandle \/ ExpectCause \/ ExpectLen \/ ExpectConn \/ ExpectState
  <2>1. /\ UNCHANGED <<asked, req>> /\ apiPc \in Unstarted /\ apiPc' \in Unstarted
        /\ rwVal' \in {0, rwVal} /\ apiPc' # "start"
        /\ apiPc' = "drain" /\ req.kind = "read" => rwVal' = 0
    BY <1>4 DEF RequestInv, ExpectHandle, ExpectCause, ExpectLen, ExpectConn, ExpectState,
       Unstarted, rw, history
  <2>2. rwVal' <= asked' /\ rwVal' < asked'
    BY <1>0, <2>1 DEF ReadInv
  <2> QED BY <2>1, <2>2 DEF ReadInv, Waited, Unstarted
<1>5. CASE Drain \/ Take \/ TimeOut \/ CheckCause
  <2>1. /\ UNCHANGED <<rwVal, asked, req, issued, link, rwConn, rwHandle>>
        /\ \/ apiPc = "drain" /\ apiPc' = "start"
           \/ apiPc \in Waited /\ apiPc' \in Waited
    BY <1>5 DEF Drain, Take, TimeOut, CheckCause, Waited, rw, slots, history
  <2> QED BY <2>1 DEF ReadInv, Waited, Unstarted, Alike
<1>6. CASE Start \/ StartServices
  <2>1. PICK p \in Op :
             /\ p.n = asked /\ p.handle = req.handle
             /\ p.conn = (IF req.kind = "services" THEN discConn ELSE rwConn)
             /\ link[p.conn] \in Addr /\ asked \in 1 .. MaxReq
             /\ issued'[asked].dev = link[p.conn] /\ issued'[asked].handle = p.handle
             /\ \A n \in 1 .. MaxReq \ {asked} : issued'[n] = issued[n]
             /\ UNCHANGED <<asked, link, rw>> /\ apiPc = "start"
    BY <1>6, Starting
  <2>2. UNCHANGED <<rwConn, rwHandle, rwVal, asked, link, req>> /\ apiPc' = "wait"
    BY <1>6 DEF Start, StartServices, rw, slots
  <2>3. CASE req.kind = "services"
    BY <2>1, <2>2, <2>3 DEF ReadInv, Waited, Unstarted
  <2>4. CASE req.kind # "services"
    <3>1. /\ issued'[asked].handle = rwHandle /\ issued'[asked].dev = link[rwConn]
          /\ link[rwConn] # None
      BY <2>1, <2>4, NoneAssumption DEF RequestInv
    <3>2. req.kind = "read" /\ rwVal # 0 => Alike(rwVal, asked)'
      <4>1. SUFFICES ASSUME req.kind = "read", rwVal # 0
                     PROVE  Alike(rwVal, asked)'
        OBVIOUS
      <4>2. /\ issued[rwVal].dev = link[rwConn] /\ issued[rwVal].handle = rwHandle
            /\ rwVal < asked
        BY <2>1, <3>1, <4>1 DEF ReadInv, Unstarted
      <4>3. rwVal \in 1 .. MaxReq \ {asked}
        BY <1>0, <4>1, <4>2, <2>1 DEF TypeOK
      <4> QED BY <2>1, <2>2, <3>1, <4>2, <4>3 DEF Alike
    <3> QED BY <2>1, <2>2, <3>1, <3>2 DEF ReadInv, Waited, Unstarted
  <2> QED BY <2>3, <2>4
<1>7. CASE Links
  <2>1. CASE SlotsFreed \/ \E a \in Addr : Connect(a) \/ ConnectMissed(a)
    <3>1. apiPc = "idle" /\ apiPc' = "idle" /\ UNCHANGED <<asked, rwVal>>
      BY <2>1 DEF Connect, ConnectMissed, SlotsFreed, rw, api, history
    <3> QED BY <3>1 DEF ReadInv, Waited, Unstarted
  <2>2. ASSUME NEW c \in ConnId, LinkLost(c)
        PROVE  ReadInv'
    <3>1. UNCHANGED <<apiPc, req, rwConn, rwHandle, rwVal, issued, asked>>
          /\ \A d \in ConnId : link'[d] \in {link[d], None}
      BY <2>2 DEF LinkLost, TypeOK, rw, api, history
    <3>2. apiPc # "idle" /\ req.kind # "services" => rwConn \in ConnId
      BY DEF RequestInv, TypeOK
    <3> QED BY <3>1, <3>2 DEF ReadInv, Waited, Alike
  <2> QED BY <1>7, <2>1, <2>2 DEF Links
<1>8. CASE Callback
  <2>1. UNCHANGED <<asked, issued, link, apiPc, req, rwConn, rwHandle>>
    BY <1>8, CalledBack DEF api
  <2>2. CASE rwVal' \in {0, rwVal}
    BY <1>0, <2>1, <2>2 DEF ReadInv, Waited, Unstarted, Alike
  <2>3. ASSUME NEW o \in ops, o.conn = rwConn, o.handle = rwHandle, rwVal' = o.n
        PROVE  ReadInv'
    <3>1. /\ o.n \in 1 .. asked /\ (apiPc \in Unstarted => o.n < asked)
          /\ issued[o.n].dev = link[rwConn] /\ issued[o.n].handle = rwHandle
          /\ link[rwConn] # None
      BY <2>3 DEF OpInv
    <3>2. apiPc \in Waited /\ req.kind = "read" => Alike(o.n, asked)
      BY <3>1 DEF ReadInv, Alike
    <3>3. rwVal' <= asked /\ (apiPc \in Unstarted => rwVal' < asked)
      BY <1>0, <2>3, <3>1
    <3> QED BY <2>1, <2>3, <3>1, <3>2, <3>3 DEF ReadInv, Waited, Alike
  <2>4. \/ rwVal' \in {0, rwVal}
        \/ \E o \in ops : o.conn = rwConn /\ o.handle = rwHandle /\ rwVal' = o.n
    BY <1>8 DEF Callback, OnReadResult, OnWriteResult, CommandSent, OnDiscResult,
       OnDiscPhase, OnDiscEnd, Store, rw
  <2> QED BY <2>2, <2>3, <2>4
<1>9. CASE UNCHANGED vars
  BY <1>9 DEF ReadInv, Alike, vars, slots, rw, api, history
<1> QED BY <1>1, <1>4, <1>3, <1>5, <1>6, <1>7, <1>8, <1>9 DEF Next, ApiStep

-----------------------------------------------------------------------------
(* A discovery fills the table phase by phase.                              *)

LEMMA TableGrows ==
    ASSUME NEW a \in Addr
    PROVE  /\ UpTo(a, 0) = <<>> /\ UpTo(a, 3) = Whole(a)
           /\ \A k \in 1 .. 3 :
                 Append(UpTo(a, k - 1), [dev |-> a, phase |-> Phases[k]]) = UpTo(a, k)
<1>1. UpTo(a, 3) = Whole(a)
  BY PhaseNames DEF UpTo, Whole
<1>2. \A k \in 0 .. 3 : /\ UpTo(a, k) \in Seq(Finding) /\ Len(UpTo(a, k)) = k
                        /\ \A p \in 1 .. k : UpTo(a, k)[p] = [dev |-> a, phase |-> Phases[p]]
  <2>1. TAKE k \in 0 .. 3
  <2>2. \A p \in 1 .. k : [dev |-> a, phase |-> Phases[p]] \in Finding
    BY PhaseNames DEF Finding
  <2>3. UpTo(a, k) \in [1 .. k -> Finding]
    BY <2>2 DEF UpTo
  <2> QED BY <2>3 DEF UpTo
<1>3. UpTo(a, 0) = <<>>
  BY <1>2
<1>4. ASSUME NEW k \in 1 .. 3
      PROVE  Append(UpTo(a, k - 1), [dev |-> a, phase |-> Phases[k]]) = UpTo(a, k)
  <2> DEFINE e == [dev |-> a, phase |-> Phases[k]]
             before == UpTo(a, k - 1)
             after == UpTo(a, k)
  <2>1. e \in Finding
    BY PhaseNames DEF Finding
  <2>2. before \in Seq(Finding) /\ Len(before) = k - 1 /\ after \in Seq(Finding) /\ Len(after) = k
    <3> k \in 0 .. 3 /\ k - 1 \in 0 .. 3
      OBVIOUS
    <3> QED BY <1>2
  <2>3. \A p \in 1 .. k : after[p] = (IF p = k THEN e ELSE before[p])
    BY DEF UpTo
  <2> HIDE DEF e, before, after
  <2>4. /\ Append(before, e) \in Seq(Finding) /\ Len(Append(before, e)) = Len(after)
        /\ \A p \in 1 .. Len(after) : Append(before, e)[p] = after[p]
    BY <2>1, <2>2, <2>3, AppendProperties
  <2>5. Append(before, e) = after
    BY <2>2, <2>4, SeqEqual
  <2> QED BY <2>5 DEF e, before, after
<1> QED BY <1>1, <1>3, <1>4

LEMMA DiscoveryStep ==
    ASSUME TypeOK, RequestInv, OpInv, DiscoveryInv, [Next]_vars
    PROVE  DiscoveryInv'
<1> SUFFICES ASSUME "late" \notin env
             PROVE  DiscoveryInv'
  BY EnvKept DEF DiscoveryInv
<1>0. /\ \A o \in ops : o.kind = "services" =>
             /\ o.n = asked /\ apiPc = "wait" /\ req.kind = "services"
             /\ o.conn = discConn /\ discState = "idle" /\ ~discSem
             /\ table = UpTo(issued[asked].dev, IF o.found THEN o.phase ELSE o.phase - 1)
      /\ req.kind = "services" =>
             /\ apiPc \in Unstarted => table = <<>>
             /\ apiPc \in {"drain", "start"} => discState = "idle"
             /\ apiPc = "start" => ~discSem
             /\ apiPc \in Waited /\ discState = "done" => table = Whole(issued[asked].dev)
  BY DEF DiscoveryInv
<1>1. ASSUME \A o \in ops' : o.kind # "services", req'.kind # "services"
      PROVE  DiscoveryInv'
  BY <1>1 DEF DiscoveryInv
<1>2. CASE Client
  <2>1. ops' = ops /\ apiPc = "idle" /\ \A o \in ops' : o.kind # "services"
    BY <1>0, <1>2 DEF Client, Request, RequestNotify, RequestServices, RequestServicesNoSlot
  <2>2. CASE \E a \in Addr : RequestServices(a)
    BY <2>1, <2>2 DEF RequestServices, DiscoveryInv, Waited
  <2>3. CASE \E a \in Addr : RequestServicesNoSlot(a)
    <3>1. apiPc' = "idle" /\ req' = req
      BY <2>1, <2>3 DEF RequestServicesNoSlot, api
    <3> QED BY <2>1, <3>1 DEF DiscoveryInv, Waited, Unstarted
  <2>4. CASE \E a \in Addr : \/ RequestNotify(a)
                            \/ \E kind \in {"read", "write", "command"}, h \in Handle :
                                   Request(kind, a, h)
    <3>1. req'.kind # "services"
      BY <2>4 DEF RequestNotify, Request, Expect, Answer, NoReq
    <3> QED BY <1>1, <2>1, <3>1
  <2> QED BY <1>2, <2>2, <2>3, <2>4 DEF Client
<1>3. CASE Drain
  BY <1>0, <1>3 DEF Drain, DiscoveryInv, Waited, Unstarted, history
<1>4. CASE ExpectHandle \/ ExpectCause \/ ExpectLen \/ ExpectConn \/ ExpectState
  <2>1. /\ UNCHANGED <<ops, req, table, asked, issued>>
        /\ apiPc \in Unstarted /\ apiPc' \in Unstarted /\ apiPc' # "start" /\ apiPc # "wait"
        /\ apiPc' = "drain" /\ req.kind = "services" => discState' = "idle"
    BY <1>4 DEF ExpectHandle, ExpectCause, ExpectLen, ExpectConn, ExpectState, RequestInv,
       Unstarted, disc, history
  <2> QED BY <1>0, <2>1 DEF DiscoveryInv, Waited, Unstarted
<1>5. CASE Start \/ StartCommand \/ StartServices
  <2>1. PICK p \in Op :
             /\ p.n = asked /\ p.kind = req.kind /\ p.found = FALSE
             /\ p.conn = (IF req.kind = "services" THEN discConn ELSE rwConn)
             /\ p.phase = (IF req.kind = "services" THEN 1 ELSE 0)
             /\ ops' = ops \cup {p} /\ link[p.conn] \in Addr
             /\ issued'[asked].dev = link[p.conn]
             /\ UNCHANGED <<asked, disc>> /\ apiPc = "start"
             /\ apiPc' = (IF req.kind = "command" THEN "idle" ELSE "wait")
    BY <1>5, Starting
  <2>2. \A o \in ops : o.kind # "services"
    BY <1>0, <2>1
  <2>3. CASE req.kind # "services"
    <3>1. req'.kind # "services"
      BY <1>5, <2>3 DEF Start, StartCommand, StartServices, Answer, NoReq
    <3> QED BY <1>1, <2>1, <2>2, <2>3, <3>1
  <2>4. CASE req.kind = "services"
    <3>1. UNCHANGED <<req, discConn, discState, discSem, table, asked>>
      BY <1>5, <2>1, <2>4 DEF Start, StartCommand, StartServices, disc
    <3>2. table = <<>> /\ discState = "idle" /\ ~discSem
      BY <1>0, <2>1, <2>4 DEF Unstarted
    <3>3. issued'[asked].dev \in Addr /\ table = UpTo(issued'[asked].dev, 1 - 1)
      <4>1. issued'[asked].dev = link[p.conn] /\ 1 - 1 = 0
        BY <2>1
      <4> QED BY <2>1, <3>2, <4>1, TableGrows
    <3>4. \A o \in ops' : o.kind = "services" =>
             /\ o.n = asked' /\ apiPc' = "wait" /\ req'.kind = "services"
             /\ o.conn = discConn' /\ discState' = "idle" /\ ~discSem'
             /\ table' = UpTo(issued'[asked'].dev, IF o.found THEN o.phase ELSE o.phase - 1)
      BY <2>1, <2>2, <2>4, <3>1, <3>2, <3>3
    <3> QED BY <2>1, <2>4, <3>1, <3>2, <3>4 DEF DiscoveryInv, Waited, Unstarted
  <2> QED BY <2>3, <2>4
<1>6. CASE Take \/ TimeOut \/ CheckCause
  <2>1. /\ UNCHANGED <<ops, req, table, discState, asked, issued>>
        /\ apiPc \in Waited /\ apiPc' \in Waited
    BY <1>6 DEF Take, TimeOut, CheckCause, Waited, disc, history
  <2>2. \A o \in ops : o.kind # "services"
    BY <1>0, <1>6 DEF Take, TimeOut, CheckCause, Sem
  <2> QED BY <1>0, <2>1, <2>2 DEF DiscoveryInv, Waited, Unstarted
<1>7. CASE StartRefused \/ ServicesRefused \/ AnswerResult \/ AnswerError \/ AnswerServices
  <2>1. ops' = ops /\ apiPc # "wait" /\ req' = NoReq
    BY <1>7 DEF StartRefused, ServicesRefused, AnswerResult, AnswerError, AnswerServices, Answer
  <2> QED BY <1>0, <1>1, <2>1 DEF NoReq
<1>8. CASE Links \/ UNCHANGED vars
  <2>1. UNCHANGED <<apiPc, req, asked, issued, discConn, discState, discSem, table>>
        /\ ops' \subseteq ops
    BY <1>8 DEF Links, Connect, ConnectMissed, SlotsFreed, LinkLost, vars, disc, api, history
  <2> QED BY <1>0, <2>1 DEF DiscoveryInv, Waited, Unstarted
<1>9. CASE Callback
  <2> PICK o \in ops : \/ OnReadResult(o) \/ OnWriteResult(o) \/ CommandSent(o)
                       \/ OnDiscResult(o) \/ OnDiscPhase(o) \/ OnDiscEnd(o)
    BY <1>9 DEF Callback
  <2>1. UNCHANGED <<asked, issued, apiPc, req, discConn>>
    BY <1>9, CalledBack DEF api
  <2>2. CASE OnReadResult(o) \/ OnWriteResult(o) \/ CommandSent(o)
    <3>1. UNCHANGED <<discState, discSem, table>> /\ ops' \subseteq ops
      BY <2>2 DEF OnReadResult, OnWriteResult, CommandSent, disc
    <3> QED BY <1>0, <2>1, <3>1 DEF DiscoveryInv, Waited, Unstarted
  <2>3. ASSUME o.kind = "services"
        PROVE  /\ o \in Op /\ o.phase \in 1 .. 3 /\ o.found \in BOOLEAN
               /\ o.n = asked /\ apiPc = "wait" /\ req.kind = "services"
               /\ o.conn = discConn /\ discState = "idle" /\ ~discSem
               /\ issued[asked].dev \in Addr
               /\ table = UpTo(issued[asked].dev, IF o.found THEN o.phase ELSE o.phase - 1)
               /\ \A x \in ops : x.kind = "services" => x = o
    <3>1. /\ o \in Op /\ o.found \in BOOLEAN /\ o.conn \in ConnId
      BY Records DEF TypeOK
    <3>2. /\ o.phase \in 1 .. 3 /\ link[o.conn] # None
          /\ issued[o.n].dev = link[o.conn]
          /\ \A x \in ops : x.n = o.n => x = o
      BY <2>3, PhaseNames DEF OpInv
    <3>3. issued[o.n].dev \in Addr
      BY <3>1, <3>2 DEF TypeOK
    <3> QED BY <1>0, <2>3, <3>1, <3>2, <3>3
  <2>4. CASE OnDiscResult(o)
    <3> DEFINE q == [o EXCEPT !.found = TRUE]
               a == issued[asked].dev
    <3>1. /\ o.kind = "services" /\ ~o.found /\ ops' = (ops \ {o}) \cup {q}
          /\ o.conn = discConn =>
                 table' = Append(table, [dev |-> issued[o.n].dev, phase |-> Phases[o.phase]])
          /\ UNCHANGED <<discState, discSem>>
      BY <2>4 DEF OnDiscResult
    <3>2. /\ q.n = o.n /\ q.conn = o.conn /\ q.kind = o.kind /\ q.phase = o.phase /\ q.found = TRUE
      BY <2>3, <3>1 DEF Op
    <3> HIDE DEF q
    <3>3. table' = UpTo(a, o.phase)
      BY <2>3, <3>1, TableGrows
    <3> QED BY <2>1, <2>3, <3>1, <3>2, <3>3 DEF DiscoveryInv, Waited, Unstarted
  <2>5. CASE OnDiscPhase(o)
    <3> DEFINE q == [o EXCEPT !.phase = @ + 1, !.found = FALSE]
    <3>1. /\ o.kind = "services" /\ o.found /\ (ops' = ops \ {o} \/ ops' = (ops \ {o}) \cup {q})
          /\ UNCHANGED <<discState, discSem, table>>
      BY <2>5 DEF OnDiscPhase, disc
    <3>2. /\ q.n = o.n /\ q.conn = o.conn /\ q.kind = o.kind /\ q.phase = o.phase + 1 /\ q.found = FALSE
      BY <2>3, <3>1 DEF Op
    <3>3. q.phase - 1 = o.phase
      BY <2>3, <3>1, <3>2
    <3> HIDE DEF q
    <3> QED BY <2>1, <2>3, <3>1, <3>2, <3>3 DEF DiscoveryInv, Waited, Unstarted
  <2>6. CASE OnDiscEnd(o)
    <3>1. /\ o.kind = "services" /\ ops' = ops \ {o} /\ table' = table
          /\ o.conn = discConn /\ discState' = "done" => o.found /\ o.phase = 3
      BY <2>6, PhaseNames DEF OnDiscEnd
    <3>2. discState' = "done" => table = Whole(issued[asked].dev)
      BY <2>3, <3>1, TableGrows
    <3> QED BY <2>1, <2>3, <3>1, <3>2 DEF DiscoveryInv, Waited, Unstarted
  <2> QED BY <2>2, <2>4, <2>5, <2>6
<1> QED BY <1>2, <1>3, <1>4, <1>5, <1>6, <1>7, <1>8, <1>9 DEF Next, ApiStep

-----------------------------------------------------------------------------
(* A result that is waited for is that of the request under way.            *)

LEMMA OwnStep ==
    ASSUME TypeOK, RequestInv, OpInv, OwnInv, DiscoveryInv, [Next]_vars
    PROVE  OwnInv'
<1> SUFFICES ASSUME AnswersAreAwaited
             PROVE  OwnInv'
  BY EnvKept DEF OwnInv, AnswersAreAwaited
<1> DEFINE Waits(o) == /\ o.n = asked /\ apiPc = "wait" /\ o.kind = req.kind
                       /\ IF req.kind = "services" THEN o.conn = discConn
                          ELSE o.conn = rwConn /\ ~rwSem
           Noted == /\ apiPc \in {"len", "drain", "start", "timedOut"} => rwCause = "unset"
                    /\ apiPc = "start" => ~rwSem
                    /\ apiPc = "wait" => (rwSem <=> rwCause # "unset")
                    /\ apiPc = "woke" => rwCause # "unset"
                    /\ apiPc = "good" => rwCause = "ok"
                    /\ apiPc = "bad" => rwCause = "error"
                    /\ rwCause = "ok" /\ apiPc \notin {"handle", "cause"} =>
                           /\ req.kind = "read" => rwVal = asked
                           /\ req.kind \in {"write", "notify"} => asked \in written
<1>0. /\ \A o \in ops : o.kind # "command" => Waits(o)
      /\ apiPc # "idle" /\ req.kind # "services" => Noted
      /\ "late" \notin env /\ "command" \notin env
  BY DEF OwnInv, AnswersAreAwaited
<1>1. ASSUME \A o \in ops' : o.kind # "command" => Waits(o)',
             (apiPc # "idle" /\ req.kind # "services" => Noted)'
      PROVE  OwnInv'
  BY <1>1 DEF OwnInv
<1>2. CASE Client
  <2>1. ops' = ops /\ \A o \in ops' : o.kind = "command"
    BY <1>0, <1>2 DEF Client, Request, RequestNotify, RequestServices, RequestServicesNoSlot
  <2>2. (apiPc # "idle" /\ req.kind # "services" => Noted)'
    BY <1>2 DEF Client, Request, RequestNotify, RequestServices, RequestServicesNoSlot,
       Expect, Answer, api
  <2> QED BY <1>1, <2>1, <2>2
<1>3. CASE Drain
  <2>1. /\ UNCHANGED <<ops, asked, req, rwCause, rwVal, written>>
        /\ apiPc = "drain" /\ apiPc' = "start" /\ (req.kind # "services" => rwSem' = FALSE)
    BY <1>3 DEF Drain, history
  <2>2. \A o \in ops' : o.kind = "command"
    BY <1>0, <2>1
  <2>3. (apiPc # "idle" /\ req.kind # "services" => Noted)'
    BY <1>0, <2>1
  <2> QED BY <1>1, <2>2, <2>3
<1>4. CASE ExpectHandle \/ ExpectCause \/ ExpectLen \/ ExpectConn \/ ExpectState
  <2>1. /\ UNCHANGED <<ops, req, asked>> /\ apiPc # "wait"
        /\ apiPc' \in {"handle", "cause", "len", "drain", "discState"}
        /\ apiPc' \in {"len", "drain"} /\ req.kind # "services" => rwCause' = "unset"
        /\ apiPc' = "discState" => req.kind = "services"
    BY <1>0, <1>4 DEF ExpectHandle, ExpectCause, ExpectLen, ExpectConn, ExpectState,
       RequestInv, history
  <2>2. \A o \in ops' : o.kind = "command"
    BY <1>0, <2>1
  <2>3. (apiPc # "idle" /\ req.kind # "services" => Noted)'
    BY <2>1
  <2> QED BY <1>1, <2>2, <2>3
<1>5. CASE CheckCause
  <2>1. /\ UNCHANGED <<ops, req, asked, rwCause, rwVal, written>> /\ apiPc = "woke"
        /\ req.kind # "services" /\ apiPc' = IF rwCause = "ok" THEN "good" ELSE "bad"
    BY <1>5 DEF CheckCause, rw, history
  <2>2. \A o \in ops' : o.kind = "command"
    BY <1>0, <2>1
  <2>3. rwCause \in {"ok", "error"}
    BY <1>0, <2>1 DEF TypeOK
  <2>4. (apiPc # "idle" /\ req.kind # "services" => Noted)'
    BY <1>0, <2>1, <2>3
  <2> QED BY <1>1, <2>2, <2>4
<1>6. CASE Start \/ StartCommand \/ StartServices
  <2>1. PICK p \in Op :
             /\ p.n = asked /\ p.kind = req.kind
             /\ p.conn = (IF req.kind = "services" THEN discConn ELSE rwConn)
             /\ ops' = ops \cup {p} /\ UNCHANGED <<asked, rw, disc, written>> /\ apiPc = "start"
             /\ apiPc' = (IF req.kind = "command" THEN "idle" ELSE "wait")
    BY <1>6, Starting
  <2>2. \A o \in ops : o.kind = "command"
    BY <1>0, <2>1
  <2>3. UNCHANGED <<rwConn, rwCause, rwVal, rwSem, discConn, asked, written>>
    BY <2>1 DEF rw, disc
  <2>4. req.kind # "command" => req' = req
    BY <1>6 DEF Start, StartCommand, StartServices
  <2>5. req.kind # "services" => ~rwSem /\ rwCause = "unset"
    BY <1>0, <2>1
  <2>6. \A o \in ops' : o.kind # "command" => Waits(o)'
    BY <2>1, <2>2, <2>3, <2>4, <2>5
  <2>7. (apiPc # "idle" /\ req.kind # "services" => Noted)'
    BY <2>1, <2>3, <2>4, <2>5
  <2> QED BY <1>1, <2>6, <2>7
<1>7. CASE Take \/ TimeOut
  <2>1. /\ UNCHANGED <<ops, req, rwCause, rwVal, asked, written>> /\ apiPc = "wait"
        /\ \/ apiPc' = "woke" /\ Sem
           \/ apiPc' = "timedOut" /\ ~Sem /\ \A o \in ops : o.n # asked
    BY <1>0, <1>7 DEF Take, TimeOut, rw, history
  <2>2. \A o \in ops' : o.kind = "command"
    <3>1. \A o \in ops : o.kind = "services" => ~discSem
      BY <1>0 DEF DiscoveryInv
    <3> QED BY <1>0, <2>1, <3>1 DEF Sem
  <2>3. (apiPc # "idle" /\ req.kind # "services" => Noted)'
    BY <1>0, <2>1 DEF Sem
  <2> QED BY <1>1, <2>2, <2>3
<1>8. CASE StartRefused \/ ServicesRefused \/ AnswerResult \/ AnswerError \/ AnswerServices
  <2>1. ops' = ops /\ apiPc # "wait" /\ apiPc' = "idle"
    BY <1>8 DEF StartRefused, ServicesRefused, AnswerResult, AnswerError, AnswerServices, Answer
  <2> QED BY <1>0, <1>1, <2>1
<1>9. CASE Links \/ UNCHANGED vars
  <2>1. UNCHANGED <<apiPc, req, asked, written, rwConn, rwCause, rwVal, rwSem, discConn>>
        /\ ops' \subseteq ops
    BY <1>9 DEF Links, Connect, ConnectMissed, SlotsFreed, LinkLost, vars, rw, disc, api, history
  <2> QED BY <1>0, <1>1, <2>1
<1>10. CASE Callback
  <2> PICK o \in ops : \/ OnReadResult(o) \/ OnWriteResult(o) \/ CommandSent(o)
                       \/ OnDiscResult(o) \/ OnDiscPhase(o) \/ OnDiscEnd(o)
    BY <1>10 DEF Callback
  <2>1. UNCHANGED <<asked, apiPc, req, rwConn, discConn>> /\ ops \subseteq Op
    BY <1>10, CalledBack DEF api, TypeOK
  <2>2. ASSUME o.kind # "command"
        PROVE  Waits(o) /\ \A x \in ops \ {o} : x.kind = "command"
    BY <1>0, <2>2 DEF OpInv
  <2>3. CASE OnReadResult(o) \/ (OnWriteResult(o) /\ o.kind # "command")
    <3>1. /\ o.kind \in {"read", "write", "notify"} /\ ops' = ops \ {o}
          /\ \/ UNCHANGED <<rwCause, rwVal, rwSem>> /\ written \subseteq written'
             \/ /\ rwCause' \in {"ok", "error"} /\ rwSem' = TRUE
                /\ rwCause' = "ok" => IF o.kind = "read" THEN rwVal' = o.n ELSE o.n \in written'
      BY <2>3 DEF OnReadResult, OnWriteResult, Store, rw, history
    <3>2. \A x \in ops' : x.kind = "command"
      BY <2>2, <3>1
    <3>3. Noted'
      BY <1>0, <2>1, <2>2, <3>1
    <3> QED BY <1>1, <3>2, <3>3
  <2>4. CASE CommandSent(o)
    <3>1. ops' = ops \ {o} /\ UNCHANGED <<rwCause, rwVal, rwSem, written>>
      BY <2>4 DEF CommandSent, rw, history
    <3> QED BY <1>0, <1>1, <2>1, <3>1
  <2>5. CASE OnDiscResult(o) \/ OnDiscPhase(o) \/ OnDiscEnd(o)
    <3>1. o.kind = "services" /\ UNCHANGED <<rwCause, rwVal, rwSem, written>>
      BY <2>5 DEF OnDiscResult, OnDiscPhase, OnDiscEnd, rw, history
    <3>2. /\ req.kind = "services" /\ apiPc = "wait" /\ o.conn = discConn /\ o.n = asked
          /\ \A x \in ops \ {o} : x.kind = "command"
      BY <2>2, <3>1
    <3>3. \A x \in ops' : x.kind # "command" =>
              x.n = asked /\ x.kind = "services" /\ x.conn = discConn
      <4>1. PICK y \in ops :
                \/ ops' = ops \ {y}
                \/ \E q \in Op : /\ q.n = y.n /\ q.conn = y.conn /\ q.kind = y.kind
                                 /\ ops' = (ops \ {y}) \cup {q}
        BY <1>10, CalledBack
      <4> QED BY <3>1, <3>2, <4>1
    <3> QED BY <1>1, <2>1, <3>1, <3>2, <3>3
  <2> QED BY <1>0, <2>3, <2>4, <2>5 DEF OnWriteResult
<1> QED BY <1>2, <1>3, <1>4, <1>5, <1>6, <1>7, <1>8, <1>9, <1>10 DEF Next, ApiStep

-----------------------------------------------------------------------------
(* The answers.                                                             *)

(* An answer is given by one of six, or stays, or is forgotten when the     *)
(* next request is taken.                                                   *)
LEMMA AnswerGiven ==
    ASSUME TypeOK, RequestInv, [Next]_vars
    PROVE  /\ \/ AnswerResult \/ AnswerError \/ AnswerServices
              \/ UNCHANGED answer \/ answer' = NoAnswer
              \/ answer'.kind \in Kinds /\ answer'.val = 0 /\ answer'.result \in {"refused", "noCccd"}
              \/ StartCommand /\ answer'.kind = "command" /\ answer'.result = "ok"
           /\ apiPc \in {"idle", "woke", "timedOut", "good", "bad"} => UNCHANGED issued
           /\ apiPc # "idle" => answer = NoAnswer
           /\ written \subseteq written'
<1>0. {"read", "write", "command", "notify", "services"} \subseteq Kinds
  BY DEF Kinds
<1>1. CASE Client
  <2>1. UNCHANGED <<issued, written>> /\ apiPc = "idle"
    BY <1>1 DEF Client, Request, RequestNotify, RequestServices, RequestServicesNoSlot
  <2>2. \/ answer' = NoAnswer
        \/ answer'.kind \in Kinds /\ answer'.val = 0 /\ answer'.result \in {"refused", "noCccd"}
    BY <1>0, <1>1 DEF Client, Request, RequestNotify, RequestServices,
       RequestServicesNoSlot, Expect, Answer
  <2> QED BY <2>1, <2>2
<1>2. CASE \/ Drain \/ Take \/ TimeOut \/ CheckCause
           \/ AnswerResult \/ AnswerError \/ AnswerServices
           \/ ExpectHandle \/ ExpectCause \/ ExpectLen \/ ExpectConn \/ ExpectState
  BY <1>2 DEF Drain, Take, TimeOut, CheckCause, AnswerResult, AnswerError, AnswerServices,
     ExpectHandle, ExpectCause, ExpectLen, ExpectConn, ExpectState, history, RequestInv
<1>3. CASE Start \/ StartServices \/ StartCommand \/ StartRefused \/ ServicesRefused
  BY <1>0, <1>3 DEF Start, StartServices, StartCommand, StartRefused, ServicesRefused, Answer,
     history, RequestInv
<1>4. CASE Links \/ UNCHANGED vars
  BY <1>4 DEF Links, Connect, ConnectMissed, SlotsFreed, LinkLost, vars, history, RequestInv
<1>5. CASE Callback
  BY <1>5 DEF Callback, OnReadResult, OnWriteResult, CommandSent, OnDiscResult, OnDiscPhase,
     OnDiscEnd, history, RequestInv
<1> QED BY <1>1, <1>2, <1>3, <1>4, <1>5 DEF Next, ApiStep

LEMMA ValueStep ==
    ASSUME TypeOK, RequestInv, ReadInv, AskedInv, ReadValueIsTheAttributes, [Next]_vars
    PROVE  ReadValueIsTheAttributes'
<1> USE DEF ReadValueIsTheAttributes
<1>1. CASE UNCHANGED answer
  <2>1. CASE apiPc = "idle"
    <3>1. UNCHANGED <<issued, env>>
      BY <2>1, AnswerGiven, EnvKept
    <3> QED BY <1>1, <3>1 DEF WentWhereAsked, SlotsAreOwn
  <2>2. CASE apiPc # "idle"
    BY <1>1, <2>2, AnswerGiven, Records
  <2> QED BY <2>1, <2>2
<1>2. CASE AnswerResult
  <2>1. /\ answer'.kind = req.kind /\ answer'.n = asked /\ UNCHANGED <<issued, env>>
        /\ req.kind = "read" => answer'.val = rwVal
        /\ apiPc = "good" /\ apiPc \in Waited
    BY <1>2 DEF AnswerResult, Answer, history, Waited
  <2>2. req.kind = "read" /\ rwVal # 0 => Alike(rwVal, asked)
    BY <2>1 DEF ReadInv
  <2>3. WentWhereAsked(asked)
    BY <2>1 DEF AskedInv, WentWhereAsked, RequestInv
  <2>4. req.kind = "read" /\ rwVal # 0 => (Alike(rwVal, asked) /\ WentWhereAsked(asked))'
    <3>1. issued' = issued /\ env' = env /\ rwVal' = rwVal /\ asked' = asked
      BY <1>2, <2>1 DEF AnswerResult, rw, history
    <3> QED BY <2>2, <2>3, <3>1 DEF Alike, WentWhereAsked, SlotsAreOwn
  <2>5. rwVal' = rwVal /\ asked' = asked
    BY <1>2 DEF AnswerResult, rw, history
  <2> QED BY <2>1, <2>4, <2>5 DEF Alike, WentWhereAsked
<1>3. CASE AnswerError \/ AnswerServices
  BY <1>3 DEF AnswerError, AnswerServices, Answer
<1>4. CASE \/ answer' = NoAnswer \/ answer'.val = 0
           \/ answer'.kind = "command"
  BY <1>4, Records
<1> QED BY <1>1, <1>2, <1>3, <1>4, AnswerGiven

LEMMA OwnAnswerStep ==
    ASSUME TypeOK, RequestInv, OwnInv, AwaitedAnswersAreOwn, [Next]_vars
    PROVE  AwaitedAnswersAreOwn'
<1> SUFFICES ASSUME AnswersAreAwaited
             PROVE  /\ AckMeansWritten'
                    /\ answer'.kind = "read" /\ answer'.result = "ok" => answer'.val = answer'.n
                    /\ answer'.result # "zero"
  BY EnvKept DEF AwaitedAnswersAreOwn, AnswersAreAwaited
<1> USE DEF AckMeansWritten
<1>1. CASE UNCHANGED answer
  BY <1>1, AnswerGiven DEF AwaitedAnswersAreOwn
<1>2. CASE AnswerResult
  <2>1. /\ answer'.kind = req.kind /\ answer'.n = asked /\ answer'.result = "ok"
        /\ req.kind = "read" => answer'.val = rwVal
        /\ apiPc = "good" /\ req.kind # "services" /\ UNCHANGED written
    BY <1>2 DEF AnswerResult, Answer, RequestInv, history
  <2> QED BY <2>1 DEF OwnInv
<1>3. CASE AnswerError
  <2>1. /\ req.kind # "services"
        /\ apiPc \in {"timedOut", "bad"}
        /\ rwCause = "unset" => answer'.result = "timeout"
        /\ rwCause = "error" => answer'.result = "cause"
    BY <1>3 DEF AnswerError, Answer, RequestInv
  <2>2. rwCause \in {"unset", "error"}
    BY <2>1 DEF OwnInv, TypeOK
  <2> QED BY <2>1, <2>2
<1>4. CASE AnswerServices
  BY <1>4 DEF AnswerServices, Answer
<1>5. CASE \/ answer' = NoAnswer \/ answer'.result \in {"refused", "noCccd"}
           \/ answer'.kind = "command" /\ answer'.result = "ok"
  BY <1>5, Records
<1> QED BY <1>1, <1>2, <1>3, <1>4, <1>5, AnswerGiven

LEMMA ServicesStep ==
    ASSUME TypeOK, RequestInv, DiscoveryInv, AskedInv, ServicesWhole, [Next]_vars
    PROVE  ServicesWhole'
<1> SUFFICES ASSUME "late" \notin env, answer'.kind = "services", answer'.result = "ok"
             PROVE  /\ answer'.list = Whole(issued'[answer'.n].dev)
                    /\ WentWhereAsked(answer.n)'
  <2>1. env' = env
    BY EnvKept
  <2> QED BY <2>1 DEF ServicesWhole
<1>1. CASE UNCHANGED answer
  <2>1. apiPc = "idle"
    BY <1>1, AnswerGiven, Records
  <2>2. UNCHANGED <<issued, env>>
    BY <2>1, AnswerGiven, EnvKept
  <2> QED BY <1>1, <2>2 DEF ServicesWhole, WentWhereAsked, SlotsAreOwn
<1>2. CASE AnswerServices
  <2>1. /\ answer'.n = asked /\ answer'.list = table /\ discState = "done"
        /\ apiPc \in Waited /\ req.kind = "services" /\ UNCHANGED <<issued, env>>
    BY <1>2 DEF AnswerServices, Answer, Waited, history, TypeOK
  <2>2. WentWhereAsked(asked)
    BY <2>1 DEF AskedInv, WentWhereAsked, RequestInv, Waited
  <2>3. WentWhereAsked(answer.n)'
    BY <2>1, <2>2 DEF WentWhereAsked, SlotsAreOwn
  <2> QED BY <2>1, <2>3 DEF DiscoveryInv
<1>3. CASE AnswerResult \/ AnswerError
  <2>1. /\ answer'.kind = req.kind
        /\ apiPc \in {"good", "bad"} \/ (apiPc = "timedOut" /\ req.kind # "services")
    BY <1>3 DEF AnswerResult, AnswerError, Answer
  <2> QED BY <2>1 DEF RequestInv
<1> QED BY <1>1, <1>2, <1>3, AnswerGiven, Records

LEMMA TurnStep ==
    ASSUME RequestInv, AnsweredInTurn, [Next]_vars
    PROVE  AnsweredInTurn'
<1> SUFFICES ASSUME "noSlot" \notin env, apiPc' = "idle"
             PROVE  answer'.n = asked'
  BY EnvKept DEF AnsweredInTurn
<1>1. CASE Client
  BY <1>1 DEF Client, Request, RequestNotify, RequestServices, RequestServicesNoSlot,
     Expect, Answer
<1>2. CASE ApiStep
  BY <1>2 DEF ApiStep, Drain, Start, StartServices, Take, TimeOut, CheckCause, StartCommand,
     StartRefused, ServicesRefused, AnswerResult, AnswerError, AnswerServices, Answer,
     ExpectHandle, ExpectCause, ExpectLen, ExpectConn, ExpectState, Started, history
<1>3. CASE Callback \/ Links \/ UNCHANGED vars
  <2>1. UNCHANGED <<asked, answer, apiPc>>
    BY <1>3 DEF Links, Connect, ConnectMissed, SlotsFreed, LinkLost, vars, history, Callback,
       OnReadResult, OnWriteResult, CommandSent, OnDiscResult, OnDiscPhase, OnDiscEnd, api
  <2> QED BY <2>1 DEF AnsweredInTurn
<1> QED BY <1>1, <1>2, <1>3 DEF Next

-----------------------------------------------------------------------------
(* The variables of the requests, of the stack and of the history hold what *)
(* they are meant to hold, whatever the stack does.                         *)
THEOREM TypeCorrect == Spec => [](TypeOK /\ RequestInv /\ OpInv)
<1>1. Init => TypeOK /\ RequestInv /\ OpInv
  <2> SUFFICES ASSUME Init
               PROVE  TypeOK /\ RequestInv /\ OpInv
    OBVIOUS
  <2>1. 0 \in 0 .. MaxReq /\ <<>> \in Seq(Finding)
    BY MaxReqAssumption
  <2>2. TypeOK
    BY <2>1, Records DEF Init, TypeOK
  <2> QED BY <2>2 DEF Init, RequestInv, OpInv
<1>2. TypeOK /\ RequestInv /\ OpInv /\ [Next]_vars => (TypeOK /\ RequestInv /\ OpInv)'
  BY TypeStep, RequestStep, OpStep
<1> QED BY <1>1, <1>2, PTL DEF Spec

\* Nothing has been asked yet.
LEMMA AskedInit ==
    ASSUME Init
    PROVE  AskedInv
<1>1. issued = [n \in 1 .. MaxReq |-> NoOp] /\ NoOp.dev = NoOp.address
  BY DEF Init, NoOp
<1>2. /\ conn = [a \in Addr |-> None] /\ link = [c \in ConnId |-> None] /\ lost = {}
  BY DEF Init
<1> QED BY <1>1, <1>2 DEF AskedInv

(* A value the client reads is of the handle it asked for, and of the       *)
(* device the read was sent to, even when it is an older read's late        *)
(* answer.  That is the device it asked for, unless a link came up that no  *)
(* connect request waited for, or got a conn id that still had a slot: the  *)
(* read goes to whoever the slot's conn id reaches (handleGattRead,         *)
(* onReadResult).                                                           *)
THEOREM ReadsAreTrue == Spec => []ReadValueIsTheAttributes
<1>1. Init => ReadInv /\ AskedInv /\ ReadValueIsTheAttributes
  <2> SUFFICES ASSUME Init
               PROVE  ReadInv /\ AskedInv /\ ReadValueIsTheAttributes
    OBVIOUS
  <2>1. ReadInv
    BY DEF Init, ReadInv, Waited, Unstarted, NoReq
  <2>2. ReadValueIsTheAttributes
    BY Records DEF Init, ReadValueIsTheAttributes
  <2> QED BY <2>1, <2>2, AskedInit
<1>2. TypeOK /\ RequestInv /\ OpInv /\ AskedInv /\ ReadInv /\ ReadValueIsTheAttributes
          /\ [Next]_vars
      => ReadInv' /\ AskedInv' /\ ReadValueIsTheAttributes'
  BY ReadStep, AskedStep, ValueStep
<1> QED BY <1>1, <1>2, TypeCorrect, PTL DEF Spec

(* A discovery that ended well is reported as the device has it, when no    *)
(* result comes after one was given up (handleGetServices, onDiscResult);   *)
(* and it is of the device asked for, unless the slot has another's link.   *)
THEOREM DiscoveriesAreWhole == Spec => [](DiscoveryInv /\ ServicesWhole)
<1>1. Init => DiscoveryInv /\ AskedInv /\ ServicesWhole
  BY AskedInit, Records DEF Init, DiscoveryInv, ServicesWhole, Waited, NoReq
<1>2. /\ TypeOK /\ RequestInv /\ OpInv /\ DiscoveryInv /\ AskedInv /\ ServicesWhole /\ [Next]_vars
          => DiscoveryInv' /\ AskedInv' /\ ServicesWhole'
  BY DiscoveryStep, AskedStep, ServicesStep
<1> QED BY <1>1, <1>2, TypeCorrect, PTL DEF Spec

(* When answers come in time and write commands are not reported, each      *)
(* request gets its own result (handleGattRead, handleGattWrite).           *)
THEOREM AnswersAreOwn == Spec => []AwaitedAnswersAreOwn
<1>1. Init => OwnInv /\ AwaitedAnswersAreOwn
  BY Records DEF Init, OwnInv, AwaitedAnswersAreOwn, AckMeansWritten, NoReq
<1>2. /\ TypeOK /\ RequestInv /\ OpInv /\ DiscoveryInv /\ OwnInv /\ AwaitedAnswersAreOwn /\ [Next]_vars
          => OwnInv' /\ AwaitedAnswersAreOwn'
  BY OwnStep, OwnAnswerStep
<1> QED BY <1>1, <1>2, TypeCorrect, DiscoveriesAreWhole, PTL DEF Spec

(* No request is forgotten: when the API task is ready for the next one,    *)
(* the last has been answered, but one for the services of a device without *)
(* slot (handleGetServices).                                                *)
THEOREM NoneForgotten == Spec => []AnsweredInTurn
<1>1. Init => AnsweredInTurn
  BY Records DEF Init, AnsweredInTurn
<1>2. RequestInv /\ AnsweredInTurn /\ [Next]_vars => AnsweredInTurn'
  BY TurnStep
<1> QED BY <1>1, <1>2, TypeCorrect, PTL DEF Spec

-----------------------------------------------------------------------------
(* The discovery tables (GattTable).                                        *)

\* Entries of the tables, each made of the attribute at its handle.
SvcEntry == {[start |-> h, end |-> EndOf(dev, h)] : h \in Handles(dev, {"svc"})}
ChrEntry == {[decl |-> h, value |-> h + 1, notifies |-> dev[h] = "ntf"] : h \in Handles(dev, Decls)}
DscEntry == {[handle |-> h, cccd |-> dev[h] = "cccd"] : h \in DOMAIN dev}

Starts     == [i \in DOMAIN svc |-> svc[i].start]
DeclsFound == [i \in DOMAIN chr |-> chr[i].decl]
DscsFound  == [i \in DOMAIN dsc |-> dsc[i].handle]

\* What the last phase reports.
LastKinds == IF all THEN DOMAIN dev ELSE Handles(dev, Dscs)

Increasing(k) == \A i, j \in DOMAIN k : i < j => k[i] < k[j]

\* The first cap members of S, in order.
Listed(k, S, cap) ==
    /\ \A i \in DOMAIN k : k[i] \in S
    /\ \A h \in S : \/ \E i \in DOMAIN k : k[i] = h
                    \/ DOMAIN k = 1 .. cap /\ \A i \in DOMAIN k : k[i] < h

Below(S) == {h \in S : h < next}

SvcInv ==
    /\ svc \in Seq(SvcEntry) /\ Increasing(Starts) /\ Len(svc) <= MaxSvc
    /\ phase = "svc" => Listed(Starts, Below(Handles(dev, {"svc"})), MaxSvc)
    /\ phase \in {"chr", "dsc", "done", "ready"} => Listed(Starts, Handles(dev, {"svc"}), MaxSvc)

ChrInv ==
    /\ chr \in Seq(ChrEntry) /\ Increasing(DeclsFound) /\ Len(chr) <= MaxChr
    /\ phase = "svc" => chr = <<>>
    /\ phase = "chr" => Listed(DeclsFound, Below(Handles(dev, Decls)), MaxChr)
    /\ phase \in {"dsc", "done", "ready"} \/ dsc # <<>> =>
           Listed(DeclsFound, Handles(dev, Decls), MaxChr)

DscInv ==
    /\ dsc \in Seq(DscEntry) /\ Increasing(DscsFound) /\ Len(dsc) <= MaxDsc
    /\ phase \in {"svc", "chr"} => dsc = <<>>
    /\ phase = "dsc" => Listed(DscsFound, Below(LastKinds), MaxDsc)
    /\ phase \in {"done", "ready"} => Listed(DscsFound, LastKinds, MaxDsc)

\* What was sent and what was written is what the tables say.
Reported == [i \in DOMAIN svc |-> [start |-> svc[i].start, chars |-> Characteristics(svc[i])]]

SentInv ==
    /\ phase \notin {"ready", "partial"} => report = <<>> /\ notified = Nothing
    /\ report \in {<<>>, Reported}
    /\ phase = "ready" => report = Reported
    /\ \/ notified = Nothing
       \/ \E v \in Values : notified = [handle |-> v, cccd |-> CccdFor(v), value |-> Value(v)]

TableInv ==
    /\ dev \in Devices /\ all \in BOOLEAN
    /\ next \in 1 .. Len(dev) + 1
    /\ phase \in {"svc", "chr", "dsc", "done", "failed", "ready", "partial"}
    /\ SvcInv /\ ChrInv /\ DscInv /\ SentInv
-----------------------------------------------------------------------------
(* Numbers: the least and the greatest of a set, and a set in order.        *)

\* A set of numbers has a least one.
LEMMA Smallest ==
    ASSUME NEW S \in SUBSET Nat, S # {}
    PROVE  \E i \in S : \A j \in S : ~(j < i)
<1> DEFINE R == OpToRel(<, Nat)
<1>1. IsWellFoundedOn(R, Nat)
  BY NatLessThanWellFounded
<1>2. PICK i \in S : \A j \in S : ~(<<j, i>> \in R)
  BY <1>1, WFMin
<1> QED BY <1>2 DEF OpToRel

\* Min and Max of a set are in it, and no member is beyond them.
LEMMA MinOf ==
    ASSUME NEW S \in SUBSET Nat, S # {}
    PROVE  Min(S) \in S /\ \A y \in S : Min(S) <= y
<1>1. PICK i \in S : \A j \in S : ~(j < i)
  BY Smallest
<1>2. \A y \in S : i <= y
  BY <1>1
<1> QED BY <1>2 DEF Min

LEMMA MaxOf ==
    ASSUME NEW n \in Nat, NEW S \in SUBSET (0 .. n), S # {}
    PROVE  Max(S) \in S /\ \A y \in S : y <= Max(S)
<1> DEFINE D == {n - y : y \in S}
<1>1. D \in SUBSET Nat /\ D # {}
  <2>1. \A y \in S : n - y \in Nat
    OBVIOUS
  <2> QED BY <2>1
<1>2. PICK d \in D : \A e \in D : ~(e < d)
  BY <1>1, Smallest
<1>3. PICK x \in S : d = n - x
  BY <1>2
<1>4. \A y \in S : x >= y
  <2> SUFFICES ASSUME NEW y \in S PROVE x >= y
    OBVIOUS
  <2>1. n - y \in D /\ x \in Nat /\ y \in Nat
    OBVIOUS
  <2> QED BY <1>2, <1>3, <2>1
<1>5. \E m \in S : \A y \in S : m >= y
  BY <1>4
<1>6. Max(S) \in S /\ \A y \in S : Max(S) >= y
  BY <1>5 DEF Max
<1> QED BY <1>6

\* A number of them all is the greatest.
LEMMA MaxIs ==
    ASSUME NEW n \in Nat, NEW S \in SUBSET (0 .. n), NEW x \in S, \A y \in S : y <= x
    PROVE  Max(S) = x
<1>1. Max(S) \in S /\ \A y \in S : y <= Max(S)
  BY MaxOf
<1>2. \A y \in S : y \in Nat
  OBVIOUS
<1>3. Max(S) <= x /\ x <= Max(S) /\ Max(S) \in Nat /\ x \in Nat
  BY <1>1, <1>2
<1> QED BY <1>3

\* A number none is less than is the least.
LEMMA MinIs ==
    ASSUME NEW S \in SUBSET Nat, NEW x \in S, \A y \in S : x <= y
    PROVE  Min(S) = x
<1>1. Min(S) \in S /\ \A y \in S : Min(S) <= y
  BY MinOf
<1>2. Min(S) <= x /\ x <= Min(S) /\ Min(S) \in Nat /\ x \in Nat
  BY <1>1
<1> QED BY <1>2

\* A function on 1 .. n is a sequence of length n.
LEMMA FnSeq ==
    ASSUME NEW S, NEW n \in Nat, NEW s, s \in [1 .. n -> S]
    PROVE  s \in Seq(S) /\ Len(s) = n
<1>1. s \in Seq(S)
  BY SeqDef
<1>2. Len(s) \in Nat /\ DOMAIN s = 1 .. Len(s)
  BY <1>1, LenProperties
<1>3. DOMAIN s = 1 .. n
  OBVIOUS
<1> QED BY <1>1, <1>2, <1>3

-----------------------------------------------------------------------------
(* A set in order.                                                          *)

\* How many members of S are less than h.
Rank(S, h) == Cardinality({k \in S : k < h})

\* A greater member has a greater rank.
LEMMA Ranks ==
    ASSUME NEW S \in SUBSET Nat, IsFiniteSet(S)
    PROVE  /\ \A h \in S : Rank(S, h) \in 0 .. Cardinality(S) - 1
           /\ \A g, h \in S : g < h => Rank(S, g) < Rank(S, h)
<1>1. Cardinality(S) \in Nat
  BY FS_CardinalityType
<1>2. \A h \in S : IsFiniteSet({k \in S : k < h}) /\ Rank(S, h) \in Nat
  <2> SUFFICES ASSUME NEW h \in S
               PROVE  IsFiniteSet({k \in S : k < h}) /\ Rank(S, h) \in Nat
    OBVIOUS
  <2> DEFINE T == {k \in S : k < h}
  <2>1. T \in SUBSET S
    OBVIOUS
  <2>2. IsFiniteSet(T)
    BY <2>1, FS_Subset
  <2>3. Cardinality(T) \in Nat
    BY <2>2, FS_CardinalityType
  <2> QED BY <2>2, <2>3 DEF Rank
<1>3. ASSUME NEW T, NEW U, T \subseteq U, T # U, IsFiniteSet(U)
      PROVE  Cardinality(T) < Cardinality(U)
  <2>1. T \in SUBSET U
    BY <1>3
  <2>2. /\ IsFiniteSet(T) /\ Cardinality(T) <= Cardinality(U)
        /\ Cardinality(U) = Cardinality(T) => U = T
    BY <1>3, <2>1, FS_Subset
  <2>3. Cardinality(T) \in Nat /\ Cardinality(U) \in Nat
    BY <1>3, <2>2, FS_CardinalityType
  <2> QED BY <1>3, <2>2, <2>3
<1>4. ASSUME NEW h \in S PROVE Rank(S, h) \in 0 .. Cardinality(S) - 1
  <2>1. h \notin {k \in S : k < h} /\ {k \in S : k < h} \subseteq S
    OBVIOUS
  <2>2. Rank(S, h) < Cardinality(S)
    BY <1>3, <2>1 DEF Rank
  <2>3. Rank(S, h) \in Nat /\ Cardinality(S) \in Nat
    BY <1>1, <1>2
  <2> HIDE DEF Rank
  <2> QED BY ONLY <2>2, <2>3
<1>5. ASSUME NEW g \in S, NEW h \in S, g < h PROVE Rank(S, g) < Rank(S, h)
  <2>1. g \in Nat /\ h \in Nat
    OBVIOUS
  <2>2. {k \in S : k < g} \subseteq {k \in S : k < h}
    <3>1. \A k \in S : k \in Nat
      OBVIOUS
    <3>2. \A k \in S : k < g => k < h
      BY ONLY <1>5, <2>1, <3>1
    <3> QED BY <3>2
  <2>3. g \in {k \in S : k < h} /\ g \notin {k \in S : k < g}
    BY <1>5, <2>1
  <2>4. {k \in S : k < g} # {k \in S : k < h}
    BY ONLY <2>3
  <2> QED BY ONLY <1>2, <1>3, <2>2, <2>4, h \in S DEF Rank
<1> QED BY <1>4, <1>5

\* Sorted(S) is S in increasing order.
LEMMA SortedIs ==
    ASSUME NEW S \in SUBSET Nat, IsFiniteSet(S)
    PROVE  /\ Cardinality(S) \in Nat /\ DOMAIN Sorted(S) = 1 .. Cardinality(S)
           /\ Sorted(S) \in Seq(S) /\ Len(Sorted(S)) = Cardinality(S)
           /\ \A i \in 1 .. Cardinality(S) : Sorted(S)[i] \in S /\ Rank(S, Sorted(S)[i]) = i - 1
           /\ \A i, j \in 1 .. Cardinality(S) : i < j => Sorted(S)[i] < Sorted(S)[j]
           /\ \A h \in S : \E i \in 1 .. Cardinality(S) : Sorted(S)[i] = h
<1> DEFINE n == Cardinality(S)
           rank == [h \in S |-> Rank(S, h)]
<1>1. n \in Nat
  BY FS_CardinalityType
<1>2. /\ \A h \in S : Rank(S, h) \in 0 .. n - 1
      /\ \A g, h \in S : g < h => Rank(S, g) < Rank(S, h)
  BY Ranks
<1>3. \A h \in S : h \in Nat /\ Rank(S, h) \in Nat
  BY <1>1, <1>2
<1>4. \A g, h \in S : Rank(S, g) = Rank(S, h) => g = h
  BY <1>2, <1>3
<1>5. \A i \in 1 .. n : \E h \in S : Rank(S, h) = i - 1
  <2>1. rank \in Injection(S, 0 .. n - 1)
    <3>1. rank \in [S -> 0 .. n - 1]
      BY <1>2
    <3>2. \A g, h \in S : rank[g] = rank[h] => g = h
      BY <1>4
    <3> QED BY <3>1, <3>2 DEF Injection, IsInjective
  <2>2. IsFiniteSet(0 .. n - 1) /\ Cardinality(0 .. n - 1) = n
    <3>1. 0 \in Int /\ n - 1 \in Int
      BY <1>1
    <3>2. IsFiniteSet(0 .. n - 1)
          /\ Cardinality(0 .. n - 1) = IF 0 > n - 1 THEN 0 ELSE ((n - 1) - 0) + 1
      BY ONLY <3>1, FS_Interval
    <3> QED BY <1>1, <3>2
  <2> HIDE DEF rank
  <2>3. rank \in Surjection(S, 0 .. n - 1)
    BY <2>1, <2>2, FS_Injection
  <2>4. \A r \in 0 .. n - 1 : \E h \in S : rank[h] = r
    BY <2>3 DEF Surjection
  <2>5. \A i \in 1 .. n : i - 1 \in 0 .. n - 1
    BY <1>1
  <2> QED BY <2>4, <2>5 DEF rank
<1>6. \A i \in 1 .. n : Sorted(S)[i] = CHOOSE h \in S : Rank(S, h) = i - 1
  BY DEF Sorted, Rank
<1>7. \A i \in 1 .. n : Sorted(S)[i] \in S /\ Rank(S, Sorted(S)[i]) = i - 1
  BY <1>5, <1>6
<1>8. DOMAIN Sorted(S) = 1 .. n
  BY DEF Sorted
<1>9. Sorted(S) \in [1 .. n -> S]
  <2> DEFINE c(i) == CHOOSE h \in S : Cardinality({k \in S : k < h}) = i - 1
  <2>1. Sorted(S) = [i \in 1 .. n |-> c(i)]
    BY DEF Sorted
  <2> HIDE DEF c
  <2>2. \A i \in 1 .. n : c(i) \in S
    BY <1>7, <2>1
  <2> QED BY <2>1, <2>2
<1>10. Sorted(S) \in Seq(S) /\ Len(Sorted(S)) = n
  BY <1>1, <1>9, FnSeq
<1>11. \A i, j \in 1 .. n : i < j => Sorted(S)[i] < Sorted(S)[j]
  <2> SUFFICES ASSUME NEW i \in 1 .. n, NEW j \in 1 .. n, i < j
               PROVE  Sorted(S)[i] < Sorted(S)[j]
    OBVIOUS
  <2> DEFINE a == Sorted(S)[i]  b == Sorted(S)[j]
  <2>1. a \in S /\ b \in S /\ Rank(S, a) = i - 1 /\ Rank(S, b) = j - 1
    BY <1>7
  <2> HIDE DEF a, b
  <2>2. a \in Nat /\ b \in Nat
    BY <2>1
  <2>3. ~(b < a) /\ a # b
    <3>1. i \in Nat /\ j \in Nat
      OBVIOUS
    <3>2. ~(j - 1 < i - 1) /\ i - 1 # j - 1 /\ i - 1 \in Nat /\ j - 1 \in Nat
      BY <3>1, <1>1
    <3> QED BY <1>2, <2>1, <3>2
  <2>4. a < b
    BY <2>2, <2>3
  <2> QED BY <2>4 DEF a, b
<1>12. \A h \in S : \E i \in 1 .. n : Sorted(S)[i] = h
  <2> SUFFICES ASSUME NEW h \in S PROVE \E i \in 1 .. n : Sorted(S)[i] = h
    OBVIOUS
  <2>1. Rank(S, h) + 1 \in 1 .. n /\ (Rank(S, h) + 1) - 1 = Rank(S, h)
    BY <1>1, <1>2
  <2>2. Sorted(S)[Rank(S, h) + 1] \in S
        /\ Rank(S, Sorted(S)[Rank(S, h) + 1]) = Rank(S, h)
    BY <1>7, <2>1
  <2> QED BY <1>4, <2>1, <2>2
<1> QED BY <1>1, <1>7, <1>8, <1>10, <1>11, <1>12

\* A set of numbers up to n is finite.
LEMMA FiniteBelow ==
    ASSUME NEW n \in Nat, NEW S \in SUBSET (1 .. n)
    PROVE  IsFiniteSet(S) /\ Cardinality(S) \in Nat /\ Cardinality(S) <= n
<1>1. IsFiniteSet(1 .. n) /\ Cardinality(1 .. n) = n
  <2>1. 1 \in Int /\ n \in Int
    OBVIOUS
  <2>2. IsFiniteSet(1 .. n) /\ Cardinality(1 .. n) = IF 1 > n THEN 0 ELSE (n - 1) + 1
    BY ONLY <2>1, FS_Interval
  <2> QED BY <2>2
<1>2. IsFiniteSet(S) /\ Cardinality(S) <= n
  BY <1>1, FS_Subset
<1> QED BY <1>2, FS_CardinalityType

\* Any increasing sequence is the set of its members in order.
LEMMA OrderIsSorted ==
    ASSUME NEW S \in SUBSET Nat, NEW n \in Nat, NEW s, DOMAIN s = 1 .. n,
           \A i \in 1 .. n : s[i] \in S, \A h \in S : \E i \in 1 .. n : s[i] = h,
           Increasing(s)
    PROVE  /\ IsFiniteSet(S) /\ Cardinality(S) = n
           /\ \A i \in 1 .. n : Sorted(S)[i] = s[i]
<1>1. \A i \in 1 .. n : s[i] \in Nat
  OBVIOUS
<1>2. \A i, j \in 1 .. n : i < j => s[i] < s[j]
  BY DEF Increasing
<1>3. \A i, j \in 1 .. n : s[i] = s[j] => i = j
  BY <1>1, <1>2
<1>4. ASSUME NEW m \in 0 .. n, NEW T,
             \A i \in 1 .. m : s[i] \in T, \A h \in T : \E i \in 1 .. m : s[i] = h
      PROVE  IsFiniteSet(T) /\ Cardinality(T) = m
  <2> DEFINE f == [i \in 1 .. m |-> s[i]]
  <2>0. m \in Nat /\ \A i \in 1 .. m : i \in 1 .. n
    OBVIOUS
  <2>1. f \in [1 .. m -> T]
    BY <1>4
  <2>2. \A i, j \in 1 .. m : f[i] = f[j] => i = j
    BY <1>3, <2>0
  <2>3. \A h \in T : \E i \in 1 .. m : f[i] = h
    BY <1>4
  <2> HIDE DEF f
  <2>4. f \in Bijection(1 .. m, T)
    BY <2>1, <2>2, <2>3 DEF Bijection, Injection, Surjection, IsInjective
  <2>5. ExistsBijection(1 .. m, T)
    BY <2>4 DEF ExistsBijection
  <2> QED BY <2>0, <2>5, FS_CountingElements, FS_NatBijection
<1>5. IsFiniteSet(S) /\ Cardinality(S) = n
  <2>1. n \in 0 .. n
    OBVIOUS
  <2> QED BY <1>4, <2>1
<1>6. ASSUME NEW i \in 1 .. n PROVE Rank(S, s[i]) = i - 1
  <2> DEFINE T == {k \in S : k < s[i]}
  <2>1. i - 1 \in 0 .. n
    OBVIOUS
  <2>2. \A j \in 1 .. i - 1 : s[j] \in T
    <3> SUFFICES ASSUME NEW j \in 1 .. i - 1 PROVE s[j] \in S /\ s[j] < s[i]
      OBVIOUS
    <3>1. j \in 1 .. n /\ j < i
      OBVIOUS
    <3> QED BY <1>2, <3>1
  <2>3. \A h \in T : \E j \in 1 .. i - 1 : s[j] = h
    <3> SUFFICES ASSUME NEW h \in S, h < s[i] PROVE \E j \in 1 .. i - 1 : s[j] = h
      OBVIOUS
    <3>1. PICK j \in 1 .. n : s[j] = h
      OBVIOUS
    <3>2. ~(i < j) /\ i # j
      BY <1>1, <1>2, <3>1
    <3>3. j \in 1 .. i - 1
      BY <3>2
    <3> QED BY <3>1, <3>3
  <2> HIDE DEF T
  <2>4. Cardinality(T) = i - 1
    BY <1>4, <2>1, <2>2, <2>3
  <2> QED BY <2>4 DEF T, Rank
<1>7. ASSUME NEW i \in 1 .. n PROVE Sorted(S)[i] = s[i]
  <2>1. Sorted(S)[i] \in S /\ Rank(S, Sorted(S)[i]) = i - 1
    BY <1>5, SortedIs
  <2>2. PICK j \in 1 .. n : s[j] = Sorted(S)[i]
    BY <2>1
  <2>3. j - 1 = i - 1
    BY <1>6, <2>1, <2>2
  <2>4. j = i
    BY <2>3
  <2> QED BY <2>2, <2>4
<1> QED BY <1>5, <1>7

-----------------------------------------------------------------------------
(* Devices.                                                                 *)

AttrKinds == {"svc", "ntf", "ind", "val", "dsc", "cccd"}

\* LastUpTo is 0 or an attribute of these kinds, the last one up to h.
LEMMA LastUpToIs ==
    ASSUME NEW d, NEW n \in Nat, DOMAIN d = 1 .. n, NEW kinds, NEW h \in 0 .. n
    PROVE  LET m == LastUpTo(d, kinds, h) IN
           /\ m = 0 \/ m \in Handles(d, kinds)
           /\ m \in 0 .. h
           /\ \A k \in Handles(d, kinds) : k <= h => k <= m
<1> DEFINE S == {0} \cup {k \in Handles(d, kinds) : k <= h}
<1>1. S \in SUBSET (0 .. n) /\ S # {} /\ \A y \in S : y <= h
  BY DEF Handles
<1>2. Max(S) \in S /\ \A y \in S : y <= Max(S)
  BY ONLY <1>1, MaxOf, n \in Nat
<1>3. LastUpTo(d, kinds, h) = Max(S)
  BY DEF LastUpTo
<1>4. \A k \in Handles(d, kinds) : k <= h => k \in S
  OBVIOUS
<1>5. Max(S) = 0 \/ Max(S) \in Handles(d, kinds)
  BY <1>2
<1>6. Max(S) \in 0 .. h
  BY <1>1, <1>2
<1> HIDE DEF S
<1> QED BY <1>2, <1>3, <1>4, <1>5, <1>6

\* What every row has: a declaration with its value after it, descriptors
\* after a value, no CCCD after another without a value or a service between.
RowOK(d) ==
    /\ d \in Seq(AttrKinds)
    /\ \A h \in DOMAIN d : d[h] \in Decls => h = Len(d) \/ d[h + 1] = "val"
    /\ \A h \in DOMAIN d : d[h] = "val" => h > 1 /\ d[h - 1] \in Decls
    /\ \A h \in DOMAIN d : d[h] \in Dscs => h > 1 /\ d[h - 1] \in {"val", "dsc", "cccd"}
    /\ \A g, h \in DOMAIN d : d[g] = "cccd" /\ d[h] = "cccd" /\ g < h =>
           \E k \in DOMAIN d : g < k /\ k < h /\ d[k] \in {"svc", "val"}

\* What follows is an attribute.
LEMMA FollowsKinds ==
    \A d : Follows(d) \subseteq AttrKinds
  BY DEF Follows, AttrKinds, Decls

\* A row stays one when it grows by what may follow.
LEMMA RowGrows ==
    ASSUME NEW d, RowOK(d), NEW k \in Follows(d)
    PROVE  RowOK(Append(d, k)) /\ Len(Append(d, k)) = Len(d) + 1
<1> DEFINE e == Append(d, k)  n == Len(d)
<1>1. d \in Seq(AttrKinds) /\ k \in AttrKinds /\ n \in Nat /\ DOMAIN d = 1 .. n
  BY FollowsKinds, LenProperties DEF RowOK
<1>2. /\ e \in Seq(AttrKinds) /\ Len(e) = n + 1 /\ DOMAIN e = 1 .. n + 1
      /\ \A i \in 1 .. n : e[i] = d[i] /\ d[i] \in AttrKinds
      /\ e[n + 1] = k
  BY <1>1, AppendProperties, LenProperties
<1>3. \A i \in 1 .. n + 1 : i \in 1 .. n \/ i = n + 1
  BY <1>1
<1>4. n > 0 => n \in 1 .. n /\ Last(d) = d[n] /\ d # <<>>
  BY <1>1 DEF Last
<1>5. n = 0 => d = <<>>
  BY <1>1, EmptySeq
<1>6. RowOK(d)
  OBVIOUS
<1> HIDE DEF e, n
<1>7. CASE n = 0
  <2>1. k = "svc"
    BY <1>5, <1>7, k \in Follows(d) DEF Follows, n
  <2>2. \A i \in 1 .. n + 1 : i = 1 /\ e[i] = "svc"
    BY <1>1, <1>2, <1>7, <2>1
  <2> QED BY <1>1, <1>2, <2>2 DEF RowOK, Decls, Dscs, e, n
<1>8. CASE n > 0
  <2>1. n \in 1 .. n /\ Last(d) = d[n] /\ d # <<>> /\ e[n] = d[n] /\ n + 1 \in 1 .. n + 1
        /\ (n + 1) - 1 = n /\ n + 1 > 1
    BY <1>1, <1>2, <1>4, <1>8
  <2> DEFINE m == LastUpTo(d, {"svc", "val", "cccd"}, n)
  <2>2. /\ m \in 0 .. n
        /\ \A g \in 1 .. n : d[g] \in {"svc", "val", "cccd"} => g <= m
    <3>1. m \in 0 .. n /\ \A g \in Handles(d, {"svc", "val", "cccd"}) : g <= n => g <= m
      BY <1>1, LastUpToIs
    <3> QED BY <1>1, <3>1 DEF Handles
  <2>3. /\ d[n] \in Decls => k = "val"
        /\ d[n] \notin Decls => k # "val"
        /\ k = "dsc" => d[n] # "svc"
        /\ k = "cccd" => m \in 1 .. n /\ d[m] = "val"
    BY <1>1, <2>1 DEF Follows, Decls, Handles, n
  <2> HIDE DEF m
  <2>4. \A h \in 1 .. n + 1 : e[h] \in Decls => h = n + 1 \/ e[h + 1] = "val"
    <3> SUFFICES ASSUME NEW h \in 1 .. n + 1, e[h] \in Decls, h # n + 1 PROVE e[h + 1] = "val"
      OBVIOUS
    <3>1. h \in 1 .. n /\ e[h] = d[h]
      BY <1>2, <1>3
    <3>2. h = n \/ (h + 1 \in 1 .. n /\ e[h + 1] = d[h + 1] /\ h # n)
      BY <1>1, <1>2, <3>1
    <3>3. h = n \/ d[h + 1] = "val"
      BY <1>1, <1>6, <3>1 DEF RowOK, n
    <3> QED BY <1>2, <2>3, <3>1, <3>2, <3>3
  <2>5. \A h \in 1 .. n + 1 : e[h] = "val" => h > 1 /\ e[h - 1] \in Decls
    <3> SUFFICES ASSUME NEW h \in 1 .. n + 1, e[h] = "val" PROVE h > 1 /\ e[h - 1] \in Decls
      OBVIOUS
    <3>1. CASE h \in 1 .. n
      <4>1. d[h] = "val" /\ h > 1 /\ d[h - 1] \in Decls
        BY <1>1, <1>2, <1>6, <3>1 DEF RowOK
      <4>2. h - 1 \in 1 .. n
        BY <1>1, <3>1, <4>1
      <4> QED BY <1>2, <4>1, <4>2
    <3>2. CASE h = n + 1
      BY <1>2, <2>1, <2>3, <3>2
    <3> QED BY <1>3, <3>1, <3>2
  <2>6. \A h \in 1 .. n + 1 : e[h] \in Dscs => h > 1 /\ e[h - 1] \in {"val", "dsc", "cccd"}
    <3> SUFFICES ASSUME NEW h \in 1 .. n + 1, e[h] \in Dscs
                 PROVE  h > 1 /\ e[h - 1] \in {"val", "dsc", "cccd"}
      OBVIOUS
    <3>1. CASE h \in 1 .. n
      <4>1. d[h] \in Dscs /\ h > 1 /\ d[h - 1] \in {"val", "dsc", "cccd"}
        BY <1>1, <1>2, <1>6, <3>1 DEF RowOK
      <4>2. h - 1 \in 1 .. n
        BY <1>1, <3>1, <4>1
      <4> QED BY <1>2, <4>1, <4>2
    <3>2. CASE h = n + 1
      <4>1. k \in Dscs
        BY <1>2, <3>2
      <4>2. d[n] # "svc"
        <5>1. CASE k = "cccd"
          <6>1. m \in 1 .. n /\ d[m] = "val"
            BY <2>3, <5>1
          <6>2. d[n] = "svc" => m = n
            BY <1>1, <2>1, <2>2, <6>1
          <6> QED BY <6>1, <6>2
        <5> QED BY <2>3, <4>1, <5>1 DEF Dscs
      <4>3. d[n] \notin Decls /\ d[n] \in AttrKinds
        BY <1>2, <2>1, <2>3, <4>1 DEF Dscs
      <4> QED BY <2>1, <3>2, <4>2, <4>3 DEF AttrKinds, Decls
    <3> QED BY <1>3, <3>1, <3>2
  <2>7. ASSUME NEW g \in 1 .. n + 1, NEW h \in 1 .. n + 1, e[g] = "cccd", e[h] = "cccd", g < h
        PROVE  \E j \in 1 .. n + 1 : g < j /\ j < h /\ e[j] \in {"svc", "val"}
    <3>0. g \in 1 .. n /\ d[g] = "cccd"
      BY <1>1, <1>2, <2>7
    <3>1. CASE h \in 1 .. n
      <4>1. PICK j \in 1 .. n : g < j /\ j < h /\ d[j] \in {"svc", "val"}
        BY <1>1, <1>2, <1>6, <2>7, <3>0, <3>1 DEF RowOK
      <4> QED BY <1>1, <1>2, <4>1
    <3>2. CASE h = n + 1
      <4>1. m \in 1 .. n /\ d[m] = "val" /\ g <= m
        BY <1>2, <2>2, <2>3, <2>7, <3>0, <3>2
      <4>2. g # m
        BY <3>0, <4>1
      <4>3. g < m /\ m < h /\ m \in 1 .. n + 1 /\ e[m] = "val"
        BY <1>1, <1>2, <3>0, <3>2, <4>1, <4>2
      <4> QED BY <4>3
    <3> QED BY <1>3, <3>1, <3>2
  <2> QED BY <1>1, <1>2, <2>4, <2>5, <2>6, <2>7 DEF RowOK, e, n
<1> QED BY <1>1, <1>2, <1>7, <1>8 DEF e, n

\* The members of the union Rows is defined with.
LEMMA LongerRows ==
    ASSUME NEW R
    PROVE  \A e : e \in UNION {{Append(d, k) : k \in Follows(d)} : d \in R}
                     <=> \E d \in R : \E k \in Follows(d) : e = Append(d, k)
  OBVIOUS

\* Rows is what its equation says.
LEMMA RowsAre ==
    ASSUME MaxLen \in Nat
    PROVE  \A n \in 0 .. MaxLen :
               Rows[n] = IF n = 0 THEN {<<>>}
                         ELSE UNION {{Append(d, k) : k \in Follows(d)} : d \in Rows[n - 1]}
<1> DEFINE Longer(R) == UNION {{Append(d, k) : k \in Follows(d)} : d \in R}
           Steps(g) == g = [n \in 0 .. MaxLen |-> IF n = 0 THEN {<<>>} ELSE Longer(g[n - 1])]
           Row(n) == {d \in Seq(AttrKinds) :
                         Len(d) = n /\ \A i \in 1 .. n : d[i] \in Follows(SubSeq(d, 1, i - 1))}
           w == [n \in 0 .. MaxLen |-> Row(n)]
<1>1. Row(0) = {<<>>}
  <2>1. <<>> \in Seq(AttrKinds) /\ Len(<<>>) = 0
    BY EmptySeq
  <2>2. \A d \in Seq(AttrKinds) : Len(d) = 0 => d = <<>>
    BY EmptySeq
  <2>3. \A i \in 1 .. 0 : FALSE
    OBVIOUS
  <2> QED BY <2>1, <2>2, <2>3
<1>2. ASSUME NEW n \in 1 .. MaxLen
      PROVE  Row(n) = Longer(Row(n - 1))
  <2>0. n \in Nat /\ n - 1 \in Nat /\ (n - 1) + 1 = n
    OBVIOUS
  <2>1. ASSUME NEW d \in Row(n) PROVE d \in Longer(Row(n - 1))
    <3> DEFINE p == SubSeq(d, 1, n - 1)
    <3>1. d \in Seq(AttrKinds) /\ Len(d) = n /\ d \in [1 .. n -> AttrKinds]
          /\ \A i \in 1 .. n : d[i] \in Follows(SubSeq(d, 1, i - 1))
      BY <2>1, LenProperties
    <3>2. p \in Seq(AttrKinds) /\ Len(p) = n - 1 /\ \A i \in 1 .. n - 1 : p[i] = d[i]
      <4>1. \A i \in 1 .. n - 1 : d[i] \in AttrKinds
        BY <2>0, <3>1
      <4>2. /\ p \in Seq(AttrKinds)
            /\ Len(p) = IF 1 <= n - 1 THEN ((n - 1) - 1) + 1 ELSE 0
            /\ \A i \in 1 .. ((n - 1) - 1) + 1 : p[i] = d[(1 + i) - 1]
        BY ONLY <2>0, <4>1, SubSeqProperties
      <4> QED BY ONLY <2>0, <4>2
    <3>3. \A i \in 1 .. n - 1 : SubSeq(p, 1, i - 1) = SubSeq(d, 1, i - 1)
      BY <2>0, <3>1, <3>2
    <3>4. p \in Row(n - 1)
      <4>1. \A i \in 1 .. n - 1 : i \in 1 .. n
        BY <2>0
      <4>2. \A i \in 1 .. n - 1 : p[i] \in Follows(SubSeq(p, 1, i - 1))
        BY ONLY <3>1, <3>2, <3>3, <4>1
      <4> QED BY <3>2, <4>2
    <3>5. d = Append(p, d[n]) /\ d[n] \in Follows(p)
      BY <2>0, <3>1, <3>2
    <3> HIDE DEF Row, p
    <3> QED BY <3>4, <3>5, LongerRows
  <2>2. ASSUME NEW p \in Row(n - 1), NEW k \in Follows(p)
        PROVE  Append(p, k) \in Row(n)
    <3> DEFINE d == Append(p, k)
    <3>1. p \in Seq(AttrKinds) /\ Len(p) = n - 1 /\ k \in AttrKinds
          /\ \A i \in 1 .. n - 1 : p[i] \in Follows(SubSeq(p, 1, i - 1))
      BY <2>2, FollowsKinds
    <3>2. /\ d \in Seq(AttrKinds) /\ Len(d) = n
          /\ \A i \in 1 .. n - 1 : d[i] = p[i]
          /\ d[n] = k
      BY <2>0, <3>1, AppendProperties
    <3>3. \A i \in 1 .. n : SubSeq(d, 1, i - 1) = SubSeq(p, 1, i - 1)
      BY <2>0, <3>1, <3>2
    <3>4. SubSeq(p, 1, n - 1) = p
      BY <3>1, SubSeqFull
    <3> HIDE DEF d
    <3>5. \A i \in 1 .. n : i \in 1 .. n - 1 \/ i = n
      BY <2>0
    <3>6. \A i \in 1 .. n : d[i] \in Follows(SubSeq(d, 1, i - 1))
      BY <3>1, <3>2, <3>3, <3>4, <3>5
    <3>7. d \in Row(n)
      BY <3>2, <3>6
    <3> QED BY <3>7 DEF d
  <2> HIDE DEF Row
  <2>3. \A d \in Longer(Row(n - 1)) : d \in Row(n)
    <3> SUFFICES ASSUME NEW d \in Longer(Row(n - 1)) PROVE d \in Row(n)
      OBVIOUS
    <3>1. PICK p \in Row(n - 1) : \E k \in Follows(p) : d = Append(p, k)
      BY LongerRows
    <3> QED BY <2>2, <3>1
  <2> QED BY <2>1, <2>3
<1> HIDE DEF Row, Longer
<1>3. Steps(w)
  <2>1. \A n \in 0 .. MaxLen : w[n] = IF n = 0 THEN {<<>>} ELSE Longer(w[n - 1])
    <3> SUFFICES ASSUME NEW n \in 0 .. MaxLen, n # 0 PROVE w[n] = Longer(w[n - 1])
      BY <1>1
    <3>1. n \in 1 .. MaxLen /\ n - 1 \in 0 .. MaxLen
      OBVIOUS
    <3> QED BY <1>2, <3>1
  <2> QED BY <2>1
<1>4. Steps(Rows)
  BY <1>3 DEF Rows, Longer
<1> QED BY <1>4 DEF Longer

\* Each of Rows[n] is a row of n attributes: there is no least n of which it is
\* not true.
LEMMA RowsOK ==
    ASSUME MaxLen \in Nat
    PROVE  \A n \in 0 .. MaxLen : \A d \in Rows[n] : RowOK(d) /\ Len(d) = n
<1> DEFINE Bad == {n \in 0 .. MaxLen : ~ \A d \in Rows[n] : RowOK(d) /\ Len(d) = n}
<1> SUFFICES ASSUME Bad # {} PROVE FALSE
  OBVIOUS
<1>1. PICK n \in Bad : \A m \in Bad : ~(m < n)
  <2>1. Bad \in SUBSET Nat
    OBVIOUS
  <2> QED BY <2>1, Smallest
<1>2. CASE n = 0
  <2>1. Rows[n] = {<<>>}
    BY <1>1, <1>2, RowsAre
  <2>2. <<>> \in Seq(AttrKinds) /\ Len(<<>>) = 0 /\ DOMAIN <<>> = {}
    BY EmptySeq
  <2>3. RowOK(<<>>)
    BY <2>2 DEF RowOK
  <2> QED BY <1>1, <1>2, <2>1, <2>2, <2>3
<1>3. CASE n # 0
  <2>1. n - 1 \in 0 .. MaxLen /\ n - 1 < n /\ n - 1 \notin Bad /\ (n - 1) + 1 = n
    BY <1>1, <1>3
  <2>2. \A d \in Rows[n - 1] : RowOK(d) /\ Len(d) = n - 1
    BY <2>1
  <2>3. \A e \in Rows[n] : \E d \in Rows[n - 1] : \E k \in Follows(d) : e = Append(d, k)
    <3>1. Rows[n] = UNION {{Append(d, k) : k \in Follows(d)} : d \in Rows[n - 1]}
      BY <1>1, <1>3, RowsAre
    <3> QED BY <3>1, LongerRows
  <2>4. \A e \in Rows[n] : RowOK(e) /\ Len(e) = n
    BY <2>1, <2>2, <2>3, RowGrows
  <2> QED BY <1>1, <2>4
<1> QED BY <1>2, <1>3

\* A device is such a row and does not end with a declaration.
LEMMA DeviceOK ==
    ASSUME NEW d \in Devices
    PROVE  RowOK(d) /\ Len(d) \in 1 .. MaxLen /\ d[Len(d)] \notin Decls
<1>1. MaxLen \in Nat
  BY TableAssumption
<1>2. PICK n \in 1 .. MaxLen : d \in Rows[n]
  BY DEF Devices
<1>3. n \in 0 .. MaxLen
  BY <1>1
<1>4. RowOK(d) /\ Len(d) = n
  BY <1>1, <1>2, <1>3, RowsOK
<1>5. d[Len(d)] \notin Decls
  BY DEF Devices, Last
<1> QED BY <1>2, <1>4, <1>5

-----------------------------------------------------------------------------
(* The tables.                                                              *)

\* What the proofs use of the device.
LEMMA Device ==
    ASSUME dev \in Devices
    PROVE  /\ MaxLen \in Nat /\ Len(dev) \in 1 .. MaxLen /\ Len(dev) \in Nat
           /\ DOMAIN dev = 1 .. Len(dev)
           /\ \A h \in DOMAIN dev : dev[h] \in AttrKinds
           /\ RowOK(dev) /\ dev[Len(dev)] \notin Decls
<1>1. MaxLen \in Nat
  BY TableAssumption
<1>2. RowOK(dev) /\ Len(dev) \in 1 .. MaxLen /\ dev[Len(dev)] \notin Decls
  BY DeviceOK
<1>3. dev \in Seq(AttrKinds)
  BY <1>2 DEF RowOK
<1> QED BY <1>1, <1>2, <1>3, LenProperties

\* A table that is full, and one that takes one entry more, of a higher handle.
LEMMA ListedFull ==
    ASSUME NEW k, NEW S, NEW cap, DOMAIN k = 1 .. cap, NEW h, \A g \in S : g < h,
           Listed(k, S, cap)
    PROVE  Listed(k, S \cup {h}, cap)
  BY DEF Listed

\* A table that is not full takes the next handle.
LEMMA ListedMore ==
    ASSUME NEW k, NEW m \in Nat, DOMAIN k = 1 .. m, NEW S \in SUBSET Nat,
           NEW h \in Nat, \A g \in S : g < h, NEW cap \in Nat, m < cap,
           Increasing(k), Listed(k, S, cap),
           NEW l, DOMAIN l = 1 .. m + 1, \A i \in 1 .. m : l[i] = k[i], l[m + 1] = h
    PROVE  Increasing(l) /\ Listed(l, S \cup {h}, cap)
<1>0. \A i \in 1 .. m : k[i] \in S /\ k[i] < h /\ k[i] \in Nat
  BY DEF Listed
<1>1. \A i \in 1 .. m + 1 : i \in 1 .. m \/ i = m + 1
  OBVIOUS
<1>2. m + 1 \in 1 .. m + 1 /\ \A i \in 1 .. m : i \in 1 .. m + 1
  OBVIOUS
<1>3. Increasing(l)
  <2> SUFFICES ASSUME NEW i \in 1 .. m + 1, NEW j \in 1 .. m + 1, i < j PROVE l[i] < l[j]
    BY DEF Increasing
  <2>1. i \in 1 .. m
    OBVIOUS
  <2>2. CASE j \in 1 .. m
    <3>1. k[i] < k[j]
      BY <2>1, <2>2 DEF Increasing
    <3> QED BY <2>1, <2>2, <3>1
  <2>3. CASE j = m + 1
    BY <1>0, <2>1, <2>3
  <2> QED BY <1>1, <2>2, <2>3
<1>4. \A i \in 1 .. m + 1 : l[i] \in S \cup {h}
  BY <1>0, <1>1
<1>5. \A g \in S \cup {h} : \E i \in 1 .. m + 1 : l[i] = g
  <2> SUFFICES ASSUME NEW g \in S PROVE \E i \in 1 .. m + 1 : l[i] = g
    BY <1>2
  <2>1. \/ \E i \in 1 .. m : k[i] = g
        \/ 1 .. m = 1 .. cap
    BY DEF Listed
  <2>2. 1 .. m # 1 .. cap
    <3>1. cap \in 1 .. cap /\ cap \notin 1 .. m
      OBVIOUS
    <3> QED BY <3>1
  <2> QED BY <1>2, <2>1, <2>2
<1> QED BY <1>3, <1>4, <1>5 DEF Listed

\* What Add does to a table and to the handles in it.
LEMMA AddIs ==
    ASSUME NEW T, NEW t \in Seq(T), NEW cap \in Nat, NEW e \in T
    PROVE  /\ Add(t, cap, e) \in Seq(T)
           /\ Len(t) \in Nat /\ DOMAIN t = 1 .. Len(t)
           /\ ~(Len(t) < cap) => Add(t, cap, e) = t
           /\ Len(t) < cap =>
                  /\ DOMAIN Add(t, cap, e) = 1 .. Len(t) + 1
                  /\ Len(Add(t, cap, e)) = Len(t) + 1
                  /\ \A i \in 1 .. Len(t) : Add(t, cap, e)[i] = t[i]
                  /\ Add(t, cap, e)[Len(t) + 1] = e
<1>1. Len(t) \in Nat /\ DOMAIN t = 1 .. Len(t)
  BY LenProperties
<1>2. /\ Append(t, e) \in Seq(T) /\ Len(Append(t, e)) = Len(t) + 1
      /\ \A i \in 1 .. Len(t) : Append(t, e)[i] = t[i]
      /\ Append(t, e)[Len(t) + 1] = e
  BY AppendProperties
<1>3. DOMAIN Append(t, e) = 1 .. Len(t) + 1
  BY <1>2, LenProperties
<1> QED BY <1>1, <1>2, <1>3 DEF Add

\* Add keeps a table the first entries in order.
LEMMA TableTakes ==
    ASSUME NEW T, NEW K, \A x \in T : K[x] \in Nat,
           NEW t \in Seq(T), NEW cap \in Nat, Len(t) <= cap, NEW e \in T,
           NEW S \in SUBSET Nat, \A g \in S : g < K[e],
           Increasing([i \in DOMAIN t |-> K[t[i]]]), Listed([i \in DOMAIN t |-> K[t[i]]], S, cap)
    PROVE  LET u == Add(t, cap, e) IN
           /\ u \in Seq(T) /\ Len(u) <= cap
           /\ Increasing([i \in DOMAIN u |-> K[u[i]]])
           /\ Listed([i \in DOMAIN u |-> K[u[i]]], S \cup {K[e]}, cap)
<1> DEFINE u == Add(t, cap, e)  m == Len(t)
           k == [i \in DOMAIN t |-> K[t[i]]]
           l == [i \in DOMAIN u |-> K[u[i]]]
<1>1. /\ u \in Seq(T) /\ m \in Nat /\ DOMAIN t = 1 .. m
      /\ ~(m < cap) => u = t
      /\ m < cap => /\ DOMAIN u = 1 .. m + 1 /\ Len(u) = m + 1
                    /\ \A i \in 1 .. m : u[i] = t[i]
                    /\ u[m + 1] = e
  <2>1. t \in Seq(T) /\ cap \in Nat /\ e \in T
    OBVIOUS
  <2>2. u \in Seq(T) /\ m \in Nat /\ DOMAIN t = 1 .. m
    BY ONLY <2>1, AddIs
  <2>3. ~(m < cap) => u = t
    BY ONLY <2>1, AddIs
  <2>4. m < cap => DOMAIN u = 1 .. m + 1 /\ Len(u) = m + 1
    BY ONLY <2>1, AddIs
  <2>5. m < cap => u[m + 1] = e /\ \A i \in 1 .. m : u[i] = t[i]
    BY ONLY <2>1, AddIs
  <2> QED BY ONLY <2>2, <2>3, <2>4, <2>5
<1>2. DOMAIN k = 1 .. m /\ DOMAIN l = DOMAIN u /\ \A i \in DOMAIN u : l[i] = K[u[i]]
  BY <1>1
<1>3. \A i \in 1 .. m : k[i] = K[t[i]]
  BY <1>1
<1>4. Increasing(k) /\ Listed(k, S, cap) /\ m <= cap /\ K[e] \in Nat
  OBVIOUS
<1>5. ~(m < cap) => k = l
  BY <1>1
<1> HIDE DEF k, l, u, m
<1>7. CASE m < cap
  <2>1. DOMAIN l = 1 .. m + 1 /\ m + 1 \in 1 .. m + 1
    BY <1>1, <1>2, <1>7
  <2>2. \A i \in 1 .. m : i \in 1 .. m + 1 /\ l[i] = k[i]
    <3>1. \A i \in 1 .. m : i \in 1 .. m + 1
      BY <1>1
    <3> QED BY ONLY <1>1, <1>2, <1>3, <1>7, <2>1, <3>1
  <2>3. l[m + 1] = K[e]
    BY <1>1, <1>2, <1>7, <2>1
  <2>4. Increasing(l) /\ Listed(l, S \cup {K[e]}, cap)
    <3>1. S \in SUBSET Nat /\ cap \in Nat /\ \A g \in S : g < K[e]
      OBVIOUS
    <3> QED BY ONLY <1>1, <1>2, <1>4, <1>7, <2>1, <2>2, <2>3, <3>1, ListedMore
  <2>5. Len(u) <= cap
    BY <1>1, <1>7
  <2> QED BY <1>1, <2>4, <2>5 DEF l, u
<1>8. CASE ~(m < cap)
  <2>1. m = cap
    BY <1>1, <1>4, <1>8
  <2>2. Listed(k, S \cup {K[e]}, cap)
    BY <1>2, <1>4, <2>1, ListedFull
  <2> QED BY <1>1, <1>4, <1>5, <1>8, <2>1, <2>2 DEF l, u, m
<1> QED BY <1>7, <1>8

\* Handles of the device are numbers up to its length.
LEMMA Attributes ==
    ASSUME TableInv
    PROVE  /\ DOMAIN dev = 1 .. Len(dev) /\ Len(dev) \in Nat
           /\ next \in Nat /\ next <= Len(dev) + 1 /\ next >= 1
           /\ \A kinds : Handles(dev, kinds) \subseteq 1 .. Len(dev)
           /\ LastKinds \subseteq 1 .. Len(dev)
           /\ \A S : (\A h \in S : h \in 1 .. Len(dev)) => Below(S) \in SUBSET Nat
                                                        /\ \A g \in Below(S) : g < next
<1>1. DOMAIN dev = 1 .. Len(dev) /\ Len(dev) \in Nat
  BY Device DEF TableInv
<1>2. next \in Nat /\ next <= Len(dev) + 1 /\ next >= 1
  BY <1>1 DEF TableInv
<1>3. \A kinds : Handles(dev, kinds) \subseteq 1 .. Len(dev)
  BY <1>1 DEF Handles
<1>4. LastKinds \subseteq 1 .. Len(dev)
  BY <1>1, <1>3 DEF LastKinds
<1> QED BY <1>1, <1>2, <1>3, <1>4 DEF Below

\* The next attribute is looked at: S has it or has not.
LEMMA BelowNext ==
    ASSUME TableInv, OnResult, NEW S \in SUBSET (1 .. Len(dev))
    PROVE  {h \in S : h < next'} = IF next \in S THEN Below(S) \cup {next} ELSE Below(S)
<1>1. next \in Nat /\ next' = next + 1 /\ Len(dev) \in Nat
  BY Attributes DEF OnResult
<1>2. \A h \in S : h < next' <=> h < next \/ h = next
  BY <1>1
<1> QED BY <1>2 DEF Below

\* onDiscResult keeps what is said of each table.
LEMMA SvcStep ==
    ASSUME TableInv, OnResult
    PROVE  SvcInv'
<1> DEFINE H == Handles(dev, {"svc"})
           e == [start |-> next, end |-> EndOf(dev, next)]
           K == [x \in SvcEntry |-> x.start]
<1>1. /\ dev' = dev /\ all' = all /\ phase' = phase /\ next \in DOMAIN dev /\ phase \in {"svc", "chr", "dsc"}
      /\ svc' = IF phase = "svc" /\ dev[next] = "svc" THEN Add(svc, MaxSvc, e) ELSE svc
  BY DEF OnResult
<1>2. /\ svc \in Seq(SvcEntry) /\ Increasing(Starts) /\ Len(svc) <= MaxSvc
      /\ phase = "svc" => Listed(Starts, Below(H), MaxSvc)
      /\ phase \in {"chr", "dsc", "done", "ready"} => Listed(Starts, H, MaxSvc)
  BY DEF TableInv, SvcInv
<1>3. MaxSvc \in Nat /\ H \subseteq 1 .. Len(dev)
  BY TableAssumption, Attributes
<1>4. SvcEntry' = SvcEntry /\ (Handles(dev, {"svc"}))' = H
  BY <1>1 DEF SvcEntry, Handles, LastKinds
<1>5. Below(H)' = IF dev[next] = "svc" THEN Below(H) \cup {next} ELSE Below(H)
  <2>1. next \in H <=> dev[next] = "svc"
    BY <1>1 DEF Handles, LastKinds
  <2>2. Below(H)' = {h \in H : h < next'}
    BY <1>4 DEF Below
  <2> QED BY <1>3, <2>1, <2>2, BelowNext
<1>6. CASE phase = "svc" /\ dev[next] = "svc"
  <2>1. e \in SvcEntry /\ e.start = next
    BY <1>1, <1>6 DEF SvcEntry, Handles, Decls
  <2>2. \A x \in SvcEntry : K[x] \in Nat /\ K[x] = x.start
    <3>1. \A h \in DOMAIN dev : h \in Nat
      BY Attributes
    <3> QED BY <3>1 DEF SvcEntry, Handles
  <2>3. \A s \in Seq(SvcEntry) : [i \in DOMAIN s |-> K[s[i]]] = [i \in DOMAIN s |-> s[i].start]
    <3> SUFFICES ASSUME NEW s \in Seq(SvcEntry), NEW i \in DOMAIN s PROVE K[s[i]] = s[i].start
      BY Zenon
    <3>1. s[i] \in SvcEntry
      BY LenProperties, ElementOfSeq
    <3> QED BY <2>2, <3>1
  <2>4. Below(H) \in SUBSET Nat /\ \A g \in Below(H) : g < next
    BY <1>3, Attributes
  <2> HIDE DEF K, e, H
  <2>5. [i \in DOMAIN svc |-> K[svc[i]]] = Starts
    BY <1>2, <2>3 DEF Starts
  <2>6. /\ svc' \in Seq(SvcEntry) /\ Len(svc') <= MaxSvc
        /\ Increasing([i \in DOMAIN svc' |-> K[svc'[i]]])
        /\ Listed([i \in DOMAIN svc' |-> K[svc'[i]]], Below(H) \cup {next}, MaxSvc)
    <3>1. svc' = Add(svc, MaxSvc, e) /\ K[e] = next /\ \A x \in SvcEntry : K[x] \in Nat
      BY <1>1, <1>6, <2>1, <2>2
    <3>2. Increasing([i \in DOMAIN svc |-> K[svc[i]]])
          /\ Listed([i \in DOMAIN svc |-> K[svc[i]]], Below(H), MaxSvc)
      BY <1>2, <1>6, <2>5
    <3> DEFINE T == SvcEntry  B == Below(H)
    <3>3. /\ \A x \in T : K[x] \in Nat
          /\ svc \in Seq(T) /\ MaxSvc \in Nat /\ Len(svc) <= MaxSvc /\ e \in T
          /\ B \in SUBSET Nat /\ \A g \in B : g < K[e]
          /\ Increasing([i \in DOMAIN svc |-> K[svc[i]]])
          /\ Listed([i \in DOMAIN svc |-> K[svc[i]]], B, MaxSvc)
      BY <1>2, <1>3, <2>1, <2>4, <3>1, <3>2
    <3> HIDE DEF T, B
    <3>4. LET u == Add(svc, MaxSvc, e) IN
          /\ u \in Seq(T) /\ Len(u) <= MaxSvc
          /\ Increasing([i \in DOMAIN u |-> K[u[i]]])
          /\ Listed([i \in DOMAIN u |-> K[u[i]]], B \cup {K[e]}, MaxSvc)
      BY ONLY <3>3, TableTakes
    <3> QED BY <3>1, <3>4 DEF T, B
  <2>7. [i \in DOMAIN svc' |-> K[svc'[i]]] = Starts'
    BY <2>3, <2>6 DEF Starts
  <2>8. /\ svc' \in Seq(SvcEntry') /\ Increasing(Starts') /\ Len(svc') <= MaxSvc
        /\ Listed(Starts', Below(H)', MaxSvc)
    BY <1>4, <1>5, <1>6, <2>6, <2>7
  <2> QED BY <1>1, <1>6, <2>8 DEF SvcInv, H
<1>7. CASE ~(phase = "svc" /\ dev[next] = "svc")
  <2>1. svc' = svc /\ Starts' = Starts
    BY <1>1, <1>7 DEF Starts
  <2>2. phase = "svc" => Below(H)' = Below(H)
    BY <1>5, <1>7
  <2> QED BY <1>1, <1>2, <1>4, <2>1, <2>2 DEF SvcInv
<1> QED BY <1>6, <1>7

\* The same for _chr.
LEMMA ChrStep ==
    ASSUME TableInv, OnResult
    PROVE  ChrInv'
<1> DEFINE H == Handles(dev, Decls)
           e == [decl |-> next, value |-> next + 1, notifies |-> dev[next] = "ntf"]
           K == [x \in ChrEntry |-> x.decl]
<1>1. /\ dev' = dev /\ all' = all /\ phase' = phase /\ next \in DOMAIN dev /\ phase \in {"svc", "chr", "dsc"}
      /\ chr' = IF phase = "chr" /\ dev[next] \in Decls THEN Add(chr, MaxChr, e) ELSE chr
  BY DEF OnResult
<1>2. /\ chr \in Seq(ChrEntry) /\ Increasing(DeclsFound) /\ Len(chr) <= MaxChr
      /\ phase = "chr" => Listed(DeclsFound, Below(H), MaxChr)
      /\ phase = "svc" => chr = <<>>
      /\ phase \in {"dsc", "done", "ready"} \/ dsc # <<>> => Listed(DeclsFound, H, MaxChr)
  BY DEF TableInv, ChrInv
<1>3. MaxChr \in Nat /\ H \subseteq 1 .. Len(dev)
  BY TableAssumption, Attributes
<1>4. ChrEntry' = ChrEntry /\ (Handles(dev, Decls))' = H
  BY <1>1 DEF ChrEntry, Handles, LastKinds
<1>5. Below(H)' = IF dev[next] \in Decls THEN Below(H) \cup {next} ELSE Below(H)
  <2>1. next \in H <=> dev[next] \in Decls
    BY <1>1 DEF Handles, LastKinds
  <2>2. Below(H)' = {h \in H : h < next'}
    BY <1>4 DEF Below
  <2> QED BY <1>3, <2>1, <2>2, BelowNext
<1>5b. phase \in {"svc", "chr"} => dsc = <<>> /\ dsc' = <<>>
  BY DEF OnResult, TableInv, DscInv
<1>6. CASE phase = "chr" /\ dev[next] \in Decls
  <2>1. e \in ChrEntry /\ e.decl = next
    BY <1>1, <1>6 DEF ChrEntry, Handles, Decls
  <2>2. \A x \in ChrEntry : K[x] \in Nat /\ K[x] = x.decl
    <3>1. \A h \in DOMAIN dev : h \in Nat
      BY Attributes
    <3> QED BY <3>1 DEF ChrEntry, Handles
  <2>3. \A s \in Seq(ChrEntry) : [i \in DOMAIN s |-> K[s[i]]] = [i \in DOMAIN s |-> s[i].decl]
    <3> SUFFICES ASSUME NEW s \in Seq(ChrEntry), NEW i \in DOMAIN s PROVE K[s[i]] = s[i].decl
      BY Zenon
    <3>1. s[i] \in ChrEntry
      BY LenProperties, ElementOfSeq
    <3> QED BY <2>2, <3>1
  <2>4. Below(H) \in SUBSET Nat /\ \A g \in Below(H) : g < next
    BY <1>3, Attributes
  <2> HIDE DEF K, e, H
  <2>5. [i \in DOMAIN chr |-> K[chr[i]]] = DeclsFound
    BY <1>2, <2>3 DEF DeclsFound
  <2>6. /\ chr' \in Seq(ChrEntry) /\ Len(chr') <= MaxChr
        /\ Increasing([i \in DOMAIN chr' |-> K[chr'[i]]])
        /\ Listed([i \in DOMAIN chr' |-> K[chr'[i]]], Below(H) \cup {next}, MaxChr)
    <3>1. chr' = Add(chr, MaxChr, e) /\ K[e] = next /\ \A x \in ChrEntry : K[x] \in Nat
      BY <1>1, <1>6, <2>1, <2>2
    <3>2. Increasing([i \in DOMAIN chr |-> K[chr[i]]])
          /\ Listed([i \in DOMAIN chr |-> K[chr[i]]], Below(H), MaxChr)
      BY <1>2, <1>6, <2>5
    <3> DEFINE T == ChrEntry  B == Below(H)
    <3>3. /\ \A x \in T : K[x] \in Nat
          /\ chr \in Seq(T) /\ MaxChr \in Nat /\ Len(chr) <= MaxChr /\ e \in T
          /\ B \in SUBSET Nat /\ \A g \in B : g < K[e]
          /\ Increasing([i \in DOMAIN chr |-> K[chr[i]]])
          /\ Listed([i \in DOMAIN chr |-> K[chr[i]]], B, MaxChr)
      BY <1>2, <1>3, <2>1, <2>4, <3>1, <3>2
    <3> HIDE DEF T, B
    <3>4. LET u == Add(chr, MaxChr, e) IN
          /\ u \in Seq(T) /\ Len(u) <= MaxChr
          /\ Increasing([i \in DOMAIN u |-> K[u[i]]])
          /\ Listed([i \in DOMAIN u |-> K[u[i]]], B \cup {K[e]}, MaxChr)
      BY ONLY <3>3, TableTakes
    <3> QED BY <3>1, <3>4 DEF T, B
  <2>7. [i \in DOMAIN chr' |-> K[chr'[i]]] = DeclsFound'
    BY <2>3, <2>6 DEF DeclsFound
  <2>8. /\ chr' \in Seq(ChrEntry') /\ Increasing(DeclsFound') /\ Len(chr') <= MaxChr
        /\ Listed(DeclsFound', Below(H)', MaxChr)
    BY <1>4, <1>5, <1>6, <2>6, <2>7
  <2> QED BY <1>1, <1>6, <2>8, <1>5b DEF ChrInv, H
<1>7. CASE ~(phase = "chr" /\ dev[next] \in Decls)
  <2>1. chr' = chr /\ DeclsFound' = DeclsFound
    BY <1>1, <1>7 DEF DeclsFound
  <2>2. phase = "chr" => Below(H)' = Below(H)
    BY <1>5, <1>7
  <2> QED BY <1>1, <1>2, <1>4, <2>1, <2>2, <1>5b DEF ChrInv
<1> QED BY <1>6, <1>7

\* The same for _dsc.
LEMMA DscStep ==
    ASSUME TableInv, OnResult
    PROVE  DscInv'
<1> DEFINE H == LastKinds
           e == [handle |-> next, cccd |-> dev[next] = "cccd"]
           K == [x \in DscEntry |-> x.handle]
<1>1. /\ dev' = dev /\ all' = all /\ phase' = phase /\ next \in DOMAIN dev /\ phase \in {"svc", "chr", "dsc"}
      /\ dsc' = IF phase = "dsc" /\ (all \/ dev[next] \in Dscs) THEN Add(dsc, MaxDsc, e) ELSE dsc
  BY DEF OnResult
<1>2. /\ dsc \in Seq(DscEntry) /\ Increasing(DscsFound) /\ Len(dsc) <= MaxDsc
      /\ phase = "dsc" => Listed(DscsFound, Below(H), MaxDsc)
      /\ phase \in {"svc", "chr"} => dsc = <<>>
      /\ phase \in {"done", "ready"} => Listed(DscsFound, H, MaxDsc)
  BY DEF TableInv, DscInv
<1>3. MaxDsc \in Nat /\ H \subseteq 1 .. Len(dev)
  BY TableAssumption, Attributes
<1>4. DscEntry' = DscEntry /\ (LastKinds)' = H
  BY <1>1 DEF DscEntry, Handles, LastKinds
<1>5. Below(H)' = IF (all \/ dev[next] \in Dscs) THEN Below(H) \cup {next} ELSE Below(H)
  <2>1. next \in H <=> (all \/ dev[next] \in Dscs)
    BY <1>1 DEF Handles, LastKinds
  <2>2. Below(H)' = {h \in H : h < next'}
    BY <1>4 DEF Below
  <2> QED BY <1>3, <2>1, <2>2, BelowNext
<1>6. CASE phase = "dsc" /\ (all \/ dev[next] \in Dscs)
  <2>1. e \in DscEntry /\ e.handle = next
    BY <1>1, <1>6 DEF DscEntry, Handles, Decls
  <2>2. \A x \in DscEntry : K[x] \in Nat /\ K[x] = x.handle
    <3>1. \A h \in DOMAIN dev : h \in Nat
      BY Attributes
    <3> QED BY <3>1 DEF DscEntry, Handles
  <2>3. \A s \in Seq(DscEntry) : [i \in DOMAIN s |-> K[s[i]]] = [i \in DOMAIN s |-> s[i].handle]
    <3> SUFFICES ASSUME NEW s \in Seq(DscEntry), NEW i \in DOMAIN s PROVE K[s[i]] = s[i].handle
      BY Zenon
    <3>1. s[i] \in DscEntry
      BY LenProperties, ElementOfSeq
    <3> QED BY <2>2, <3>1
  <2>4. Below(H) \in SUBSET Nat /\ \A g \in Below(H) : g < next
    BY <1>3, Attributes
  <2> HIDE DEF K, e, H
  <2>5. [i \in DOMAIN dsc |-> K[dsc[i]]] = DscsFound
    BY <1>2, <2>3 DEF DscsFound
  <2>6. /\ dsc' \in Seq(DscEntry) /\ Len(dsc') <= MaxDsc
        /\ Increasing([i \in DOMAIN dsc' |-> K[dsc'[i]]])
        /\ Listed([i \in DOMAIN dsc' |-> K[dsc'[i]]], Below(H) \cup {next}, MaxDsc)
    <3>1. dsc' = Add(dsc, MaxDsc, e) /\ K[e] = next /\ \A x \in DscEntry : K[x] \in Nat
      BY <1>1, <1>6, <2>1, <2>2
    <3>2. Increasing([i \in DOMAIN dsc |-> K[dsc[i]]])
          /\ Listed([i \in DOMAIN dsc |-> K[dsc[i]]], Below(H), MaxDsc)
      BY <1>2, <1>6, <2>5
    <3> DEFINE T == DscEntry  B == Below(H)
    <3>3. /\ \A x \in T : K[x] \in Nat
          /\ dsc \in Seq(T) /\ MaxDsc \in Nat /\ Len(dsc) <= MaxDsc /\ e \in T
          /\ B \in SUBSET Nat /\ \A g \in B : g < K[e]
          /\ Increasing([i \in DOMAIN dsc |-> K[dsc[i]]])
          /\ Listed([i \in DOMAIN dsc |-> K[dsc[i]]], B, MaxDsc)
      BY <1>2, <1>3, <2>1, <2>4, <3>1, <3>2
    <3> HIDE DEF T, B
    <3>4. LET u == Add(dsc, MaxDsc, e) IN
          /\ u \in Seq(T) /\ Len(u) <= MaxDsc
          /\ Increasing([i \in DOMAIN u |-> K[u[i]]])
          /\ Listed([i \in DOMAIN u |-> K[u[i]]], B \cup {K[e]}, MaxDsc)
      BY ONLY <3>3, TableTakes
    <3> QED BY <3>1, <3>4 DEF T, B
  <2>7. [i \in DOMAIN dsc' |-> K[dsc'[i]]] = DscsFound'
    BY <2>3, <2>6 DEF DscsFound
  <2>8. /\ dsc' \in Seq(DscEntry') /\ Increasing(DscsFound') /\ Len(dsc') <= MaxDsc
        /\ Listed(DscsFound', Below(H)', MaxDsc)
    BY <1>4, <1>5, <1>6, <2>6, <2>7
  <2> QED BY <1>1, <1>6, <2>8 DEF DscInv, H
<1>7. CASE ~(phase = "dsc" /\ (all \/ dev[next] \in Dscs))
  <2>1. dsc' = dsc /\ DscsFound' = DscsFound
    BY <1>1, <1>7 DEF DscsFound
  <2>2. phase = "dsc" => Below(H)' = Below(H)
    BY <1>5, <1>7
  <2> QED BY <1>1, <1>2, <1>4, <2>1, <2>2 DEF DscInv
<1> QED BY <1>6, <1>7

\* The report and the notify request are made of the tables only.
LEMMA SentKept ==
    ASSUME UNCHANGED <<dev, all, tables>>
    PROVE  /\ Reported' = Reported /\ Values' = Values
           /\ \A v : CccdFor(v)' = CccdFor(v) /\ Value(v)' = Value(v)
<1>1. dev' = dev /\ svc' = svc /\ chr' = chr /\ dsc' = dsc
  BY DEF tables
<1>2. \A c, s : Bound(c, s)' = Bound(c, s)
  BY <1>1 DEF Bound
<1>3. \A c, s : Descriptors(c, s)' = Descriptors(c, s)
  BY <1>1, <1>2 DEF Descriptors, OwnDscs
<1>4. \A s : Characteristics(s)' = Characteristics(s)
  BY <1>1, <1>3 DEF Characteristics, OwnChrs, Message
<1>5. Reported' = Reported
  BY <1>1, <1>4 DEF Reported
<1>6. \A v : NotifyBound(v)' = NotifyBound(v)
  BY <1>1 DEF NotifyBound
<1>7. \A v : CccdFor(v)' = CccdFor(v) /\ Value(v)' = Value(v)
  BY <1>1, <1>6 DEF CccdFor, Value
<1> QED BY <1>1, <1>5, <1>7 DEF Values, Handles

\* The invariant holds at the start.
LEMMA TableInvInit ==
    TableInit => TableInv
<1> SUFFICES ASSUME TableInit PROVE TableInv
  OBVIOUS
<1>1. dev \in Devices /\ all \in BOOLEAN /\ svc = <<>> /\ chr = <<>> /\ dsc = <<>>
      /\ phase = "partial" /\ next = 1 /\ report = <<>> /\ notified = Nothing
  BY DEF TableInit
<1>2. Len(dev) \in Nat
  BY <1>1, Device
<1>3. \A S : <<>> \in Seq(S)
  BY EmptySeq
<1>4. Len(<<>>) = 0 /\ DOMAIN <<>> = {}
  BY EmptySeq
<1>5. MaxSvc \in Nat /\ MaxChr \in Nat /\ MaxDsc \in Nat
  BY TableAssumption
<1>6. SvcInv
  BY <1>1, <1>3, <1>4, <1>5 DEF SvcInv, Starts, Increasing
<1>7. ChrInv
  BY <1>1, <1>3, <1>4, <1>5 DEF ChrInv, DeclsFound, Increasing
<1>8. DscInv
  BY <1>1, <1>3, <1>4, <1>5 DEF DscInv, DscsFound, Increasing
<1>9. SentInv
  BY <1>1 DEF SentInv
<1>10. next \in 1 .. Len(dev) + 1
  BY <1>1, <1>2
<1> QED BY <1>1, <1>6, <1>7, <1>8, <1>9, <1>10 DEF TableInv

\* A step that leaves the tables alone.
LEMMA TablesKept ==
    ASSUME TableInv, UNCHANGED <<dev, all, tables>>
    PROVE  /\ Starts' = Starts /\ DeclsFound' = DeclsFound /\ DscsFound' = DscsFound
           /\ SvcEntry' = SvcEntry /\ ChrEntry' = ChrEntry /\ DscEntry' = DscEntry
           /\ LastKinds' = LastKinds /\ \A kinds : Handles(dev, kinds)' = Handles(dev, kinds)
  BY DEF tables, Starts, DeclsFound, DscsFound, SvcEntry, ChrEntry, DscEntry, LastKinds, Handles

\* Each action keeps the invariant.
LEMMA TableInvStep ==
    TableInv /\ [TableNext]_tableVars => TableInv'
<1> SUFFICES ASSUME TableInv, [TableNext]_tableVars PROVE TableInv'
  OBVIOUS
<1>1. /\ dev \in Devices /\ all \in BOOLEAN /\ next \in 1 .. Len(dev) + 1
      /\ phase \in {"svc", "chr", "dsc", "done", "failed", "ready", "partial"}
      /\ SvcInv /\ ChrInv /\ DscInv /\ SentInv
  BY DEF TableInv
<1>2. Len(dev) \in Nat /\ next \in Nat /\ DOMAIN dev = 1 .. Len(dev)
  BY Attributes
<1>3. MaxSvc \in Nat /\ MaxChr \in Nat /\ MaxDsc \in Nat
  BY TableAssumption
<1>4. CASE GetServices
  <2>1. dev' = dev /\ all' = all /\ svc' = <<>> /\ chr' = <<>> /\ dsc' = <<>>
        /\ phase' = "svc" /\ next' = 1 /\ report' = <<>> /\ notified' = Nothing
    BY <1>4 DEF GetServices
  <2>2. \A S : <<>> \in Seq(S)
    BY EmptySeq
  <2>3. Len(<<>>) = 0 /\ DOMAIN <<>> = {}
    BY EmptySeq
  <2>4. \A h \in Handles(dev, {"svc"})' : ~(h < next')
    BY <1>2, <2>1 DEF Handles
  <2>5. SvcInv'
    BY <1>3, <2>1, <2>2, <2>3, <2>4 DEF SvcInv, Starts, Increasing, Listed, Below
  <2>6. ChrInv'
    BY <1>3, <2>1, <2>2, <2>3 DEF ChrInv, DeclsFound, Increasing
  <2>7. DscInv'
    BY <1>3, <2>1, <2>2, <2>3 DEF DscInv, DscsFound, Increasing
  <2>8. SentInv'
    BY <2>1 DEF SentInv
  <2>9. next' \in 1 .. Len(dev') + 1
    BY <1>2, <2>1
  <2> QED BY <1>1, <2>1, <2>5, <2>6, <2>7, <2>8, <2>9 DEF TableInv
<1>5. CASE OnResult
  <2>1. dev' = dev /\ all' = all /\ phase' = phase /\ phase \in {"svc", "chr", "dsc"}
        /\ next' = next + 1 /\ next \in DOMAIN dev /\ report' = report /\ notified' = notified
    BY <1>5 DEF OnResult
  <2>2. SvcInv' /\ ChrInv' /\ DscInv'
    BY <1>5, SvcStep, ChrStep, DscStep
  <2>3. SentInv'
    BY <1>1, <2>1 DEF SentInv
  <2>4. next' \in 1 .. Len(dev') + 1
    BY <1>2, <2>1
  <2> QED BY <1>1, <2>1, <2>2, <2>3, <2>4 DEF TableInv
<1>6. CASE OnDiscState
  <2>1. UNCHANGED <<dev, all, tables>> /\ report' = report /\ notified' = notified
        /\ next = Len(dev) + 1 /\ next' = 1 /\ phase \in {"svc", "chr", "dsc"}
        /\ phase' = CASE phase = "svc" -> "chr" [] phase = "chr" -> "dsc" [] OTHER -> "done"
    BY <1>6 DEF OnDiscState
  <2>2. dev' = dev /\ all' = all /\ svc' = svc /\ chr' = chr /\ dsc' = dsc
    BY <2>1 DEF tables
  <2>3. /\ phase = "svc" => phase' = "chr"
        /\ phase = "chr" => phase' = "dsc"
        /\ phase = "dsc" => phase' = "done"
    BY <2>1
  <2>4. \A S \in SUBSET (1 .. Len(dev)) : Below(S) = S /\ {h \in S : h < next'} = {}
    BY <1>2, <2>1 DEF Below
  <2>5. \A kinds : Handles(dev, kinds) \in SUBSET (1 .. Len(dev))
    BY Attributes
  <2>6. LastKinds \in SUBSET (1 .. Len(dev))
    BY Attributes
  <2>7. /\ Starts' = Starts /\ DeclsFound' = DeclsFound /\ DscsFound' = DscsFound
        /\ SvcEntry' = SvcEntry /\ ChrEntry' = ChrEntry /\ DscEntry' = DscEntry
        /\ LastKinds' = LastKinds /\ \A kinds : Handles(dev, kinds)' = Handles(dev, kinds)
    BY <2>1, TablesKept
  <2>8. SvcInv'
    BY <1>1, <2>1, <2>2, <2>3, <2>4, <2>5, <2>7 DEF SvcInv
  <2>9. ChrInv'
    <3>1. CASE phase = "svc"
      <4>1. chr = <<>> /\ dsc = <<>> /\ phase' = "chr" /\ DOMAIN chr = {}
        BY <1>1, <2>3, <3>1, EmptySeq DEF ChrInv, DscInv
      <4>2. {h \in Handles(dev, Decls)' : h < next'} = {}
        BY <2>4, <2>5, <2>7
      <4>3. Listed(DeclsFound', Below(Handles(dev, Decls))', MaxChr)
        BY <4>1, <4>2, <2>7 DEF Listed, Below, DeclsFound
      <4> QED BY <1>1, <2>2, <2>7, <4>1, <4>3 DEF ChrInv
    <3>2. CASE phase = "chr"
      BY <1>1, <2>2, <2>3, <2>4, <2>5, <2>7, <3>2 DEF ChrInv
    <3>3. CASE phase = "dsc"
      BY <1>1, <2>2, <2>3, <2>7, <3>3 DEF ChrInv
    <3> QED BY <2>1, <3>1, <3>2, <3>3
  <2>10. DscInv'
    <3>1. CASE phase = "svc"
      BY <1>1, <2>2, <2>3, <2>7, <3>1 DEF DscInv
    <3>2. CASE phase = "chr"
      <4>1. dsc = <<>> /\ phase' = "dsc" /\ DOMAIN dsc = {}
        BY <1>1, <2>3, <3>2, EmptySeq DEF DscInv
      <4>2. {h \in LastKinds' : h < next'} = {}
        BY <2>4, <2>6, <2>7
      <4>3. Listed(DscsFound', Below(LastKinds)', MaxDsc)
        BY <4>1, <4>2, <2>7 DEF Listed, Below, DscsFound
      <4> QED BY <1>1, <2>2, <2>7, <4>1, <4>3 DEF DscInv
    <3>3. CASE phase = "dsc"
      BY <1>1, <2>2, <2>3, <2>4, <2>6, <2>7, <3>3 DEF DscInv
    <3> QED BY <2>1, <3>1, <3>2, <3>3
  <2>11. SentInv'
    BY <1>1, <2>1, <2>3 DEF SentInv
  <2>12. next' \in 1 .. Len(dev') + 1
    BY <1>2, <2>1, <2>2
  <2>13. phase' \in {"chr", "dsc", "done"}
    BY <2>1, <2>3
  <2> QED BY <1>1, <2>2, <2>8, <2>9, <2>10, <2>11, <2>12, <2>13 DEF TableInv
<1>7. CASE DiscoveryFails
  <2>1. UNCHANGED <<dev, all, tables>> /\ report' = report /\ notified' = notified
        /\ next' = next /\ phase' = "failed" /\ phase \in {"svc", "chr", "dsc"}
    BY <1>7 DEF DiscoveryFails
  <2>2. dev' = dev /\ all' = all /\ svc' = svc /\ chr' = chr /\ dsc' = dsc
    BY <2>1 DEF tables
  <2>3. /\ Starts' = Starts /\ DeclsFound' = DeclsFound /\ DscsFound' = DscsFound
        /\ SvcEntry' = SvcEntry /\ ChrEntry' = ChrEntry /\ DscEntry' = DscEntry
        /\ LastKinds' = LastKinds /\ \A kinds : Handles(dev, kinds)' = Handles(dev, kinds)
    BY <2>1, TablesKept
  <2>4. SvcInv' /\ ChrInv' /\ DscInv'
    BY <1>1, <2>1, <2>2, <2>3 DEF SvcInv, ChrInv, DscInv
  <2>5. SentInv'
    BY <1>1, <2>1 DEF SentInv
  <2> QED BY <1>1, <2>1, <2>2, <2>4, <2>5 DEF TableInv
<1>8. CASE Report
  <2>1. UNCHANGED <<dev, all, tables>> /\ notified' = notified /\ next' = 1
        /\ report' = Reported /\ phase \in {"done", "failed"}
        /\ phase' = IF phase = "done" THEN "ready" ELSE "partial"
    BY <1>8 DEF Report, Reported
  <2>2. dev' = dev /\ all' = all /\ svc' = svc /\ chr' = chr /\ dsc' = dsc
    BY <2>1 DEF tables
  <2>3. /\ Starts' = Starts /\ DeclsFound' = DeclsFound /\ DscsFound' = DscsFound
        /\ SvcEntry' = SvcEntry /\ ChrEntry' = ChrEntry /\ DscEntry' = DscEntry
        /\ LastKinds' = LastKinds /\ \A kinds : Handles(dev, kinds)' = Handles(dev, kinds)
    BY <2>1, TablesKept
  <2>4. SvcInv' /\ ChrInv' /\ DscInv'
    BY <1>1, <2>1, <2>2, <2>3 DEF SvcInv, ChrInv, DscInv
  <2>5. Reported' = Reported
    BY <2>1, SentKept
  <2>6. SentInv'
    BY <1>1, <2>1, <2>5 DEF SentInv
  <2>7. next' \in 1 .. Len(dev') + 1
    BY <1>2, <2>1, <2>2
  <2> QED BY <1>1, <2>1, <2>2, <2>4, <2>6, <2>7 DEF TableInv
<1>9. CASE \/ \E v \in Values : Notify(v)
           \/ UNCHANGED tableVars
  <2>1. UNCHANGED <<dev, all, tables>> /\ report' = report /\ next' = next /\ phase' = phase
    BY <1>9 DEF Notify, tableVars
  <2>2. dev' = dev /\ all' = all /\ svc' = svc /\ chr' = chr /\ dsc' = dsc
    BY <2>1 DEF tables
  <2>3. /\ Starts' = Starts /\ DeclsFound' = DeclsFound /\ DscsFound' = DscsFound
        /\ SvcEntry' = SvcEntry /\ ChrEntry' = ChrEntry /\ DscEntry' = DscEntry
        /\ LastKinds' = LastKinds /\ \A kinds : Handles(dev, kinds)' = Handles(dev, kinds)
    BY <2>1, TablesKept
  <2>4. SvcInv' /\ ChrInv' /\ DscInv'
    BY <1>1, <2>1, <2>2, <2>3 DEF SvcInv, ChrInv, DscInv, Below
  <2>5. /\ Reported' = Reported /\ Values' = Values
        /\ \A v : CccdFor(v)' = CccdFor(v) /\ Value(v)' = Value(v)
    BY <2>1, SentKept
  <2>6. SentInv'
    <3>1. CASE UNCHANGED tableVars
      <4>1. notified' = notified
        BY <3>1 DEF tableVars
      <4> QED BY <1>1, <2>1, <2>5, <4>1 DEF SentInv
    <3>2. CASE \E v \in Values : Notify(v)
      <4>1. PICK v \in Values : Notify(v)
        BY <3>2
      <4>2. phase \in {"ready", "partial"}
            /\ notified' = [handle |-> v, cccd |-> CccdFor(v), value |-> Value(v)]
        BY <4>1 DEF Notify
      <4> QED BY <1>1, <2>1, <2>5, <4>2 DEF SentInv
    <3> QED BY <1>9, <3>1, <3>2
  <2> QED BY <1>1, <2>1, <2>2, <2>4, <2>6 DEF TableInv
<1> QED BY <1>4, <1>5, <1>6, <1>7, <1>8, <1>9 DEF TableNext

\* What the proofs of the four properties start from.
LEMMA TableInvariant == TableSpec => []TableInv
  BY TableInvInit, TableInvStep, PTL DEF TableSpec

-----------------------------------------------------------------------------
(* What lies between a value and its descriptors.                           *)

\* The last service or value before a descriptor is a value, and from there
\* on there is nothing but descriptors.
LEMMA Owner ==
    ASSUME dev \in Devices, NEW h \in Handles(dev, Dscs)
    PROVE  LET v == LastUpTo(dev, {"svc", "val"}, h) IN
           v \in Values /\ v < h /\ \A g \in v + 1 .. h : dev[g] \in Dscs
<1> DEFINE n == Len(dev)  v == LastUpTo(dev, {"svc", "val"}, h)
<1>1. n \in Nat /\ DOMAIN dev = 1 .. n /\ (\A g \in 1 .. n : dev[g] \in AttrKinds) /\ RowOK(dev)
  BY Device
<1>2. h \in 1 .. n /\ dev[h] \in Dscs
  BY <1>1 DEF Handles
<1>3. /\ v = 0 \/ v \in Handles(dev, {"svc", "val"})
      /\ v \in 0 .. h
      /\ \A k \in Handles(dev, {"svc", "val"}) : k <= h => k <= v
  <2>1. h \in 0 .. n
    BY <1>1, <1>2
  <2> QED BY <1>1, <2>1, LastUpToIs
<1> HIDE DEF v
<1>4. ASSUME NEW g \in v + 1 .. h PROVE g \in 1 .. n /\ dev[g] \in Dscs
  <2>1. g \in 1 .. n /\ ~(g <= v) /\ g <= h
    BY <1>1, <1>2, <1>3
  <2>2. dev[g] \notin {"svc", "val"}
    BY <1>1, <1>3, <2>1 DEF Handles
  <2>3. dev[g] \notin Decls
    <3> SUFFICES ASSUME dev[g] \in Decls PROVE FALSE
      OBVIOUS
    <3>1. g # h
      BY <1>2 DEF Decls, Dscs
    <3>2. g + 1 \in 1 .. n /\ g + 1 <= h /\ ~(g + 1 <= v) /\ g # n
      <4>1. g \in Nat /\ h \in Nat /\ v \in Nat /\ n \in Nat /\ h <= n
        BY <1>1, <1>2, <1>3, <2>1
      <4>2. g < h /\ v < g /\ g >= 1
        BY <2>1, <3>1, <4>1
      <4> HIDE DEF n
      <4> QED BY ONLY <4>1, <4>2
    <3>3. dev[g + 1] = "val"
      BY <1>1, <2>1, <3>2 DEF RowOK
    <3> QED BY <1>1, <1>3, <3>2, <3>3 DEF Handles
  <2> QED BY <1>1, <2>1, <2>2, <2>3 DEF AttrKinds, Decls, Dscs
<1>5. v < h
  <2>1. v # h
    BY <1>2, <1>3 DEF Handles, Dscs
  <2> QED BY <1>2, <1>3, <2>1
<1>6. v + 1 \in v + 1 .. h /\ (v + 1) - 1 = v
  BY <1>2, <1>3, <1>5
<1>7. v + 1 \in 1 .. n /\ dev[v + 1] \in Dscs
  BY <1>4, <1>6
<1>8. v + 1 > 1 /\ dev[v] \in {"val", "dsc", "cccd"}
  BY <1>1, <1>6, <1>7 DEF RowOK
<1>9. v # 0
  BY <1>3, <1>8
<1>10. v \in Values
  BY <1>3, <1>8, <1>9 DEF Values, Handles
<1> QED BY <1>4, <1>5, <1>10 DEF v

\* A descriptor of v, seen from both sides.
LEMMA OwnDsc ==
    ASSUME dev \in Devices, NEW v \in Values, NEW h \in DOMAIN dev
    PROVE  /\ h \in TrueDscs(v) => h > v /\ \A g \in v + 1 .. h : dev[g] \in Dscs
           /\ h > v /\ dev[h] # "svc" /\ (\A g \in v + 1 .. h : dev[g] \notin Decls) =>
                  h \in TrueDscs(v)
<1> DEFINE n == Len(dev)
<1>1. n \in Nat /\ DOMAIN dev = 1 .. n /\ (\A g \in 1 .. n : dev[g] \in AttrKinds) /\ RowOK(dev)
  BY Device
<1>2. v \in 1 .. n /\ dev[v] = "val" /\ h \in 1 .. n
  BY <1>1 DEF Values, Handles
<1>3. ASSUME h \in TrueDscs(v) PROVE h > v /\ \A g \in v + 1 .. h : dev[g] \in Dscs
  <2>1. h \in Handles(dev, Dscs) /\ LastUpTo(dev, {"svc", "val"}, h) = v
    BY <1>3 DEF TrueDscs
  <2>2. v < h /\ \A g \in v + 1 .. h : dev[g] \in Dscs
    BY <2>1, Owner
  <2> QED BY <1>2, <2>2
<1>4. ASSUME h > v, dev[h] \in Dscs, \A g \in v + 1 .. h : dev[g] \notin Decls
      PROVE  h \in TrueDscs(v)
  <2> DEFINE w == LastUpTo(dev, {"svc", "val"}, h)
  <2>1. h \in Handles(dev, Dscs)
    BY <1>4 DEF Handles
  <2>2. w \in Values /\ w < h
    BY <2>1, Owner
  <2>3. v <= w
    <3>1. h \in 0 .. n /\ v \in Handles(dev, {"svc", "val"}) /\ v <= h
      BY <1>1, <1>2, <1>4 DEF Handles
    <3> QED BY <1>1, <3>1, LastUpToIs
  <2> HIDE DEF w
  <2>4. w \in 1 .. n /\ dev[w] = "val"
    BY <1>1, <2>2 DEF Values, Handles
  <2>5. w > 1 /\ dev[w - 1] \in Decls
    BY <1>1, <2>4 DEF RowOK
  <2>6. w = v
    <3> SUFFICES ASSUME w # v PROVE FALSE
      OBVIOUS
    <3>1. w - 1 # v
      BY <1>2, <2>5 DEF Decls
    <3>2. w - 1 \in v + 1 .. h
      BY <1>1, <1>2, <2>2, <2>3, <2>4, <2>5, <3>1
    <3> QED BY <1>4, <2>5, <3>2
  <2> QED BY <2>1, <2>6 DEF TrueDscs, w
<1>5. ASSUME h > v, dev[h] # "svc", \A g \in v + 1 .. h : dev[g] \notin Decls
      PROVE  h \in TrueDscs(v)
  <2>1. h \in v + 1 .. h
    BY <1>2, <1>5
  <2>2. dev[h] # "val"
    <3> SUFFICES ASSUME dev[h] = "val" PROVE FALSE
      OBVIOUS
    <3>1. h > 1 /\ dev[h - 1] \in Decls
      BY <1>1, <1>2 DEF RowOK
    <3>2. h - 1 # v
      BY <1>2, <3>1 DEF Decls
    <3>3. h - 1 \in v + 1 .. h
      BY <1>2, <1>5, <3>2
    <3> QED BY <1>5, <3>1, <3>3
  <2>3. dev[h] \in Dscs
    BY <1>1, <1>2, <1>5, <2>1, <2>2 DEF AttrKinds, Decls, Dscs
  <2> QED BY <1>4, <1>5, <2>3
<1> QED BY <1>3, <1>5

\* A characteristic has one CCCD at most.
LEMMA OneCccd ==
    ASSUME dev \in Devices, NEW v \in Values, NEW g \in TrueDscs(v), NEW h \in TrueDscs(v),
           dev[g] = "cccd", dev[h] = "cccd"
    PROVE  g = h
<1>1. DOMAIN dev = 1 .. Len(dev) /\ Len(dev) \in Nat /\ RowOK(dev)
  BY Device
<1>2. g \in DOMAIN dev /\ h \in DOMAIN dev /\ v \in DOMAIN dev
  BY DEF TrueDscs, Handles, Values
<1>3. ASSUME NEW a \in TrueDscs(v), NEW b \in TrueDscs(v), a \in DOMAIN dev, b \in DOMAIN dev,
             dev[a] = "cccd", dev[b] = "cccd", a < b
      PROVE  FALSE
  <2>1. PICK k \in DOMAIN dev : a < k /\ k < b /\ dev[k] \in {"svc", "val"}
    BY <1>1, <1>3 DEF RowOK
  <2>2. a > v /\ \A j \in v + 1 .. b : dev[j] \in Dscs
    BY <1>3, OwnDsc
  <2>3. k \in v + 1 .. b
    BY <1>1, <1>2, <1>3, <2>1, <2>2
  <2> QED BY <2>1, <2>2, <2>3 DEF Dscs
<1>4. ~(g < h) /\ ~(h < g)
  BY <1>2, <1>3
<1> QED BY <1>1, <1>2, <1>4

\* Where a service ends: before the next one.
LEMMA EndIs ==
    ASSUME dev \in Devices, NEW s \in Handles(dev, {"svc"})
    PROVE  /\ EndOf(dev, s) \in Nat /\ EndOf(dev, s) <= Len(dev)
           /\ \A k \in Handles(dev, {"svc"}) : k > s => EndOf(dev, s) < k
           /\ \A h \in 0 .. Len(dev) :
                  (\A k \in Handles(dev, {"svc"}) : k > s => h < k) => h <= EndOf(dev, s)
<1> DEFINE n == Len(dev)  H == Handles(dev, {"svc"})
           S == {n} \cup {k - 1 : k \in {k \in H : k > s}}
<1>1. n \in Nat /\ DOMAIN dev = 1 .. n
  BY Device
<1>2. \A k \in H : k \in 1 .. n /\ k - 1 \in Nat
  BY <1>1 DEF Handles
<1>3. S \in SUBSET Nat /\ S # {}
  BY <1>1, <1>2
<1>4. Min(S) \in S /\ \A y \in S : Min(S) <= y
  BY ONLY <1>3, MinOf
<1>5. EndOf(dev, s) = Min(S)
  BY DEF EndOf
<1> DEFINE m == Min(S)
<1>6. m \in Nat /\ m <= n
  BY <1>3, <1>4
<1>7. \A k \in H : k > s => m <= k - 1
  BY <1>4
<1>8. m = n \/ \E k \in H : k > s /\ m = k - 1
  BY <1>4
<1> HIDE DEF m, S
<1>9. \A k \in H : k > s => m < k
  BY <1>2, <1>6, <1>7
<1>10. ASSUME NEW h \in 0 .. n, \A k \in H : k > s => h < k PROVE h <= m
  <2>1. CASE m = n
    BY <1>1, <2>1
  <2>2. CASE m # n
    <3>1. PICK k \in H : k > s /\ m = k - 1
      BY <1>8, <2>2
    <3>2. h < k /\ k \in Nat /\ h \in Nat
      BY <1>2, <1>10, <3>1
    <3> QED BY <3>1, <3>2
  <2> QED BY <2>1, <2>2
<1> QED BY <1>5, <1>6, <1>9, <1>10 DEF m, n, H

-----------------------------------------------------------------------------
(* What the tables hold is what the device has.                             *)

\* Each entry is made of an attribute of its kind.
LEMMA Entries ==
    ASSUME TableInv
    PROVE  /\ DOMAIN svc = 1 .. Len(svc) /\ Len(svc) \in Nat
           /\ DOMAIN chr = 1 .. Len(chr) /\ Len(chr) \in Nat
           /\ DOMAIN dsc = 1 .. Len(dsc) /\ Len(dsc) \in Nat
           /\ \A i \in DOMAIN svc : /\ svc[i].start \in Handles(dev, {"svc"})
                                    /\ svc[i].end = EndOf(dev, svc[i].start)
           /\ \A i \in DOMAIN chr : /\ chr[i].decl \in Handles(dev, Decls)
                                    /\ chr[i].value = chr[i].decl + 1
                                    /\ chr[i].notifies = (dev[chr[i].decl] = "ntf")
           /\ \A i \in DOMAIN dsc : /\ dsc[i].handle \in DOMAIN dev
                                    /\ dsc[i].cccd = (dev[dsc[i].handle] = "cccd")
<1>1. svc \in Seq(SvcEntry) /\ chr \in Seq(ChrEntry) /\ dsc \in Seq(DscEntry)
  BY DEF TableInv, SvcInv, ChrInv, DscInv
<1>2. /\ DOMAIN svc = 1 .. Len(svc) /\ Len(svc) \in Nat
      /\ DOMAIN chr = 1 .. Len(chr) /\ Len(chr) \in Nat
      /\ DOMAIN dsc = 1 .. Len(dsc) /\ Len(dsc) \in Nat
  BY <1>1, LenProperties
<1>3. /\ \A i \in DOMAIN svc : svc[i] \in SvcEntry
      /\ \A i \in DOMAIN chr : chr[i] \in ChrEntry
      /\ \A i \in DOMAIN dsc : dsc[i] \in DscEntry
  BY <1>1, <1>2, ElementOfSeq
<1> QED BY <1>2, <1>3 DEF SvcEntry, ChrEntry, DscEntry

\* A declaration and its value.
LEMMA DeclValue ==
    ASSUME dev \in Devices, NEW d \in Handles(dev, Decls)
    PROVE  d \in Nat /\ d + 1 \in Values /\ (d + 1) - 1 = d
<1>1. DOMAIN dev = 1 .. Len(dev) /\ Len(dev) \in Nat /\ RowOK(dev) /\ dev[Len(dev)] \notin Decls
  BY Device
<1>2. d \in 1 .. Len(dev) /\ dev[d] \in Decls
  BY <1>1 DEF Handles
<1>3. d # Len(dev) /\ dev[d + 1] = "val"
  BY <1>1, <1>2 DEF RowOK
<1>4. d + 1 \in 1 .. Len(dev)
  <2> DEFINE n == Len(dev)
  <2>1. n \in Nat /\ d \in 1 .. n /\ d # n
    BY <1>1, <1>2, <1>3
  <2> HIDE DEF n
  <2>2. d + 1 \in 1 .. n
    BY ONLY <2>1
  <2> QED BY <2>2 DEF n
<1> QED BY <1>1, <1>2, <1>3, <1>4 DEF Values, Handles

\* A value and its declaration.
LEMMA ValueDecl ==
    ASSUME dev \in Devices, NEW v \in Values
    PROVE  v \in Nat /\ v - 1 \in Handles(dev, Decls) /\ (v - 1) + 1 = v
<1>1. DOMAIN dev = 1 .. Len(dev) /\ Len(dev) \in Nat /\ RowOK(dev)
  BY Device
<1>2. v \in 1 .. Len(dev) /\ dev[v] = "val"
  BY <1>1 DEF Values, Handles
<1>3. v > 1 /\ dev[v - 1] \in Decls
  BY <1>1, <1>2 DEF RowOK
<1>4. v - 1 \in 1 .. Len(dev)
  BY <1>1, <1>2, <1>3
<1> QED BY <1>1, <1>2, <1>3, <1>4 DEF Handles

\* An entry of _chr, its value and its declaration.
LEMMA Characteristic ==
    ASSUME TableInv, NEW i \in DOMAIN chr
    PROVE  /\ chr[i].decl \in Nat /\ chr[i].value \in Nat /\ chr[i].value = chr[i].decl + 1
           /\ chr[i].decl \in Handles(dev, Decls) /\ chr[i].value \in Values
           /\ chr[i].notifies = Notifies(chr[i].value)
           /\ \A d \in Handles(dev, Decls) : d > chr[i].decl <=> d > chr[i].value
<1>1. dev \in Devices
  BY DEF TableInv
<1>2. /\ chr[i].decl \in Handles(dev, Decls) /\ chr[i].value = chr[i].decl + 1
      /\ chr[i].notifies = (dev[chr[i].decl] = "ntf")
  BY Entries
<1>3. chr[i].decl \in Nat /\ chr[i].decl + 1 \in Values /\ (chr[i].decl + 1) - 1 = chr[i].decl
  BY <1>1, <1>2, DeclValue
<1>4. \A d \in Handles(dev, Decls) : d \in Nat /\ d # chr[i].value
  <2>1. \A d \in Handles(dev, Decls) : dev[d] \in Decls /\ dev[chr[i].value] = "val"
    BY <1>2, <1>3 DEF Values, Handles
  <2> QED BY <1>1, <2>1, DeclValue DEF Decls
<1>5. \A d \in Handles(dev, Decls) : d > chr[i].decl <=> d > chr[i].value
  BY <1>2, <1>3, <1>4
<1> QED BY <1>2, <1>3, <1>5 DEF Notifies

\* A table with a declaration missing is too short for the device.
LEMMA TooShort ==
    ASSUME TableInv, DOMAIN chr = 1 .. MaxChr, NEW d \in Handles(dev, Decls),
           \A i \in DOMAIN chr : chr[i].decl < d
    PROVE  ~ChrFit
<1> DEFINE m == MaxChr
           f == [j \in 1 .. m + 1 |-> IF j \in 1 .. m THEN chr[j].value ELSE d + 1]
<1>1. m \in Nat /\ dev \in Devices
  BY TableAssumption DEF TableInv
<1>2. d \in Nat /\ d + 1 \in Values
  BY <1>1, DeclValue
<1>3. \A i \in 1 .. m : /\ chr[i].value \in Values /\ chr[i].value \in Nat
                        /\ chr[i].value < d + 1 /\ chr[i].value = chr[i].decl + 1
                        /\ chr[i].decl \in Nat
  BY <1>2, Characteristic
<1>4. \A i, j \in 1 .. m : i < j => chr[i].decl < chr[j].decl
  BY DEF TableInv, ChrInv, Increasing, DeclsFound
<1>5. \A i, j \in 1 .. m : chr[i].value = chr[j].value => i = j
  BY <1>3, <1>4
<1>6. \A j \in 1 .. m + 1 : j \in 1 .. m \/ j = m + 1
  BY <1>1
<1>7. m + 1 \notin 1 .. m
  BY <1>1
<1>8. IsFiniteSet(Values)
  <2>1. Values \in SUBSET (1 .. Len(dev)) /\ Len(dev) \in Nat
    BY Attributes DEF Values
  <2> QED BY <2>1, FiniteBelow
<1>9. IsFiniteSet(1 .. m + 1) /\ Cardinality(1 .. m + 1) = m + 1
  <2>1. 1 \in Int /\ m + 1 \in Int
    BY <1>1
  <2>2. IsFiniteSet(1 .. m + 1)
        /\ Cardinality(1 .. m + 1) = IF 1 > m + 1 THEN 0 ELSE ((m + 1) - 1) + 1
    BY ONLY <2>1, FS_Interval
  <2> QED BY <1>1, <2>2
<1>10. f \in Injection(1 .. m + 1, Values)
  <2>1. \A j \in 1 .. m + 1 : f[j] \in Values
    BY <1>2, <1>3
  <2>2. \A i, j \in 1 .. m + 1 : f[i] = f[j] => i = j
    <3> SUFFICES ASSUME NEW i \in 1 .. m + 1, NEW j \in 1 .. m + 1, f[i] = f[j] PROVE i = j
      OBVIOUS
    <3>1. CASE i \in 1 .. m /\ j \in 1 .. m
      BY <1>5, <3>1
    <3>2. CASE i \in 1 .. m /\ j = m + 1
      BY <1>2, <1>3, <1>7, <3>2
    <3>3. CASE i = m + 1 /\ j \in 1 .. m
      BY <1>2, <1>3, <1>7, <3>3
    <3> QED BY <1>6, <3>1, <3>2, <3>3
  <2> QED BY <2>1, <2>2 DEF Injection, IsInjective
<1> HIDE DEF f
<1>11. m + 1 <= Cardinality(Values)
  BY <1>8, <1>9, <1>10, FS_Injection
<1>12. Cardinality(Values) \in Nat
  BY <1>8, FS_CardinalityType
<1> QED BY <1>1, <1>11, <1>12 DEF ChrFit

\* Beyond a characteristic that is not the last of a cut table, no
\* declaration goes unseen: one in the table comes before it or is it.
LEMMA NextDecl ==
    ASSUME TableInv, dsc # <<>> \/ phase \in {"dsc", "done", "ready"},
           NEW i \in DOMAIN chr, ~AtCut(chr[i].value),
           NEW d \in Handles(dev, Decls), d > chr[i].value
    PROVE  \E j \in DOMAIN chr : chr[j].decl > chr[i].value /\ chr[j].decl <= d
<1>1. Listed(DeclsFound, Handles(dev, Decls), MaxChr)
  BY DEF TableInv, ChrInv
<1>2. \/ \E j \in DOMAIN chr : chr[j].decl = d
      \/ DOMAIN chr = 1 .. MaxChr /\ \A j \in DOMAIN chr : chr[j].decl < d
  BY <1>1 DEF Listed, DeclsFound
<1>3. d \in Nat /\ MaxChr \in Nat
  BY DeclValue, TableAssumption DEF TableInv
<1>4. CASE \E j \in DOMAIN chr : chr[j].decl = d
  BY <1>3, <1>4
<1>5. CASE DOMAIN chr = 1 .. MaxChr /\ \A j \in DOMAIN chr : chr[j].decl < d
  <2>1. ~ChrFit
    BY <1>5, TooShort
  <2>2. Len(chr) = MaxChr
    BY <1>3, <1>5, Entries
  <2>3. i # MaxChr
    BY <2>1, <2>2 DEF AtCut
  <2>4. i \in 1 .. MaxChr /\ i + 1 \in 1 .. MaxChr /\ i < i + 1
    BY <1>3, <1>5, <2>3
  <2>5. chr[i].decl < chr[i + 1].decl
    BY <1>5, <2>4 DEF TableInv, ChrInv, Increasing, DeclsFound
  <2>6. chr[i + 1].decl \in Handles(dev, Decls) /\ chr[i + 1].decl \in Nat
        /\ chr[i].decl \in Nat /\ chr[i + 1].decl < d
    BY <1>5, <2>4, Characteristic
  <2>7. chr[i + 1].decl > chr[i].value
    BY <2>5, <2>6, Characteristic
  <2> QED BY <1>3, <1>5, <2>4, <2>6, <2>7
<1> QED BY <1>2, <1>4, <1>5

\* The members of a sequence.
LEMMA ToSetIs ==
    \A s : ToSet(s) = {s[i] : i \in DOMAIN s}
  BY DEF ToSet

\* The bound of a characteristic in a service.
LEMMA BoundIs ==
    ASSUME TableInv, NEW c, NEW s, c.value \in Nat, s.end \in Nat
    PROVE  /\ Bound(c, s) \in Nat /\ Bound(c, s) <= s.end
           /\ \A j \in DOMAIN chr :
                  chr[j].decl > c.value /\ chr[j].decl <= s.end => Bound(c, s) < chr[j].decl
           /\ \A h \in Nat :
                  /\ h <= s.end
                  /\ \A j \in DOMAIN chr :
                         chr[j].decl > c.value /\ chr[j].decl <= s.end => h < chr[j].decl
                  => h <= Bound(c, s)
<1> DEFINE B == {b \in ToSet(chr) : b.decl > c.value /\ b.decl <= s.end}
           S == {s.end} \cup {b.decl - 1 : b \in B}
           m == Min(S)
<1>1. \A b \in B : b.decl \in Nat /\ b.decl - 1 \in Nat /\ \E j \in DOMAIN chr : b = chr[j]
  <2> SUFFICES ASSUME NEW b \in B
               PROVE  b.decl \in Nat /\ b.decl - 1 \in Nat /\ \E j \in DOMAIN chr : b = chr[j]
    OBVIOUS
  <2>1. PICK j \in DOMAIN chr : b = chr[j]
    BY ToSetIs
  <2>2. b.decl \in Nat /\ b.decl > c.value
    BY <2>1, Characteristic
  <2> QED BY <2>1, <2>2
<1>2. S \in SUBSET Nat /\ S # {}
  BY <1>1
<1>3. m \in S /\ \A y \in S : m <= y
  BY ONLY <1>2, MinOf
<1>4. Bound(c, s) = m
  BY DEF Bound
<1>5. \A j \in DOMAIN chr : chr[j].decl > c.value /\ chr[j].decl <= s.end => chr[j] \in B
  BY ToSetIs
<1>6. m \in Nat /\ m <= s.end
  BY <1>2, <1>3
<1>7. \A b \in B : m <= b.decl - 1
  BY <1>3
<1>8. m = s.end \/ \E b \in B : m = b.decl - 1
  BY <1>3
<1>9. \A b \in B : \E j \in DOMAIN chr :
          b = chr[j] /\ chr[j].decl > c.value /\ chr[j].decl <= s.end
  BY <1>1
<1> HIDE DEF m, S, B
<1>10. \A b \in B : m < b.decl
  <2> SUFFICES ASSUME NEW b \in B PROVE m < b.decl
    OBVIOUS
  <2>1. m <= b.decl - 1 /\ b.decl \in Nat
    BY <1>1, <1>7
  <2> QED BY <1>6, <2>1
<1>11. ASSUME NEW h \in Nat, h <= s.end,
              \A j \in DOMAIN chr :
                  chr[j].decl > c.value /\ chr[j].decl <= s.end => h < chr[j].decl
       PROVE  h <= m
  <2>1. CASE m = s.end
    BY <1>11, <2>1
  <2>2. CASE \E b \in B : m = b.decl - 1
    <3>1. PICK b \in B : m = b.decl - 1
      BY <2>2
    <3>2. h < b.decl /\ b.decl \in Nat
      BY <1>1, <1>9, <1>11
    <3> QED BY <3>1, <3>2
  <2> QED BY <1>8, <2>1, <2>2
<1> QED BY <1>4, <1>5, <1>6, <1>10, <1>11


-----------------------------------------------------------------------------
(* What belongs to a service and to a characteristic in the tables.         *)

\* An entry of _svc: it ends before the next service.
LEMMA Service ==
    ASSUME TableInv, NEW j \in DOMAIN svc
    PROVE  /\ svc[j].start \in Handles(dev, {"svc"}) /\ svc[j].start \in Nat
           /\ svc[j].end \in Nat /\ svc[j].end <= Len(dev)
           /\ \A k \in Handles(dev, {"svc"}) : k > svc[j].start => svc[j].end < k
           /\ \A h \in 0 .. Len(dev) :
                  (\A k \in Handles(dev, {"svc"}) : k > svc[j].start => h < k) => h <= svc[j].end
<1>1. dev \in Devices
  BY DEF TableInv
<1>2. svc[j].start \in Handles(dev, {"svc"}) /\ svc[j].end = EndOf(dev, svc[j].start)
  BY Entries
<1>3. svc[j].start \in Nat
  BY <1>2, Attributes
<1> QED BY <1>1, <1>2, <1>3, EndIs

\* The values of a service, by its bounds and by the row.
LEMMA OwnValue ==
    ASSUME TableInv, NEW j \in DOMAIN svc, NEW v \in Values
    PROVE  /\ v - 1 > svc[j].start /\ v - 1 <= svc[j].end <=> v \in TrueValues(svc[j].start)
           /\ v \in TrueValues(svc[j].start) =>
                  \A k \in Handles(dev, {"svc"}) : k > svc[j].start => v < k
<1> DEFINE a == svc[j].start  e == svc[j].end  n == Len(dev)
           H == Handles(dev, {"svc"})  m == LastUpTo(dev, {"svc"}, v)
<1>1. dev \in Devices /\ n \in Nat /\ DOMAIN dev = 1 .. n
  BY Attributes DEF TableInv
<1>2. /\ a \in H /\ a \in Nat /\ e \in Nat /\ e <= n
      /\ \A k \in H : k > a => e < k
      /\ \A h \in 0 .. n : (\A k \in H : k > a => h < k) => h <= e
  BY Service
<1>3. v \in 1 .. n /\ dev[v] = "val" /\ v - 1 \in Handles(dev, Decls) /\ v \in Nat
  BY <1>1, ValueDecl DEF Values, Handles
<1>4. \A k \in H : k \in Nat /\ k >= 1 /\ k # v /\ k # v - 1
  <2>1. \A k \in H : k \in 1 .. n /\ dev[k] = "svc"
    BY <1>1 DEF Handles
  <2>2. dev[v - 1] \in Decls
    BY <1>3 DEF Handles
  <2> QED BY <1>3, <2>1, <2>2 DEF Decls
<1>5. /\ m = 0 \/ m \in H
      /\ m \in 0 .. v
      /\ \A k \in H : k <= v => k <= m
  <2>1. v \in 0 .. n
    BY <1>3
  <2> QED BY <1>1, <2>1, LastUpToIs
<1>6. v \in TrueValues(a) <=> m = a
  BY DEF TrueValues
<1>7. v - 1 \in 0 .. n
  BY <1>1, <1>3
<1> HIDE DEF m, H, a, e, n
<1>8. ASSUME v - 1 > a, v - 1 <= e PROVE m = a
  <2>1. a <= m
    BY <1>2, <1>3, <1>5, <1>8
  <2>2. CASE m > a
    <3>1. m \in H
      BY <1>2, <1>5, <2>2
    <3>2. e < m /\ m <= v /\ m # v /\ m # v - 1
      BY <1>2, <1>4, <1>5, <2>2, <3>1
    <3>3. m \in Nat
      BY <1>3, <1>5
    <3> QED BY <1>2, <1>3, <1>8, <3>2, <3>3
  <2>3. m \in Nat
    BY <1>3, <1>5
  <2> QED BY <1>2, <2>1, <2>2, <2>3
<1>9. ASSUME m = a, NEW k \in H, k > a PROVE v < k
  <2>1. ~(k <= v)
    BY <1>2, <1>4, <1>5, <1>9
  <2> QED BY <1>3, <1>4, <2>1
<1>10. ASSUME m = a PROVE v - 1 > a /\ v - 1 <= e
  <2>1. a <= v /\ a # v /\ a # v - 1
    BY <1>2, <1>3, <1>4, <1>5, <1>10
  <2>2. \A k \in H : k > a => v - 1 < k
    <3> SUFFICES ASSUME NEW k \in H, k > a PROVE v - 1 < k
      OBVIOUS
    <3>1. v < k
      BY <1>9, <1>10
    <3> QED BY <1>3, <1>4, <3>1
  <2> QED BY <1>2, <1>3, <1>7, <2>1, <2>2
<1> QED BY <1>6, <1>8, <1>9, <1>10 DEF a, e, H

\* The characteristics of a service are its own.
LEMMA OwnChr ==
    ASSUME TableInv, NEW j \in DOMAIN svc, NEW i \in DOMAIN chr
    PROVE  i \in OwnChrs(svc[j]) <=> chr[i].value \in TrueValues(svc[j].start)
<1>1. chr[i].value \in Values /\ chr[i].decl \in Nat /\ chr[i].value = chr[i].decl + 1
  BY Characteristic
<1>2. chr[i].value - 1 = chr[i].decl
  BY <1>1
<1> QED BY <1>1, <1>2, OwnValue DEF OwnChrs

\* The descriptors reported with a characteristic are all of its own there
\* are in the table, and no others but at the cut.
LEMMA OwnDscsAre ==
    ASSUME TableInv, dsc # <<>> \/ phase \in {"dsc", "done", "ready"},
           NEW j \in DOMAIN svc, NEW i \in OwnChrs(svc[j]), NEW k \in DOMAIN dsc
    PROVE  /\ k \in OwnDscs(chr[i], svc[j]) /\ ~AtCut(chr[i].value) =>
                  dsc[k].handle \in TrueDscs(chr[i].value)
           /\ dsc[k].handle \in TrueDscs(chr[i].value) => k \in OwnDscs(chr[i], svc[j])
<1> DEFINE c == chr[i]  s == svc[j]  v == c.value  h == dsc[k].handle
           H == Handles(dev, {"svc"})  D == Handles(dev, Decls)
<1>1. i \in DOMAIN chr /\ dev \in Devices
  BY DEF OwnChrs, TableInv
<1>2. v \in Values /\ v \in Nat /\ v \in TrueValues(s.start)
  BY <1>1, Characteristic, OwnChr
<1>3. /\ s.end \in Nat /\ s.start \in Nat
      /\ \A g \in H : g > s.start => s.end < g
      /\ \A g \in 0 .. Len(dev) : (\A f \in H : f > s.start => g < f) => g <= s.end
  BY Service
<1>4. \A g \in H : g > s.start => v < g
  BY <1>2, OwnValue
<1>5. h \in DOMAIN dev /\ h \in 0 .. Len(dev) /\ h \in Nat
  BY Entries, Attributes
<1>6. /\ Bound(c, s) \in Nat /\ Bound(c, s) <= s.end
      /\ \A l \in DOMAIN chr : chr[l].decl > v /\ chr[l].decl <= s.end => Bound(c, s) < chr[l].decl
      /\ (/\ h <= s.end
          /\ \A l \in DOMAIN chr : chr[l].decl > v /\ chr[l].decl <= s.end => h < chr[l].decl)
         => h <= Bound(c, s)
  BY <1>2, <1>3, <1>5, BoundIs
<1>7. k \in OwnDscs(c, s) <=> h > v /\ h <= Bound(c, s)
  BY DEF OwnDscs
<1>8. v > s.start
  <2>1. v - 1 > s.start
    BY <1>2, OwnValue
  <2> QED BY <1>2, <1>3, <2>1
<1>9. \A l \in DOMAIN chr : chr[l].decl \in Nat /\ chr[l].decl \in D
  BY Characteristic
<1>10. ASSUME k \in OwnDscs(c, s), ~AtCut(v) PROVE h \in TrueDscs(v)
  <2>1. h > v /\ h <= Bound(c, s) /\ h <= s.end
    BY <1>3, <1>5, <1>6, <1>7, <1>10
  <2>2. dev[h] # "svc"
    <3> SUFFICES ASSUME dev[h] = "svc" PROVE FALSE
      OBVIOUS
    <3>1. h \in H
      BY <1>5 DEF Handles
    <3>2. h > s.start
      BY <1>2, <1>3, <1>5, <1>8, <2>1
    <3>3. s.end < h
      BY <1>3, <3>1, <3>2
    <3> QED BY <1>3, <1>5, <2>1, <3>3
  <2>3. \A g \in v + 1 .. h : dev[g] \notin Decls
    <3> SUFFICES ASSUME NEW g \in v + 1 .. h, dev[g] \in Decls PROVE FALSE
      OBVIOUS
    <3>1. g \in Nat /\ g > v /\ g <= h
      BY <1>2, <1>5
    <3>2. g \in 1 .. Len(dev) /\ DOMAIN dev = 1 .. Len(dev)
      BY <1>2, <1>5, <3>1, Attributes
    <3>3. g \in D
      BY <3>2 DEF Handles
    <3>4. PICK l \in DOMAIN chr : chr[l].decl > v /\ chr[l].decl <= g
      BY <1>1, <1>10, <3>1, <3>3, NextDecl
    <3>5. chr[l].decl <= s.end
      BY <1>3, <1>5, <1>9, <2>1, <3>1, <3>4
    <3>6. Bound(c, s) < chr[l].decl
      BY <1>6, <3>4, <3>5
    <3> QED BY <1>5, <1>6, <1>9, <2>1, <3>1, <3>4, <3>6
  <2> QED BY <1>1, <1>2, <1>5, <2>1, <2>2, <2>3, OwnDsc
<1>11. ASSUME h \in TrueDscs(v) PROVE k \in OwnDscs(c, s)
  <2>1. h > v /\ \A g \in v + 1 .. h : dev[g] \in Dscs
    BY <1>1, <1>2, <1>5, <1>11, OwnDsc
  <2>2. \A g \in Nat : g > v /\ g <= h => dev[g] \in Dscs
    BY <1>2, <1>5, <2>1
  <2>3. \A f \in H : f > s.start => h < f
    <3> SUFFICES ASSUME NEW f \in H, f > s.start, ~(h < f) PROVE FALSE
      OBVIOUS
    <3>1. f \in Nat /\ dev[f] = "svc"
      BY Attributes DEF Handles
    <3>2. f > v /\ f <= h
      BY <1>2, <1>4, <1>5, <3>1
    <3> QED BY <2>2, <3>1, <3>2 DEF Dscs
  <2>4. h <= s.end
    BY <1>3, <1>5, <2>3
  <2>5. \A l \in DOMAIN chr : chr[l].decl > v /\ chr[l].decl <= s.end => h < chr[l].decl
    <3> SUFFICES ASSUME NEW l \in DOMAIN chr, chr[l].decl > v, ~(h < chr[l].decl) PROVE FALSE
      OBVIOUS
    <3>1. chr[l].decl \in Nat /\ dev[chr[l].decl] \in Decls
      BY <1>9 DEF Handles
    <3>2. chr[l].decl <= h
      BY <1>5, <3>1
    <3> QED BY <2>2, <3>1, <3>2 DEF Dscs, Decls
  <2> QED BY <1>6, <1>7, <2>1, <2>4, <2>5
<1> QED BY <1>10, <1>11

-----------------------------------------------------------------------------
(* What a message is made of.                                               *)

\* The same for a function given by its values.
LEMMA FnIsSeq ==
    ASSUME NEW n \in Nat, NEW f, f = [i \in 1 .. n |-> f[i]]
    PROVE  DOMAIN f = 1 .. n /\ f \in Seq({f[i] : i \in 1 .. n}) /\ Len(f) = n
<1> DEFINE S == {f[i] : i \in 1 .. n}
<1>1. f \in [1 .. n -> S]
  OBVIOUS
<1> QED BY <1>1, FnSeq

\* What Picked takes, in the order of the places.
LEMMA PickedIs ==
    ASSUME NEW I \in SUBSET Nat, IsFiniteSet(I), NEW s
    PROVE  /\ Cardinality(I) \in Nat /\ DOMAIN Picked(s, I) = 1 .. Cardinality(I)
           /\ Len(Picked(s, I)) = Cardinality(I)
           /\ Picked(s, I) \in Seq({Picked(s, I)[i] : i \in 1 .. Cardinality(I)})
           /\ \A i \in 1 .. Cardinality(I) :
                  Sorted(I)[i] \in I /\ Picked(s, I)[i] = s[Sorted(I)[i]]
           /\ \A i, j \in 1 .. Cardinality(I) : i < j => Sorted(I)[i] < Sorted(I)[j]
           /\ \A k \in I : \E i \in 1 .. Cardinality(I) : Sorted(I)[i] = k
<1> DEFINE c == Cardinality(I)  p == Picked(s, I)
<1>1. c \in Nat
  BY FS_CardinalityType
<1>2. /\ \A i \in 1 .. c : Sorted(I)[i] \in I
      /\ \A i, j \in 1 .. c : i < j => Sorted(I)[i] < Sorted(I)[j]
      /\ \A k \in I : \E i \in 1 .. c : Sorted(I)[i] = k
  BY SortedIs
<1>3. p = [i \in 1 .. c |-> s[Sorted(I)[i]]]
  BY DEF Picked
<1>4. \A i \in 1 .. c : p[i] = s[Sorted(I)[i]]
  BY <1>3
<1>5. p = [i \in 1 .. c |-> p[i]]
  BY <1>3
<1> HIDE DEF p, c
<1>6. DOMAIN p = 1 .. c /\ p \in Seq({p[i] : i \in 1 .. c}) /\ Len(p) = c
  BY <1>1, <1>5, FnIsSeq
<1> QED BY <1>1, <1>2, <1>4, <1>6 DEF p, c

\* The first m elements.
LEMMA PrefixIs ==
    ASSUME NEW S, NEW s \in Seq(S), NEW m \in 0 .. Len(s)
    PROVE  SubSeq(s, 1, m) = [i \in 1 .. m |-> s[i]]
<1>1. Len(s) \in Nat /\ m \in Nat /\ m <= Len(s)
  BY LenProperties
<1>2. 1 \in 1 .. Len(s) + 1 /\ m \in 1 - 1 .. Len(s)
  BY <1>1
<1>3. /\ SubSeq(s, 1, m) \in Seq(S) /\ Len(SubSeq(s, 1, m)) = (m - 1) + 1
      /\ \A i \in 1 .. (m - 1) + 1 : SubSeq(s, 1, m)[i] = s[(1 + i) - 1]
  BY <1>1, <1>2, SubSeqProperties
<1>4. (m - 1) + 1 = m /\ \A i \in 1 .. m : (1 + i) - 1 = i
  BY <1>1
<1>5. Len(SubSeq(s, 1, m)) = m /\ \A i \in 1 .. m : SubSeq(s, 1, m)[i] = s[i]
  BY <1>3, <1>4
<1>6. SubSeq(s, 1, m) \in [1 .. m -> S]
  BY <1>3, <1>5, LenProperties
<1> QED BY <1>5, <1>6

\* The descriptors of a message: the first ones of those found.
LEMMA DescriptorsAre ==
    ASSUME TableInv, NEW c, NEW s
    PROVE  LET K == OwnDscs(c, s)
               m == IF Cardinality(K) <= ChRoom THEN Cardinality(K) ELSE ChRoom
           IN  /\ Cardinality(K) \in Nat /\ m \in Nat /\ m <= Cardinality(K) /\ m <= ChRoom
               /\ \A i \in 1 .. m : i \in 1 .. Cardinality(K) /\ Sorted(K)[i] \in K
               /\ Descriptors(c, s) = [i \in 1 .. m |-> dsc[Sorted(K)[i]]]
<1> DEFINE K == OwnDscs(c, s)  n == Cardinality(K)  p == Picked(dsc, K)
           m == IF n <= ChRoom THEN n ELSE ChRoom
<1>1. K \in SUBSET Nat /\ IsFiniteSet(K)
  <2>1. K \in SUBSET (1 .. Len(dsc)) /\ Len(dsc) \in Nat
    BY Entries DEF OwnDscs
  <2> QED BY <2>1, FiniteBelow
<1>2. /\ n \in Nat /\ Len(p) = n /\ p \in Seq({p[i] : i \in 1 .. n})
      /\ \A i \in 1 .. n : Sorted(K)[i] \in K /\ p[i] = dsc[Sorted(K)[i]]
  <2> HIDE DEF K
  <2> QED BY <1>1, PickedIs
<1>3. ChRoom \in Nat
  BY TableAssumption
<1>4. Descriptors(c, s) = SubSeq(p, 1, Min({Len(p), ChRoom}))
  BY DEF Descriptors
<1> HIDE DEF p, n, K
<1>5. Min({n, ChRoom}) = m
  <2>1. {n, ChRoom} \in SUBSET Nat /\ m \in {n, ChRoom} /\ \A y \in {n, ChRoom} : m <= y
    BY <1>2, <1>3
  <2> HIDE DEF m
  <2> QED BY ONLY <2>1, MinIs
<1>6. m \in 0 .. n /\ m <= ChRoom /\ m \in Nat /\ m <= n
  BY <1>2, <1>3
<1> HIDE DEF m
<1>7. Descriptors(c, s) = SubSeq(p, 1, m)
  BY <1>2, <1>4, <1>5
<1>8. SubSeq(p, 1, m) = [i \in 1 .. m |-> p[i]]
  BY <1>2, <1>6, PrefixIs
<1>9. \A i \in 1 .. m : i \in 1 .. n
  BY <1>2, <1>6
<1> QED BY <1>2, <1>6, <1>7, <1>8, <1>9 DEF m, n, K

\* The characteristics of a service: the first ones of those found, all of
\* them when there is room.
Messages(s) == [i \in 1 .. Cardinality(OwnChrs(s)) |-> Message(chr[Sorted(OwnChrs(s))[i]], s)]

\* Characteristics(s) is a prefix of Messages(s), and all of it when it fits.
LEMMA CharacteristicsAre ==
    ASSUME TableInv, NEW s
    PROVE  LET K == OwnChrs(s)  n == Cardinality(K)
           IN  /\ n \in Nat
               /\ \E m \in 0 .. n :
                      /\ \A i \in 1 .. m : i \in 1 .. n /\ Sorted(K)[i] \in K
                      /\ Characteristics(s) = [i \in 1 .. m |-> Message(chr[Sorted(K)[i]], s)]
                      /\ Size(Messages(s), n) <= SvcRoom => m = n
<1> DEFINE K == OwnChrs(s)  n == Cardinality(K)  p == Picked(chr, K)  q == Messages(s)
           M == {k \in 0 .. n : Size(q, k) <= SvcRoom}  m == Max(M)
<1>1. K \in SUBSET Nat /\ IsFiniteSet(K)
  <2>1. K \in SUBSET (1 .. Len(chr)) /\ Len(chr) \in Nat
    BY Entries DEF OwnChrs
  <2> QED BY <2>1, FiniteBelow
<1>2. /\ n \in Nat /\ DOMAIN p = 1 .. n
      /\ \A i \in 1 .. n : Sorted(K)[i] \in K /\ p[i] = chr[Sorted(K)[i]]
  <2> HIDE DEF K
  <2> QED BY <1>1, PickedIs
<1>3. SvcRoom \in Nat
  BY TableAssumption
<1>4. [i \in DOMAIN p |-> Message(p[i], s)] = q
  BY <1>2 DEF Messages
<1>5. q = [i \in 1 .. n |-> q[i]] /\ \A i \in 1 .. n : q[i] = Message(chr[Sorted(K)[i]], s)
  BY DEF Messages
<1>6. DOMAIN q = 1 .. n /\ q \in Seq({q[i] : i \in 1 .. n}) /\ Len(q) = n
  <2> HIDE DEF q, n
  <2> QED BY <1>2, <1>5, FnIsSeq
<1>7. Characteristics(s) = SubSeq(q, 1, m)
  BY <1>4, <1>6 DEF Characteristics
<1>8. 0 \in M
  <2>1. {{i} \X DOMAIN q[i].dscs : i \in 1 .. 0} = {}
    OBVIOUS
  <2>2. UNION {{i} \X DOMAIN q[i].dscs : i \in 1 .. 0} = {}
    BY <2>1
  <2>3. Size(q, 0) = 0
    BY <2>2, FS_EmptySet DEF Size
  <2> QED BY <1>2, <1>3, <2>3
<1> HIDE DEF q, p, n, K
<1>9. M \in SUBSET (0 .. n) /\ M # {}
  BY <1>8
<1>10. m \in M /\ \A y \in M : y <= m
  <2> HIDE DEF M, m
  <2>1. Max(M) \in M /\ \A y \in M : y <= Max(M)
    BY <1>2, <1>9, MaxOf
  <2> QED BY <2>1 DEF m
<1>11. m \in 0 .. n /\ (Size(q, n) <= SvcRoom => n \in M)
  BY <1>2, <1>10
<1>12. Size(q, n) <= SvcRoom => m = n
  BY <1>2, <1>10, <1>11
<1> HIDE DEF m, M
<1>13. SubSeq(q, 1, m) = [i \in 1 .. m |-> q[i]]
  BY <1>6, <1>11, PrefixIs
<1>14. \A i \in 1 .. m : i \in 1 .. n
  BY <1>2, <1>11
<1>15. Characteristics(s) = [i \in 1 .. m |-> Message(chr[Sorted(K)[i]], s)]
  BY <1>5, <1>7, <1>13, <1>14
<1> QED BY <1>2, <1>11, <1>12, <1>14, <1>15 DEF n, K, q

\* What was reported, taken apart.
LEMMA Sent ==
    ASSUME TableInv, NEW i \in DOMAIN report, NEW j \in DOMAIN report[i].chars
    PROVE  /\ i \in DOMAIN svc /\ report[i].start = svc[i].start
           /\ \E l \in OwnChrs(svc[i]) : /\ report[i].chars[j] = Message(chr[l], svc[i])
                                         /\ l \in DOMAIN chr
<1>1. report = Reported
  BY DEF TableInv, SentInv
<1>2. /\ i \in DOMAIN svc /\ report[i].start = svc[i].start
      /\ report[i].chars = Characteristics(svc[i])
  BY <1>1 DEF Reported
<1>3. PICK m \in 0 .. Cardinality(OwnChrs(svc[i])) :
          /\ \A k \in 1 .. m : k \in 1 .. Cardinality(OwnChrs(svc[i]))
                               /\ Sorted(OwnChrs(svc[i]))[k] \in OwnChrs(svc[i])
          /\ Characteristics(svc[i]) =
                 [k \in 1 .. m |-> Message(chr[Sorted(OwnChrs(svc[i]))[k]], svc[i])]
  BY CharacteristicsAre
<1>4. j \in 1 .. m
  BY <1>2, <1>3
<1>5. OwnChrs(svc[i]) \subseteq DOMAIN chr
  BY DEF OwnChrs
<1> QED BY <1>2, <1>3, <1>4, <1>5

\* The k-th descriptor of a message is the k-th one found.
LEMMA SentDscs ==
    ASSUME TableInv, NEW c, NEW s, NEW k \in DOMAIN Message(c, s).dscs
    PROVE  LET K == OwnDscs(c, s) IN
           /\ k \in 1 .. Cardinality(K) /\ Sorted(K)[k] \in K /\ Sorted(K)[k] \in DOMAIN dsc
           /\ Message(c, s).dscs[k] = dsc[Sorted(K)[k]]
           /\ \A l \in 1 .. Cardinality(K) : l <= k => l \in DOMAIN Message(c, s).dscs
<1> DEFINE K == OwnDscs(c, s)
           m == IF Cardinality(K) <= ChRoom THEN Cardinality(K) ELSE ChRoom
<1>1. /\ Cardinality(K) \in Nat /\ m \in Nat
      /\ \A i \in 1 .. m : i \in 1 .. Cardinality(K) /\ Sorted(K)[i] \in K
      /\ Descriptors(c, s) = [i \in 1 .. m |-> dsc[Sorted(K)[i]]]
  BY DescriptorsAre
<1>2. Message(c, s).dscs = Descriptors(c, s)
  BY DEF Message
<1> HIDE DEF m
<1>3. DOMAIN Message(c, s).dscs = 1 .. m /\ k \in 1 .. m
  BY <1>1, <1>2
<1>4. \A l \in 1 .. Cardinality(K) : l <= k => l \in 1 .. m
  BY <1>1, <1>3
<1>5. K \subseteq DOMAIN dsc
  BY DEF OwnDscs
<1> QED BY <1>1, <1>2, <1>3, <1>4, <1>5

\* What is reported is where it belongs.
LEMMA TableReal ==
    TableInv => ReportedIsReal
<1> SUFFICES ASSUME TableInv, NEW i \in DOMAIN report, NEW j \in DOMAIN report[i].chars
             PROVE  LET c == report[i].chars[j] IN
                    /\ c.value \in TrueValues(report[i].start) /\ c.notifies = Notifies(c.value)
                    /\ ~AtCut(c.value) => \A k \in DOMAIN c.dscs :
                                              c.dscs[k].handle \in TrueDscs(c.value)
  BY DEF ReportedIsReal
<1>1. i \in DOMAIN svc /\ report[i].start = svc[i].start
  BY Sent
<1>2. PICK l \in OwnChrs(svc[i]) : report[i].chars[j] = Message(chr[l], svc[i]) /\ l \in DOMAIN chr
  BY Sent
<1> DEFINE c == Message(chr[l], svc[i])
<1>3. c.value = chr[l].value /\ c.notifies = chr[l].notifies
  BY DEF Message
<1>4. c.value \in TrueValues(report[i].start) /\ c.notifies = Notifies(c.value)
  BY <1>1, <1>2, <1>3, OwnChr, Characteristic
<1>5. ASSUME ~AtCut(c.value), NEW k \in DOMAIN c.dscs
      PROVE  c.dscs[k].handle \in TrueDscs(c.value)
  <2> DEFINE q == Sorted(OwnDscs(chr[l], svc[i]))[k]
  <2>1. q \in OwnDscs(chr[l], svc[i]) /\ q \in DOMAIN dsc /\ c.dscs[k] = dsc[q]
    BY <1>5, SentDscs
  <2>2. dsc # <<>>
    BY <2>1, EmptySeq
  <2> HIDE DEF q, c
  <2>3. dsc[q].handle \in TrueDscs(chr[l].value)
    BY <1>1, <1>2, <1>3, <1>5, <2>1, <2>2, OwnDscsAre
  <2> QED BY <1>3, <2>1, <2>3
<1> QED BY <1>2, <1>4, <1>5

-----------------------------------------------------------------------------
(* What goes to the client's CCCD.                                          *)

\* The first cap members of a set that has no more are all of them.
LEMMA Complete ==
    ASSUME NEW S \in SUBSET Nat, IsFiniteSet(S), NEW cap \in Nat, Cardinality(S) <= cap,
           NEW k, Increasing(k), Listed(k, S, cap), NEW h \in S
    PROVE  \E i \in DOMAIN k : k[i] = h
<1>0. \/ \E i \in DOMAIN k : k[i] = h
      \/ DOMAIN k = 1 .. cap /\ \A i \in DOMAIN k : k[i] < h
  BY DEF Listed
<1> SUFFICES ASSUME DOMAIN k = 1 .. cap, \A i \in 1 .. cap : k[i] < h PROVE FALSE
  BY <1>0
<1> DEFINE f == [j \in 1 .. cap + 1 |-> IF j \in 1 .. cap THEN k[j] ELSE h]
<1>1. h \in Nat /\ \A i \in 1 .. cap : k[i] \in S /\ k[i] \in Nat /\ k[i] # h
  <2>1. \A i \in 1 .. cap : k[i] \in S
    BY DEF Listed
  <2>2. h \in Nat /\ \A i \in 1 .. cap : k[i] \in Nat
    BY <2>1
  <2>3. \A i \in 1 .. cap : k[i] # h
    <3> SUFFICES ASSUME NEW i \in 1 .. cap, k[i] = h PROVE FALSE
      OBVIOUS
    <3>1. k[i] < h
      OBVIOUS
    <3> QED BY ONLY <2>2, <3>1, k[i] = h
  <2> QED BY <2>1, <2>2, <2>3
<1>2. \A i, j \in 1 .. cap : k[i] = k[j] => i = j
  BY <1>1 DEF Increasing
<1>3. \A j \in 1 .. cap + 1 : j \in 1 .. cap \/ j = cap + 1
  OBVIOUS
<1>4. cap + 1 \notin 1 .. cap
  OBVIOUS
<1>5. Cardinality(S) \in Nat
  BY FS_CardinalityType
<1>6. IsFiniteSet(1 .. cap + 1) /\ Cardinality(1 .. cap + 1) = cap + 1
  <2>1. 1 \in Int /\ cap + 1 \in Int
    OBVIOUS
  <2>2. IsFiniteSet(1 .. cap + 1)
        /\ Cardinality(1 .. cap + 1) = IF 1 > cap + 1 THEN 0 ELSE ((cap + 1) - 1) + 1
    BY ONLY <2>1, FS_Interval
  <2> QED BY <2>2
<1>7. f \in Injection(1 .. cap + 1, S)
  <2>1. \A j \in 1 .. cap + 1 : f[j] \in S
    BY <1>1
  <2>2. \A i, j \in 1 .. cap + 1 : f[i] = f[j] => i = j
    BY <1>1, <1>2, <1>3, <1>4
  <2> QED BY <2>1, <2>2 DEF Injection, IsInjective
<1> HIDE DEF f
<1>8. cap + 1 <= Cardinality(S)
  BY <1>5, <1>6, <1>7, FS_Injection
<1> QED BY <1>5, <1>8

\* A _dsc long enough has every descriptor once the discovery has ended.
LEMMA AllDscs ==
    ASSUME TableInv, phase = "ready", DscFit, NEW h \in Handles(dev, Dscs)
    PROVE  \E k \in DOMAIN dsc : dsc[k].handle = h
<1>1. Increasing(DscsFound) /\ Listed(DscsFound, LastKinds, MaxDsc)
  BY DEF TableInv, DscInv
<1>2. LastKinds \in SUBSET Nat /\ IsFiniteSet(LastKinds)
  <2>1. LastKinds \in SUBSET (1 .. Len(dev)) /\ Len(dev) \in Nat
    BY Attributes
  <2> QED BY <2>1, FiniteBelow
<1>3. Cardinality(LastKinds) <= MaxDsc
  BY DEF DscFit, LastKinds
<1>4. h \in LastKinds /\ MaxDsc \in Nat
  BY TableAssumption DEF LastKinds, Handles
<1>5. \E i \in DOMAIN DscsFound : DscsFound[i] = h
  BY ONLY <1>1, <1>2, <1>3, <1>4, Complete
<1> QED BY <1>5 DEF DscsFound

\* NotifyBound(v) is the first declaration beyond v.
LEMMA NotifyBoundIs ==
    ASSUME TableInv, NEW v \in Nat
    PROVE  /\ NotifyBound(v) \in Nat
           /\ \A j \in DOMAIN chr : chr[j].decl > v => NotifyBound(v) <= chr[j].decl
           /\ \A h \in DOMAIN dev :
                  (\A j \in DOMAIN chr : chr[j].decl > v => h < chr[j].decl) => h < NotifyBound(v)
<1> DEFINE B == {c \in ToSet(chr) : c.decl > v}
           S == {Far} \cup {c.decl : c \in B}
           m == Min(S)
<1>1. \A b \in B : b.decl \in Nat /\ \E j \in DOMAIN chr : b = chr[j] /\ chr[j].decl > v
  <2> SUFFICES ASSUME NEW b \in B
               PROVE  b.decl \in Nat /\ \E j \in DOMAIN chr : b = chr[j] /\ chr[j].decl > v
    OBVIOUS
  <2>1. PICK j \in DOMAIN chr : b = chr[j]
    BY ToSetIs
  <2>2. b.decl \in Nat /\ b.decl > v
    BY <2>1, Characteristic
  <2> QED BY <2>1, <2>2
<1>2. Far \in Nat /\ \A h \in DOMAIN dev : h \in Nat /\ h < Far
  <2>1. MaxLen \in Nat /\ Len(dev) \in 1 .. MaxLen /\ DOMAIN dev = 1 .. Len(dev)
    BY Device DEF TableInv
  <2> QED BY <2>1 DEF Far
<1>3. S \in SUBSET Nat /\ S # {}
  BY <1>1, <1>2
<1>4. m \in S /\ \A y \in S : m <= y
  BY ONLY <1>3, MinOf
<1>5. NotifyBound(v) = m
  BY DEF NotifyBound
<1>6. \A j \in DOMAIN chr : chr[j].decl > v => chr[j] \in B
  BY ToSetIs
<1>7. m \in Nat /\ (\A b \in B : m <= b.decl) /\ (m = Far \/ \E b \in B : m = b.decl)
  BY <1>3, <1>4
<1> HIDE DEF m, S, B
<1>8. \A j \in DOMAIN chr : chr[j].decl > v => m <= chr[j].decl
  BY <1>6, <1>7
<1>9. ASSUME NEW h \in DOMAIN dev, \A j \in DOMAIN chr : chr[j].decl > v => h < chr[j].decl
      PROVE  h < m
  BY <1>1, <1>2, <1>7, <1>9
<1> QED BY <1>5, <1>7, <1>8, <1>9

\* The descriptors handleGattNotify looks for.
Candidate(k, v) ==
    /\ k \in DOMAIN dsc /\ dsc[k].cccd
    /\ dsc[k].handle > v /\ dsc[k].handle < NotifyBound(v)

\* CccdFor(v) is the first candidate's handle, or none.
LEMMA CccdForIs ==
    ASSUME TableInv, NEW v \in Nat
    PROVE  /\ CccdFor(v) \in Nat
           /\ CccdFor(v) = Far \/ \E k \in DOMAIN dsc : Candidate(k, v) /\ CccdFor(v) = dsc[k].handle
           /\ \A k \in DOMAIN dsc : Candidate(k, v) => CccdFor(v) <= dsc[k].handle
           /\ Far \in Nat /\ \A h \in DOMAIN dev : h \in Nat /\ h < Far
<1> DEFINE B == {e \in ToSet(dsc) : e.cccd /\ e.handle > v /\ e.handle < NotifyBound(v)}
           S == {Far} \cup {e.handle : e \in B}
           m == Min(S)
<1>1. Far \in Nat /\ \A h \in DOMAIN dev : h \in Nat /\ h < Far
  <2>1. MaxLen \in Nat /\ Len(dev) \in 1 .. MaxLen /\ DOMAIN dev = 1 .. Len(dev)
    BY Device DEF TableInv
  <2> QED BY <2>1 DEF Far
<1>2. \A b \in B : b.handle \in Nat /\ \E k \in DOMAIN dsc : Candidate(k, v) /\ b = dsc[k]
  <2> SUFFICES ASSUME NEW b \in B
               PROVE  b.handle \in Nat /\ \E k \in DOMAIN dsc : Candidate(k, v) /\ b = dsc[k]
    OBVIOUS
  <2>1. PICK k \in DOMAIN dsc : b = dsc[k]
    BY ToSetIs
  <2>2. b.handle \in DOMAIN dev
    BY <2>1, Entries
  <2> QED BY <1>1, <2>1, <2>2 DEF Candidate
<1>3. S \in SUBSET Nat /\ S # {}
  BY <1>1, <1>2
<1>4. m \in S /\ \A y \in S : m <= y
  BY ONLY <1>3, MinOf
<1>5. CccdFor(v) = m
  BY DEF CccdFor
<1>6. \A k \in DOMAIN dsc : Candidate(k, v) => dsc[k] \in B
  BY ToSetIs DEF Candidate
<1>7. m \in Nat /\ (\A b \in B : m <= b.handle) /\ (m = Far \/ \E b \in B : m = b.handle)
  BY <1>3, <1>4
<1> HIDE DEF m, S, B
<1>8. \A k \in DOMAIN dsc : Candidate(k, v) => m <= dsc[k].handle
  BY <1>6, <1>7
<1>9. m = Far \/ \E k \in DOMAIN dsc : Candidate(k, v) /\ m = dsc[k].handle
  BY <1>2, <1>7
<1> QED BY <1>1, <1>5, <1>7, <1>8, <1>9

\* The CCCD a characteristic has in the device.
LEMMA TrueCccdIs ==
    ASSUME dev \in Devices, NEW v \in Values
    PROVE  /\ \A h \in TrueDscs(v) : dev[h] = "cccd" => TrueCccd(v) = h
           /\ (\A h \in TrueDscs(v) : dev[h] # "cccd") => TrueCccd(v) = Far
<1> DEFINE T == TrueDscs(v) \cap Handles(dev, {"cccd"})  S == {Far} \cup T
<1>1. Far \in Nat /\ \A h \in DOMAIN dev : h \in Nat /\ h < Far
  <2>1. MaxLen \in Nat /\ Len(dev) \in 1 .. MaxLen /\ DOMAIN dev = 1 .. Len(dev)
    BY Device
  <2> QED BY <2>1 DEF Far
<1>2. /\ \A h \in T : h \in TrueDscs(v) /\ dev[h] = "cccd" /\ h \in DOMAIN dev
      /\ \A h \in TrueDscs(v) : dev[h] = "cccd" => h \in T
  BY DEF TrueDscs, Handles
<1>3. S \in SUBSET Nat
  BY <1>1, <1>2
<1>4. TrueCccd(v) = Min(S)
  BY DEF TrueCccd
<1>5. ASSUME NEW h \in TrueDscs(v), dev[h] = "cccd" PROVE Min(S) = h
  <2>1. h \in T /\ h \in DOMAIN dev
    BY <1>2, <1>5
  <2>2. \A y \in T : y = h
    BY <1>2, <1>5, OneCccd
  <2>3. h \in S /\ \A y \in S : h <= y
    BY <1>1, <2>1, <2>2
  <2> QED BY <1>3, <2>3, MinIs
<1>6. ASSUME \A h \in TrueDscs(v) : dev[h] # "cccd" PROVE Min(S) = Far
  <2>1. S = {Far}
    BY <1>2, <1>6
  <2>2. Far \in S /\ \A y \in S : Far <= y
    BY <1>1, <2>1
  <2> QED BY <1>3, <2>2, MinIs
<1> QED BY <1>4, <1>5, <1>6

\* For a characteristic of the table that is not at the cut, the candidates
\* are its own CCCD, when it is in the table.
LEMMA Candidates ==
    ASSUME TableInv, NEW i \in DOMAIN chr, NEW k \in DOMAIN dsc
    PROVE  LET v == chr[i].value IN
           /\ Candidate(k, v) /\ ~AtCut(v) =>
                  dsc[k].handle \in TrueDscs(v) /\ dev[dsc[k].handle] = "cccd"
           /\ dsc[k].handle \in TrueDscs(v) /\ dev[dsc[k].handle] = "cccd" => Candidate(k, v)
<1> DEFINE v == chr[i].value  h == dsc[k].handle  nb == NotifyBound(v)
<1>1. dev \in Devices /\ dsc # <<>>
  BY EmptySeq DEF TableInv
<1>2. v \in Values /\ v \in Nat
  BY Characteristic
<1>3. h \in DOMAIN dev /\ h \in 1 .. Len(dev) /\ h \in Nat /\ dsc[k].cccd = (dev[h] = "cccd")
  BY Entries, Attributes
<1>4. /\ nb \in Nat
      /\ \A l \in DOMAIN chr : chr[l].decl > v => nb <= chr[l].decl
      /\ (\A l \in DOMAIN chr : chr[l].decl > v => h < chr[l].decl) => h < nb
  BY <1>2, <1>3, NotifyBoundIs
<1>5. \A l \in DOMAIN chr : chr[l].decl \in Nat /\ chr[l].decl \in Handles(dev, Decls)
  BY Characteristic
<1>6. Candidate(k, v) <=> dev[h] = "cccd" /\ h > v /\ h < nb
  BY <1>3 DEF Candidate
<1>7. ASSUME Candidate(k, v), ~AtCut(v) PROVE h \in TrueDscs(v) /\ dev[h] = "cccd"
  <2>1. h > v /\ h < nb /\ dev[h] = "cccd"
    BY <1>6, <1>7
  <2>2. \A g \in v + 1 .. h : dev[g] \notin Decls
    <3> SUFFICES ASSUME NEW g \in v + 1 .. h, dev[g] \in Decls PROVE FALSE
      OBVIOUS
    <3>1. g \in Nat /\ g > v /\ g <= h
      BY <1>2, <1>3
    <3>2. g \in 1 .. Len(dev) /\ DOMAIN dev = 1 .. Len(dev)
      BY <1>2, <1>3, <3>1, Attributes
    <3>3. g \in Handles(dev, Decls)
      BY <3>2 DEF Handles
    <3>4. PICK l \in DOMAIN chr : chr[l].decl > v /\ chr[l].decl <= g
      BY <1>1, <1>7, <3>1, <3>3, NextDecl
    <3>5. nb <= chr[l].decl
      BY <1>4, <3>4
    <3> QED BY <1>3, <1>4, <1>5, <2>1, <3>1, <3>4, <3>5
  <2> QED BY <1>1, <1>2, <1>3, <2>1, <2>2, OwnDsc
<1>8. ASSUME h \in TrueDscs(v), dev[h] = "cccd" PROVE Candidate(k, v)
  <2>1. h > v /\ \A g \in v + 1 .. h : dev[g] \in Dscs
    BY <1>1, <1>2, <1>3, <1>8, OwnDsc
  <2>2. \A g \in Nat : g > v /\ g <= h => dev[g] \in Dscs
    BY <1>2, <1>3, <2>1
  <2>3. \A l \in DOMAIN chr : chr[l].decl > v => h < chr[l].decl
    <3> SUFFICES ASSUME NEW l \in DOMAIN chr, chr[l].decl > v, ~(h < chr[l].decl) PROVE FALSE
      OBVIOUS
    <3>1. chr[l].decl \in Nat /\ dev[chr[l].decl] \in Decls
      BY <1>5 DEF Handles
    <3>2. chr[l].decl <= h
      BY <1>3, <3>1
    <3> QED BY <2>2, <3>1, <3>2 DEF Dscs, Decls
  <2> QED BY <1>4, <1>6, <1>8, <2>1, <2>3
<1> QED BY <1>7, <1>8

\* For a characteristic of the table, the first part of NotifyIsOwn.
LEMMA WritesItsOwn ==
    ASSUME TableInv, NEW i \in DOMAIN chr, ~AtCut(chr[i].value)
    PROVE  LET v == chr[i].value IN
           /\ CccdFor(v) \in {TrueCccd(v), Far}
           /\ phase = "ready" /\ DscFit => CccdFor(v) = TrueCccd(v)
           /\ Value(v) = IF Notifies(v) THEN 1 ELSE 2
<1> DEFINE v == chr[i].value
<1>1. dev \in Devices /\ v \in Values /\ v \in Nat
  BY Characteristic DEF TableInv
<1>2. /\ CccdFor(v) = Far \/ \E k \in DOMAIN dsc : Candidate(k, v) /\ CccdFor(v) = dsc[k].handle
      /\ \A k \in DOMAIN dsc : Candidate(k, v) => CccdFor(v) <= dsc[k].handle
      /\ Far \in Nat /\ \A h \in DOMAIN dev : h \in Nat /\ h < Far
  BY <1>1, CccdForIs
<1>3. CccdFor(v) \in {TrueCccd(v), Far}
  <2> SUFFICES ASSUME NEW k \in DOMAIN dsc, Candidate(k, v), CccdFor(v) = dsc[k].handle
               PROVE  CccdFor(v) = TrueCccd(v)
    BY <1>2
  <2>1. dsc[k].handle \in TrueDscs(v) /\ dev[dsc[k].handle] = "cccd"
    BY Candidates
  <2> QED BY <1>1, <2>1, TrueCccdIs
<1>4. ASSUME phase = "ready", DscFit PROVE CccdFor(v) = TrueCccd(v)
  <2>1. CASE \A h \in TrueDscs(v) : dev[h] # "cccd"
    BY <1>1, <1>3, <2>1, TrueCccdIs
  <2>2. CASE \E h \in TrueDscs(v) : dev[h] = "cccd"
    <3>1. PICK h \in TrueDscs(v) : dev[h] = "cccd"
      BY <2>2
    <3>2. h \in Handles(dev, Dscs) /\ h \in DOMAIN dev
      BY DEF TrueDscs, Handles
    <3>3. PICK k \in DOMAIN dsc : dsc[k].handle = h
      BY <1>4, <3>2, AllDscs
    <3>4. Candidate(k, v)
      BY <3>1, <3>3, Candidates
    <3>5. CccdFor(v) <= h /\ h < Far /\ h \in Nat
      BY <1>2, <3>2, <3>3, <3>4
    <3>6. CccdFor(v) # Far
      BY <1>2, <3>5
    <3> QED BY <1>3, <3>6
  <2> QED BY <2>1, <2>2
<1>5. Value(v) = IF Notifies(v) THEN 1 ELSE 2
  <2>1. \A c \in ToSet(chr) : c.value = v => c.notifies = Notifies(v)
    <3> SUFFICES ASSUME NEW c \in ToSet(chr), c.value = v PROVE c.notifies = Notifies(v)
      OBVIOUS
    <3>1. PICK j \in DOMAIN chr : c = chr[j]
      BY ToSetIs
    <3> QED BY <3>1, Characteristic
  <2>2. chr[i] \in ToSet(chr) /\ chr[i].value = v
    BY ToSetIs
  <2>3. (\E c \in ToSet(chr) : c.value = v /\ c.notifies) <=> Notifies(v)
    <3> HIDE DEF v
    <3> QED BY <2>1, <2>2
  <2> QED BY <2>3 DEF Value
<1> QED BY <1>3, <1>4, <1>5

\* What was reported as the CCCD of a characteristic is what is written.
LEMMA WritesTheReported ==
    ASSUME TableInv, NEW i \in DOMAIN report, NEW j \in DOMAIN report[i].chars
    PROVE  LET c == report[i].chars[j]
               seen == {c.dscs[k].handle : k \in {k \in DOMAIN c.dscs : c.dscs[k].cccd}}
           IN  seen # {} => CccdFor(c.value) = Min(seen)
<1>1. i \in DOMAIN svc
  BY Sent
<1>2. PICK l \in OwnChrs(svc[i]) : report[i].chars[j] = Message(chr[l], svc[i]) /\ l \in DOMAIN chr
  BY Sent
<1> DEFINE s == svc[i]  c == Message(chr[l], s)  v == chr[l].value  K == OwnDscs(chr[l], s)
           seen == {c.dscs[k].handle : k \in {k \in DOMAIN c.dscs : c.dscs[k].cccd}}
<1>3. c.value = v /\ v \in Nat
  BY <1>2, Characteristic DEF Message
<1>4. s.end \in Nat
  BY <1>1, Service
<1>5. /\ Bound(chr[l], s) \in Nat /\ Bound(chr[l], s) <= s.end
      /\ \A q \in DOMAIN chr :
             chr[q].decl > v /\ chr[q].decl <= s.end => Bound(chr[l], s) < chr[q].decl
  BY <1>3, <1>4, BoundIs
<1>6. \A q \in DOMAIN chr : chr[q].decl \in Nat
  BY Characteristic
<1>7. \A q \in DOMAIN chr : chr[q].decl > v => Bound(chr[l], s) < chr[q].decl
  BY <1>4, <1>5, <1>6
<1>8. \A q \in DOMAIN dsc : /\ dsc[q].handle \in DOMAIN dev /\ dsc[q].handle \in Nat
                            /\ q \in Nat
  BY Entries, Attributes
<1>9. \A q \in DOMAIN dsc : q \in K <=> dsc[q].handle > v /\ dsc[q].handle <= Bound(chr[l], s)
  BY DEF OwnDscs
<1>10. ASSUME NEW q \in DOMAIN dsc, q \in K, dsc[q].cccd PROVE Candidate(q, v)
  <2>1. dsc[q].handle > v /\ dsc[q].handle <= Bound(chr[l], s)
    BY <1>9, <1>10
  <2>2. \A p \in DOMAIN chr : chr[p].decl > v => dsc[q].handle < chr[p].decl
    BY <1>5, <1>6, <1>7, <1>8, <2>1
  <2>3. dsc[q].handle < NotifyBound(v)
    BY <1>3, <1>8, <2>2, NotifyBoundIs
  <2> QED BY <1>10, <2>1, <2>3 DEF Candidate
<1>11. ASSUME NEW k \in DOMAIN c.dscs
       PROVE  /\ k \in 1 .. Cardinality(K) /\ Sorted(K)[k] \in K /\ Sorted(K)[k] \in DOMAIN dsc
              /\ c.dscs[k] = dsc[Sorted(K)[k]]
              /\ \A g \in 1 .. Cardinality(K) : g <= k => g \in DOMAIN c.dscs
  BY <1>11, SentDscs
<1>12. /\ Cardinality(K) \in Nat
       /\ \A g, h \in 1 .. Cardinality(K) : g < h => Sorted(K)[g] < Sorted(K)[h]
       /\ \A q \in K : \E g \in 1 .. Cardinality(K) : Sorted(K)[g] = q
       /\ \A g \in 1 .. Cardinality(K) : Sorted(K)[g] \in K /\ Sorted(K)[g] \in Nat
  <2>1. K \in SUBSET (1 .. Len(dsc)) /\ Len(dsc) \in Nat
    BY Entries DEF OwnDscs
  <2>2. K \in SUBSET Nat /\ IsFiniteSet(K)
    BY <2>1, FiniteBelow
  <2> HIDE DEF K
  <2>3. /\ Cardinality(K) \in Nat
        /\ \A g, h \in 1 .. Cardinality(K) : g < h => Sorted(K)[g] < Sorted(K)[h]
        /\ \A q \in K : \E g \in 1 .. Cardinality(K) : Sorted(K)[g] = q
        /\ \A g \in 1 .. Cardinality(K) : Sorted(K)[g] \in K
    BY <2>2, SortedIs
  <2> QED BY <2>2, <2>3
<1> HIDE DEF c, K
<1>13. /\ CccdFor(v) \in Nat
       /\ CccdFor(v) = Far \/ \E k \in DOMAIN dsc : Candidate(k, v) /\ CccdFor(v) = dsc[k].handle
       /\ \A k \in DOMAIN dsc : Candidate(k, v) => CccdFor(v) <= dsc[k].handle
       /\ Far \in Nat /\ \A h \in DOMAIN dev : h \in Nat /\ h < Far
  BY <1>3, CccdForIs
<1>14. \A x \in seen : x \in Nat /\ CccdFor(v) <= x
  <2> SUFFICES ASSUME NEW k \in DOMAIN c.dscs, c.dscs[k].cccd
               PROVE  c.dscs[k].handle \in Nat /\ CccdFor(v) <= c.dscs[k].handle
    OBVIOUS
  <2>1. Sorted(K)[k] \in K /\ Sorted(K)[k] \in DOMAIN dsc /\ c.dscs[k] = dsc[Sorted(K)[k]]
    BY <1>11
  <2>2. Candidate(Sorted(K)[k], v)
    BY <1>10, <2>1
  <2> QED BY <1>8, <1>13, <2>1, <2>2
<1>15. ASSUME seen # {} PROVE CccdFor(v) \in seen
  <2>1. PICK k \in DOMAIN c.dscs : c.dscs[k].cccd
    BY <1>15
  <2>2. /\ k \in 1 .. Cardinality(K) /\ Sorted(K)[k] \in K /\ Sorted(K)[k] \in DOMAIN dsc
        /\ c.dscs[k] = dsc[Sorted(K)[k]]
    BY <1>11
  <2> DEFINE a == Sorted(K)[k]
  <2>3. CccdFor(v) <= dsc[a].handle /\ dsc[a].handle < Far /\ dsc[a].handle <= Bound(chr[l], s)
    <3>1. Candidate(a, v)
      BY <1>10, <2>1, <2>2
    <3>2. dsc[a].handle < Far
      BY <1>8, <1>13, <2>2
    <3> QED BY <1>9, <1>13, <2>2, <3>1, <3>2
  <2>4. CccdFor(v) # Far
    BY <1>8, <1>13, <2>2, <2>3
  <2>5. PICK q \in DOMAIN dsc : Candidate(q, v) /\ CccdFor(v) = dsc[q].handle
    BY <1>13, <2>4
  <2>6. q \in K /\ dsc[q].cccd
    <3>1. dsc[q].handle <= Bound(chr[l], s)
      BY <1>5, <1>8, <2>2, <2>3, <2>5
    <3> QED BY <1>9, <2>5, <3>1 DEF Candidate
  <2>7. PICK g \in 1 .. Cardinality(K) : Sorted(K)[g] = q
    BY <1>12, <2>6
  <2>8. q <= a
    <3> SUFFICES ASSUME ~(q <= a) PROVE FALSE
      OBVIOUS
    <3>1. a < q /\ a \in DOMAIN dsc
      BY <1>8, <2>2
    <3>2. dsc[a].handle < dsc[q].handle
      BY <3>1 DEF TableInv, DscInv, Increasing, DscsFound
    <3> QED BY <1>8, <2>2, <2>3, <2>5, <3>2
  <2>9. g <= k
    <3> SUFFICES ASSUME k < g PROVE FALSE
      BY <1>12, <2>2
    <3>1. a < q
      BY <1>12, <2>2, <2>7
    <3> QED BY <1>8, <2>2, <2>8, <3>1
  <2>10. g \in DOMAIN c.dscs
    BY <1>11, <2>7, <2>9
  <2>11. c.dscs[g] = dsc[q]
    BY <1>11, <2>7, <2>10
  <2> QED BY <2>5, <2>6, <2>10, <2>11
<1>16. ASSUME seen # {} PROVE CccdFor(v) = Min(seen)
  <2>1. seen \in SUBSET Nat /\ CccdFor(v) \in seen /\ \A y \in seen : CccdFor(v) <= y
    BY <1>14, <1>15, <1>16
  <2> HIDE DEF seen
  <2> QED BY <2>1, MinIs
<1> QED BY <1>2, <1>3, <1>16 DEF c

\* Both parts of NotifyIsOwn.
LEMMA TableOwn ==
    TableInv => NotifyIsOwn
<1> SUFFICES ASSUME TableInv, notified # Nothing PROVE NotifyIsOwn
  BY DEF NotifyIsOwn
<1>1. PICK v \in Values : notified = [handle |-> v, cccd |-> CccdFor(v), value |-> Value(v)]
  BY DEF TableInv, SentInv
<1>2. notified.handle = v /\ notified.cccd = CccdFor(v) /\ notified.value = Value(v)
  BY <1>1
<1>3. ASSUME \E c \in ToSet(chr) : c.value = v, ~AtCut(v)
      PROVE  /\ CccdFor(v) \in {TrueCccd(v), Far}
             /\ phase = "ready" /\ DscFit => CccdFor(v) = TrueCccd(v)
             /\ Value(v) = IF Notifies(v) THEN 1 ELSE 2
  <2>1. PICK i \in DOMAIN chr : chr[i].value = v
    BY <1>3, ToSetIs
  <2> QED BY <1>3, <2>1, WritesItsOwn
<1>4. ASSUME NEW i \in DOMAIN report, NEW j \in DOMAIN report[i].chars
      PROVE  LET c == report[i].chars[j]
                 seen == {c.dscs[k].handle : k \in {k \in DOMAIN c.dscs : c.dscs[k].cccd}}
             IN  c.value = v /\ seen # {} => CccdFor(v) = Min(seen)
  BY <1>4, WritesTheReported
<1> QED BY <1>2, <1>3, <1>4 DEF NotifyIsOwn

-----------------------------------------------------------------------------
(* A device that fits is reported as it is.                                 *)

\* A _chr long enough has every value once the discovery has ended.
LEMMA AllChrs ==
    ASSUME TableInv, phase = "ready", ChrFit, NEW v \in Values
    PROVE  \E i \in DOMAIN chr : chr[i].value = v
<1>1. v \in Nat /\ v - 1 \in Handles(dev, Decls) /\ (v - 1) + 1 = v
  BY ValueDecl DEF TableInv
<1>2. Listed(DeclsFound, Handles(dev, Decls), MaxChr)
  BY DEF TableInv, ChrInv
<1>3. \/ \E i \in DOMAIN chr : chr[i].decl = v - 1
      \/ DOMAIN chr = 1 .. MaxChr /\ \A i \in DOMAIN chr : chr[i].decl < v - 1
  BY <1>1, <1>2 DEF Listed, DeclsFound
<1>4. \E i \in DOMAIN chr : chr[i].decl = v - 1
  BY <1>1, <1>3, TooShort
<1> QED BY <1>1, <1>4, Characteristic

\* A sequence of places in increasing order, and of what is at them.
LEMMA InOrder ==
    ASSUME NEW K \in SUBSET Nat, IsFiniteSet(K), NEW S \in SUBSET Nat, NEW f,
           \A k \in K : f[k] \in S, \A h \in S : \E k \in K : f[k] = h,
           \A j, k \in K : j < k => f[j] < f[k]
    PROVE  /\ IsFiniteSet(S) /\ Cardinality(S) = Cardinality(K)
           /\ DOMAIN Sorted(S) = 1 .. Cardinality(K)
           /\ \A i \in 1 .. Cardinality(K) : Sorted(S)[i] = f[Sorted(K)[i]]
<1> DEFINE n == Cardinality(K)  w == [i \in 1 .. n |-> f[Sorted(K)[i]]]
<1>1. /\ n \in Nat
      /\ \A i \in 1 .. n : Sorted(K)[i] \in K
      /\ \A i, j \in 1 .. n : i < j => Sorted(K)[i] < Sorted(K)[j]
      /\ \A k \in K : \E i \in 1 .. n : Sorted(K)[i] = k
  BY SortedIs
<1> HIDE DEF n
<1>2. DOMAIN w = 1 .. n /\ \A i \in 1 .. n : w[i] \in S
  BY <1>1
<1>3. ASSUME NEW h \in S PROVE \E i \in 1 .. n : w[i] = h
  <2>1. PICK k \in K : f[k] = h
    OBVIOUS
  <2>2. PICK i \in 1 .. n : Sorted(K)[i] = k
    BY <1>1
  <2> QED BY <2>1, <2>2
<1>4. Increasing(w)
  BY <1>1 DEF Increasing
<1>5. \A i \in 1 .. n : w[i] = f[Sorted(K)[i]]
  OBVIOUS
<1> HIDE DEF w
<1>6. /\ IsFiniteSet(S) /\ Cardinality(S) = n
      /\ \A i \in 1 .. n : Sorted(S)[i] = w[i]
  BY <1>1, <1>2, <1>3, <1>4, OrderIsSorted
<1>7. DOMAIN Sorted(S) = 1 .. n
  BY <1>6, SortedIs
<1> QED BY <1>5, <1>6, <1>7 DEF n

\* The sets the properties order are finite sets of numbers.
LEMMA TrueRow ==
    ASSUME TableInv
    PROVE  /\ \A v : TrueDscs(v) \in SUBSET Nat /\ IsFiniteSet(TrueDscs(v))
           /\ \A s : TrueValues(s) \in SUBSET Nat /\ IsFiniteSet(TrueValues(s))
           /\ Handles(dev, {"svc"}) \in SUBSET Nat /\ IsFiniteSet(Handles(dev, {"svc"}))
<1>1. Len(dev) \in Nat /\ \A kinds : Handles(dev, kinds) \in SUBSET (1 .. Len(dev))
  BY Attributes
<1>2. \A v : TrueDscs(v) \in SUBSET (1 .. Len(dev))
  BY <1>1 DEF TrueDscs
<1>3. \A s : TrueValues(s) \in SUBSET (1 .. Len(dev))
  BY <1>1 DEF TrueValues, Values
<1>4. \A S \in SUBSET (1 .. Len(dev)) : S \in SUBSET Nat /\ IsFiniteSet(S)
  BY <1>1, FiniteBelow
<1> QED BY <1>1, <1>2, <1>3, <1>4

\* A characteristic is sent with its own descriptors, in order.
LEMMA MessageIsTrue ==
    ASSUME TableInv, phase = "ready", Fits, NEW j \in DOMAIN svc, NEW i \in OwnChrs(svc[j])
    PROVE  Message(chr[i], svc[j]) = TrueChr(chr[i].value)
<1> DEFINE s == svc[j]  c == chr[i]  v == c.value  K == OwnDscs(c, s)  T == TrueDscs(v)
           f == DscsFound
<1>1. i \in DOMAIN chr /\ v \in Values /\ c.notifies = Notifies(v)
  BY Characteristic DEF OwnChrs
<1>2. ChrFit /\ DscFit /\ RoomFit /\ ~AtCut(v)
  BY DEF Fits, AtCut
<1>3. K \in SUBSET Nat /\ IsFiniteSet(K) /\ K \subseteq DOMAIN dsc
  <2>1. K \in SUBSET (1 .. Len(dsc)) /\ Len(dsc) \in Nat /\ K \subseteq DOMAIN dsc
    BY Entries DEF OwnDscs
  <2> QED BY <2>1, FiniteBelow
<1>4. T \in SUBSET Nat /\ IsFiniteSet(T)
  BY TrueRow
<1>5. \A k \in DOMAIN dsc : f[k] = dsc[k].handle
  BY DEF DscsFound
<1>6. \A k \in K : f[k] \in T
  BY <1>2, <1>3, <1>5, OwnDscsAre
<1>7. ASSUME NEW h \in T PROVE \E k \in K : f[k] = h
  <2>1. h \in Handles(dev, Dscs)
    BY DEF TrueDscs
  <2>2. PICK k \in DOMAIN dsc : dsc[k].handle = h
    BY <1>2, <2>1, AllDscs
  <2>3. k \in K
    BY <2>2, OwnDscsAre
  <2> QED BY <1>5, <2>2, <2>3
<1>8. \A g, k \in K : g < k => f[g] < f[k]
  BY <1>3, <1>5 DEF TableInv, DscInv, Increasing, DscsFound
<1> HIDE DEF f, K, T
<1>9. /\ Cardinality(T) = Cardinality(K) /\ DOMAIN Sorted(T) = 1 .. Cardinality(K)
      /\ \A g \in 1 .. Cardinality(K) : Sorted(T)[g] = f[Sorted(K)[g]]
  BY ONLY <1>3, <1>4, <1>6, <1>7, <1>8, InOrder, SMTT(20)
<1>10. Cardinality(K) <= ChRoom
  BY <1>1, <1>2, <1>9 DEF RoomFit, T
<1>11. /\ Descriptors(c, s) = [g \in 1 .. Cardinality(K) |-> dsc[Sorted(K)[g]]]
       /\ \A g \in 1 .. Cardinality(K) : Sorted(K)[g] \in K
  BY <1>10, DescriptorsAre DEF K
<1>12. \A k \in DOMAIN dsc : dsc[k] = TrueDsc(f[k])
  <2>1. dsc \in Seq(DscEntry)
    BY DEF TableInv, DscInv
  <2>2. \A k \in DOMAIN dsc : dsc[k] \in DscEntry
    BY <2>1, LenProperties, ElementOfSeq
  <2> QED BY <1>5, <2>2 DEF DscEntry, TrueDsc
<1>13. \A g \in 1 .. Cardinality(K) : dsc[Sorted(K)[g]] = TrueDsc(Sorted(T)[g])
  BY <1>3, <1>9, <1>11, <1>12
<1>14. Descriptors(c, s) = [g \in DOMAIN Sorted(T) |-> TrueDsc(Sorted(T)[g])]
  BY <1>9, <1>11, <1>13
<1> QED BY <1>1, <1>14 DEF Message, TrueChr, T

\* A service's characteristics and descriptors are as many as the device's.
LEMMA SizeIsTrue ==
    ASSUME TableInv, NEW a, NEW n \in Nat, NEW q,
           Cardinality(TrueValues(a)) = n,
           \A x \in 1 .. n : q[x] = TrueChr(Sorted(TrueValues(a))[x])
    PROVE  /\ Size(q, n) \in Nat
           /\ Size(q, n) <= n + Cardinality(UNION {TrueDscs(v) : v \in TrueValues(a)})
<1> DEFINE T == TrueValues(a)  U == UNION {TrueDscs(v) : v \in T}
           P == UNION {{x} \X DOMAIN q[x].dscs : x \in 1 .. n}
           O(x) == Sorted(TrueDscs(Sorted(T)[x]))
           g == [p \in P |-> O(p[1])[p[2]]]
<1>1. T \in SUBSET Nat /\ IsFiniteSet(T) /\ T \subseteq Values
  BY TrueRow DEF TrueValues
<1>2. /\ \A x \in 1 .. n : Sorted(T)[x] \in T
      /\ \A x, y \in 1 .. n : x < y => Sorted(T)[x] < Sorted(T)[y]
  BY <1>1, SortedIs
<1>3. \A x, y \in 1 .. n : Sorted(T)[x] = Sorted(T)[y] => x = y
  <2> SUFFICES ASSUME NEW x \in 1 .. n, NEW y \in 1 .. n, Sorted(T)[x] = Sorted(T)[y] PROVE x = y
    OBVIOUS
  <2>1. Sorted(T)[x] \in Nat /\ Sorted(T)[y] \in Nat
    BY <1>1, <1>2
  <2>2. ~(x < y) /\ ~(y < x)
    BY <1>2, <2>1
  <2> QED BY <2>2
<1>4. ASSUME NEW x \in 1 .. n PROVE DOMAIN q[x].dscs = DOMAIN O(x)
  <2>1. q[x] = TrueChr(Sorted(T)[x])
    OBVIOUS
  <2>2. \A v : TrueChr(v).dscs = [i \in DOMAIN Sorted(TrueDscs(v)) |-> TrueDsc(Sorted(TrueDscs(v))[i])]
    BY DEF TrueChr
  <2> QED BY <2>1, <2>2
<1>5. ASSUME NEW x \in 1 .. n
      PROVE  /\ \A k \in DOMAIN O(x) : O(x)[k] \in TrueDscs(Sorted(T)[x])
             /\ \A k, l \in DOMAIN O(x) : O(x)[k] = O(x)[l] => k = l
  <2> DEFINE S == TrueDscs(Sorted(T)[x])  c == Cardinality(S)
  <2>1. S \in SUBSET Nat /\ IsFiniteSet(S)
    BY TrueRow
  <2> HIDE DEF S
  <2>2. /\ c \in Nat /\ DOMAIN Sorted(S) = 1 .. c
        /\ \A k \in 1 .. c : Sorted(S)[k] \in S
        /\ \A k, l \in 1 .. c : k < l => Sorted(S)[k] < Sorted(S)[l]
    BY <2>1, SortedIs
  <2> HIDE DEF c
  <2>3. \A k, l \in 1 .. c : Sorted(S)[k] = Sorted(S)[l] => k = l
    <3> SUFFICES ASSUME NEW k \in 1 .. c, NEW l \in 1 .. c, Sorted(S)[k] = Sorted(S)[l] PROVE k = l
      OBVIOUS
    <3>1. Sorted(S)[k] \in Nat /\ Sorted(S)[l] \in Nat
      BY <2>1, <2>2
    <3>2. ~(k < l) /\ ~(l < k)
      BY <2>2, <3>1
    <3> QED BY <2>2, <3>2
  <2> QED BY <2>2, <2>3 DEF S
<1> HIDE DEF O
<1>6. \A p \in P : /\ p[1] \in 1 .. n /\ p[2] \in DOMAIN O(p[1]) /\ p = <<p[1], p[2]>>
  <2> SUFFICES ASSUME NEW x \in 1 .. n, NEW k \in DOMAIN q[x].dscs, NEW p, p = <<x, k>>
               PROVE  p[1] \in 1 .. n /\ p[2] \in DOMAIN O(p[1]) /\ p = <<p[1], p[2]>>
    OBVIOUS
  <2> QED BY <1>4
<1>7. \A v \in T : TrueDscs(v) \subseteq U
  OBVIOUS
<1>8. \A v, w : \A h : h \in TrueDscs(v) /\ h \in TrueDscs(w) => v = w
  BY DEF TrueDscs
<1> HIDE DEF P, U, T
<1>9. g \in Injection(P, U)
  <2>1. \A p \in P : g[p] = O(p[1])[p[2]] /\ g[p] \in TrueDscs(Sorted(T)[p[1]])
    BY <1>5, <1>6
  <2>2. \A p \in P : g[p] \in U
    BY <1>2, <1>6, <1>7, <2>1
  <2>3. ASSUME NEW p \in P, NEW r \in P, g[p] = g[r] PROVE p = r
    <3>1. Sorted(T)[p[1]] = Sorted(T)[r[1]]
      BY <1>8, <2>1, <2>3
    <3>2. p[1] = r[1]
      BY <1>3, <1>6, <3>1
    <3>3. p[2] = r[2]
      BY <1>5, <1>6, <2>1, <2>3, <3>2
    <3> QED BY <1>6, <3>2, <3>3
  <2> QED BY <2>2, <2>3 DEF Injection, IsInjective
<1>10. IsFiniteSet(U)
  <2>1. U \in SUBSET (1 .. Len(dev)) /\ Len(dev) \in Nat
    BY Attributes DEF U, TrueDscs
  <2> QED BY <2>1, FiniteBelow
<1> HIDE DEF g
<1>11. Cardinality(P) <= Cardinality(U) /\ Cardinality(P) \in Nat /\ Cardinality(U) \in Nat
  BY <1>9, <1>10, FS_Injection, FS_CardinalityType
<1>12. Size(q, n) = n + Cardinality(P)
  BY DEF Size, P
<1> QED BY <1>11, <1>12 DEF U, T

\* A service is sent with its own characteristics, in order.
LEMMA ServiceIsTrue ==
    ASSUME TableInv, phase = "ready", Fits, NEW j \in DOMAIN svc
    PROVE  [start |-> svc[j].start, chars |-> Characteristics(svc[j])] = TrueSvc(svc[j].start)
<1> DEFINE s == svc[j]  a == s.start  K == OwnChrs(s)  T == TrueValues(a)  n == Cardinality(K)
           f == [i \in DOMAIN chr |-> chr[i].value]
<1>1. K \in SUBSET Nat /\ IsFiniteSet(K) /\ K \subseteq DOMAIN chr
  <2>1. K \in SUBSET (1 .. Len(chr)) /\ Len(chr) \in Nat /\ K \subseteq DOMAIN chr
    BY Entries DEF OwnChrs
  <2> QED BY <2>1, FiniteBelow
<1>2. T \in SUBSET Nat /\ IsFiniteSet(T) /\ T \subseteq Values
  BY TrueRow DEF TrueValues
<1>3. \A i \in DOMAIN chr : f[i] = chr[i].value
  OBVIOUS
<1>4. \A i \in K : f[i] \in T
  BY <1>1, <1>3, OwnChr
<1>5. ASSUME NEW v \in T PROVE \E i \in K : f[i] = v
  <2>1. PICK i \in DOMAIN chr : chr[i].value = v
    BY <1>2, AllChrs DEF Fits
  <2>2. i \in K
    BY <2>1, OwnChr
  <2> QED BY <1>3, <2>1, <2>2
<1>6. \A g, k \in K : g < k => f[g] < f[k]
  <2> SUFFICES ASSUME NEW g \in K, NEW k \in K, g < k PROVE f[g] < f[k]
    OBVIOUS
  <2>1. g \in DOMAIN chr /\ k \in DOMAIN chr
    BY <1>1
  <2>2. chr[g].decl < chr[k].decl
    BY <2>1 DEF TableInv, ChrInv, Increasing, DeclsFound
  <2>3. /\ chr[g].decl \in Nat /\ chr[g].value = chr[g].decl + 1
        /\ chr[k].decl \in Nat /\ chr[k].value = chr[k].decl + 1
    BY <2>1, Characteristic
  <2> QED BY <1>3, <2>1, <2>2, <2>3
<1> HIDE DEF f, K, T
<1>7. /\ Cardinality(T) = Cardinality(K) /\ DOMAIN Sorted(T) = 1 .. Cardinality(K)
      /\ \A g \in 1 .. Cardinality(K) : Sorted(T)[g] = f[Sorted(K)[g]]
  BY ONLY <1>1, <1>2, <1>4, <1>5, <1>6, InOrder, SMTT(20)
<1>8. n \in Nat /\ \A g \in 1 .. n : Sorted(K)[g] \in K
  BY <1>1, SortedIs
<1>9. \A g \in 1 .. n : Message(chr[Sorted(K)[g]], s) = TrueChr(Sorted(T)[g])
  <2> SUFFICES ASSUME NEW g \in 1 .. n
               PROVE  Message(chr[Sorted(K)[g]], s) = TrueChr(Sorted(T)[g])
    OBVIOUS
  <2> DEFINE i == Sorted(K)[g]
  <2>1. i \in K /\ i \in DOMAIN chr /\ i \in OwnChrs(svc[j])
    BY <1>1, <1>8 DEF K
  <2>2. Sorted(T)[g] = chr[i].value
    BY <1>3, <1>7, <2>1
  <2> HIDE DEF i
  <2>3. Message(chr[i], s) = TrueChr(chr[i].value)
    BY <2>1, MessageIsTrue
  <2> QED BY <2>2, <2>3 DEF i
<1> DEFINE q == Messages(s)
<1>10. \A g \in 1 .. n : q[g] = TrueChr(Sorted(T)[g])
  BY <1>9 DEF Messages, K
<1>11. Size(q, n) <= SvcRoom
  <2>1. /\ Size(q, n) \in Nat
        /\ Size(q, n) <= n + Cardinality(UNION {TrueDscs(v) : v \in T})
    <3> HIDE DEF q, n
    <3>1. Cardinality(TrueValues(a)) = n
      BY <1>7 DEF T, n
    <3>2. \A g \in 1 .. n : q[g] = TrueChr(Sorted(TrueValues(a))[g])
      BY <1>10 DEF T
    <3>3. /\ Size(q, n) \in Nat
          /\ Size(q, n) <= n + Cardinality(UNION {TrueDscs(v) : v \in TrueValues(a)})
      BY <1>8, <3>1, <3>2, SizeIsTrue
    <3> QED BY <3>3 DEF T
  <2>2. n + Cardinality(UNION {TrueDscs(v) : v \in T}) <= SvcRoom
    <3>1. RoomFit /\ a \in Handles(dev, {"svc"})
      BY Service DEF Fits
    <3> QED BY <1>7, <3>1 DEF RoomFit, T
  <2>3. IsFiniteSet(UNION {TrueDscs(v) : v \in T})
    <3> DEFINE U == UNION {TrueDscs(v) : v \in T}
    <3>1. U \in SUBSET (1 .. Len(dev)) /\ Len(dev) \in Nat
      BY Attributes DEF TrueDscs
    <3> QED BY <3>1, FiniteBelow
  <2>4. Cardinality(UNION {TrueDscs(v) : v \in T}) \in Nat /\ SvcRoom \in Nat
    BY <2>3, FS_CardinalityType, TableAssumption
  <2> HIDE DEF q, n
  <2> QED BY <1>8, <2>1, <2>2, <2>4
<1>12. Characteristics(s) = [g \in 1 .. n |-> Message(chr[Sorted(K)[g]], s)]
  BY <1>11, CharacteristicsAre DEF K
<1>13. Characteristics(s) = [g \in DOMAIN Sorted(T) |-> TrueChr(Sorted(T)[g])]
  BY <1>7, <1>9, <1>12
<1> QED BY <1>13 DEF TrueSvc, T

\* When all tables are complete, the report is the device.
LEMMA TableComplete ==
    TableInv => ReportIsTheDevice
<1> SUFFICES ASSUME TableInv, phase = "ready", Fits PROVE report = TrueReport
  BY DEF ReportIsTheDevice
<1> DEFINE S == Handles(dev, {"svc"})
<1>1. report = Reported
  BY DEF TableInv, SentInv
<1>2. S \in SUBSET Nat /\ IsFiniteSet(S)
  BY TrueRow
<1>3. Increasing(Starts) /\ Listed(Starts, S, MaxSvc) /\ MaxSvc \in Nat /\ Cardinality(S) <= MaxSvc
  BY TableAssumption DEF TableInv, SvcInv, Fits
<1>4. DOMAIN Starts = 1 .. Len(svc) /\ Len(svc) \in Nat /\ DOMAIN svc = 1 .. Len(svc)
  BY Entries DEF Starts
<1>5. \A i \in 1 .. Len(svc) : Starts[i] \in S
  BY <1>3, <1>4 DEF Listed
<1> HIDE DEF S
<1>6. \A h \in S : \E i \in DOMAIN Starts : Starts[i] = h
  BY ONLY <1>2, <1>3, Complete
<1>7. /\ Cardinality(S) = Len(svc)
      /\ \A i \in 1 .. Len(svc) : Sorted(S)[i] = Starts[i]
  BY ONLY <1>2, <1>3, <1>4, <1>5, <1>6, OrderIsSorted
<1>8. DOMAIN Sorted(S) = DOMAIN svc
  BY <1>2, <1>4, <1>7, SortedIs
<1>9. \A i \in DOMAIN svc : Sorted(S)[i] = svc[i].start
  BY <1>4, <1>7 DEF Starts
<1>10. \A i \in DOMAIN svc :
           [start |-> svc[i].start, chars |-> Characteristics(svc[i])] = TrueSvc(Sorted(S)[i])
  BY <1>9, ServiceIsTrue
<1>11. Reported = [i \in DOMAIN Sorted(S) |-> TrueSvc(Sorted(S)[i])]
  BY <1>8, <1>10 DEF Reported
<1> QED BY <1>1, <1>11 DEF TrueReport, S

\* Lengths, from the invariant.
LEMMA TableTyped ==
    TableInv => TableTypeOK
<1> SUFFICES ASSUME TableInv PROVE TableTypeOK
  OBVIOUS
<1>1. ASSUME NEW i \in DOMAIN report, NEW j \in DOMAIN report[i].chars
      PROVE  Len(report[i].chars[j].dscs) <= ChRoom
  <2>1. PICK l \in OwnChrs(svc[i]) : report[i].chars[j] = Message(chr[l], svc[i])
    BY Sent
  <2> DEFINE K == OwnDscs(chr[l], svc[i])
             m == IF Cardinality(K) <= ChRoom THEN Cardinality(K) ELSE ChRoom
             d == Descriptors(chr[l], svc[i])
  <2>2. m \in Nat /\ m <= ChRoom /\ d = [k \in 1 .. m |-> dsc[Sorted(K)[k]]]
    BY DescriptorsAre
  <2>3. Message(chr[l], svc[i]).dscs = d
    BY DEF Message
  <2> HIDE DEF m, d, K
  <2>4. d = [k \in 1 .. m |-> d[k]]
    BY <2>2
  <2>5. Len(d) = m
    BY <2>2, <2>4, FnIsSeq
  <2> QED BY <2>1, <2>2, <2>3, <2>5
<1> QED BY <1>1 DEF TableTypeOK, TableInv, SvcInv, ChrInv, DscInv

-----------------------------------------------------------------------------
(* The table's properties, for every device and every length of the tables  *)
(* and the buffers.                                                         *)

\* No table and no list of descriptors outgrows its array, and the stack is
\* never past the end of the device (onDiscResult, handleGetServices).
THEOREM TablesTyped ==
    TableSpec => []TableTypeOK
BY TableInvariant, TableTyped, PTL

\* handleGetServices leaves out what a table, a buffer or a failed discovery
\* cut off, and never moves what is left to another service or another
\* characteristic, but for the last one of a _chr that was too short.
THEOREM ReportsAreReal ==
    TableSpec => []ReportedIsReal
BY TableInvariant, TableReal, PTL

\* handleGattNotify turns notifications on at the characteristic's own CCCD
\* and by its own property, or refuses; what was reported as its CCCD is
\* always the one written.
THEOREM NotifiesItsOwn ==
    TableSpec => []NotifyIsOwn
BY TableInvariant, TableOwn, PTL

\* A device that fits the tables and the buffers is reported as it is,
\* complete and in order (onDiscResult, handleGetServices).
THEOREM ReportsTheDevice ==
    TableSpec => []ReportIsTheDevice
BY TableInvariant, TableComplete, PTL
==============================================================================
