----------------------------- MODULE NotifyRing -----------------------------
(***************************************************************************)
(* Notifications of connected devices (wbrg1_ble_proxy/esphome_api.cpp):    *)
(* onNotifyInd, in the BLE stack's context, puts them into the ring _ntf    *)
(* under the conn id; drainNotifies, in the API task, looks the conn id up  *)
(* in the slot table and sends message 79.  In between, links come and go:  *)
(* each round of serveClient is serviceDisconnects, drainNotifies, and then *)
(* all requests that have come.                                             *)
(*                                                                          *)
(* The ring is a LossyFifo, like `queue` and `_adv` (module AdvertRing); an *)
(* entry keeps its place while it is sent.  Slots and links are those of    *)
(* module ConnectOps, in fewer steps: a request is one, and so are the read *)
(* and the clear of _discMask ("preempt" of ConnectOps is not here).        *)
(*                                                                          *)
(* External: a device has one link at a time, and sends notifications on a  *)
(* link on which it was asked for them, which takes a slot with its conn    *)
(* id.  A link that is to end no longer counts as connected.                *)
(*                                                                          *)
(* In each behaviour, env is the set of the events beyond the ordinary that *)
(* may happen in it:                                                        *)
(*   "pipelined"  a round sees more than one request                        *)
(*   "late"       a link comes up when its request no longer waits for it;  *)
(*                a link told to end ends after the round                   *)
(*   "reuse"      a new link gets the conn id of a lost one whose slot has  *)
(*                not been freed yet                                        *)
(***************************************************************************)
EXTENDS Naturals, Sequences, FiniteSets, SequencesExt

CONSTANTS Addr, ConnId,
          None,         \* no device, no conn id
          Room,         \* NTF_CAP - 1
          MaxNtf,       \* bound: notifications
          Envs          \* the sets of events considered, see above

ASSUME NoneAssumption == None \notin Addr /\ None \notin ConnId
ASSUME RoomAssumption == Room \in Nat \ {0} /\ MaxNtf \in Nat
ASSUME EnvsAssumption == Envs \subseteq SUBSET {"pipelined", "late", "reuse"}

VARIABLES
    env,                \* what may happen in this behaviour
    link,               \* stack: the device of each conn id
    conn,               \* the slot table: the conn id of each address
    closing,            \* stack: the conn ids whose link was told to end
    discMask,           \* _discMask
    filled,             \* history: whose link filled the slot of each address
    ring,               \* _ntf: [n, dev, conn]; the device is history
    heard,              \* notifications so far
    dropped,            \* those that found no room (_ntfDropped counts them)
    skipped,            \* those whose conn id had no slot
    streamed,           \* history: messages 79, [n, dev, of, address], of: filled
    apiPc,              \* API task: "disconnects", "drain", "serve"
    requests            \* requests seen in this round: 0, 1

links == <<link, conn, closing, discMask, filled>>
ntf   == <<ring, heard, dropped, skipped, streamed>>
vars == <<env, links, ntf, apiPc, requests>>

Init ==
    /\ env \in Envs
    /\ link = [c \in ConnId |-> None] /\ conn = [a \in Addr |-> None]
    /\ closing = {} /\ discMask = {} /\ filled = [a \in Addr |-> None]
    /\ ring = <<>> /\ heard = 0 /\ dropped = {} /\ skipped = {} /\ streamed = <<>>
    /\ apiPc = "disconnects" /\ requests = 0

SlotsOn(c) == {a \in Addr : conn[a] = c}        \* findConnByConnId
Connected(c) == link[c] # None /\ c \notin closing      \* BLE.connected
Linked(a) == \E c \in ConnId : link[c] = a

-----------------------------------------------------------------------------
(* BLE stack.                                                               *)

\* An indication is confirmed first, room or not.
OnNotifyInd(c) ==
    /\ link[c] # None /\ heard < MaxNtf
    /\ heard' = heard + 1
    /\ IF Len(ring) < Room
       THEN /\ ring' = Append(ring, [n |-> heard + 1, dev |-> link[c], conn |-> c])
            /\ UNCHANGED dropped
       ELSE dropped' = dropped \cup {heard + 1} /\ UNCHANGED ring
    /\ UNCHANGED <<env, links, skipped, streamed, apiPc, requests>>

\* A link ends, told to or not.
OnDisconnect(c) ==
    /\ link[c] # None
    /\ link' = [link EXCEPT ![c] = None]
    /\ closing' = closing \ {c}
    /\ discMask' = discMask \cup {c}
    /\ UNCHANGED <<env, conn, filled, ntf, apiPc, requests>>

-----------------------------------------------------------------------------
(* API task.                                                                *)

\* Seeded fault: slots are kept until the ring is empty.
ServiceDisconnectsLast ==
    /\ apiPc = "disconnects"
    /\ conn' = IF ring = <<>>
               THEN [a \in Addr |-> IF conn[a] \in discMask THEN None ELSE conn[a]]
               ELSE conn
    /\ discMask' = IF ring = <<>> THEN {} ELSE discMask
    /\ apiPc' = "drain"
    /\ UNCHANGED <<env, link, closing, filled, ntf, requests>>

\* Seeded fault: one loss frees all slots.
ServiceDisconnectsAll ==
    /\ apiPc = "disconnects"
    /\ conn' = [a \in Addr |-> IF discMask # {} THEN None ELSE conn[a]]
    /\ discMask' = {}
    /\ apiPc' = "drain"
    /\ UNCHANGED <<env, link, closing, filled, ntf, requests>>

ServiceDisconnects ==
    /\ apiPc = "disconnects"
    /\ conn' = [a \in Addr |-> IF conn[a] \in discMask THEN None ELSE conn[a]]
    /\ discMask' = {}
    /\ apiPc' = "drain"
    /\ UNCHANGED <<env, link, closing, filled, ntf, requests>>

DrainSend ==
    /\ apiPc = "drain" /\ ring # <<>>
    /\ \E a \in SlotsOn(Head(ring).conn) :
         streamed' = Append(streamed, [n |-> Head(ring).n, dev |-> Head(ring).dev,
                                       of |-> filled[a], address |-> a])
    /\ ring' = Tail(ring)
    /\ UNCHANGED <<env, links, heard, dropped, skipped, apiPc, requests>>

\* Seeded fault: the place is not given back.
DrainSkipStays ==
    /\ apiPc = "drain" /\ ring # <<>>
    /\ SlotsOn(Head(ring).conn) = {}
    /\ skipped' = skipped \cup {Head(ring).n}
    /\ apiPc' = "serve" /\ requests' = 0
    /\ UNCHANGED <<env, links, ring, heard, dropped, streamed>>

DrainSkip ==
    /\ apiPc = "drain" /\ ring # <<>>
    /\ SlotsOn(Head(ring).conn) = {}
    /\ skipped' = skipped \cup {Head(ring).n}
    /\ ring' = Tail(ring)
    /\ UNCHANGED <<env, links, heard, dropped, streamed, apiPc, requests>>

DrainEnd ==
    /\ apiPc = "drain" /\ ring = <<>>
    /\ apiPc' = "serve" /\ requests' = 0
    /\ UNCHANGED <<env, links, ntf>>

Served ==
    /\ apiPc = "serve"
    /\ requests = 0 \/ "pipelined" \in env
    /\ requests' = 1
    /\ UNCHANGED apiPc

\* execConnectLoop takes its own new link, or any that is up and no slot has;
\* handleDeviceRequest then fills the slot, which the address may have already.
Connect(a) ==
    /\ Served
    /\ \E c \in ConnId :
         /\ SlotsOn(c) = {}
         /\ \/ link[c] = None /\ ~Linked(a) /\ link' = [link EXCEPT ![c] = a]
            \/ Connected(c) /\ UNCHANGED link
         /\ conn' = [conn EXCEPT ![a] = c]
         /\ filled' = [filled EXCEPT ![a] = link'[c]]
    /\ UNCHANGED <<env, closing, discMask, ntf>>

\* A link that the polls of its request miss: it comes up later, or has a conn
\* id which they pass over because a slot has it.  That the link is here from
\* now on stands for any later time: its device says nothing before some request
\* is served on it.
ConnectMissed(a) ==
    /\ Served
    /\ ~Linked(a)
    /\ \E c \in ConnId :
         /\ link[c] = None
         /\ (IF SlotsOn(c) = {} THEN "late" ELSE "reuse") \in env
         /\ link' = [link EXCEPT ![c] = a]
    /\ UNCHANGED <<env, conn, closing, discMask, filled, ntf>>

\* The slot is freed at once; the link with its conn id, whosever, will end.
Disconnect(a) ==
    /\ Served
    /\ conn[a] # None
    /\ conn' = [conn EXCEPT ![a] = None]
    /\ closing' = IF link[conn[a]] # None THEN closing \cup {conn[a]} ELSE closing
    /\ UNCHANGED <<env, link, discMask, filled, ntf>>

NextRound ==
    /\ apiPc = "serve"
    /\ "late" \in env \/ closing = {}
    /\ apiPc' = "disconnects"
    /\ UNCHANGED <<env, links, ntf, requests>>

-----------------------------------------------------------------------------
Stack == \E c \in ConnId : OnNotifyInd(c) \/ OnDisconnect(c)

Round == ServiceDisconnects \/ DrainSend \/ DrainSkip \/ DrainEnd \/ NextRound

Client == \E a \in Addr : Connect(a) \/ ConnectMissed(a) \/ Disconnect(a)

Next == Stack \/ Round \/ Client

Spec == Init /\ [][Next]_vars

-----------------------------------------------------------------------------
(* Properties.                                                              *)

Ntf == 1 .. MaxNtf

Entry   == [n : Ntf, dev : Addr, conn : ConnId]
Message == [n : Ntf, dev : Addr, of : Addr \cup {None}, address : Addr]

TypeOK ==
    /\ env \in Envs
    /\ link \in [ConnId -> Addr \cup {None}] /\ conn \in [Addr -> ConnId \cup {None}]
    /\ closing \subseteq ConnId /\ discMask \subseteq ConnId
    /\ filled \in [Addr -> Addr \cup {None}]
    /\ ring \in Seq(Entry) /\ Len(ring) <= Room
    /\ heard \in 0 .. MaxNtf /\ dropped \subseteq Ntf /\ skipped \subseteq Ntf
    /\ streamed \in Seq(Message)
    /\ apiPc \in {"disconnects", "drain", "serve"} /\ requests \in {0, 1}

(* What a client is told of an address comes over the link that filled its  *)
(* slot, although the conn id in the ring may belong to another device by   *)
(* now.  That link is the address's own when one request comes in a round   *)
(* and the stack keeps up; else the connect may have found another device's *)
(* (esphome_api.cpp:597-600, 544-549).                                      *)
OwnDevice ==
    /\ \A i \in DOMAIN streamed : streamed[i].dev = streamed[i].of
    /\ env = {} => \A a \in Addr : filled[a] \in {a, None}

(* Why: the link with a slot's conn id is the one that filled it, or a loss *)
(* waits to be handled that frees the slot; and an entry whose conn id is   *)
(* in the slot of another link is of one whose loss the API task will       *)
(* handle, and free that slot, before it drains.                            *)
LinkInv ==
    /\ \A a \in Addr : conn[a] # None =>
           /\ filled[a] # None
           /\ conn[a] \in discMask \/ link[conn[a]] = filled[a]
    /\ apiPc = "drain" => \A c \in discMask : link[c] = None

RingInv ==
    \A i \in 1 .. Len(ring) :
        LET e == ring[i] IN
        /\ apiPc = "serve" => link[e.conn] = e.dev \/ e.conn \in discMask
        /\ \A a \in SlotsOn(e.conn) :
               filled[a] = e.dev \/ (apiPc # "drain" /\ e.conn \in discMask)

Numbers(s) == {s[i].n : i \in DOMAIN s}
Growing(s) == \A i, j \in 1 .. Len(s) : i < j => s[i].n < s[j].n

(* Each notification is in the ring, sent, dropped or skipped, once; and    *)
(* what is sent is in the order of the radio.                               *)
EachNotifyAccounted ==
    /\ 1 .. heard = UNION {Numbers(ring), Numbers(streamed), dropped, skipped}
    /\ heard = Len(ring) + Len(streamed) + Cardinality(dropped) + Cardinality(skipped)
    /\ Growing(streamed)

(* Why: what is in the ring was heard after all that has left it.           *)
OrderInv ==
    /\ Growing(ring)
    /\ \A i \in 1 .. Len(ring) :
           /\ \A j \in 1 .. Len(streamed) : streamed[j].n < ring[i].n
           /\ \A m \in skipped : m < ring[i].n

(* While a device is connected, what it says is not skipped: "API task      *)
(* drains and sends BluetoothGATTNotifyDataResponse(79)"                    *)
(* (CONNECTABLE_DESIGN.md:66-67).  A round in which a disconnect and a      *)
(* connect come together may free the slot of the new link, and a link that *)
(* nobody waited for has none.                                              *)
ConnectedIsHeard ==
    [][env = {} => \A n \in skipped' \ skipped :
                       link[Head(ring).conn] # Head(ring).dev]_vars

(* Why: with one request in a round and a stack that keeps up, a connected  *)
(* link has its slot, and a loss that waits to be handled is that of the    *)
(* slot it will free.                                                       *)
SlotInv ==
    env = {} =>
        /\ \A a \in Addr : filled[a] \in {a, None}
        /\ \A c \in ConnId : Connected(c) => conn[link[c]] = c
        /\ closing # {} => apiPc = "serve" /\ requests = 1
        /\ \A c \in discMask : link[c] = None
        /\ apiPc = "drain" \/ (apiPc = "serve" /\ requests = 0) =>
               \A c \in discMask : SlotsOn(c) # {}
=============================================================================
