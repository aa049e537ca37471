----------------------------- MODULE ApiSession -----------------------------
(***************************************************************************)
(* The native API's server (wbrg1_ble_proxy/esphome_api.cpp: taskRun,       *)
(* serveClient, handleFrame, closeClient): one client at a time, a stream   *)
(* of bytes that TCP cuts where it likes, frames                            *)
(*     0x00, varint(payload length), varint(type), payload                  *)
(* found again in the buffer _rx of RxCap bytes.                            *)
(*                                                                         *)
(* External: TCP, and the client.  A client sends whole frames and closes,  *)
(* vanishes without a word, or stays; the next one waits in the backlog     *)
(* (listen(1)).  What handlers do besides the two subscriptions is in the   *)
(* modules ConnectOps and GattOps.                                          *)
(***************************************************************************)
EXTENDS Codec

CONSTANTS RxCap,                        \* RXCAP
          Frames,                       \* frames a client may send
          Close, Sub, Unsub, SubStates, \* their types 5, 66, 87 and 20
          MaxFrames                     \* bound: frames of a client

\* What a frame carries is a message of module Codec.
Payload(f) == EncodeMessage(f.msg)

\* The header of sendMessage; a client of the encrypted protocol begins with
\* another byte.
Encode(f) == <<f.first>> \o PutVarint(Len(Payload(f))) \o PutVarint(f.type) \o Payload(f)

ASSUME FramesAssumption ==
    \A f \in Frames : /\ f.first \in Byte /\ IsNumber(f.type)
                      /\ IsMessage(f.msg) /\ IsNumber(Len(Payload(f)))
\* The tags of an answer take one byte: 8 and 18, and a byte holds up to 127.
ASSUME TagsAssumption == (2 * WireMod) + BytesWire < Base
ASSUME RxCapAssumption == RxCap \in Nat /\ \A f \in Frames : Len(Encode(f)) <= RxCap
ASSUME TypesAssumption == Sub # Unsub /\ Close \notin {Sub, Unsub, SubStates}
                                      /\ SubStates \notin {Sub, Unsub}
ASSUME MaxFramesAssumption == MaxFrames \in Nat

VARIABLES
    waiting,        \* a client is in the backlog
    peer,           \* the client served: "none", "up", "closed", "gone"
    sent,           \* history: frames it has sent
    net,            \* its bytes on the way
    apiPc,          \* API task: "accept", "recv", "parse", "close"
    cliFd,          \* _cliFd >= 0
    rx,             \* _rx, of length _rxLen
    consumed,       \* bytes of rx the parser is done with
    handled,        \* history: frames handled for this client
    btSub, stateSub \* _btSub, _stateSub

client == <<waiting, peer, sent, net>>
subs   == <<btSub, stateSub>>
vars == <<client, apiPc, cliFd, rx, consumed, handled, subs>>

Init ==
    /\ waiting = FALSE /\ peer = "none" /\ sent = <<>> /\ net = <<>>
    /\ apiPc = "accept" /\ cliFd = FALSE
    /\ rx = <<>> /\ consumed = 0 /\ handled = <<>>
    /\ btSub = FALSE /\ stateSub = FALSE

-----------------------------------------------------------------------------
(* The client and TCP.                                                      *)

Arrive ==
    /\ ~waiting
    /\ waiting' = TRUE
    /\ UNCHANGED <<peer, sent, net, apiPc, cliFd, rx, consumed, handled, subs>>

Send(f) ==
    /\ peer = "up" /\ Len(sent) < MaxFrames
    /\ sent' = Append(sent, f)
    /\ net' = net \o Encode(f)
    /\ UNCHANGED <<waiting, peer, apiPc, cliFd, rx, consumed, handled, subs>>

Leave ==
    /\ peer = "up"
    /\ peer' = "closed"
    /\ UNCHANGED <<waiting, sent, net, apiPc, cliFd, rx, consumed, handled, subs>>

\* What was on the way may be lost from some point on.
Vanish ==
    /\ peer = "up"
    /\ peer' = "gone"
    /\ net' \in Prefixes(net)
    /\ UNCHANGED <<waiting, sent, apiPc, cliFd, rx, consumed, handled, subs>>

-----------------------------------------------------------------------------
(* taskRun and closeClient.                                                 *)

\* Seeded fault: the subscriptions are forgotten.
NoSessionKeepsSubs ==
    /\ rx' = <<>> /\ consumed' = 0
    /\ UNCHANGED subs

\* The state of a session that has not begun: both _rxLen = 0 and closeClient.
NoSession ==
    /\ rx' = <<>> /\ consumed' = 0
    /\ btSub' = FALSE /\ stateSub' = FALSE

Accept ==
    /\ apiPc = "accept" /\ waiting
    /\ waiting' = FALSE
    /\ peer' = "up" /\ sent' = <<>> /\ net' = <<>> /\ handled' = <<>>
    /\ cliFd' = TRUE
    /\ rx' = <<>> /\ consumed' = 0
    /\ apiPc' = "recv"
    /\ UNCHANGED subs

\* The peer is told by the socket, and what it still sends goes nowhere.
CloseClient ==
    /\ apiPc = "close"
    /\ cliFd' = FALSE
    /\ NoSession
    /\ peer' = "none" /\ net' = <<>>
    /\ apiPc' = "accept"
    /\ UNCHANGED <<waiting, sent, handled>>

-----------------------------------------------------------------------------
(* serveClient.                                                             *)

\* Seeded fault: off by one.
KeptEarly == IF Len(rx) >= RxCap - 1 THEN <<>> ELSE rx

\* "wedged; drop": a full buffer without a frame.
Kept == IF Len(rx) >= RxCap THEN <<>> ELSE rx

Recv ==
    /\ apiPc = "recv" /\ net # <<>>
    /\ \E n \in 1 .. Len(net) :
         /\ n <= RxCap - Len(Kept)
         /\ rx' = Kept \o SubSeq(net, 1, n)
         /\ net' = SubSeq(net, n + 1, Len(net))
    /\ consumed' = 0
    /\ apiPc' = "parse"
    /\ UNCHANGED <<waiting, peer, sent, cliFd, handled, subs>>

\* Seeded fault: the time of the last byte is noted in each round.
IdleTimeoutNever ==
    /\ apiPc = "recv" /\ net = <<>> /\ peer \in {"up", "gone"}
    /\ rx' = Kept
    /\ UNCHANGED <<client, apiPc, cliFd, consumed, handled, subs>>

\* Rounds in which recv_data times out change nothing, until there was
\* nothing for 60 s: the client is gone.
IdleTimeout ==
    /\ apiPc = "recv" /\ net = <<>> /\ peer \in {"up", "gone"}
    /\ rx' = Kept
    /\ apiPc' = "close"
    /\ UNCHANGED <<client, cliFd, consumed, handled, subs>>

\* recv_data returns 0, or an error that is not its timeout.
RecvEnds ==
    /\ apiPc = "recv" /\ net = <<>> /\ peer \in {"closed", "gone"}
    /\ rx' = Kept
    /\ apiPc' = "close"
    /\ UNCHANGED <<client, cliFd, consumed, handled, subs>>

\* The header at the parser's place: complete when both varints are.
At         == consumed + 1
HasHeader  == /\ At <= Len(rx)
              /\ HasVarint(rx, At + 1)
              /\ HasVarint(rx, After(rx, At + 1))
PayloadAt  == After(rx, After(rx, At + 1))
PayloadLen == GetVarint(rx, At + 1)
HasFrame   == HasHeader /\ PayloadLen <= Len(rx) - PayloadAt + 1

\* "desync / noise(0x01)".
ParseDesync ==
    /\ apiPc = "parse"
    /\ At <= Len(rx) /\ rx[At] # 0
    /\ apiPc' = "close"
    /\ UNCHANGED <<client, cliFd, rx, consumed, handled, subs>>

\* A frame is handled: subscriptions, and type 5 closes the client, which
\* empties the buffer under the parser.  The cast of the type to 32 bits
\* (esphome_api.cpp:252) changes none that a client sends.
ParseFrame ==
    /\ apiPc = "parse"
    /\ HasFrame /\ rx[At] = 0
    /\ LET type == GetVarint(rx, After(rx, At + 1))
           end  == PayloadAt + PayloadLen - 1
       IN  /\ handled' = Append(handled, [type |-> type,
                                          payload |-> SubSeq(rx, PayloadAt, end)])
           /\ IF type = Close
              THEN cliFd' = FALSE /\ NoSession /\ apiPc' = "close"
              ELSE /\ consumed' = end
                   /\ btSub' = (type = Sub \/ (btSub /\ type # Unsub))
                   /\ stateSub' = (type = SubStates \/ stateSub)
                   /\ UNCHANGED <<apiPc, cliFd, rx>>
    /\ UNCHANGED client

\* Seeded fault: the parser leaves after one frame.
ParseMoreOnce ==
    /\ apiPc = "parse"
    /\ HasFrame => consumed > 0
    /\ At <= Len(rx) => rx[At] = 0
    /\ rx' = SubSeq(rx, At, Len(rx)) /\ consumed' = 0
    /\ apiPc' = "recv"
    /\ UNCHANGED <<client, cliFd, handled, subs>>

\* Not a whole frame: what is left moves to the front.
ParseMore ==
    /\ apiPc = "parse"
    /\ ~HasFrame
    /\ At <= Len(rx) => rx[At] = 0
    /\ rx' = SubSeq(rx, At, Len(rx)) /\ consumed' = 0
    /\ apiPc' = "recv"
    /\ UNCHANGED <<client, cliFd, handled, subs>>

-----------------------------------------------------------------------------
Client == Arrive \/ Leave \/ Vanish \/ \E f \in Frames : Send(f)

ApiStep ==
    \/ Accept \/ CloseClient
    \/ Recv \/ RecvEnds
    \/ ParseDesync \/ ParseFrame \/ ParseMore

Next == Client \/ ApiStep \/ IdleTimeout

Spec == Init /\ [][Next]_vars

(* The API task runs, and silence lasts: 60 s of it pass when the client is *)
(* gone.  (A client that is there pings every 20 s.)                        *)
FairSpec ==
    /\ Spec
    /\ WF_vars(Accept \/ CloseClient \/ Recv \/ ParseDesync \/ ParseFrame \/ ParseMore)
    /\ WF_vars(peer = "closed" /\ RecvEnds)
    /\ WF_vars(peer = "gone" /\ IdleTimeout)

-----------------------------------------------------------------------------
(* Properties.                                                              *)

TypeOK ==
    /\ waiting \in BOOLEAN /\ peer \in {"none", "up", "closed", "gone"}
    /\ sent \in Seq(Frames) /\ net \in Seq(Byte)
    /\ apiPc \in {"accept", "recv", "parse", "close"} /\ cliFd \in BOOLEAN
    /\ rx \in Seq(Byte) /\ Len(rx) <= RxCap
    /\ consumed \in 0 .. Len(rx)
    /\ handled \in Seq([type : Nat, payload : Seq(Byte)])
    /\ btSub \in BOOLEAN /\ stateSub \in BOOLEAN

\* The buffer from the parser's place on, and what is on the way.
Ahead == SubSeq(rx, At, Len(rx)) \o net

Bytes(fs) == FlattenSeq([i \in DOMAIN fs |-> Encode(fs[i])])

(* However the stream is cut, the frames handled are those the client has   *)
(* sent, in order and once each, never bytes of an earlier client; and the  *)
(* parser stays on the frames' bounds: the bytes of the frames handled,     *)
(* those it has before it and those on the way are the stream as it was     *)
(* sent, or its beginning when the end was lost.                            *)
FramesInOrder ==
    /\ Len(handled) <= Len(sent)
    /\ \A i \in DOMAIN handled : handled[i] = [type |-> sent[i].type,
                                               payload |-> Payload(sent[i])]
    /\ apiPc \in {"recv", "parse"} =>
           LET stream == Bytes(SubSeq(sent, 1, Len(handled))) \o Ahead
           IN  /\ IsPrefix(stream, Bytes(sent))
               /\ peer = "up" => stream = Bytes(sent)

\* What the client has put into a field, first and with this wire type.
Given(m, field, wire, default) ==
    LET put == {i \in DOMAIN m : m[i].field = field /\ m[i].wire = wire}
    IN  IF put = {} THEN default ELSE m[Min(put)].value

\* The answer to a request: its number and its bytes, like that of
\* handleGattRead.
AnswerTo(payload) ==
    PutMessage(<<[field |-> 1, wire |-> VarintWire, value |-> PbField(payload, 1)],
                 [field |-> 2, wire |-> BytesWire, value |-> PbFieldBytes(payload, 2)]>>)

(* A handler finds in a frame's payload what the client has put into each   *)
(* field, whatever fields of whatever wire type stand before it, and the    *)
(* client finds it again in an answer that returns it: tags that take one   *)
(* byte, which is all the writer gives them, and tags that take more.       *)
FieldsReadBack ==
    \A i \in DOMAIN handled :
        LET buf == handled[i].payload
            m   == sent[i].msg
            ans == AnswerTo(buf)
        IN  /\ \A f \in {m[k].field : k \in DOMAIN m} \cup {1} :
                  /\ PbField(buf, f) = Given(m, f, VarintWire, 0)
                  /\ PbFieldBytes(buf, f) = Given(m, f, BytesWire, <<>>)
            /\ PbField(ans, 1) = Given(m, 1, VarintWire, 0)
            /\ PbFieldBytes(ans, 2) = Given(m, 2, BytesWire, <<>>)

Handled(type) == {i \in DOMAIN handled : handled[i].type = type}

(* "HA subscribed to BLE advertisements" (esphome_api.h:101): a client is   *)
(* streamed adverts when it has asked itself, and not taken it back; a      *)
(* subscription does not outlive the client that made it.                   *)
SubscriptionIsItsOwn ==
    /\ btSub <=> /\ cliFd
                 /\ \E i \in Handled(Sub) : \A j \in Handled(Unsub) : j < i
    /\ stateSub <=> cliFd /\ Handled(SubStates) # {}

(* A frame of a client that stays is handled, or the client is let go.      *)
FrameIsHandled ==
    \A n \in 1 .. MaxFrames :
        peer = "up" /\ Len(sent) >= n ~> Len(handled) >= n \/ peer # "up"

(* "Add an idle timeout so a dead client is dropped and HA can reconnect"   *)
(* (README.md:242): the client that is gone does not keep the next waiting. *)
NextClientServed == waiting /\ peer # "up" ~> ~waiting
=============================================================================
