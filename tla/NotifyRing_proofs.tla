-------------------------- MODULE NotifyRing_proofs --------------------------
(***************************************************************************)
(* The notification ring, for any number of devices and conn ids and a ring *)
(* of any size: the types; that a notification is reported as one of the    *)
(* device that sent it; that each is accounted for; and, when a round sees  *)
(* one request, that none of a connected device is skipped.                 *)
(***************************************************************************)
EXTENDS NotifyRing, SequenceTheorems, FiniteSetTheorems, TLAPS

USE NoneAssumption, RoomAssumption, EnvsAssumption

(* What an append to, and a take from, a sequence do.                       *)
LEMMA Added ==
    ASSUME NEW S, NEW s \in Seq(S), NEW x \in S
    PROVE  /\ Append(s, x) \in Seq(S)
           /\ Len(Append(s, x)) = Len(s) + 1 /\ Len(s) \in Nat
           /\ \A i \in 1 .. Len(s) + 1 :
                  Append(s, x)[i] = IF i = Len(s) + 1 THEN x ELSE s[i]
<1> DEFINE t == Append(s, x)
<1>1. /\ t \in Seq(S) /\ Len(t) = Len(s) + 1 /\ t[Len(s) + 1] = x
      /\ \A i \in 1 .. Len(s) : t[i] = s[i]
  BY AppendProperties
<1>2. Len(s) \in Nat
  OBVIOUS
<1> HIDE DEF t
<1>3. \A i \in 1 .. Len(s) + 1 : t[i] = IF i = Len(s) + 1 THEN x ELSE s[i]
  BY <1>1, <1>2
<1> QED BY <1>1, <1>2, <1>3 DEF t

LEMMA Taken ==
    ASSUME NEW S, NEW s \in Seq(S), s # <<>>
    PROVE  /\ Head(s) = s[1] /\ Head(s) \in S /\ Len(s) \in Nat \ {0}
           /\ Tail(s) \in Seq(S) /\ Len(Tail(s)) = Len(s) - 1
           /\ \A i \in 1 .. Len(s) - 1 : Tail(s)[i] = s[i + 1]
BY EmptySeq, HeadTailProperties

(* The three things that happen to the ring: a notification comes in, is    *)
(* sent, is skipped.                                                        *)
LEMMA Heard ==
    ASSUME TypeOK, NEW c \in ConnId, OnNotifyInd(c)
    PROVE  /\ heard \in Nat /\ heard + 1 \in Ntf /\ heard' = heard + 1
           /\ link[c] \in Addr
           /\ UNCHANGED <<env, link, conn, closing, discMask, filled, skipped, streamed,
                         apiPc, requests>>
           /\ \/ /\ Len(ring) < Room /\ UNCHANGED dropped
                 /\ ring' = Append(ring, [n |-> heard + 1, dev |-> link[c], conn |-> c])
                 /\ [n |-> heard + 1, dev |-> link[c], conn |-> c] \in Entry
              \/ dropped' = dropped \cup {heard + 1} /\ ring' = ring
<1>1. heard \in Nat /\ heard + 1 \in Ntf /\ link[c] \in Addr
  BY DEF TypeOK, OnNotifyInd, Ntf
<1>2. [n |-> heard + 1, dev |-> link[c], conn |-> c] \in Entry
  BY <1>1 DEF Entry
<1> QED BY <1>1, <1>2 DEF OnNotifyInd, links

LEMMA Left ==
    ASSUME TypeOK, DrainSend \/ DrainSkip
    PROVE  /\ ring # <<>> /\ ring' = Tail(ring) /\ apiPc = "drain"
           /\ Head(ring) = ring[1] /\ Head(ring) \in Entry /\ Len(ring) \in Nat \ {0}
           /\ Head(ring).n \in Ntf
           /\ ring' \in Seq(Entry) /\ Len(ring') = Len(ring) - 1
           /\ \A i \in 1 .. Len(ring) - 1 : ring'[i] = ring[i + 1]
           /\ UNCHANGED <<env, link, conn, closing, discMask, filled, heard, dropped,
                         apiPc, requests>>
<1>1. ring # <<>> /\ ring' = Tail(ring) /\ ring \in Seq(Entry)
  BY DEF DrainSend, DrainSkip, TypeOK
<1>2. /\ UNCHANGED <<env, link, conn, closing, discMask, filled, heard, dropped,
                    apiPc, requests>>
      /\ apiPc = "drain"
  BY DEF DrainSend, DrainSkip, links
<1>3. /\ Head(ring) = ring[1] /\ Head(ring) \in Entry /\ Len(ring) \in Nat \ {0}
      /\ Tail(ring) \in Seq(Entry) /\ Len(Tail(ring)) = Len(ring) - 1
      /\ \A i \in 1 .. Len(ring) - 1 : Tail(ring)[i] = ring[i + 1]
  BY <1>1, Taken
<1>4. Head(ring).n \in Ntf
  BY <1>3 DEF Entry
<1> QED BY <1>1, <1>2, <1>3, <1>4

LEMMA SentMessage ==
    ASSUME TypeOK, DrainSend
    PROVE  /\ UNCHANGED skipped
           /\ \E m \in Message : /\ streamed' = Append(streamed, m)
                                 /\ m.n = Head(ring).n /\ m.dev = Head(ring).dev
                                 /\ m.address \in SlotsOn(Head(ring).conn)
                                 /\ m.of = filled[m.address]
<1>1. PICK a \in SlotsOn(Head(ring).conn) :
          streamed' = Append(streamed, [n |-> Head(ring).n, dev |-> Head(ring).dev,
                                        of |-> filled[a], address |-> a])
  BY DEF DrainSend
<1>2. Head(ring) \in Entry
  BY Left
<1>3. [n |-> Head(ring).n, dev |-> Head(ring).dev, of |-> filled[a], address |-> a]
          \in Message
  BY <1>2 DEF Entry, Message, SlotsOn, TypeOK
<1> QED BY <1>1, <1>3 DEF DrainSend

(* One step keeps the types.                                                *)
LEMMA TypeStep ==
    ASSUME TypeOK, [Next]_vars
    PROVE  TypeOK'
<1>1. ASSUME NEW c \in ConnId, OnNotifyInd(c)
      PROVE  TypeOK'
  <2>1. ring' \in Seq(Entry) /\ Len(ring') <= Room /\ dropped' \subseteq Ntf
    <3>1. CASE ring' = ring /\ dropped' = dropped \cup {heard + 1}
      BY <1>1, <3>1, Heard DEF TypeOK
    <3>2. CASE /\ Len(ring) < Room /\ UNCHANGED dropped
               /\ ring' = Append(ring, [n |-> heard + 1, dev |-> link[c], conn |-> c])
               /\ [n |-> heard + 1, dev |-> link[c], conn |-> c] \in Entry
      <4>1. ring' \in Seq(Entry) /\ Len(ring') = Len(ring) + 1 /\ Len(ring) \in Nat
        BY <3>2, Added DEF TypeOK
      <4> QED BY <3>2, <4>1 DEF TypeOK
    <3> QED BY <1>1, <3>1, <3>2, Heard
  <2>2. heard' \in 0 .. MaxNtf
    <3>1. heard' = heard + 1 /\ heard + 1 \in Ntf
      BY <1>1, Heard
    <3> QED BY <3>1 DEF Ntf
  <2> QED BY <1>1, <2>1, <2>2, Heard DEF TypeOK
<1>2. ASSUME NEW c \in ConnId, OnDisconnect(c)
      PROVE  TypeOK'
  <2>1. /\ link' \in [ConnId -> Addr \cup {None}]
        /\ closing' \subseteq ConnId /\ discMask' \subseteq ConnId
    BY <1>2 DEF TypeOK, OnDisconnect
  <2>2. UNCHANGED <<env, conn, filled, ring, heard, dropped, skipped, streamed, apiPc,
                    requests>>
    BY <1>2 DEF OnDisconnect, ntf
  <2> QED BY <2>1, <2>2 DEF TypeOK
<1>3. CASE ServiceDisconnects
  <2>1. conn' \in [Addr -> ConnId \cup {None}]
    BY <1>3 DEF TypeOK, ServiceDisconnects
  <2>2. /\ discMask' = {} /\ apiPc' = "drain"
        /\ UNCHANGED <<env, link, closing, filled, ring, heard, dropped, skipped,
                       streamed, requests>>
    BY <1>3 DEF ServiceDisconnects, ntf
  <2> QED BY <2>1, <2>2 DEF TypeOK
<1>4. CASE DrainSend
  <2>1. streamed' \in Seq(Message)
    <3>1. PICK m \in Message : streamed' = Append(streamed, m)
      BY <1>4, SentMessage
    <3>2. streamed \in Seq(Message)
      BY DEF TypeOK
    <3> QED BY <3>1, <3>2, Added
  <2>2. ring' \in Seq(Entry) /\ Len(ring') <= Room /\ skipped' = skipped
    BY <1>4, Left, SentMessage DEF TypeOK
  <2> QED BY <1>4, <2>1, <2>2, Left DEF TypeOK
<1>5. CASE DrainSkip
  <2>1. skipped' \subseteq Ntf /\ streamed' = streamed
    BY <1>5, Left DEF TypeOK, DrainSkip
  <2>2. ring' \in Seq(Entry) /\ Len(ring') <= Room
    BY <1>5, Left DEF TypeOK
  <2> QED BY <1>5, <2>1, <2>2, Left DEF TypeOK
<1>6. CASE DrainEnd
  BY <1>6 DEF TypeOK, DrainEnd, links, ntf
<1>7. CASE NextRound
  BY <1>7 DEF TypeOK, NextRound, links, ntf
<1>8. ASSUME NEW a \in Addr, Connect(a)
      PROVE  TypeOK'
  <2>1. /\ link' \in [ConnId -> Addr \cup {None}] /\ conn' \in [Addr -> ConnId \cup {None}]
        /\ filled' \in [Addr -> Addr \cup {None}]
    BY <1>8 DEF TypeOK, Connect
  <2>2. /\ apiPc' \in {"disconnects", "drain", "serve"} /\ requests' \in {0, 1}
        /\ UNCHANGED <<env, closing, discMask, ring, heard, dropped, skipped, streamed>>
    BY <1>8 DEF TypeOK, Connect, Served, ntf
  <2> QED BY <2>1, <2>2 DEF TypeOK
<1>9. ASSUME NEW a \in Addr, ConnectMissed(a)
      PROVE  TypeOK'
  BY <1>9 DEF TypeOK, ConnectMissed, Served, ntf
<1>10. ASSUME NEW a \in Addr, Disconnect(a)
      PROVE  TypeOK'
  BY <1>10 DEF TypeOK, Disconnect, Served, ntf
<1>11. CASE UNCHANGED vars
  BY <1>11 DEF TypeOK, vars, links, ntf
<1> QED
  BY <1>1, <1>2, <1>3, <1>4, <1>5, <1>6, <1>7, <1>8, <1>9, <1>10, <1>11
     DEF Next, Stack, Round, Client

(* Type correctness of slots, links, the ring and the histories.            *)
THEOREM TypeCorrect == Spec => []TypeOK
<1>1. ASSUME Init
      PROVE  TypeOK
  <2>1. /\ <<>> \in Seq(Entry) /\ <<>> \in Seq(Message) /\ Len(<<>>) = 0
        /\ 0 \in 0 .. MaxNtf
    OBVIOUS
  <2> QED BY <1>1, <2>1 DEF Init, TypeOK
<1>2. TypeOK /\ [Next]_vars => TypeOK'
  BY TypeStep
<1> QED BY <1>1, <1>2, PTL DEF Spec

-----------------------------------------------------------------------------
(* Attribution.                                                             *)

(* A slot's link is the one that filled it, or its loss will be handled.    *)
LEMMA LinkStep ==
    ASSUME TypeOK, LinkInv, [Next]_vars
    PROVE  LinkInv'
<1> USE DEF LinkInv
<1>1. CASE UNCHANGED <<link, conn, discMask, filled>> /\ (apiPc' = apiPc \/ apiPc' # "drain")
  BY <1>1
<1>2. ASSUME NEW c \in ConnId, OnDisconnect(c)
      PROVE  LinkInv'
  BY <1>2 DEF OnDisconnect, TypeOK
<1>3. CASE ServiceDisconnects
  BY <1>3 DEF ServiceDisconnects, TypeOK
<1>4. ASSUME NEW b \in Addr, Connect(b)
      PROVE  LinkInv'
  <2>1. PICK c \in ConnId : /\ SlotsOn(c) = {}
                            /\ \/ link' = [link EXCEPT ![c] = b]
                               \/ link' = link /\ link[c] # None
                            /\ conn' = [conn EXCEPT ![b] = c]
                            /\ filled' = [filled EXCEPT ![b] = link'[c]]
    BY <1>4 DEF Connect, Connected
  <2>2. discMask' = discMask /\ apiPc' = "serve"
    BY <1>4 DEF Connect, Served
  <2>3. ASSUME NEW a \in Addr, conn'[a] # None
        PROVE  /\ filled'[a] # None
               /\ conn'[a] \in discMask \/ link'[conn'[a]] = filled'[a]
    <3>1. CASE a = b
      <4>1. conn'[a] = c /\ filled'[a] = link'[c] /\ link'[c] \in Addr
        BY <2>1, <3>1 DEF TypeOK
      <4> QED BY <4>1
    <3>2. CASE a # b
      <4>1. conn'[a] = conn[a] /\ conn[a] # c /\ filled'[a] = filled[a]
        BY <2>1, <2>3, <3>2 DEF TypeOK, SlotsOn
      <4>2. link'[conn[a]] = link[conn[a]]
        BY <2>1, <2>3, <4>1 DEF TypeOK
      <4> QED BY <2>3, <4>1, <4>2
    <3> QED BY <3>1, <3>2
  <2> QED BY <2>2, <2>3
<1>5. ASSUME NEW b \in Addr, ConnectMissed(b)
      PROVE  LinkInv'
  <2>1. PICK c \in ConnId : link[c] = None /\ link' = [link EXCEPT ![c] = b]
    BY <1>5 DEF ConnectMissed
  <2>2. UNCHANGED <<conn, discMask, filled>> /\ apiPc' = "serve"
    BY <1>5 DEF ConnectMissed, Served
  <2> QED BY <2>1, <2>2 DEF TypeOK, SlotsOn
<1>6. ASSUME NEW b \in Addr, Disconnect(b)
      PROVE  LinkInv'
  <2>1. conn' = [conn EXCEPT ![b] = None] /\ UNCHANGED <<link, discMask, filled>>
        /\ apiPc' = "serve"
    BY <1>6 DEF Disconnect, Served
  <2> QED BY <2>1 DEF TypeOK
<1> QED
  BY <1>1, <1>2, <1>3, <1>4, <1>5, <1>6
     DEF Next, Stack, Round, Client, OnNotifyInd, DrainSend, DrainSkip, DrainEnd,
         NextRound, vars, links

(* An entry of a device that has lost its conn id meets no other device's   *)
(* slot when the API task drains.                                           *)
LEMMA RingStep ==
    ASSUME TypeOK, LinkInv, RingInv, [Next]_vars
    PROVE  RingInv'
<1> USE DEF RingInv
<1>1. ASSUME NEW c \in ConnId, OnNotifyInd(c)
      PROVE  RingInv'
  <2> DEFINE e == [n |-> heard + 1, dev |-> link[c], conn |-> c]
  <2>1. UNCHANGED <<link, conn, discMask, filled, apiPc>>
    BY <1>1, Heard
  <2>2. \A d : SlotsOn(d)' = SlotsOn(d)
    BY <2>1 DEF SlotsOn
  <2>3. CASE ring' = ring
    BY <2>1, <2>2, <2>3
  <2>4. CASE ring' = Append(ring, e) /\ e \in Entry
    <3>1. /\ Len(ring') = Len(ring) + 1 /\ Len(ring) \in Nat
          /\ \A i \in 1 .. Len(ring) + 1 :
                 ring'[i] = IF i = Len(ring) + 1 THEN e ELSE ring[i]
      BY <2>4, Added DEF TypeOK
    <3>2. \A a \in SlotsOn(c) : filled[a] = link[c] \/ (apiPc # "drain" /\ c \in discMask)
      BY <1>1 DEF OnNotifyInd, SlotsOn, LinkInv
    <3>3. ASSUME NEW i \in 1 .. Len(ring')
          PROVE  /\ apiPc = "serve" => link[ring'[i].conn] = ring'[i].dev
                                       \/ ring'[i].conn \in discMask
                 /\ \A a \in SlotsOn(ring'[i].conn) :
                        filled[a] = ring'[i].dev \/ (apiPc # "drain" /\ ring'[i].conn \in discMask)
      <4>1. CASE i = Len(ring) + 1
        BY <3>1, <3>2, <4>1
      <4>2. CASE i # Len(ring) + 1
        <5>1. i \in 1 .. Len(ring) /\ ring'[i] = ring[i]
          BY <3>1, <4>2
        <5> QED BY <5>1
      <4> QED BY <4>1, <4>2
    <3> QED BY <2>1, <2>2, <3>3
  <2> QED BY <1>1, <2>3, <2>4, Heard
<1>2. ASSUME NEW c \in ConnId, OnDisconnect(c)
      PROVE  RingInv'
  <2>1. /\ link' = [link EXCEPT ![c] = None] /\ discMask' = discMask \cup {c}
        /\ UNCHANGED <<conn, filled, ring, apiPc>>
    BY <1>2 DEF OnDisconnect, ntf
  <2>2. \A d : SlotsOn(d)' = SlotsOn(d)
    BY <2>1 DEF SlotsOn
  <2>3. \A i \in 1 .. Len(ring) : ring[i] \in Entry
    BY DEF TypeOK
  <2> QED BY <2>1, <2>2, <2>3 DEF TypeOK, Entry
<1>3. CASE ServiceDisconnects
  <2>1. /\ apiPc = "disconnects" /\ apiPc' = "drain" /\ ring' = ring
        /\ filled' = filled
        /\ conn' = [a \in Addr |-> IF conn[a] \in discMask THEN None ELSE conn[a]]
    BY <1>3 DEF ServiceDisconnects, ntf
  <2>2. ASSUME NEW i \in 1 .. Len(ring), NEW a \in SlotsOn(ring[i].conn)'
        PROVE  filled[a] = ring[i].dev
    <3>1. ring[i] \in Entry
      BY DEF TypeOK
    <3>2. ring[i].conn \in ConnId /\ a \in Addr /\ conn'[a] = ring[i].conn
      BY <2>1, <3>1 DEF SlotsOn, Entry
    <3>3. conn[a] = ring[i].conn /\ ring[i].conn \notin discMask
      BY <2>1, <3>2
    <3> QED BY <2>1, <3>2, <3>3 DEF SlotsOn
  <2> QED BY <2>1, <2>2
<1>4. CASE DrainSend \/ DrainSkip
  <2>1. /\ Len(ring) \in Nat /\ Len(ring') = Len(ring) - 1
        /\ \A i \in 1 .. Len(ring) - 1 : ring'[i] = ring[i + 1]
        /\ UNCHANGED <<link, conn, discMask, filled, apiPc>>
    BY <1>4, Left
  <2>2. \A d : SlotsOn(d)' = SlotsOn(d)
    BY <2>1 DEF SlotsOn
  <2>3. ASSUME NEW i \in 1 .. Len(ring')
        PROVE  \E j \in 1 .. Len(ring) : ring'[i] = ring[j]
    <3>1. i + 1 \in 1 .. Len(ring) /\ ring'[i] = ring[i + 1]
      BY <2>1
    <3> QED BY <3>1
  <2>4. ASSUME NEW i \in 1 .. Len(ring')
        PROVE  /\ apiPc = "serve" => link[ring'[i].conn] = ring'[i].dev
                                     \/ ring'[i].conn \in discMask
               /\ \A a \in SlotsOn(ring'[i].conn) :
                      filled[a] = ring'[i].dev \/ (apiPc # "drain" /\ ring'[i].conn \in discMask)
    BY <2>3
  <2> QED BY <2>1, <2>2, <2>4
<1>5. CASE DrainEnd
  <2>1. ring' = <<>> /\ Len(<<>>) = 0
    BY <1>5 DEF DrainEnd, ntf
  <2>2. 1 .. Len(ring') = {}
    BY <2>1
  <2> QED BY <2>2
<1>6. CASE NextRound
  <2>1. apiPc = "serve" /\ apiPc' = "disconnects" /\ UNCHANGED <<link, conn, discMask, filled, ring>>
    BY <1>6 DEF NextRound, links, ntf
  <2>2. \A d : SlotsOn(d)' = SlotsOn(d)
    BY <2>1 DEF SlotsOn
  <2> QED BY <2>1, <2>2
<1>7. ASSUME NEW b \in Addr, Connect(b)
      PROVE  RingInv'
  <2>1. PICK c \in ConnId : /\ SlotsOn(c) = {}
                            /\ \/ link[c] = None /\ link' = [link EXCEPT ![c] = b]
                               \/ link' = link
                            /\ conn' = [conn EXCEPT ![b] = c]
                            /\ filled' = [filled EXCEPT ![b] = link'[c]]
    BY <1>7 DEF Connect
  <2>2. apiPc = "serve" /\ apiPc' = "serve" /\ UNCHANGED <<discMask, ring>>
    BY <1>7 DEF Connect, Served, ntf
  <2>3. ASSUME NEW i \in 1 .. Len(ring)
        PROVE  /\ link'[ring[i].conn] = ring[i].dev \/ ring[i].conn \in discMask
               /\ \A a \in SlotsOn(ring[i].conn)' :
                      filled'[a] = ring[i].dev \/ ring[i].conn \in discMask
    <3>0. ring[i] \in Entry
      BY DEF TypeOK
    <3>1. ring[i].conn \in ConnId /\ ring[i].dev \in Addr
      BY <3>0 DEF Entry
    <3>2. /\ link[ring[i].conn] = ring[i].dev \/ ring[i].conn \in discMask
          /\ \A a \in SlotsOn(ring[i].conn) :
                 filled[a] = ring[i].dev \/ ring[i].conn \in discMask
      BY <2>2
    <3>3. link'[ring[i].conn] = ring[i].dev \/ ring[i].conn \in discMask
      BY <2>1, <3>1, <3>2 DEF TypeOK
    <3>4. ASSUME NEW a \in SlotsOn(ring[i].conn)'
          PROVE  filled'[a] = ring[i].dev \/ ring[i].conn \in discMask
      <4>1. a \in Addr /\ conn'[a] = ring[i].conn
        BY <2>2 DEF SlotsOn
      <4>2. CASE a = b
        <5>1. ring[i].conn = c /\ filled'[a] = link'[c]
          BY <2>1, <4>1, <4>2 DEF TypeOK
        <5> QED BY <3>3, <5>1
      <4>3. CASE a # b
        <5>1. conn[a] = ring[i].conn /\ filled'[a] = filled[a]
          BY <2>1, <4>1, <4>3 DEF TypeOK
        <5> QED BY <3>2, <4>1, <5>1 DEF SlotsOn
      <4> QED BY <4>2, <4>3
    <3> QED BY <3>3, <3>4
  <2> QED BY <2>2, <2>3
<1>8. ASSUME NEW b \in Addr, ConnectMissed(b)
      PROVE  RingInv'
  <2>1. PICK c \in ConnId : link[c] = None /\ link' = [link EXCEPT ![c] = b]
    BY <1>8 DEF ConnectMissed
  <2>2. /\ apiPc = "serve" /\ apiPc' = "serve"
        /\ UNCHANGED <<conn, discMask, filled, ring>>
    BY <1>8 DEF ConnectMissed, Served, ntf
  <2>3. \A d : SlotsOn(d)' = SlotsOn(d)
    BY <2>2 DEF SlotsOn
  <2>4. ASSUME NEW i \in 1 .. Len(ring)
        PROVE  link'[ring[i].conn] = ring[i].dev \/ ring[i].conn \in discMask
    <3>1. ring[i] \in Entry
      BY DEF TypeOK
    <3>2. ring[i].conn \in ConnId /\ ring[i].dev \in Addr
      BY <3>1 DEF Entry
    <3>3. link[ring[i].conn] = ring[i].dev \/ ring[i].conn \in discMask
      BY <2>2
    <3> QED BY <2>1, <3>2, <3>3 DEF TypeOK
  <2> QED BY <2>2, <2>3, <2>4
<1>9. ASSUME NEW b \in Addr, Disconnect(b)
      PROVE  RingInv'
  <2>1. /\ conn' = [conn EXCEPT ![b] = None] /\ UNCHANGED <<link, discMask, filled, ring>>
        /\ apiPc = "serve" /\ apiPc' = "serve"
    BY <1>9 DEF Disconnect, Served, ntf
  <2>2. ASSUME NEW i \in 1 .. Len(ring)
        PROVE  SlotsOn(ring[i].conn)' \subseteq SlotsOn(ring[i].conn)
    <3>1. ring[i] \in Entry
      BY DEF TypeOK
    <3>2. ring[i].conn \in ConnId
      BY <3>1 DEF Entry
    <3> QED BY <2>1, <3>2 DEF SlotsOn, TypeOK
  <2> QED BY <2>1, <2>2
<1>10. CASE UNCHANGED vars
  BY <1>10 DEF vars, links, ntf, SlotsOn
<1> QED
  BY <1>1, <1>2, <1>3, <1>4, <1>5, <1>6, <1>7, <1>8, <1>9, <1>10
     DEF Next, Stack, Round, Client

(* With one request in a round and a stack that keeps up, a connected link  *)
(* has its slot.                                                            *)
LEMMA SlotStep ==
    ASSUME TypeOK, SlotInv, [Next]_vars
    PROVE  SlotInv'
<1> SUFFICES ASSUME env = {}
             PROVE  SlotInv'
  BY DEF SlotInv, Next, Stack, Round, Client, OnNotifyInd, OnDisconnect,
         ServiceDisconnects, DrainSend, DrainSkip, DrainEnd, NextRound, Connect,
         ConnectMissed, Disconnect, vars
<1>1. /\ \A c \in ConnId : Connected(c) => link[c] \in Addr /\ conn[link[c]] = c
      /\ \A c \in discMask : c \in ConnId /\ link[c] = None
      /\ \A a \in Addr : filled[a] \in {a, None}
      /\ closing # {} => apiPc = "serve" /\ requests = 1
  BY DEF SlotInv, TypeOK, Connected
<1>2. CASE UNCHANGED <<link, conn, closing, discMask, filled, apiPc, requests>>
  BY <1>2 DEF SlotInv, SlotsOn, Connected
<1>3. ASSUME NEW c \in ConnId, OnDisconnect(c)
      PROVE  SlotInv'
  <2>1. /\ link[c] # None /\ link' = [link EXCEPT ![c] = None]
        /\ closing' = closing \ {c} /\ discMask' = discMask \cup {c}
        /\ UNCHANGED <<conn, filled, apiPc, requests>>
    BY <1>3 DEF OnDisconnect, links, ntf
  <2>2. \A d \in ConnId : Connected(d)' => conn'[link'[d]] = d
    BY <1>1, <2>1 DEF TypeOK, Connected
  <2>3. \A d \in discMask' : link'[d] = None
    BY <1>1, <2>1 DEF TypeOK
  <2>4. apiPc' = "drain" \/ (apiPc' = "serve" /\ requests' = 0) =>
            \A d \in discMask' : SlotsOn(d)' # {}
    <3>1. CASE closing = {}
      <4>1. link[c] \in SlotsOn(c)
        BY <1>1, <2>1, <3>1 DEF SlotsOn, Connected
      <4> QED BY <2>1, <4>1 DEF SlotInv, SlotsOn
    <3>2. CASE closing # {}
      BY <1>1, <2>1, <3>2 DEF TypeOK
    <3> QED BY <3>1, <3>2
  <2>5. closing' # {} => apiPc' = "serve" /\ requests' = 1
    BY <1>1, <2>1
  <2> QED BY <1>1, <2>1, <2>2, <2>3, <2>4, <2>5 DEF SlotInv
<1>4. CASE ServiceDisconnects
  <2>1. /\ conn' = [a \in Addr |-> IF conn[a] \in discMask THEN None ELSE conn[a]]
        /\ discMask' = {} /\ apiPc = "disconnects" /\ UNCHANGED <<link, closing, filled>>
    BY <1>4 DEF ServiceDisconnects
  <2>2. closing' = {}
    BY <1>1, <2>1
  <2>3. \A d \in ConnId : Connected(d)' => conn'[link'[d]] = d
    BY <1>1, <2>1, <2>2 DEF Connected
  <2> QED BY <1>1, <2>1, <2>2, <2>3 DEF SlotInv
<1>5. CASE DrainEnd
  <2>1. closing = {}
    BY <1>1, <1>5 DEF DrainEnd
  <2> QED BY <1>5, <2>1 DEF DrainEnd, links, SlotInv, SlotsOn, Connected
<1>6. CASE NextRound
  BY <1>6 DEF NextRound, links, SlotInv, Connected
<1>7. ASSUME NEW a \in Addr, Connect(a)
      PROVE  SlotInv'
  <2>1. /\ apiPc = "serve" /\ requests = 0 /\ requests' = 1 /\ apiPc' = "serve"
        /\ closing = {} /\ UNCHANGED <<closing, discMask>>
    BY <1>1, <1>7 DEF Connect, Served, TypeOK
  <2>2. PICK c \in ConnId : /\ SlotsOn(c) = {}
                            /\ \/ link[c] = None /\ ~Linked(a)
                                  /\ link' = [link EXCEPT ![c] = a]
                               \/ Connected(c) /\ UNCHANGED link
                            /\ conn' = [conn EXCEPT ![a] = c]
                            /\ filled' = [filled EXCEPT ![a] = link'[c]]
    BY <1>7 DEF Connect
  <2>3. /\ link[c] = None /\ ~Linked(a) /\ link' = [link EXCEPT ![c] = a]
    BY <1>1, <2>2 DEF SlotsOn
  <2>4. c \notin discMask
    BY <2>1, <2>2 DEF SlotInv
  <2>5. ASSUME NEW d \in ConnId, Connected(d)'
        PROVE  conn'[link'[d]] = d
    <3>1. CASE d = c
      BY <2>2, <2>3, <3>1 DEF TypeOK
    <3>2. CASE d # c
      <4>1. link'[d] = link[d] /\ Connected(d)
        BY <2>1, <2>3, <2>5, <3>2 DEF TypeOK, Connected
      <4>2. link[d] \in Addr /\ conn[link[d]] = d /\ link[d] # a
        BY <1>1, <2>3, <4>1 DEF Linked
      <4> QED BY <2>2, <4>1, <4>2 DEF TypeOK
    <3> QED BY <3>1, <3>2
  <2>6. \A d \in discMask' : link'[d] = None
    BY <1>1, <2>1, <2>3, <2>4 DEF TypeOK
  <2>7. \A b \in Addr : filled'[b] \in {b, None}
    BY <1>1, <2>2, <2>3 DEF TypeOK
  <2> QED BY <2>1, <2>5, <2>6, <2>7 DEF SlotInv
<1>8. ASSUME NEW a \in Addr, Disconnect(a)
      PROVE  SlotInv'
  <2>1. /\ requests' = 1 /\ apiPc' = "serve" /\ conn[a] # None
        /\ conn' = [conn EXCEPT ![a] = None]
        /\ closing' = IF link[conn[a]] # None THEN closing \cup {conn[a]} ELSE closing
        /\ UNCHANGED <<link, discMask, filled>>
    BY <1>8 DEF Disconnect, Served
  <2>2. ASSUME NEW d \in ConnId, Connected(d)'
        PROVE  conn'[link'[d]] = d
    <3>1. link'[d] = link[d] /\ Connected(d) /\ (link[conn[a]] # None => d # conn[a])
      BY <2>1, <2>2 DEF Connected
    <3>2. link[d] \in Addr /\ conn[link[d]] = d /\ link[d] # None
      BY <1>1, <3>1 DEF Connected
    <3>3. link[d] # a
      BY <3>1, <3>2
    <3> QED BY <2>1, <3>1, <3>2, <3>3 DEF TypeOK
  <2> QED BY <1>1, <2>1, <2>2 DEF SlotInv
<1>9. ASSUME NEW a \in Addr, ConnectMissed(a)
      PROVE  FALSE
  BY <1>9 DEF ConnectMissed
<1> QED
  BY <1>2, <1>3, <1>4, <1>5, <1>6, <1>7, <1>8, <1>9
     DEF Next, Stack, Round, Client, OnNotifyInd, DrainSend, DrainSkip, vars, links

(* A message 79 comes over the link that filled the slot of the address it  *)
(* names, although the conn id of the entry may have changed hands, and     *)
(* however requests come and late links come up; and when one request comes *)
(* in a round and the stack keeps up, that link is the address's own.       *)
THEOREM Attribution == Spec => []OwnDevice
<1>1. ASSUME Init
      PROVE  LinkInv /\ RingInv /\ SlotInv /\ OwnDevice
  <2>1. /\ Len(<<>>) = 0 /\ \A a \in Addr : conn[a] = None /\ filled[a] = None
        /\ apiPc = "disconnects" /\ closing = {} /\ discMask = {}
        /\ \A c \in ConnId : link[c] = None
        /\ ring = <<>> /\ streamed = <<>> /\ DOMAIN streamed = {}
    BY <1>1 DEF Init
  <2>2. 1 .. Len(ring) = {}
    BY <2>1
  <2> QED BY <2>1, <2>2 DEF LinkInv, RingInv, SlotInv, Connected, OwnDevice
<1>2. ASSUME TypeOK, LinkInv, RingInv, SlotInv, OwnDevice, [Next]_vars
      PROVE  OwnDevice'
  <2>0. env' = {} => \A a \in Addr : filled'[a] \in {a, None}
    BY <1>2, SlotStep DEF SlotInv
  <2>1. CASE DrainSend
    <3>1. PICK m \in Message : /\ streamed' = Append(streamed, m)
                               /\ m.dev = Head(ring).dev
                               /\ m.address \in SlotsOn(Head(ring).conn)
                               /\ m.of = filled[m.address]
      BY <1>2, <2>1, SentMessage
    <3>2. m.dev = m.of
      <4>1. Head(ring) = ring[1] /\ 1 \in 1 .. Len(ring) /\ apiPc = "drain"
        BY <1>2, <2>1, Left
      <4> QED BY <1>2, <3>1, <4>1 DEF RingInv
    <3>3. streamed \in Seq(Message) /\ DOMAIN streamed = 1 .. Len(streamed)
      BY <1>2 DEF TypeOK
    <3>4. /\ streamed' \in Seq(Message) /\ Len(streamed') = Len(streamed) + 1
          /\ Len(streamed) \in Nat
          /\ \A i \in 1 .. Len(streamed) + 1 :
                 streamed'[i] = IF i = Len(streamed) + 1 THEN m ELSE streamed[i]
      BY <3>1, <3>3, Added
    <3>5. DOMAIN streamed' = 1 .. Len(streamed) + 1
      BY <3>4
    <3>6. ASSUME NEW i \in DOMAIN streamed'
          PROVE  streamed'[i].dev = streamed'[i].of
      <4>1. CASE i = Len(streamed) + 1
        BY <3>2, <3>4, <3>5, <4>1
      <4>2. CASE i # Len(streamed) + 1
        <5>1. i \in DOMAIN streamed /\ streamed'[i] = streamed[i]
          BY <3>3, <3>4, <3>5, <4>2
        <5> QED BY <1>2, <5>1 DEF OwnDevice
      <4> QED BY <4>1, <4>2
    <3> QED BY <2>0, <3>6 DEF OwnDevice
  <2>2. CASE streamed' = streamed
    BY <1>2, <2>0, <2>2 DEF OwnDevice
  <2> QED
    BY <1>2, <2>1, <2>2
       DEF Next, Stack, Round, Client, OnNotifyInd, OnDisconnect,
           ServiceDisconnects, DrainSkip, DrainEnd, NextRound, Connect, ConnectMissed,
           Disconnect, vars, ntf
<1>3. TypeOK /\ LinkInv /\ RingInv /\ SlotInv /\ OwnDevice /\ [Next]_vars
          => LinkInv' /\ RingInv' /\ SlotInv' /\ OwnDevice'
  BY <1>2, LinkStep, RingStep, SlotStep
<1> QED BY <1>1, <1>3, TypeCorrect, PTL DEF Spec

-----------------------------------------------------------------------------
(* Accounting.                                                              *)

(* The numbers in a sequence, when one is added or taken.                   *)
LEMMA NumbersAdded ==
    ASSUME NEW S, NEW s \in Seq(S), NEW x \in S
    PROVE  Numbers(Append(s, x)) = Numbers(s) \cup {x.n}
<1> DEFINE t == Append(s, x)
<1>1. /\ t \in Seq(S) /\ Len(t) = Len(s) + 1 /\ Len(s) \in Nat
      /\ \A i \in 1 .. Len(s) + 1 : t[i] = IF i = Len(s) + 1 THEN x ELSE s[i]
  BY Added
<1> HIDE DEF t
<1>2. DOMAIN t = 1 .. Len(s) + 1 /\ DOMAIN s = 1 .. Len(s)
  BY <1>1
<1>3. ASSUME NEW m \in Numbers(t)
      PROVE  m \in Numbers(s) \cup {x.n}
  <2>1. PICK i \in 1 .. Len(s) + 1 : m = t[i].n
    BY <1>2 DEF Numbers
  <2>2. CASE i = Len(s) + 1
    BY <1>1, <2>1, <2>2
  <2>3. CASE i # Len(s) + 1
    <3>1. i \in DOMAIN s /\ m = s[i].n
      BY <1>1, <1>2, <2>1, <2>3
    <3> QED BY <3>1 DEF Numbers
  <2> QED BY <2>2, <2>3
<1>4. ASSUME NEW i \in DOMAIN s
      PROVE  s[i].n \in Numbers(t)
  <2>1. i \in DOMAIN t /\ t[i] = s[i]
    BY <1>1, <1>2
  <2> QED BY <2>1 DEF Numbers
<1>5. x.n \in Numbers(t)
  <2>1. Len(s) + 1 \in DOMAIN t /\ t[Len(s) + 1] = x
    BY <1>1, <1>2
  <2> QED BY <2>1 DEF Numbers
<1>6. Numbers(s) \subseteq Numbers(t)
  BY <1>4 DEF Numbers
<1> QED BY <1>3, <1>5, <1>6 DEF t

LEMMA NumbersTaken ==
    ASSUME NEW S, NEW s \in Seq(S), s # <<>>
    PROVE  Numbers(s) = Numbers(Tail(s)) \cup {Head(s).n}
<1> DEFINE t == Tail(s)
<1>1. /\ Head(s) = s[1] /\ Len(s) \in Nat \ {0} /\ t \in Seq(S) /\ Len(t) = Len(s) - 1
      /\ \A i \in 1 .. Len(s) - 1 : t[i] = s[i + 1]
  BY Taken
<1> HIDE DEF t
<1>2. DOMAIN t = 1 .. Len(s) - 1 /\ DOMAIN s = 1 .. Len(s)
  BY <1>1
<1>3. ASSUME NEW m \in Numbers(s)
      PROVE  m \in Numbers(t) \cup {Head(s).n}
  <2>1. PICK i \in 1 .. Len(s) : m = s[i].n
    BY <1>2 DEF Numbers
  <2>2. CASE i = 1
    BY <1>1, <2>1, <2>2
  <2>3. CASE i # 1
    <3>1. i - 1 \in DOMAIN t /\ t[i - 1] = s[i]
      BY <1>1, <1>2, <2>3
    <3> QED BY <2>1, <3>1 DEF Numbers
  <2> QED BY <2>2, <2>3
<1>4. ASSUME NEW i \in DOMAIN t
      PROVE  t[i].n \in Numbers(s)
  <2>1. i + 1 \in DOMAIN s /\ t[i] = s[i + 1]
    BY <1>1, <1>2
  <2> QED BY <2>1 DEF Numbers
<1>5. Head(s).n \in Numbers(s)
  <2>1. 1 \in DOMAIN s /\ Head(s) = s[1]
    BY <1>1, <1>2
  <2> QED BY <2>1 DEF Numbers
<1>6. Numbers(t) \subseteq Numbers(s)
  BY <1>4 DEF Numbers
<1> QED BY <1>3, <1>5, <1>6 DEF t

(* Its order, when one is added or taken.                                   *)
LEMMA GrowingAdded ==
    ASSUME NEW S, NEW s \in Seq(S), NEW x \in S,
           Growing(s), \A i \in 1 .. Len(s) : s[i].n < x.n
    PROVE  Growing(Append(s, x))
<1> DEFINE t == Append(s, x)
<1>1. /\ Len(t) = Len(s) + 1 /\ Len(s) \in Nat
      /\ \A i \in 1 .. Len(s) + 1 : t[i] = IF i = Len(s) + 1 THEN x ELSE s[i]
  BY Added
<1> HIDE DEF t
<1>2. ASSUME NEW i \in 1 .. Len(t), NEW j \in 1 .. Len(t), i < j
      PROVE  t[i].n < t[j].n
  <2>1. i \in 1 .. Len(s) /\ t[i] = s[i]
    BY <1>1, <1>2
  <2>2. CASE j = Len(s) + 1
    BY <1>1, <2>1, <2>2
  <2>3. CASE j # Len(s) + 1
    <3>1. j \in 1 .. Len(s) /\ t[j] = s[j]
      BY <1>1, <2>3
    <3> QED BY <1>2, <2>1, <3>1 DEF Growing
  <2> QED BY <2>2, <2>3
<1>3. Growing(t)
  BY <1>2 DEF Growing
<1> QED BY <1>3 DEF t

LEMMA GrowingTaken ==
    ASSUME NEW S, NEW s \in Seq(S), s # <<>>, Growing(s)
    PROVE  /\ Growing(Tail(s))
           /\ \A i \in 1 .. Len(Tail(s)) : Head(s).n < Tail(s)[i].n
<1> DEFINE t == Tail(s)
<1>1. /\ Head(s) = s[1] /\ Len(s) \in Nat \ {0} /\ Len(t) = Len(s) - 1
      /\ \A i \in 1 .. Len(s) - 1 : t[i] = s[i + 1]
  BY Taken
<1> HIDE DEF t
<1>2. ASSUME NEW i \in 1 .. Len(t)
      PROVE  /\ Head(s).n < t[i].n
             /\ \A j \in 1 .. Len(t) : i < j => t[i].n < t[j].n
  <2>1. \A j \in 1 .. Len(t) : j + 1 \in 1 .. Len(s) /\ t[j] = s[j + 1]
    BY <1>1
  <2>2. Head(s).n < t[i].n
    BY <1>1, <2>1 DEF Growing
  <2>3. ASSUME NEW j \in 1 .. Len(t), i < j
        PROVE  t[i].n < t[j].n
    <3>1. i + 1 < j + 1
      BY <1>1, <2>3
    <3> QED BY <2>1, <3>1 DEF Growing
  <2> QED BY <2>2, <2>3
<1>3. Growing(t)
  BY <1>2 DEF Growing
<1> QED BY <1>2, <1>3 DEF t

LEMMA Finite ==
    ASSUME TypeOK
    PROVE  /\ IsFiniteSet(dropped) /\ IsFiniteSet(skipped)
           /\ Cardinality(dropped) \in Nat /\ Cardinality(skipped) \in Nat
           /\ Len(ring) \in Nat /\ Len(streamed) \in Nat /\ heard \in Nat
<1>1. IsFiniteSet(Ntf)
  BY FS_Interval DEF Ntf
<1> QED BY <1>1, FS_Subset, FS_CardinalityType DEF TypeOK

(* A notification comes in: it is the youngest.                             *)
LEMMA HeardAccounted ==
    ASSUME TypeOK, EachNotifyAccounted, OrderInv, NEW c \in ConnId, OnNotifyInd(c)
    PROVE  EachNotifyAccounted' /\ OrderInv'
<1> DEFINE e == [n |-> heard + 1, dev |-> link[c], conn |-> c]
<1>1. /\ heard \in Nat /\ heard' = heard + 1 /\ UNCHANGED <<skipped, streamed>>
      /\ 1 .. heard' = 1 .. heard \cup {heard + 1}
  <2>1. heard \in Nat /\ heard' = heard + 1 /\ UNCHANGED <<skipped, streamed>>
    BY Heard
  <2> QED BY <2>1
<1>2. /\ \A i \in 1 .. Len(ring) : ring[i].n \in 1 .. heard
      /\ \A i \in 1 .. Len(streamed) : streamed[i].n \in 1 .. heard
      /\ dropped \subseteq 1 .. heard /\ skipped \subseteq 1 .. heard
  BY DEF EachNotifyAccounted, Numbers, TypeOK
<1>3. CASE /\ ring' = Append(ring, e) /\ e \in Entry /\ UNCHANGED dropped
  <2>1. ring \in Seq(Entry)
    BY DEF TypeOK
  <2>2. Numbers(ring') = Numbers(ring) \cup {heard + 1}
    BY <1>3, <2>1, NumbersAdded
  <2>3. /\ Len(ring') = Len(ring) + 1
        /\ \A i \in 1 .. Len(ring) + 1 :
               ring'[i] = IF i = Len(ring) + 1 THEN e ELSE ring[i]
    BY <1>3, <2>1, Added
  <2>4. \A i \in 1 .. Len(ring) : ring[i].n < e.n
    BY <1>1, <1>2
  <2>5. Growing(ring')
    BY <1>3, <2>1, <2>4, GrowingAdded DEF OrderInv
  <2>6. EachNotifyAccounted'
    <3>1. 1 .. heard' = UNION {Numbers(ring'), Numbers(streamed), dropped, skipped}
      BY <1>1, <2>2 DEF EachNotifyAccounted
    <3>2. heard' = Len(ring') + Len(streamed) + Cardinality(dropped) + Cardinality(skipped)
      BY <1>1, <2>3, Finite DEF EachNotifyAccounted
    <3> QED BY <1>1, <1>3, <3>1, <3>2 DEF EachNotifyAccounted
  <2>7. ASSUME NEW i \in 1 .. Len(ring')
        PROVE  /\ \A j \in 1 .. Len(streamed) : streamed[j].n < ring'[i].n
               /\ \A m \in skipped : m < ring'[i].n
    <3>1. CASE i = Len(ring) + 1
      <4>1. ring'[i].n = heard + 1
        BY <2>3, <3>1
      <4> QED BY <1>1, <1>2, <4>1
    <3>2. CASE i # Len(ring) + 1
      <4>1. i \in 1 .. Len(ring) /\ ring'[i] = ring[i]
        BY <2>3, <3>2, Finite
      <4> QED BY <4>1 DEF OrderInv
    <3> QED BY <3>1, <3>2
  <2> QED BY <1>1, <2>5, <2>6, <2>7 DEF OrderInv
<1>4. CASE dropped' = dropped \cup {heard + 1} /\ ring' = ring
  <2>1. heard + 1 \notin dropped
    BY <1>1, <1>2
  <2>2. Cardinality(dropped') = Cardinality(dropped) + 1
    BY <1>4, <2>1, Finite, FS_AddElement
  <2>3. 1 .. heard' = UNION {Numbers(ring), Numbers(streamed), dropped', skipped}
    BY <1>1, <1>4 DEF EachNotifyAccounted
  <2>4. heard' = Len(ring) + Len(streamed) + Cardinality(dropped') + Cardinality(skipped)
    BY <1>1, <2>2, Finite DEF EachNotifyAccounted
  <2> QED BY <1>1, <1>4, <2>3, <2>4 DEF EachNotifyAccounted, OrderInv
<1> QED BY <1>3, <1>4, Heard

(* The oldest leaves the ring, sent or skipped.                             *)
LEMMA LeftAccounted ==
    ASSUME TypeOK, EachNotifyAccounted, OrderInv, DrainSend \/ DrainSkip
    PROVE  EachNotifyAccounted' /\ OrderInv'
<1> DEFINE h == Head(ring).n
<1>1. /\ ring \in Seq(Entry) /\ ring # <<>> /\ ring' = Tail(ring)
      /\ Len(ring') = Len(ring) - 1 /\ UNCHANGED <<heard, dropped>>
      /\ Head(ring) = ring[1] /\ 1 \in 1 .. Len(ring) /\ h \in Nat
  BY Left DEF TypeOK, Ntf
<1>2. Numbers(ring) = Numbers(ring') \cup {h}
  BY <1>1, NumbersTaken
<1>3. Growing(ring') /\ \A i \in 1 .. Len(ring') : h < ring'[i].n
  BY <1>1, GrowingTaken DEF OrderInv
<1>4. /\ \A j \in 1 .. Len(streamed) : streamed[j].n < h
      /\ \A m \in skipped : m < h
  BY <1>1 DEF OrderInv
<1>5. ASSUME NEW i \in 1 .. Len(ring')
      PROVE  /\ \A j \in 1 .. Len(streamed) : streamed[j].n < ring'[i].n
             /\ \A m \in skipped : m < ring'[i].n
  <2>1. PICK k \in 1 .. Len(ring) : ring'[i] = ring[k]
    <3>1. i + 1 \in 1 .. Len(ring) /\ ring'[i] = ring[i + 1]
      BY <1>1, Left, Finite
    <3> QED BY <3>1
  <2> QED BY <2>1 DEF OrderInv
<1> HIDE DEF h
<1>6. CASE DrainSend
  <2>1. PICK m \in Message : streamed' = Append(streamed, m) /\ m.n = h
    BY <1>6, SentMessage DEF h
  <2>2. streamed \in Seq(Message) /\ skipped' = skipped
    BY <1>6, SentMessage DEF TypeOK
  <2>3. Numbers(streamed') = Numbers(streamed) \cup {h} /\ Growing(streamed')
    BY <1>4, <2>1, <2>2, NumbersAdded, GrowingAdded DEF EachNotifyAccounted
  <2>4. /\ Len(streamed') = Len(streamed) + 1
        /\ \A j \in 1 .. Len(streamed) + 1 :
               streamed'[j] = IF j = Len(streamed) + 1 THEN m ELSE streamed[j]
    BY <2>1, <2>2, Added
  <2>5. 1 .. heard = UNION {Numbers(ring'), Numbers(streamed'), dropped, skipped}
    BY <1>2, <2>3 DEF EachNotifyAccounted
  <2>6. heard = Len(ring') + Len(streamed') + Cardinality(dropped) + Cardinality(skipped)
    BY <1>1, <2>4, Finite DEF EachNotifyAccounted
  <2>7. ASSUME NEW i \in 1 .. Len(ring'), NEW j \in 1 .. Len(streamed')
        PROVE  streamed'[j].n < ring'[i].n
    <3>1. CASE j = Len(streamed) + 1
      BY <1>3, <2>1, <2>4, <3>1
    <3>2. CASE j # Len(streamed) + 1
      <4>1. j \in 1 .. Len(streamed) /\ streamed'[j] = streamed[j]
        BY <2>4, <3>2, Finite
      <4> QED BY <1>5, <4>1
    <3> QED BY <3>1, <3>2
  <2>8. EachNotifyAccounted'
    BY <1>1, <2>2, <2>3, <2>5, <2>6 DEF EachNotifyAccounted
  <2> QED BY <1>3, <1>5, <2>2, <2>7, <2>8 DEF OrderInv
<1>7. CASE DrainSkip
  <2>1. skipped' = skipped \cup {h} /\ streamed' = streamed
    BY <1>7 DEF DrainSkip, h
  <2>2. h \notin skipped
    BY <1>1, <1>4 DEF h
  <2>3. Cardinality(skipped') = Cardinality(skipped) + 1
    BY <2>1, <2>2, Finite, FS_AddElement
  <2>4. 1 .. heard = UNION {Numbers(ring'), Numbers(streamed), dropped, skipped'}
    BY <1>2, <2>1 DEF EachNotifyAccounted
  <2>5. heard = Len(ring') + Len(streamed) + Cardinality(dropped) + Cardinality(skipped')
    BY <1>1, <2>3, Finite DEF EachNotifyAccounted
  <2>6. EachNotifyAccounted'
    BY <1>1, <2>1, <2>4, <2>5 DEF EachNotifyAccounted
  <2> QED BY <1>3, <1>5, <2>1, <2>6 DEF OrderInv
<1> QED BY <1>6, <1>7

(* Each notification is in the ring, sent, dropped or skipped, once, and    *)
(* what is sent is in the order of the radio, for a ring of any size.       *)
THEOREM Accounting == Spec => []EachNotifyAccounted
<1>1. ASSUME Init
      PROVE  EachNotifyAccounted /\ OrderInv
  <2>1. /\ ring = <<>> /\ streamed = <<>> /\ dropped = {} /\ skipped = {} /\ heard = 0
        /\ Len(<<>>) = 0
    BY <1>1 DEF Init
  <2>2. 1 .. Len(ring) = {} /\ 1 .. Len(streamed) = {} /\ 1 .. heard = {}
    BY <2>1
  <2>3. Numbers(ring) = {} /\ Numbers(streamed) = {}
    BY <2>1 DEF Numbers
  <2>4. heard = Len(ring) + Len(streamed) + Cardinality(dropped) + Cardinality(skipped)
    BY <2>1, FS_EmptySet
  <2> QED BY <2>1, <2>2, <2>3, <2>4 DEF EachNotifyAccounted, OrderInv, Growing
<1>2. ASSUME TypeOK, EachNotifyAccounted, OrderInv, [Next]_vars
      PROVE  EachNotifyAccounted' /\ OrderInv'
  <2>1. CASE UNCHANGED ntf
    BY <1>2, <2>1 DEF ntf, EachNotifyAccounted, OrderInv
  <2> QED
    BY <1>2, <2>1, HeardAccounted, LeftAccounted
       DEF Next, Stack, Round, Client, OnDisconnect, ServiceDisconnects, DrainEnd,
           NextRound, Connect, ConnectMissed, Disconnect, vars
<1> QED BY <1>1, <1>2, TypeCorrect, PTL DEF Spec

-----------------------------------------------------------------------------
(* A connected device is heard.                                             *)

(* With one request in a round, what the API task skips is of a device that *)
(* has gone (drainNotifies, esphome_api.cpp:669-683): the conn id of a link *)
(* that is up is in the slot of its device.                                 *)
THEOREM Hearing == Spec => ConnectedIsHeard
<1> DEFINE Heeded == env = {} => \A n \in skipped' \ skipped :
                                    link[Head(ring).conn] # Head(ring).dev
<1>1. Init => SlotInv
  BY DEF Init, SlotInv, Connected
<1>2. ASSUME TypeOK, SlotInv, [Next]_vars
      PROVE  [Heeded]_vars
  <2>1. CASE skipped' = skipped
    BY <2>1
  <2>2. CASE DrainSkip
    <3>1. Head(ring) \in Entry
      BY <1>2, <2>2, Left
    <3>2. Head(ring).dev \in Addr /\ Head(ring).conn \in ConnId
      BY <3>1 DEF Entry
    <3>3. SlotsOn(Head(ring).conn) = {}
      BY <2>2 DEF DrainSkip
    <3>4. env = {} => link[Head(ring).conn] # Head(ring).dev
      <4>1. apiPc = "drain"
        BY <2>2 DEF DrainSkip
      <4>2. env = {} => closing = {}
        BY <1>2, <4>1 DEF SlotInv
      <4> QED BY <1>2, <3>2, <3>3, <4>2 DEF SlotInv, SlotsOn, Connected
    <3> QED BY <3>4
  <2> QED
    BY <1>2, <2>1, <2>2
       DEF Next, Stack, Round, Client, OnNotifyInd, OnDisconnect, ServiceDisconnects,
           DrainSend, DrainEnd, NextRound, Connect, ConnectMissed, Disconnect, vars, ntf
<1>3. TypeOK /\ SlotInv /\ [Next]_vars => SlotInv'
  BY SlotStep
<1>4. TypeOK /\ SlotInv /\ [Next]_vars => [Heeded]_vars
  BY <1>2
<1> QED BY <1>1, <1>3, <1>4, TypeCorrect, PTL DEF Spec, ConnectedIsHeard

=============================================================================
