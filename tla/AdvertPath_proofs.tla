-------------------------- MODULE AdvertPath_proofs --------------------------
(***************************************************************************)
(* The way of an advert, for rings and batches of any size: the types, and  *)
(* that each advert heard is accounted for and sent in the order of the     *)
(* radio.                                                                   *)
(***************************************************************************)
EXTENDS AdvertPath, SequenceTheorems, TLAPS

USE RoomAssumption, BoundAssumption

LEMMA Numbers == Item \subseteq Nat
BY DEF Item

(* A sequence that grows is still one with a greater number at its end, and *)
(* without its first.                                                       *)
LEMMA AppendGrows ==
    ASSUME NEW s \in Seq(Item), NEW x \in Item,
           Increasing(s), \A i \in 1 .. Len(s) : s[i] < x
    PROVE  Increasing(Append(s, x))
<1> DEFINE t == Append(s, x)
<1>1. /\ Len(t) = Len(s) + 1 /\ t[Len(s) + 1] = x
      /\ \A i \in 1 .. Len(s) : t[i] = s[i]
  BY AppendProperties
<1>2. Len(s) \in Nat
  OBVIOUS
<1>3. ASSUME NEW i \in 1 .. Len(t), NEW j \in 1 .. Len(t), i < j
      PROVE  t[i] < t[j]
  <2>1. i \in 1 .. Len(s)
    BY <1>1, <1>2, <1>3
  <2>2. CASE j = Len(s) + 1
    BY <1>1, <2>1, <2>2
  <2>3. CASE j # Len(s) + 1
    <3>1. j \in 1 .. Len(s)
      BY <1>1, <1>2, <2>3
    <3> QED BY <1>1, <1>3, <2>1, <3>1 DEF Increasing
  <2> QED BY <2>2, <2>3
<1> QED BY <1>3 DEF Increasing

LEMMA TailGrows ==
    ASSUME NEW s \in Seq(Item), s # <<>>, Increasing(s)
    PROVE  Increasing(Tail(s)) /\ \A i \in 1 .. Len(Tail(s)) : Head(s) < Tail(s)[i]
<1>1. Head(s) = s[1] /\ Len(s) \in Nat \ {0}
  BY EmptySeq
<1>2. Len(Tail(s)) = Len(s) - 1 /\ \A i \in 1 .. Len(Tail(s)) : Tail(s)[i] = s[i + 1]
  BY HeadTailProperties
<1> QED BY <1>1, <1>2 DEF Increasing

(* The number of the last advert loop() has taken, if any.                  *)
LEMMA LastTyped ==
    ASSUME TypeOK
    PROVE  /\ LastDrained \in Nat
           /\ drained # <<>> => LastDrained = Last(drained) /\ Last(drained) \in Item
<1>1. ASSUME drained # <<>>
      PROVE  Last(drained) \in Item
  <2>1. drained \in Seq(Item) /\ Len(drained) \in 1 .. Len(drained)
    BY <1>1, EmptySeq DEF TypeOK
  <2> QED BY <2>1 DEF Last
<1> QED BY <1>1, Numbers DEF LastDrained

(* One step of the radio, a task or the client keeps the types.             *)
LEMMA TypeStep ==
    ASSUME TypeOK, loopPc = "push" => drained # <<>>, [Next]_vars
    PROVE  TypeOK'
<1> USE DEF TypeOK
<1>1. CASE Hear
  <2>1. heard + 1 \in Item /\ heard + 1 \in 0 .. MaxHeard
    BY <1>1 DEF Hear, Item
  <2>2. Append(queue, heard + 1) \in Seq(Item)
        /\ Len(Append(queue, heard + 1)) = Len(queue) + 1
    BY <2>1, AppendProperties
  <2>3. CASE Queue!Accept(heard + 1)
    <3>1. queue' \in Seq(Item) /\ Len(queue') <= Room
      BY <2>2, <2>3 DEF Queue!Accept
    <3> QED BY <1>1, <2>1, <2>3, <3>1 DEF Hear, loop, ring, api, Queue!Accept
  <2>4. CASE Queue!Refuse
    BY <1>1, <2>1, <2>4 DEF Hear, loop, ring, api, Queue!Refuse
  <2> QED BY <1>1, <2>3, <2>4 DEF Hear
<1>2. CASE Drain
  <2>1. Head(queue) \in Item /\ Tail(queue) \in Seq(Item) /\ Len(Tail(queue)) = Len(queue) - 1
    BY <1>2, HeadTailProperties DEF Drain, Queue!Take
  <2> QED BY <1>2, <2>1 DEF Drain, ring, api, Queue!Take
<1>3. CASE Wanted
  BY <1>3 DEF Wanted, radio, ring, api
<1>4. CASE Unwanted
  BY <1>4 DEF Unwanted, radio, ring, api
<1>5. CASE Push
  <2>1. Last(drained) \in Item
    BY <1>5, LastTyped DEF Push
  <2>2. Append(adv, Last(drained)) \in Seq(Item)
        /\ Len(Append(adv, Last(drained))) = Len(adv) + 1
    BY <2>1, AppendProperties
  <2>3. CASE Adv!Accept(Last(drained))
    <3>1. adv' \in Seq(Item) /\ Len(adv') <= Room
      BY <2>2, <2>3 DEF Adv!Accept
    <3> QED BY <1>5, <2>3, <3>1 DEF Push, radio, api, Adv!Accept
  <2>4. CASE Adv!Refuse
    BY <1>5, <2>4 DEF Push, radio, api, Adv!Refuse
  <2> QED BY <1>5, <2>3, <2>4 DEF Push
<1>6. CASE FlushBegin
  BY <1>6 DEF FlushBegin, radio, loop, ring
<1>7. CASE FlushAdd
  <2>1. Head(adv) \in Item /\ Tail(adv) \in Seq(Item) /\ Len(Tail(adv)) = Len(adv) - 1
    BY <1>7, HeadTailProperties DEF FlushAdd, Adv!Take
  <2>2. /\ Append(batch, Head(adv)) \in Seq(Item)
        /\ Len(Append(batch, Head(adv))) = Len(batch) + 1
        /\ <<Head(adv)>> \in Seq(Item) /\ Len(<<Head(adv)>>) = 1
        /\ streamed \o batch \in Seq(Item)
    BY <2>1, AppendProperties, ConcatProperties
  <2>3. batch' \in Seq(Item) /\ Len(batch') <= BatchMax /\ streamed' \in Seq(Item)
    <3>1. CASE Len(batch) < BatchMax
      <4>1. batch' = Append(batch, Head(adv)) /\ streamed' = streamed
        BY <1>7, <3>1, Zenon DEF FlushAdd
      <4>2. Len(batch') <= BatchMax
        BY <2>2, <3>1, <4>1
      <4> QED BY <2>2, <4>1, <4>2
    <3>2. CASE ~(Len(batch) < BatchMax)
      <4>1. batch' = <<Head(adv)>> /\ streamed' = streamed \o batch
        BY <1>7, <3>2, Zenon DEF FlushAdd
      <4>2. Len(batch') <= BatchMax
        BY <2>2, <4>1
      <4> QED BY <2>2, <4>1, <4>2
    <3> QED BY <3>1, <3>2
  <2>4. flushed' \in Seq(Item) /\ adv' \in Seq(Item) /\ Len(adv') <= Room
    BY <1>7, <2>1, AppendProperties DEF FlushAdd, Adv!Take
  <2> QED BY <1>7, <2>3, <2>4 DEF FlushAdd, radio, loop, Adv!Take
<1>8. CASE FlushEnd
  BY <1>8 DEF FlushEnd, radio, loop, ring
<1>9. CASE Client
  BY <1>9 DEF Client, Accept, Subscribe, Unsubscribe, CloseClient, radio, loop, ring
<1>10. CASE UNCHANGED vars
  BY <1>10 DEF vars, radio, loop, ring, api
<1> QED
  BY <1>1, <1>2, <1>3, <1>4, <1>5, <1>6, <1>7, <1>8, <1>9, <1>10 DEF Next, LoopStep, Flush

-----------------------------------------------------------------------------
(* Counting.                                                                *)

(* What a consumer takes from a ring.                                       *)
LEMMA Taken ==
    ASSUME NEW s \in Seq(Item), s # <<>>
    PROVE  /\ Head(s) = s[1] /\ Head(s) \in Item /\ Len(s) \in Nat \ {0}
           /\ Tail(s) \in Seq(Item) /\ Len(Tail(s)) = Len(s) - 1
           /\ \A i \in 1 .. Len(s) - 1 : Tail(s)[i] = s[i + 1]
BY EmptySeq, HeadTailProperties

LEMMA Lengths ==
    ASSUME TypeOK
    PROVE  /\ Len(queue) \in Nat /\ Len(drained) \in Nat /\ Len(adv) \in Nat
           /\ Len(flushed) \in Nat
           /\ heard \in Nat /\ queueLost \in Nat /\ advLost \in Nat /\ unwanted \in Nat
BY DEF TypeOK

(* Each step moves an advert from one term of the sums to another.          *)
LEMMA CountStep ==
    ASSUME TypeOK, EachCounted, loopPc = "push" => drained # <<>>, [Next]_vars
    PROVE  EachCounted'
<1> DEFINE inQueue == Len(queue)
           out == Len(drained)
           inAdv == Len(adv)
           sent == Len(flushed)
<1>0. /\ inQueue \in Nat /\ out \in Nat /\ inAdv \in Nat /\ sent \in Nat
      /\ heard \in Nat /\ queueLost \in Nat /\ advLost \in Nat /\ unwanted \in Nat
      /\ heard = out + inQueue + queueLost
      /\ out = sent + inAdv + advLost + unwanted + InHand
  BY Lengths DEF EachCounted
<1>1. /\ heard' = out' + inQueue' + queueLost'
      /\ out' = sent' + inAdv' + advLost' + unwanted' + InHand'
      => EachCounted'
  BY DEF EachCounted
<1> HIDE DEF inQueue, out, inAdv, sent
<1>2. CASE Queue!Accept(heard + 1) /\ Hear
  <2>1. /\ queue \in Seq(Item) /\ heard + 1 \in Item /\ queue' = Append(queue, heard + 1)
    BY <1>2 DEF Hear, Queue!Accept, TypeOK, Item
  <2>2. inQueue' = inQueue + 1
    BY <2>1, AppendProperties DEF inQueue
  <2>3. heard' = heard + 1 /\ out' = out /\ queueLost' = queueLost
    BY <1>2 DEF Hear, Queue!Accept, out
  <2>4. UNCHANGED <<out, sent, inAdv, advLost, unwanted, InHand>>
    BY <1>2 DEF Hear, loop, ring, Queue!Accept, out, sent, inAdv, InHand
  <2> QED BY <1>0, <1>1, <2>2, <2>3, <2>4
<1>3. CASE Queue!Refuse /\ Hear
  <2>1. heard' = heard + 1 /\ inQueue' = inQueue /\ queueLost' = queueLost + 1
    BY <1>3 DEF Hear, Queue!Refuse, inQueue
  <2>2. UNCHANGED <<out, sent, inAdv, advLost, unwanted, InHand>>
    BY <1>3 DEF Hear, loop, ring, Queue!Refuse, out, sent, inAdv, InHand
  <2> QED BY <1>0, <1>1, <2>1, <2>2
<1>4. CASE Drain
  <2> DEFINE x == Head(queue)
  <2>1. /\ queue # <<>> /\ queue \in Seq(Item) /\ drained \in Seq(Item)
        /\ queue' = Tail(queue) /\ drained' = Append(drained, x)
    BY <1>4 DEF Drain, Queue!Take, TypeOK
  <2>2. x \in Item /\ inQueue' = inQueue - 1
    BY <2>1, Taken DEF inQueue
  <2> HIDE DEF x
  <2>3. out' = out + 1
    BY <2>1, <2>2, AppendProperties DEF out
  <2>4. UNCHANGED <<heard, queueLost, sent, inAdv, advLost, unwanted>>
    BY <1>4 DEF Drain, ring, Queue!Take, sent, inAdv
  <2>5. InHand = 0 /\ InHand' = 1
    BY <1>4 DEF Drain, InHand
  <2> QED BY <1>0, <1>1, <2>2, <2>3, <2>4, <2>5
<1>5. CASE Unwanted
  <2>1. UNCHANGED <<heard, inQueue, out, queueLost, sent, inAdv, advLost>>
    BY <1>5 DEF Unwanted, radio, ring, inQueue, out, sent, inAdv
  <2>2. InHand = 1 /\ InHand' = 0 /\ unwanted' = unwanted + 1
    BY <1>5 DEF Unwanted, InHand
  <2> QED BY <1>0, <1>1, <2>1, <2>2
<1>6. CASE Push
  <2>1. InHand = 1 /\ InHand' = 0
    BY <1>6 DEF Push, InHand
  <2>2. UNCHANGED <<heard, inQueue, out, queueLost, sent, unwanted>>
    BY <1>6 DEF Push, radio, Adv!Accept, Adv!Refuse, inQueue, out, sent
  <2>3. CASE Adv!Accept(Last(drained))
    <3> DEFINE x == Last(drained)
    <3>1. adv \in Seq(Item) /\ adv' = Append(adv, x) /\ advLost' = advLost
      BY <2>3 DEF Adv!Accept, TypeOK
    <3>2. x \in Item
      BY <1>6, LastTyped DEF Push
    <3> HIDE DEF x
    <3>3. inAdv' = inAdv + 1
      BY <3>1, <3>2, AppendProperties DEF inAdv
    <3> QED BY <1>0, <1>1, <2>1, <2>2, <3>1, <3>3
  <2>4. CASE Adv!Refuse
    <3>1. inAdv' = inAdv /\ advLost' = advLost + 1
      BY <2>4 DEF Adv!Refuse, inAdv
    <3> QED BY <1>0, <1>1, <2>1, <2>2, <3>1
  <2> QED BY <1>6, <2>3, <2>4 DEF Push
<1>7. CASE FlushAdd
  <2> DEFINE x == Head(adv)
  <2>1. /\ adv # <<>> /\ adv \in Seq(Item) /\ flushed \in Seq(Item)
        /\ adv' = Tail(adv) /\ flushed' = Append(flushed, x)
    BY <1>7 DEF FlushAdd, Adv!Take, TypeOK
  <2>2. x \in Item /\ inAdv' = inAdv - 1
    BY <2>1, Taken DEF inAdv
  <2> HIDE DEF x
  <2>3. sent' = sent + 1
    BY <2>1, <2>2, AppendProperties DEF sent
  <2>4. UNCHANGED <<heard, inQueue, out, queueLost, advLost, unwanted, InHand>>
    BY <1>7 DEF FlushAdd, radio, loop, Adv!Take, inQueue, out, InHand
  <2> QED BY <1>0, <1>1, <2>2, <2>3, <2>4
<1>8. CASE Wanted \/ FlushBegin \/ FlushEnd \/ Client \/ UNCHANGED vars
  <2>1. UNCHANGED <<heard, queue, drained, queueLost, flushed, adv, advLost, unwanted>>
    BY <1>8 DEF Wanted, FlushBegin, FlushEnd, Client, Accept, Subscribe, Unsubscribe,
                CloseClient, vars, radio, loop, ring, api
  <2>2. InHand' = InHand
    BY <1>8 DEF Wanted, FlushBegin, FlushEnd, Client, Accept, Subscribe, Unsubscribe,
                CloseClient, vars, loop, InHand
  <2> QED BY <2>1, <2>2 DEF EachCounted
<1> QED
  BY <1>2, <1>3, <1>4, <1>5, <1>6, <1>7, <1>8 DEF Next, Hear, LoopStep, Flush

-----------------------------------------------------------------------------
(* The batch.                                                               *)

(* What the API task has taken and not sent is in the buffer.               *)
LEMMA SentStep ==
    ASSUME TypeOK, SentInTurn, [Next]_vars
    PROVE  SentInTurn'
<1> USE DEF SentInTurn
<1>1. CASE Hear \/ LoopStep \/ FlushBegin \/ Client \/ UNCHANGED vars
  <2>1. UNCHANGED <<flushed, streamed, batch>>
    BY <1>1 DEF Hear, LoopStep, Drain, Wanted, Unwanted, Push, Adv!Accept, Adv!Refuse,
                FlushBegin, Client, Accept, Subscribe, Unsubscribe, CloseClient,
                vars, ring, api
  <2>2. apiPc' \in {apiPc, "flush"}
    BY <1>1 DEF Hear, LoopStep, Drain, Wanted, Unwanted, Push,
                FlushBegin, Client, Accept, Subscribe, Unsubscribe, CloseClient, vars, api
  <2> QED BY <2>1, <2>2
<1>2. CASE FlushAdd
  <2> DEFINE x == Head(adv)
  <2>1. x \in Item /\ flushed' = Append(flushed, x) /\ apiPc = "flush" /\ apiPc' = apiPc
    BY <1>2, Taken DEF FlushAdd, Adv!Take, TypeOK
  <2>2. streamed \in Seq(Item) /\ batch \in Seq(Item) /\ <<x>> \in Seq(Item)
    BY <2>1 DEF TypeOK
  <2>3. Append(flushed, x) = (streamed \o batch) \o <<x>>
    BY <2>1, AppendIsConcat DEF TypeOK
  <2>4. CASE Len(batch) < BatchMax
    <3>1. batch' = Append(batch, x) /\ streamed' = streamed
      BY <1>2, <2>4, Zenon DEF FlushAdd
    <3>2. batch' = batch \o <<x>>
      BY <2>1, <2>2, <3>1, AppendIsConcat
    <3>3. (streamed \o batch) \o <<x>> = streamed \o (batch \o <<x>>)
      BY <2>2, ConcatAssociative
    <3> HIDE DEF x
    <3> QED BY <2>1, <2>3, <3>1, <3>2, <3>3
  <2>5. CASE ~(Len(batch) < BatchMax)
    <3>1. batch' = <<x>> /\ streamed' = streamed \o batch
      BY <1>2, <2>5, Zenon DEF FlushAdd
    <3> QED BY <2>1, <2>3, <3>1
  <2> QED BY <2>4, <2>5
<1>3. CASE FlushEnd
  <2>1. streamed' = streamed \o batch /\ batch' = <<>> /\ flushed' = flushed
    BY <1>3 DEF FlushEnd, ring
  <2>2. streamed \o batch \in Seq(Item)
    BY ConcatProperties DEF TypeOK
  <2>3. streamed' \o batch' = streamed \o batch
    BY <2>1, <2>2, ConcatEmptySeq
  <2> QED BY <2>1, <2>3
<1> QED BY <1>1, <1>2, <1>3 DEF Next, Flush

-----------------------------------------------------------------------------
(* The order.                                                               *)

(* What an append does to a ring or a history.                              *)
LEMMA Added ==
    ASSUME NEW s \in Seq(Item), NEW x \in Item
    PROVE  /\ Append(s, x) # <<>> /\ Last(Append(s, x)) = x
           /\ Len(Append(s, x)) = Len(s) + 1 /\ Len(s) \in Nat
           /\ \A i \in 1 .. Len(s) + 1 :
                  Append(s, x)[i] = IF i = Len(s) + 1 THEN x ELSE s[i]
<1> DEFINE t == Append(s, x)
<1>1. /\ t # <<>> /\ Len(t) = Len(s) + 1 /\ t[Len(s) + 1] = x
      /\ \A i \in 1 .. Len(s) : t[i] = s[i]
  BY AppendProperties
<1>2. Len(s) \in Nat
  OBVIOUS
<1> HIDE DEF t
<1>3. Last(t) = x
  BY <1>1 DEF Last
<1>4. \A i \in 1 .. Len(s) + 1 : t[i] = IF i = Len(s) + 1 THEN x ELSE s[i]
  BY <1>1, <1>2
<1> QED BY <1>1, <1>2, <1>3, <1>4 DEF t

LEMMA Elements ==
    ASSUME TypeOK
    PROVE  /\ \A i \in 1 .. Len(queue) : queue[i] \in Nat
           /\ \A i \in 1 .. Len(adv) : adv[i] \in Nat
           /\ \A i \in 1 .. Len(flushed) : flushed[i] \in Nat
<1>1. /\ \A i \in 1 .. Len(queue) : queue[i] \in Item
      /\ \A i \in 1 .. Len(adv) : adv[i] \in Item
      /\ \A i \in 1 .. Len(flushed) : flushed[i] \in Item
  BY DEF TypeOK
<1> QED BY <1>1, Numbers

(* The radio brings an advert with a greater number than any before.        *)
LEMMA HearKeepsOrder ==
    ASSUME TypeOK, OrderInv, Hear
    PROVE  OrderInv'
<1>1. /\ heard' = heard + 1 /\ heard \in Nat /\ heard + 1 \in Item
      /\ UNCHANGED <<drained, loopPc, adv, flushed>>
  BY DEF Hear, TypeOK, Item, Queue!Accept, Queue!Refuse, loop, ring
<1>2. LastDrained' = LastDrained /\ \A n : Before(n)' = Before(n)
  BY <1>1 DEF LastDrained, Before
<1>3. Increasing(queue') /\ \A i \in 1 .. Len(queue') :
                                LastDrained < queue'[i] /\ queue'[i] <= heard + 1
  <2>1. CASE Queue!Accept(heard + 1)
    <3>1. queue' = Append(queue, heard + 1) /\ queue \in Seq(Item)
      BY <2>1 DEF Queue!Accept, TypeOK
    <3>2. \A i \in 1 .. Len(queue) : queue[i] < heard + 1
      BY <1>1, Elements DEF OrderInv
    <3>3. Increasing(queue')
      BY <1>1, <3>1, <3>2, AppendGrows DEF OrderInv
    <3>4. ASSUME NEW i \in 1 .. Len(queue')
          PROVE  LastDrained < queue'[i] /\ queue'[i] <= heard + 1
      <4>1. /\ i \in 1 .. Len(queue) + 1 /\ Len(queue) \in Nat
            /\ queue'[i] = IF i = Len(queue) + 1 THEN heard + 1 ELSE queue[i]
        BY <1>1, <3>1, Added
      <4> QED BY <1>1, <4>1, Elements, LastTyped DEF OrderInv
    <3> QED BY <3>3, <3>4
  <2>2. CASE Queue!Refuse
    <3>1. queue' = queue
      BY <2>2 DEF Queue!Refuse
    <3> QED BY <1>1, <3>1, Elements DEF OrderInv
  <2> QED BY <2>1, <2>2 DEF Hear
<1> QED BY <1>1, <1>2, <1>3, LastTyped DEF OrderInv

(* loop() takes the oldest of `queue`, younger than all that went before.   *)
LEMMA DrainKeepsOrder ==
    ASSUME TypeOK, OrderInv, Drain
    PROVE  OrderInv'
<1> DEFINE x == queue[1]
<1>1. /\ queue # <<>> /\ queue \in Seq(Item) /\ drained \in Seq(Item)
      /\ queue' = Tail(queue) /\ drained' = Append(drained, Head(queue))
      /\ UNCHANGED <<heard, adv, flushed>>
      /\ loopPc = "idle" /\ loopPc' = "check" /\ heard \in Nat
  BY DEF Drain, Queue!Take, TypeOK, ring
<1>2. /\ Head(queue) = x /\ x \in Item /\ x \in Nat /\ Len(queue) \in Nat \ {0}
      /\ Len(queue') = Len(queue) - 1
      /\ \A i \in 1 .. Len(queue) - 1 : queue'[i] = queue[i + 1]
  BY <1>1, Taken, Numbers
<1>3. Increasing(queue') /\ \A i \in 1 .. Len(queue') : x < queue'[i]
  BY <1>1, <1>2, TailGrows DEF OrderInv
<1>4. \A i \in 1 .. Len(queue') : queue'[i] <= heard
  BY <1>2 DEF OrderInv
<1>5. LastDrained < x /\ x <= heard
  BY <1>2 DEF OrderInv
<1> HIDE DEF x
<1>6. drained' # <<>> /\ LastDrained' = x
  BY <1>1, <1>2, Added DEF LastDrained
<1>7. /\ \A i \in 1 .. Len(adv) : adv[i] < x
      /\ \A i \in 1 .. Len(flushed) : flushed[i] < x
  <2>1. /\ \A i \in 1 .. Len(adv) : adv[i] <= LastDrained
        /\ \A i \in 1 .. Len(flushed) : flushed[i] <= LastDrained
    BY <1>1 DEF OrderInv, Before
  <2>2. LastDrained \in Int /\ x \in Int
    BY <1>2, LastTyped
  <2>3. /\ \A i \in 1 .. Len(adv) : adv[i] \in Int
        /\ \A i \in 1 .. Len(flushed) : flushed[i] \in Int
    BY Elements
  <2> QED BY <1>5, <2>1, <2>2, <2>3
<1>8. /\ \A i \in 1 .. Len(adv') : Before(adv[i])'
      /\ \A i \in 1 .. Len(flushed') : Before(flushed[i])'
  <2>1. /\ \A i \in 1 .. Len(adv) : adv'[i] < LastDrained'
        /\ \A i \in 1 .. Len(flushed) : flushed'[i] < LastDrained'
    BY <1>1, <1>6, <1>7
  <2>2. loopPc' # "idle" /\ UNCHANGED <<adv, flushed>>
    BY <1>1
  <2> QED BY <2>1, <2>2 DEF Before
<1>9. /\ LastDrained' <= heard'
      /\ \A i \in 1 .. Len(queue') : LastDrained' < queue'[i] /\ queue'[i] <= heard'
  BY <1>1, <1>3, <1>4, <1>5, <1>6
<1>10. /\ Increasing(adv') /\ Increasing(flushed')
       /\ \A i \in 1 .. Len(flushed'), j \in 1 .. Len(adv') : flushed'[i] < adv'[j]
  BY <1>1 DEF OrderInv
<1> QED BY <1>3, <1>6, <1>8, <1>9, <1>10 DEF OrderInv

(* loop() adds the last it took to `_adv`, or lets it go.                   *)
LEMMA LoopKeepsOrder ==
    ASSUME TypeOK, OrderInv, Wanted \/ Unwanted \/ Push
    PROVE  OrderInv'
<1>1. /\ UNCHANGED <<heard, queue, drained, flushed>> /\ loopPc \in {"check", "push"}
      /\ loopPc' \in {"idle", "check", "push"} /\ drained # <<>>
  BY DEF Wanted, Unwanted, Push, radio, ring, Adv!Accept, Adv!Refuse, OrderInv
<1>2. /\ LastDrained' = LastDrained
      /\ LastDrained = Last(drained) /\ LastDrained \in Item /\ LastDrained \in Nat
  BY <1>1, LastTyped, Numbers DEF LastDrained
<1>3. /\ \A i \in 1 .. Len(adv) : adv[i] < LastDrained
      /\ \A i \in 1 .. Len(flushed) : flushed[i] < LastDrained
  BY <1>1 DEF OrderInv, Before
<1>4. CASE adv' = adv
  BY <1>1, <1>2, <1>3, <1>4, Elements DEF OrderInv, Before
<1>5. CASE Push /\ Adv!Accept(Last(drained))
  <2>1. adv' = Append(adv, LastDrained) /\ adv \in Seq(Item) /\ loopPc' = "idle"
    BY <1>2, <1>5 DEF Push, Adv!Accept, TypeOK
  <2>2. Increasing(adv')
    BY <1>2, <1>3, <2>1, AppendGrows DEF OrderInv
  <2>3. ASSUME NEW j \in 1 .. Len(adv')
        PROVE  /\ adv'[j] <= LastDrained
               /\ \A i \in 1 .. Len(flushed) : flushed[i] < adv'[j]
    <3>1. /\ j \in 1 .. Len(adv) + 1 /\ Len(adv) \in Nat
          /\ adv'[j] = IF j = Len(adv) + 1 THEN LastDrained ELSE adv[j]
      BY <1>2, <2>1, Added
    <3> QED BY <1>2, <1>3, <3>1, Elements DEF OrderInv
  <2>4. \A i \in 1 .. Len(flushed) : flushed[i] <= LastDrained
    BY <1>2, <1>3, Elements
  <2> QED BY <1>1, <1>2, <2>1, <2>2, <2>3, <2>4 DEF OrderInv, Before
<1> QED BY <1>4, <1>5 DEF Wanted, Unwanted, Push, ring, Adv!Refuse

(* The API task takes the oldest of `_adv`.                                 *)
LEMMA FlushKeepsOrder ==
    ASSUME TypeOK, OrderInv, FlushAdd
    PROVE  OrderInv'
<1> DEFINE x == adv[1]
<1>1. /\ adv # <<>> /\ adv \in Seq(Item) /\ flushed \in Seq(Item)
      /\ adv' = Tail(adv) /\ flushed' = Append(flushed, Head(adv))
      /\ UNCHANGED <<heard, queue, drained, loopPc>>
  BY DEF FlushAdd, Adv!Take, TypeOK, radio, loop
<1>2. /\ Head(adv) = x /\ x \in Item /\ x \in Nat /\ Len(adv) \in Nat \ {0}
      /\ Len(adv') = Len(adv) - 1
      /\ \A i \in 1 .. Len(adv) - 1 : adv'[i] = adv[i + 1]
  BY <1>1, Taken, Numbers
<1>3. Increasing(adv') /\ \A i \in 1 .. Len(adv') : x < adv'[i]
  BY <1>1, <1>2, TailGrows DEF OrderInv
<1>4. LastDrained' = LastDrained /\ \A n : Before(n)' = Before(n)
  BY <1>1 DEF LastDrained, Before
<1>5. Before(x) /\ \A i \in 1 .. Len(flushed) : flushed[i] < x
  BY <1>2 DEF OrderInv
<1>6. \A i \in 1 .. Len(adv') : Before(adv'[i])
  BY <1>2 DEF OrderInv
<1> HIDE DEF x
<1>7. Increasing(flushed')
  BY <1>1, <1>2, <1>5, AppendGrows DEF OrderInv
<1>8. ASSUME NEW i \in 1 .. Len(flushed')
      PROVE  /\ Before(flushed'[i])
             /\ \A j \in 1 .. Len(adv') : flushed'[i] < adv'[j]
  <2>1. /\ i \in 1 .. Len(flushed) + 1 /\ Len(flushed) \in Nat
        /\ flushed'[i] = IF i = Len(flushed) + 1 THEN x ELSE flushed[i]
    BY <1>1, <1>2, Added
  <2>2. CASE i = Len(flushed) + 1
    BY <1>3, <1>5, <2>1, <2>2
  <2>3. CASE i # Len(flushed) + 1
    BY <1>2, <2>1, <2>3 DEF OrderInv
  <2> QED BY <2>2, <2>3
<1> QED BY <1>1, <1>3, <1>4, <1>6, <1>7, <1>8 DEF OrderInv

LEMMA OrderStep ==
    ASSUME TypeOK, OrderInv, [Next]_vars
    PROVE  OrderInv'
<1>1. CASE FlushBegin \/ FlushEnd \/ Client \/ UNCHANGED vars
  <2>1. UNCHANGED <<heard, queue, drained, adv, flushed, loopPc>>
    BY <1>1 DEF FlushBegin, FlushEnd, Client, Accept, Subscribe, Unsubscribe,
                CloseClient, vars, radio, loop, ring
  <2>2. LastDrained' = LastDrained /\ \A n : Before(n)' = Before(n)
    BY <2>1 DEF LastDrained, Before
  <2> QED BY <2>1, <2>2 DEF OrderInv
<1> QED
  BY <1>1, HearKeepsOrder, DrainKeepsOrder, LoopKeepsOrder, FlushKeepsOrder
     DEF Next, LoopStep, Flush

-----------------------------------------------------------------------------
(* The types and the order, from the first state on.                        *)
THEOREM OrderInvariant == Spec => [](TypeOK /\ OrderInv)
<1>1. Init => TypeOK /\ OrderInv
  <2>1. Len(<<>>) = 0 /\ <<>> \in Seq(Item)
    OBVIOUS
  <2>2. ASSUME Init
        PROVE  TypeOK
    <3>1. \A s \in {queue, adv, drained, flushed, batch, streamed} :
              s \in Seq(Item) /\ Len(s) = 0
      BY <2>1, <2>2 DEF Init, Queue!Init, Adv!Init
    <3>2. 0 \in 0 .. MaxHeard /\ 0 <= Room /\ 0 <= BatchMax
      OBVIOUS
    <3> QED BY <2>2, <3>1, <3>2 DEF Init, Queue!Init, Adv!Init, TypeOK
  <2>3. ASSUME Init
        PROVE  OrderInv
    <3>1. /\ Len(queue) = 0 /\ Len(adv) = 0 /\ Len(flushed) = 0
          /\ drained = <<>> /\ heard = 0 /\ loopPc = "idle"
      BY <2>1, <2>3 DEF Init, Queue!Init, Adv!Init
    <3>2. /\ 1 .. Len(queue) = {} /\ 1 .. Len(adv) = {} /\ 1 .. Len(flushed) = {}
      BY <3>1
    <3>3. LastDrained = 0
      BY <3>1 DEF LastDrained
    <3> QED BY <3>1, <3>2, <3>3 DEF OrderInv, Increasing
  <2> QED BY <2>2, <2>3
<1>2. TypeOK /\ OrderInv /\ [Next]_vars => TypeOK' /\ OrderInv'
  BY TypeStep, OrderStep DEF OrderInv
<1> QED BY <1>1, <1>2, PTL DEF Spec

(* What was sent is the front of what was taken from `_adv`.                *)
LEMMA SentGrows ==
    ASSUME TypeOK, OrderInv, SentInTurn
    PROVE  Increasing(streamed)
<1>1. /\ Len(streamed) \in Nat /\ Len(batch) \in Nat
      /\ Len(flushed) = Len(streamed) + Len(batch)
      /\ \A i \in 1 .. Len(streamed) : flushed[i] = streamed[i]
  BY ConcatProperties DEF TypeOK, SentInTurn
<1>2. \A i \in 1 .. Len(streamed) : i \in 1 .. Len(flushed)
  BY <1>1
<1> QED BY <1>1, <1>2 DEF OrderInv, Increasing

(* No advert disappears or is repeated between the radio and the client,    *)
(* and none overtakes another, whatever the sizes of rings and batches and  *)
(* however clients come, subscribe and leave.                               *)
THEOREM Accounting == Spec => []EachAdvertAccounted
<1>1. Init => EachCounted /\ SentInTurn
  BY DEF Init, Queue!Init, Adv!Init, EachCounted, SentInTurn, InHand
<1>2. TypeOK /\ OrderInv /\ EachCounted /\ SentInTurn /\ [Next]_vars
          => EachCounted' /\ SentInTurn'
  BY CountStep, SentStep DEF OrderInv
<1>3. TypeOK /\ OrderInv /\ EachCounted /\ SentInTurn => EachAdvertAccounted
  BY SentGrows DEF EachAdvertAccounted
<1> QED BY <1>1, <1>2, <1>3, OrderInvariant, PTL DEF Spec
=============================================================================
