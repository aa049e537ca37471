--------------------------- MODULE AdvertRing_proofs -------------------------
(***************************************************************************)
(* The ring of advert.h for every capacity and every set of adverts: its    *)
(* types, the inductive invariant behind its freedom from data races, and   *)
(* that it implements LossyFifo.                                            *)
(***************************************************************************)
EXTENDS AdvertRing, SequenceTheorems, TLAPS

USE CapacityAssumption

(* The index arithmetic of push() and pop() stays inside the array and      *)
(* wraps at its end.                                                        *)
LEMMA SuccWraps ==
    ASSUME NEW i \in Index
    PROVE  /\ Succ(i) = IF i + 1 = Capacity THEN 0 ELSE i + 1
           /\ Succ(i) \in Index
<1>1. CASE i + 1 = Capacity
  <2>1. (i + 1) % Capacity = 0
    BY <1>1
  <2> QED BY <1>1, <2>1 DEF Succ, Index
<1>2. CASE i + 1 < Capacity
  <2>1. (i + 1) % Capacity = i + 1
    BY <1>2 DEF Index
  <2> QED BY <1>2, <2>1 DEF Succ, Index
<1> QED BY <1>1, <1>2 DEF Index

(* One step of either side keeps the types.                                 *)
LEMMA TypeStep ==
    ASSUME TypeOK, [Next]_vars
    PROVE  TypeOK'
<1> USE DEF TypeOK
<1>1. CASE PushFull
  BY <1>1, MaxOfferedAssumption DEF PushFull, cVars
<1>2. ASSUME NEW a \in Advert, PushAdmit(a) PROVE TypeOK'
  BY <1>2, MaxOfferedAssumption DEF PushAdmit, cVars
<1>3. CASE PushCopyBegin
  BY <1>3 DEF PushCopyBegin, cVars
<1>4. CASE PushCopyEnd
  BY <1>4 DEF PushCopyEnd, cVars
<1>5. CASE PushPublish
  BY <1>5, SuccWraps DEF PushPublish, cVars
<1>6. CASE PopAdmit
  BY <1>6 DEF PopAdmit, pVars
<1>7. CASE PopCopyBegin
  BY <1>7 DEF PopCopyBegin, pVars
<1>8. CASE PopCopyEnd
  BY <1>8 DEF PopCopyEnd, pVars
<1>9. CASE PopPublish
  BY <1>9, SuccWraps DEF PopPublish, pVars
<1>10. CASE UNCHANGED vars
  BY <1>10 DEF vars, pVars, cVars
<1> QED
  BY <1>1, <1>2, <1>3, <1>4, <1>5, <1>6, <1>7, <1>8, <1>9, <1>10
     DEF Next, Producer, Consumer

(* Type correctness of the two contexts' indices, copies and counters.      *)
THEOREM TypeCorrect == Spec => []TypeOK
<1>1. Init => TypeOK
  BY MaxOfferedAssumption DEF Init, TypeOK, Index
<1>2. TypeOK /\ [Next]_vars => TypeOK'
  BY TypeStep
<1> QED BY <1>1, <1>2, PTL DEF Spec

-----------------------------------------------------------------------------
(* The slots between the two indices: how many, and which.                  *)
LEMMA SlotRange ==
    ASSUME TypeOK
    PROVE  /\ Size \in 0 .. Capacity - 1
           /\ Size > 0 <=> tail # head
           /\ \A k \in 0 .. Size - 1 : Slot(k) \in Index /\ Slot(k) # head
           /\ Slot(0) = tail
           /\ Slot(Size) = head
BY DEF TypeOK, Size, Slot, Index

(* Publishing a push adds the slot of head at the young end.                *)
LEMMA SizeAfterPush ==
    ASSUME TypeOK, Succ(head) # tail, head' = Succ(head), tail' = tail
    PROVE  /\ Size' = Size + 1
           /\ \A k \in 0 .. Size : Slot(k)' = Slot(k)
<1>1. Succ(head) = IF head + 1 = Capacity THEN 0 ELSE head + 1
  BY SuccWraps DEF TypeOK
<1> QED BY <1>1 DEF TypeOK, Size, Slot, Index

(* Publishing a pop takes the slot of tail from the old end.                *)
LEMMA SizeAfterPop ==
    ASSUME TypeOK, tail # head, tail' = Succ(tail), head' = head
    PROVE  /\ Size' = Size - 1
           /\ \A k \in 0 .. Size - 2 : Slot(k)' = Slot(k + 1)
<1>1. Succ(tail) = IF tail + 1 = Capacity THEN 0 ELSE tail + 1
  BY SuccWraps DEF TypeOK
<1> QED BY <1>1 DEF TypeOK, Size, Slot, Index

(* One step of either side keeps what both have checked.                    *)
LEMMA RingInvStep ==
    ASSUME TypeOK, RingInv, [Next]_vars
    PROVE  RingInv'
<1> USE DEF RingInv, WholeAdverts
<1>0. TypeOK /\ Size \in 0 .. Capacity - 1
  BY SlotRange
<1>1. CASE PushFull
  BY <1>1 DEF PushFull, cVars, Size, Slot
<1>2. ASSUME NEW a \in Advert, PushAdmit(a) PROVE RingInv'
  BY <1>2 DEF PushAdmit, cVars, Size, Slot
<1>3. CASE PushCopyBegin
  <2>1. UNCHANGED <<Size, head, tail, taken, cPc, cVal, pVal>> /\ pPc' = "copying"
    BY <1>3 DEF PushCopyBegin, cVars, Size
  <2>2. \A i \in Index : i # head => buf'[i] = buf[i]
    BY <1>3 DEF PushCopyBegin, TypeOK
  <2>3. \A k \in 0 .. Size - 1 : Slot(k)' = Slot(k) /\ buf'[Slot(k)] = buf[Slot(k)]
    BY <2>1, <2>2, SlotRange DEF Slot
  <2>4. cPc # "idle" => buf'[tail] = buf[tail]
    BY <2>2 DEF TypeOK
  <2> QED BY <1>3, <2>1, <2>3, <2>4 DEF PushCopyBegin, Succ
<1>4. CASE PushCopyEnd
  <2>1. UNCHANGED <<Size, head, tail, taken, cPc, cVal, pVal>> /\ pPc' = "publish"
    BY <1>4 DEF PushCopyEnd, cVars, Size
  <2>2. \A i \in Index : i # head => buf'[i] = buf[i]
    BY <1>4 DEF PushCopyEnd, TypeOK
  <2>3. \A k \in 0 .. Size - 1 : Slot(k)' = Slot(k) /\ buf'[Slot(k)] = buf[Slot(k)]
    BY <2>1, <2>2, SlotRange DEF Slot
  <2>4. cPc # "idle" => buf'[tail] = buf[tail]
    BY <2>2 DEF TypeOK
  <2>5. buf'[head] = pVal
    BY <1>4 DEF PushCopyEnd, TypeOK
  <2> QED BY <1>4, <2>1, <2>3, <2>4, <2>5 DEF PushCopyEnd, Succ
<1>5. CASE PushPublish
  <2>1. /\ UNCHANGED <<buf, tail, taken, cPc, cVal>>
        /\ head' = Succ(head) /\ pPc' = "idle"
    BY <1>5 DEF PushPublish, cVars
  <2>2. Size' = Size + 1 /\ \A k \in 0 .. Size : Slot(k)' = Slot(k)
    BY <1>5, <2>1, SizeAfterPush DEF PushPublish
  <2>3. buf[Slot(Size)] \in Advert
    BY <1>5, SlotRange DEF PushPublish
  <2>4. \A k \in 0 .. Size' - 1 : buf'[Slot(k)'] \in Advert
    BY <1>0, <2>1, <2>2, <2>3
  <2>5. tail' # head'
    BY <1>5, <2>1 DEF PushPublish
  <2> QED BY <2>1, <2>4, <2>5
<1>6. CASE PopAdmit
  BY <1>6 DEF PopAdmit, pVars, Size, Slot, Succ
<1>7. CASE PopCopyBegin
  BY <1>7 DEF PopCopyBegin, pVars, Size, Slot, Succ
<1>8. CASE PopCopyEnd
  BY <1>8 DEF PopCopyEnd, pVars, Size, Slot, Succ
<1>9. CASE PopPublish
  <2>1. /\ UNCHANGED <<buf, head, pPc, pVal>>
        /\ tail' = Succ(tail) /\ cPc' = "idle"
        /\ taken' = Append(taken, cVal)
    BY <1>9 DEF PopPublish, pVars
  <2>2. Size' = Size - 1 /\ \A k \in 0 .. Size - 2 : Slot(k)' = Slot(k + 1)
    BY <1>9, <2>1, SizeAfterPop DEF PopPublish
  <2>3. \A k \in 0 .. Size' - 1 : buf'[Slot(k)'] \in Advert
    BY <1>0, <2>1, <2>2
  <2>4. cVal \in Advert
    BY <1>9, SlotRange DEF PopPublish
  <2>5. taken' \in Seq(Advert)
    BY <2>1, <2>4
  <2>6. pPc # "idle" => Succ(head) # Succ(tail)
    BY <1>9, SuccWraps DEF PopPublish, TypeOK, Index
  <2>7. pPc # "idle" => Succ(head)' # tail'
    BY <2>1, <2>6 DEF Succ
  <2> QED BY <2>1, <2>3, <2>5, <2>7
<1>10. CASE UNCHANGED vars
  BY <1>10 DEF vars, pVars, cVars, Size, Slot, Succ
<1> QED
  BY <1>1, <1>2, <1>3, <1>4, <1>5, <1>6, <1>7, <1>8, <1>9, <1>10
     DEF Next, Producer, Consumer

(* For every capacity: what each side has checked holds until it publishes. *)
THEOREM RingInvariant == Spec => []RingInv
<1>1. Init => RingInv
  BY DEF Init, RingInv, WholeAdverts, Size, Slot
<1>2. RingInv /\ TypeOK /\ [Next]_vars => RingInv'
  BY RingInvStep
<1> QED BY <1>1, <1>2, TypeCorrect, PTL DEF Spec

(* For every capacity: push() never writes a slot that holds a stored       *)
(* advert or that pop() is reading.                                         *)
THEOREM DataRaceFreedom == Spec => []NoDataRace
<1>1. TypeOK /\ RingInv => NoDataRace
  BY SlotRange DEF RingInv, NoDataRace
<1> QED BY <1>1, TypeCorrect, RingInvariant, PTL

(* For every capacity: no advert is stored or delivered torn.               *)
THEOREM NoTornAdvert == Spec => []WholeAdverts
<1>1. RingInv => WholeAdverts
  BY DEF RingInv
<1> QED BY <1>1, RingInvariant, PTL

-----------------------------------------------------------------------------
(* For every capacity: each advert offered is taken, stored, counted as     *)
(* dropped or on its way into the ring, at every store of either side.      *)
THEOREM Accounting == Spec => []Accounted
<1>1. Init => Accounted
  BY DEF Init, Accounted, Size
<1>2. TypeOK /\ RingInv /\ Accounted /\ [Next]_vars => Accounted'
  <2> SUFFICES ASSUME TypeOK, RingInv, Accounted, [Next]_vars
               PROVE  Accounted'
    OBVIOUS
  <2> USE DEF Accounted
  <2>0. Size \in Nat /\ Len(taken) \in Nat /\ dropped \in Nat /\ offered \in Nat
    BY SlotRange, MaxOfferedAssumption DEF TypeOK
  <2>1. CASE PushFull
    BY <2>0, <2>1 DEF PushFull, cVars, Size
  <2>2. ASSUME NEW a \in Advert, PushAdmit(a) PROVE Accounted'
    BY <2>0, <2>2 DEF PushAdmit, cVars, Size
  <2>3. CASE PushCopyBegin \/ PushCopyEnd
    BY <2>0, <2>3 DEF PushCopyBegin, PushCopyEnd, cVars, Size
  <2>4. CASE PushPublish
    <3>1. Size' = Size + 1
      BY <2>4, SizeAfterPush DEF PushPublish, RingInv
    <3> QED BY <2>0, <2>4, <3>1 DEF PushPublish, cVars
  <2>5. CASE PopAdmit \/ PopCopyBegin \/ PopCopyEnd
    BY <2>0, <2>5 DEF PopAdmit, PopCopyBegin, PopCopyEnd, pVars, Size
  <2>6. CASE PopPublish
    <3>1. Size' = Size - 1
      BY <2>6, SizeAfterPop DEF PopPublish, RingInv
    <3>2. Len(taken') = Len(taken) + 1
      BY <2>6 DEF PopPublish, TypeOK
    <3> QED BY <2>0, <2>6, <3>1, <3>2 DEF PopPublish, pVars
  <2>7. CASE UNCHANGED vars
    BY <2>7 DEF vars, pVars, cVars, Size
  <2> QED
    BY <2>1, <2>2, <2>3, <2>4, <2>5, <2>6, <2>7 DEF Next, Producer, Consumer
<1> QED BY <1>1, <1>2, TypeCorrect, RingInvariant, PTL DEF Spec

-----------------------------------------------------------------------------
(* The stored adverts, read from the old end, are a sequence.               *)
LEMMA ContentsSeq ==
    ASSUME TypeOK, RingInv
    PROVE  Contents \in Seq(Advert) /\ Len(Contents) = Size
<1>1. Size \in Nat /\ \A k \in 1 .. Size : buf[Slot(k - 1)] \in Advert
  BY SlotRange DEF RingInv, WholeAdverts
<1>2. Contents \in [1 .. Size -> Advert]
  BY <1>1 DEF Contents
<1> QED BY <1>1, <1>2

(* A step that moves no index and writes no stored slot keeps the contents. *)
LEMMA ContentsKept ==
    ASSUME TypeOK, UNCHANGED <<head, tail>>,
           \A i \in Index : i # head => buf'[i] = buf[i]
    PROVE  Contents' = Contents
<1>1. Size' = Size /\ \A k \in 0 .. Size - 1 : buf'[Slot(k)'] = buf[Slot(k)]
  BY SlotRange DEF Size, Slot
<1>2. \A k \in 1 .. Size : buf'[Slot(k - 1)'] = buf[Slot(k - 1)]
  BY <1>1, SlotRange
<1> QED BY <1>1, <1>2 DEF Contents

(* Publishing a push is LossyFifo accepting the advert.                     *)
LEMMA PushAccepts ==
    ASSUME TypeOK, RingInv, PushPublish
    PROVE  Fifo!Accept(pVal) /\ pVal \in Advert
<1>1. UNCHANGED <<buf, tail, taken, dropped>> /\ head' = Succ(head)
  BY DEF PushPublish, cVars
<1>2. /\ Size \in 0 .. Capacity - 1 /\ Size' = Size + 1
      /\ \A k \in 0 .. Size : Slot(k)' = Slot(k)
  BY <1>1, SizeAfterPush, SlotRange DEF PushPublish, RingInv
<1>3. Size < Capacity - 1
  <2>1. Succ(head) = IF head + 1 = Capacity THEN 0 ELSE head + 1
    BY SuccWraps DEF TypeOK
  <2> QED BY <2>1 DEF PushPublish, RingInv, TypeOK, Size, Index
<1>4. buf[Slot(Size)] = pVal
  BY SlotRange DEF PushPublish, RingInv
<1>5. /\ Contents \in Seq(Advert) /\ Len(Contents) = Size
      /\ pVal \in Advert
  BY ContentsSeq DEF RingInv, PushPublish
<1>6. Contents' = Append(Contents, pVal)
  <2> DEFINE c == Contents
             d == Append(Contents, pVal)
  <2>1. c' = [k \in 1 .. Size + 1 |-> buf[Slot(k - 1)]]
    <3>1. \A k \in 1 .. Size + 1 : buf'[Slot(k - 1)'] = buf[Slot(k - 1)]
      BY <1>1, <1>2
    <3> QED BY <1>2, <3>1 DEF Contents
  <2>2. \A k \in 1 .. Size : c[k] = buf[Slot(k - 1)]
    BY DEF Contents
  <2>3. /\ d \in Seq(Advert) /\ Len(d) = Size + 1 /\ d[Size + 1] = pVal
        /\ \A k \in 1 .. Size : d[k] = c[k]
    BY <1>2, <1>5
  <2>4. \A k \in 1 .. Size + 1 : c'[k] = d[k]
    <3> SUFFICES ASSUME NEW k \in 1 .. Size + 1 PROVE c'[k] = d[k]
      OBVIOUS
    <3>1. CASE k = Size + 1
      BY <1>2, <1>4, <2>1, <2>3, <3>1
    <3>2. CASE k \in 1 .. Size
      BY <1>2, <2>1, <2>2, <2>3, <3>2
    <3>3. k = Size + 1 \/ k \in 1 .. Size
      BY <1>2
    <3> QED BY <3>1, <3>2, <3>3
  <2>5. c' \in Seq(Advert) /\ Len(c') = Size + 1
    <3>1. \A k \in 1 .. Size + 1 : d[k] \in Advert
      BY <2>3, <1>2, ElementOfSeq
    <3>2. c' \in [1 .. Size + 1 -> Advert]
      BY <2>1, <2>4, <3>1
    <3> QED BY <1>2, <3>2
  <2> HIDE DEF c, d
  <2>6. c' = d
    BY <2>3, <2>4, <2>5, SeqEqual
  <2> QED BY <2>6 DEF c, d
<1> QED BY <1>1, <1>3, <1>5, <1>6 DEF Fifo!Accept

(* Publishing a pop is LossyFifo handing over its oldest advert.            *)
LEMMA PopTakes ==
    ASSUME TypeOK, RingInv, PopPublish
    PROVE  Fifo!Take
<1>1. /\ UNCHANGED <<buf, head, dropped>> /\ tail' = Succ(tail)
      /\ taken' = Append(taken, cVal)
  BY DEF PopPublish, pVars
<1>2. /\ Size \in Nat /\ Size > 0 /\ Size' = Size - 1
      /\ \A k \in 0 .. Size - 2 : Slot(k)' = Slot(k + 1)
  BY <1>1, SizeAfterPop, SlotRange DEF PopPublish, RingInv
<1>3. Contents \in Seq(Advert) /\ Len(Contents) = Size
  BY ContentsSeq
<1>4. Contents # <<>> /\ Head(Contents) = cVal
  <2>1. Contents[1] = buf[Slot(0)]
    BY <1>2 DEF Contents
  <2>2. Contents # <<>> /\ Head(Contents) = Contents[1]
    BY <1>2, <1>3
  <2> QED BY <2>1, <2>2, SlotRange DEF PopPublish, RingInv
<1>5. Contents' = Tail(Contents)
  <2> DEFINE c == Contents
             d == Tail(Contents)
  <2>1. c' = [k \in 1 .. Size - 1 |-> buf[Slot(k)]]
    <3>1. \A k \in 1 .. Size - 1 : buf'[Slot(k - 1)'] = buf[Slot(k)]
      <4> TAKE k \in 1 .. Size - 1
      <4>1. k - 1 \in 0 .. Size - 2 /\ (k - 1) + 1 = k
        BY <1>2
      <4> QED BY <1>1, <1>2, <4>1
    <3> QED BY <1>2, <3>1 DEF Contents
  <2>2. \A k \in 1 .. Size - 1 : c[k + 1] = buf[Slot(k)]
    <3> TAKE k \in 1 .. Size - 1
    <3>1. k + 1 \in 1 .. Size /\ (k + 1) - 1 = k
      BY <1>2
    <3> QED BY <3>1 DEF Contents
  <2>3. /\ d \in Seq(Advert) /\ Len(d) = Size - 1
        /\ \A k \in 1 .. Size - 1 : d[k] = c[k + 1]
    BY <1>2, <1>3, <1>4
  <2>4. \A k \in 1 .. Size - 1 : c'[k] = d[k]
    BY <2>1, <2>2, <2>3
  <2>5. c' \in Seq(Advert) /\ Len(c') = Size - 1
    <3>1. \A k \in 1 .. Size - 1 : d[k] \in Advert
      BY <2>3, <1>2, ElementOfSeq
    <3>2. c' \in [1 .. Size - 1 -> Advert]
      BY <2>1, <2>4, <3>1
    <3> QED BY <1>2, <3>2
  <2> HIDE DEF c, d
  <2>6. c' = d
    BY <2>3, <2>4, <2>5, SeqEqual
  <2> QED BY <2>6 DEF c, d
<1> QED BY <1>1, <1>4, <1>5 DEF Fifo!Take

(* For every capacity: the ring is a FIFO that loses the newest advert, and *)
(* only when Capacity - 1 adverts are stored.                               *)
THEOREM Refinement == Spec => RefinesLossyFifo
<1>1. Init => Fifo!Init
  BY DEF Init, Fifo!Init, Contents, Size
<1>2. TypeOK /\ RingInv /\ [Next]_vars => [Fifo!Next]_(Fifo!vars)
  <2> SUFFICES ASSUME TypeOK, RingInv, [Next]_vars
               PROVE  Fifo!Next \/ UNCHANGED <<Contents, taken, dropped>>
    BY DEF Fifo!vars
  <2>1. CASE PushFull
    <3>1. Size = Capacity - 1
      BY <2>1, SuccWraps DEF PushFull, TypeOK, Size, Index
    <3>2. UNCHANGED <<Contents, taken>> /\ dropped' = dropped + 1
      BY <2>1, ContentsKept DEF PushFull, cVars
    <3> QED BY <3>1, <3>2, ContentsSeq DEF Fifo!Next, Fifo!Refuse
  <2>2. ASSUME NEW a \in Advert, PushAdmit(a)
        PROVE  UNCHANGED <<Contents, taken, dropped>>
    BY <2>2, ContentsKept DEF PushAdmit, cVars
  <2>3. CASE PushCopyBegin
    BY <2>3, ContentsKept DEF PushCopyBegin, cVars, TypeOK
  <2>4. CASE PushCopyEnd
    BY <2>4, ContentsKept DEF PushCopyEnd, cVars, TypeOK
  <2>5. CASE PushPublish
    BY <2>5, PushAccepts DEF Fifo!Next
  <2>6. CASE PopAdmit \/ PopCopyBegin \/ PopCopyEnd
    BY <2>6, ContentsKept DEF PopAdmit, PopCopyBegin, PopCopyEnd, pVars
  <2>7. CASE PopPublish
    BY <2>7, PopTakes DEF Fifo!Next
  <2>8. CASE UNCHANGED vars
    BY <2>8, ContentsKept DEF vars, pVars, cVars
  <2> QED
    BY <2>1, <2>2, <2>3, <2>4, <2>5, <2>6, <2>7, <2>8
       DEF Next, Producer, Consumer
<1> QED
  BY <1>1, <1>2, TypeCorrect, RingInvariant, PTL
     DEF Spec, RefinesLossyFifo, Fifo!Spec
=============================================================================
