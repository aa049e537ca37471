------------------------------ MODULE AdvertRing -----------------------------
(***************************************************************************)
(* AdvertQueue (wbrg1_ble_proxy/advert.h): the lock-free ring between one   *)
(* producer and one consumer that run in different contexts.  push() and    *)
(* pop() are cut where the other context can run: an advert is 41 bytes,    *)
(* so copying one into or out of a slot takes two steps, between which the  *)
(* slot (or the copy) is Torn.  The steps of one side are in program order: *)
(* the chip has one in-order core, and the build keeps the copy before the  *)
(* store to the volatile index.                                             *)
(***************************************************************************)
EXTENDS Naturals, Sequences

CONSTANTS Advert,       \* the adverts the radio can see
          Torn,         \* the contents of a slot that holds no whole advert
          Capacity,     \* CAPACITY: slots of the ring (64; 8 for `_ntf`)
          MaxOffered    \* bound: how many adverts the radio reports

ASSUME TornAssumption == Torn \notin Advert
ASSUME CapacityAssumption == Capacity \in Nat /\ Capacity >= 2
ASSUME MaxOfferedAssumption == MaxOffered \in Nat

VARIABLES
    buf,        \* _buf
    head,       \* _head, written by the producer only
    tail,       \* _tail, written by the consumer only
    dropped,    \* _dropped
    pPc, pVal,  \* the producer: where it is in push(), and its argument
    cPc, cVal,  \* the consumer: where it is in pop(), and its result
    taken,      \* history: the adverts pop() returned
    offered     \* how many times push() was called

pVars == <<pPc, pVal, offered>>
cVars == <<cPc, cVal, taken>>
vars  == <<buf, head, tail, dropped, pVars, cVars>>

Index == 0 .. Capacity - 1

\* Seeded fault: the index is not wrapped.
SuccUnwrapped(i) == i + 1

\* (i + 1) % CAPACITY, as both sides compute it.
Succ(i) == (i + 1) % Capacity

Init ==
    /\ buf = [i \in Index |-> Torn]
    /\ head = 0 /\ tail = 0 /\ dropped = 0
    /\ pPc = "idle" /\ pVal = Torn
    /\ cPc = "idle" /\ cVal = Torn
    /\ taken = <<>>
    /\ offered = 0

-----------------------------------------------------------------------------
(* The producer: push(a), called from scanCallback in the BLE stack.        *)

\* Seeded fault: a full ring overwrites its oldest advert.
PushFullOverwrites ==
    /\ pPc = "idle" /\ offered < MaxOffered
    /\ Succ(head) = tail
    /\ pPc' = "copy" /\ pVal' \in Advert
    /\ offered' = offered + 1
    /\ UNCHANGED <<buf, head, tail, dropped, cVars>>

\* Seeded fault: a refused advert is not counted.
PushFullUncounted ==
    /\ pPc = "idle" /\ offered < MaxOffered
    /\ Succ(head) = tail
    /\ offered' = offered + 1
    /\ UNCHANGED <<buf, head, tail, dropped, pPc, pVal, cVars>>

\* Seeded fault: the check for room looks one slot too far.
PushFullEarly ==
    /\ pPc = "idle" /\ offered < MaxOffered
    /\ tail \in {Succ(head), Succ(Succ(head))}
    /\ dropped' = dropped + 1
    /\ offered' = offered + 1
    /\ UNCHANGED <<buf, head, tail, pPc, pVal, cVars>>

\* The ring is full: the newest advert is lost.
PushFull ==
    /\ pPc = "idle" /\ offered < MaxOffered
    /\ Succ(head) = tail
    /\ dropped' = dropped + 1
    /\ offered' = offered + 1
    /\ UNCHANGED <<buf, head, tail, pPc, pVal, cVars>>

PushAdmit(a) ==
    /\ pPc = "idle" /\ offered < MaxOffered
    /\ Succ(head) # tail
    /\ pPc' = "copy" /\ pVal' = a
    /\ offered' = offered + 1
    /\ UNCHANGED <<buf, head, tail, dropped, cVars>>

PushCopyBegin ==
    /\ pPc = "copy"
    /\ buf' = [buf EXCEPT ![head] = Torn]
    /\ pPc' = "copying"
    /\ UNCHANGED <<head, tail, dropped, pVal, offered, cVars>>

PushCopyEnd ==
    /\ pPc = "copying"
    /\ buf' = [buf EXCEPT ![head] = pVal]
    /\ pPc' = "publish"
    /\ UNCHANGED <<head, tail, dropped, pVal, offered, cVars>>

PushPublish ==
    /\ pPc = "publish"
    /\ head' = Succ(head)
    /\ pPc' = "idle"
    /\ UNCHANGED <<buf, tail, dropped, pVal, offered, cVars>>

Producer ==
    \/ PushFull
    \/ \E a \in Advert : PushAdmit(a)
    \/ PushCopyBegin
    \/ PushCopyEnd
    \/ PushPublish

-----------------------------------------------------------------------------
(* The consumer: pop(out), called from drainQueue in loop().  pop() returns *)
(* false, and changes nothing, when tail = head.                            *)

PopAdmit ==
    /\ cPc = "idle"
    /\ tail # head
    /\ cPc' = "copy"
    /\ UNCHANGED <<buf, head, tail, dropped, pVars, cVal, taken>>

PopCopyBegin ==
    /\ cPc = "copy"
    /\ cVal' = buf[tail]
    /\ cPc' = "copying"
    /\ UNCHANGED <<buf, head, tail, dropped, pVars, taken>>

\* The copy is whole only if the slot still holds what it held when it began.
PopCopyEnd ==
    /\ cPc = "copying"
    /\ cVal' = IF buf[tail] = cVal THEN cVal ELSE Torn
    /\ cPc' = "publish"
    /\ UNCHANGED <<buf, head, tail, dropped, pVars, taken>>

PopPublish ==
    /\ cPc = "publish"
    /\ tail' = Succ(tail)
    /\ taken' = Append(taken, cVal)
    /\ cPc' = "idle"
    /\ UNCHANGED <<buf, head, dropped, pVars, cVal>>

Consumer ==
    \/ PopAdmit
    \/ PopCopyBegin
    \/ PopCopyEnd
    \/ PopPublish

Next == Producer \/ Consumer

Spec == Init /\ [][Next]_vars

-----------------------------------------------------------------------------
(* Properties.                                                              *)

\* How many adverts are stored, and the slot of the k-th one (from 0).
Size == IF head >= tail THEN head - tail ELSE head + Capacity - tail
Slot(k) == IF tail + k < Capacity THEN tail + k ELSE tail + k - Capacity

\* The stored adverts, oldest first.
Contents == [k \in 1 .. Size |-> buf[Slot(k - 1)]]

TypeOK ==
    /\ buf \in [Index -> Advert \cup {Torn}]
    /\ head \in Index /\ tail \in Index
    /\ dropped \in Nat
    /\ pPc \in {"idle", "copy", "copying", "publish"}
    /\ pVal \in Advert \cup {Torn}
    /\ cPc \in {"idle", "copy", "copying", "publish"}
    /\ cVal \in Advert \cup {Torn}
    /\ taken \in Seq(Advert \cup {Torn})
    /\ offered \in 0 .. MaxOffered

(* The comment of advert.h:28 names one producer and one consumer and no    *)
(* lock: the slot push() is filling is never one that holds a stored        *)
(* advert, nor the one pop() is copying out.                                *)
NoDataRace ==
    pPc \in {"copy", "copying"} =>
        /\ \A k \in 0 .. Size - 1 : Slot(k) # head
        /\ cPc # "idle" => tail # head

(* No advert that is stored, or handed to drainQueue, is a mixture of two:  *)
(* what lies between the indices is whole, and so is everything taken.      *)
WholeAdverts ==
    /\ \A k \in 0 .. Size - 1 : buf[Slot(k)] \in Advert
    /\ taken \in Seq(Advert)

(* The inductive invariant behind the two: what each side has checked stays *)
(* true until it publishes, because only that side moves its own index.     *)
RingInv ==
    /\ pPc # "idle" => /\ Succ(head) # tail
                       /\ pVal \in Advert
    /\ pPc = "publish" => buf[head] = pVal
    /\ cPc # "idle" => tail # head
    /\ cPc \in {"copying", "publish"} => cVal = buf[tail]
    /\ WholeAdverts

(* Every advert the radio reported is accounted for: taken, stored, lost    *)
(* and counted by dropped(), or inside push().                              *)
Accounted ==
    offered = Len(taken) + Size + dropped + (IF pPc = "idle" THEN 0 ELSE 1)

(* The ring keeps the promise of LossyFifo with one slot less than its      *)
(* capacity: first in first out, each advert once, lost only when full.     *)
Fifo == INSTANCE LossyFifo WITH
            Item <- Advert, Room <- Capacity - 1,
            fifo <- Contents, taken <- taken, lost <- dropped

RefinesLossyFifo == Fifo!Spec
=============================================================================
