----------------------------- MODULE AdvertPath -----------------------------
(***************************************************************************)
(* The way of an advert from the radio to the client: scanCallback (BLE     *)
(* stack) -> `queue` -> drainQueue and pushAdvert (loop()) -> `_adv` ->     *)
(* flushAdverts (API task) -> message 93.  Both rings are AdvertQueues;     *)
(* module AdvertRing shows that one is a LossyFifo, and here each is one.   *)
(*                                                                          *)
(* Adverts are numbered as they are heard.                                  *)
(***************************************************************************)
EXTENDS Naturals, Sequences, SequencesExt

CONSTANTS Room,         \* adverts a ring holds: CAPACITY - 1
          BatchMax,     \* adverts that fit in flushAdverts' buffer
          MaxHeard      \* bound: adverts heard

ASSUME RoomAssumption == Room \in Nat \ {0} /\ BatchMax \in Nat \ {0}
ASSUME BoundAssumption == MaxHeard \in Nat

VARIABLES
    heard,                      \* adverts heard
    queue, drained, queueLost,  \* `queue`; all that loop() took; _dropped
    loopPc,                     \* loop(): "idle", "check", "push"
    adv, flushed, advLost,      \* `_adv`; all that the API task took; _dropped
    unwanted,                   \* adverts that no client had asked for
    cliFd, btSub,               \* a client is served; _btSub
    apiPc,                      \* API task: "serve", "flush"
    batch,                      \* flushAdverts' buffer
    streamed                    \* history: all adverts sent, to any client

Item == 1 .. MaxHeard

Queue == INSTANCE LossyFifo WITH
            fifo <- queue, taken <- drained, lost <- queueLost
Adv   == INSTANCE LossyFifo WITH
            fifo <- adv, taken <- flushed, lost <- advLost

radio == <<heard, queue, drained, queueLost>>
loop  == <<loopPc, unwanted>>
ring  == <<adv, flushed, advLost>>
api   == <<cliFd, btSub, apiPc, batch, streamed>>
vars == <<radio, loop, ring, api>>

Init ==
    /\ heard = 0 /\ Queue!Init
    /\ loopPc = "idle" /\ unwanted = 0
    /\ Adv!Init
    /\ cliFd = FALSE /\ btSub = FALSE
    /\ apiPc = "serve" /\ batch = <<>> /\ streamed = <<>>

-----------------------------------------------------------------------------
(* BLE stack: scanCallback.                                                 *)

Hear ==
    /\ heard < MaxHeard
    /\ heard' = heard + 1
    /\ Queue!Accept(heard + 1) \/ Queue!Refuse
    /\ UNCHANGED <<loop, ring, api>>

-----------------------------------------------------------------------------
(* loop(): drainQueue, one advert.                                          *)

Drain ==
    /\ loopPc = "idle"
    /\ Queue!Take
    /\ loopPc' = "check"
    /\ UNCHANGED <<heard, unwanted, ring, api>>

\* if (_btSub) ...
Wanted ==
    /\ loopPc = "check" /\ btSub
    /\ loopPc' = "push"
    /\ UNCHANGED <<radio, unwanted, ring, api>>

Unwanted ==
    /\ loopPc = "check" /\ ~btSub
    /\ unwanted' = unwanted + 1
    /\ loopPc' = "idle"
    /\ UNCHANGED <<radio, ring, api>>

\* ... _adv.push(a).
Push ==
    /\ loopPc = "push"
    /\ Adv!Accept(Last(drained)) \/ Adv!Refuse
    /\ loopPc' = "idle"
    /\ UNCHANGED <<radio, unwanted, api>>

-----------------------------------------------------------------------------
(* API task.                                                                *)

Accept ==
    /\ ~cliFd
    /\ cliFd' = TRUE
    /\ UNCHANGED <<radio, loop, ring, btSub, apiPc, batch, streamed>>

\* Message 66, which a subscribed client may send again.
Subscribe ==
    /\ apiPc = "serve" /\ cliFd
    /\ btSub' = TRUE
    /\ UNCHANGED <<radio, loop, ring, cliFd, apiPc, batch, streamed>>

\* Message 87.
Unsubscribe ==
    /\ apiPc = "serve" /\ cliFd /\ btSub
    /\ btSub' = FALSE
    /\ UNCHANGED <<radio, loop, ring, cliFd, apiPc, batch, streamed>>

\* What `_adv` holds stays in it.
CloseClient ==
    /\ apiPc = "serve" /\ cliFd
    /\ cliFd' = FALSE /\ btSub' = FALSE
    /\ UNCHANGED <<radio, loop, ring, apiPc, batch, streamed>>

\* Seeded fault: a flush waits for more than one advert.
FlushBeginLate ==
    /\ apiPc = "serve" /\ btSub /\ Len(adv) > 1
    /\ apiPc' = "flush"
    /\ UNCHANGED <<radio, loop, ring, cliFd, btSub, batch, streamed>>

FlushBegin ==
    /\ apiPc = "serve" /\ btSub /\ adv # <<>>
    /\ apiPc' = "flush"
    /\ UNCHANGED <<radio, loop, ring, cliFd, btSub, batch, streamed>>

\* An advert goes into the buffer; a full one is sent first.
FlushAdd ==
    /\ apiPc = "flush"
    /\ Adv!Take
    /\ IF Len(batch) < BatchMax
       THEN batch' = Append(batch, Head(adv)) /\ UNCHANGED streamed
       ELSE batch' = <<Head(adv)>> /\ streamed' = streamed \o batch
    /\ UNCHANGED <<radio, loop, cliFd, btSub, apiPc>>

\* Seeded fault: the buffer is not emptied.
FlushEndKeeps ==
    /\ apiPc = "flush" /\ adv = <<>>
    /\ streamed' = streamed \o batch
    /\ apiPc' = "serve"
    /\ UNCHANGED <<radio, loop, ring, cliFd, btSub, batch>>

FlushEnd ==
    /\ apiPc = "flush" /\ adv = <<>>
    /\ streamed' = streamed \o batch /\ batch' = <<>>
    /\ apiPc' = "serve"
    /\ UNCHANGED <<radio, loop, ring, cliFd, btSub>>

-----------------------------------------------------------------------------
LoopStep == Drain \/ Wanted \/ Unwanted \/ Push
Flush    == FlushBegin \/ FlushAdd \/ FlushEnd
Client   == Accept \/ Subscribe \/ Unsubscribe \/ CloseClient

Next == Hear \/ LoopStep \/ Flush \/ Client

Spec == Init /\ [][Next]_vars

(* loop() drains the ring in each pass, and each round of serveClient ends  *)
(* in a flush, whatever the client asks for.                                *)
FairSpec == Spec /\ WF_vars(LoopStep) /\ WF_vars(Flush)

-----------------------------------------------------------------------------
(* Properties.                                                              *)

TypeOK ==
    /\ heard \in 0 .. MaxHeard
    /\ queue \in Seq(Item) /\ Len(queue) <= Room
    /\ adv \in Seq(Item) /\ Len(adv) <= Room
    /\ drained \in Seq(Item) /\ flushed \in Seq(Item)
    /\ queueLost \in Nat /\ advLost \in Nat /\ unwanted \in Nat
    /\ loopPc \in {"idle", "check", "push"} /\ apiPc \in {"serve", "flush"}
    /\ cliFd \in BOOLEAN /\ btSub \in BOOLEAN
    /\ batch \in Seq(Item) /\ Len(batch) <= BatchMax
    /\ streamed \in Seq(Item)

Increasing(s) == \A i, j \in 1 .. Len(s) : i < j => s[i] < s[j]

InHand == IF loopPc = "idle" THEN 0 ELSE 1          \* the advert loop() has popped

EachCounted ==
    /\ heard = Len(drained) + Len(queue) + queueLost
    /\ Len(drained) = Len(flushed) + Len(adv) + advLost + unwanted
                      + InHand

SentInTurn ==
    /\ flushed = streamed \o batch
    /\ apiPc = "serve" => batch = <<>>

(* No advert disappears or is repeated, over two rings, batches and changes *)
(* of the client: each is under way, sent once and in the order of the      *)
(* radio, not asked for, or counted by the ring that had no room for it.    *)
EachAdvertAccounted == EachCounted /\ SentInTurn /\ Increasing(streamed)

(* Why the order is kept: along the way from what the API task took, over   *)
(* `_adv` and the advert in the hands of loop(), to `queue` and what was    *)
(* heard, the numbers grow.                                                 *)
LastDrained == IF drained = <<>> THEN 0 ELSE Last(drained)

\* An advert that loop() is done with.
Before(n) == IF loopPc = "idle" THEN n <= LastDrained ELSE n < LastDrained

OrderInv ==
    /\ LastDrained <= heard
    /\ loopPc # "idle" => drained # <<>>
    /\ Increasing(queue) /\ Increasing(adv) /\ Increasing(flushed)
    /\ \A i \in 1 .. Len(queue) : LastDrained < queue[i] /\ queue[i] <= heard
    /\ \A i \in 1 .. Len(adv) : Before(adv[i])
    /\ \A i \in 1 .. Len(flushed) : Before(flushed[i])
    /\ \A i \in 1 .. Len(flushed), j \in 1 .. Len(adv) : flushed[i] < adv[j]

(* What loop() has put into `_adv` is sent while the subscription lasts.    *)
SubscriberGets ==
    \A n \in Item : btSub /\ n \in ToSet(adv) ~> ~btSub \/ n \in ToSet(streamed)
=============================================================================
