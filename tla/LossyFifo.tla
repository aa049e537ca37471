------------------------------ MODULE LossyFifo ------------------------------
(***************************************************************************)
(* What a ring between two contexts of the firmware promises: a bounded     *)
(* queue that loses the newest item, and only when it is full.  Everything  *)
(* accepted is handed over once, whole, and in the order of arrival.        *)
(*                                                                          *)
(* The rings that must keep this promise are `queue` (BLE stack to loop()), *)
(* `_adv` (loop() to the API task) and `_ntf` (BLE stack to the API task).  *)
(***************************************************************************)
EXTENDS Naturals, Sequences

CONSTANTS Item,     \* what the ring carries
          Room      \* how many items it holds

VARIABLES fifo,     \* accepted and not yet taken, oldest first
          taken,    \* everything the consumer got, in order
          lost      \* how many items were refused

vars == <<fifo, taken, lost>>

Init ==
    /\ fifo = <<>>
    /\ taken = <<>>
    /\ lost = 0

Accept(x) ==
    /\ Len(fifo) < Room
    /\ fifo' = Append(fifo, x)
    /\ UNCHANGED <<taken, lost>>

Refuse ==
    /\ Len(fifo) = Room
    /\ lost' = lost + 1
    /\ UNCHANGED <<fifo, taken>>

Take ==
    /\ fifo # <<>>
    /\ taken' = Append(taken, Head(fifo))
    /\ fifo' = Tail(fifo)
    /\ UNCHANGED lost

Next ==
    \/ \E x \in Item : Accept(x)
    \/ Refuse
    \/ Take

Spec == Init /\ [][Next]_vars
=============================================================================
