------------------------------- MODULE Varint -------------------------------
(***************************************************************************)
(* The varints of the native API (wbrg1_ble_proxy/esphome_api.cpp): digits  *)
(* of a number, the least significant first, every byte but the last with   *)
(* its top bit set.  A byte of the code holds 7 bits of the number, Base is *)
(* 128; a number has 64 bits, at most MaxDigits = 10 digits.                *)
(***************************************************************************)
EXTENDS Naturals, Sequences, SequencesExt

CONSTANTS Base, MaxDigits

ASSUME VarintAssumption == Base \in Nat \ {0, 1} /\ MaxDigits \in Nat \ {0}

Byte == 0 .. 2 * Base - 1

More(b) == b >= Base                    \* the top bit
Digit(b) == b % Base

\* What is left of a number after i rounds of the loop: v >>= 7.
Shifted(v) ==
    LET s[i \in 0 .. MaxDigits] == IF i = 0 THEN v ELSE s[i - 1] \div Base
    IN  s

\* A number the code has.
IsNumber(v) == v \in Nat /\ Shifted(v)[MaxDigits] = 0

NumDigits(v) == CHOOSE n \in 1 .. MaxDigits :
                    /\ Shifted(v)[n] = 0
                    /\ \A m \in 1 .. n - 1 : Shifted(v)[m] # 0

PutVarint(v) ==
    LET s == Shifted(v)
        n == NumDigits(v)
    IN  [i \in 1 .. n |-> (s[i - 1] % Base) + (IF i < n THEN Base ELSE 0)]

\* The last byte of the varint that starts at i: none when the buffer ends
\* before it, or when the number would have too many digits.
LastByte(buf, i) ==
    {j \in i .. Len(buf) : /\ j - i < MaxDigits
                           /\ ~More(buf[j])
                           /\ \A k \in i .. j - 1 : More(buf[k])}

HasVarint(buf, i) == LastByte(buf, i) # {}

\* The index after it.
After(buf, i) == 1 + CHOOSE j \in LastByte(buf, i) : TRUE

\* Of k digits, counted from the last, which is the most significant.
Number(bytes) ==
    LET last[k \in 0 .. Len(bytes)] ==
            IF k = 0 THEN 0 ELSE (last[k - 1] * Base) + Digit(bytes[Len(bytes) + 1 - k])
    IN  last[Len(bytes)]

GetVarint(buf, i) == Number(SubSeq(buf, i, After(buf, i) - 1))
=============================================================================
