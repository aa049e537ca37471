------------------------- MODULE ApiSession_proofs --------------------------
(***************************************************************************)
(* The API session for any frames, any buffer that holds the longest, and   *)
(* any cut of the stream: its types, that the frames handled are those the  *)
(* client has sent, that a handler finds in a frame what was put into it,   *)
(* and that a subscription is the client's own.                             *)
(***************************************************************************)
EXTENDS ApiSession, SequenceTheorems, WellFoundedInduction, TLAPS

LEMMA Smallest ==
    ASSUME NEW S \in SUBSET Nat, S # {}
    PROVE  \E i \in S : \A j \in S : ~(j < i)
<1> DEFINE R == OpToRel(<, Nat)
<1>1. IsWellFoundedOn(R, Nat)
  BY NatLessThanWellFounded
<1>2. PICK i \in S : \A j \in S : ~(<<j, i>> \in R)
  BY <1>1, WFMin
<1> QED BY <1>2 DEF OpToRel

LEMMA Sequence ==
    ASSUME NEW S, NEW n \in Nat, NEW s, s \in [1 .. n -> S]
    PROVE  s \in Seq(S) /\ Len(s) = n
<1>1. s \in Seq(S)
  BY SeqDef
<1> QED BY <1>1, LenProperties

-----------------------------------------------------------------------------
(* The varint of a number is read back as this number.                      *)

ReadsBack(v) ==
    LET bytes == PutVarint(v)
    IN  /\ bytes \in Seq(Byte) /\ Len(bytes) \in 1 .. MaxDigits
        /\ \A i \in 1 .. Len(bytes) : More(bytes[i]) <=> i < Len(bytes)
        /\ Number(bytes) = v

\* Numbers made one from the other, the i-th by step[i].
Chain(g, n, base, step) ==
    g = [i \in 0 .. n |-> IF i = 0 THEN base ELSE step[i][g[i - 1]]]

LEMMA ChainExists ==
    ASSUME NEW n \in Nat, NEW base \in Nat, NEW step \in [1 .. n -> [Nat -> Nat]]
    PROVE  \E g : Chain(g, n, base, step)
<1> DEFINE None == {k \in 0 .. n : ~\E g : Chain(g, k, base, step)}
<1> SUFFICES ASSUME None # {} PROVE FALSE
  <2>1. n \in 0 .. n
    OBVIOUS
  <2> QED BY <2>1
<1>1. PICK k \in None : \A j \in None : ~(j < k)
  <2>1. None \in SUBSET Nat
    OBVIOUS
  <2> HIDE DEF None
  <2> QED BY <2>1, Smallest
<1>2. k # 0
  <2> DEFINE z == [i \in 0 .. 0 |-> base]
  <2>1. Chain(z, 0, base, step)
    <3>1. \A i \in 0 .. 0 : i = 0
      OBVIOUS
    <3> QED BY <3>1 DEF Chain
  <2> QED BY <2>1
<1>3. k - 1 \in 0 .. n /\ k - 1 \notin None /\ k \in Nat
  <2>1. k \in 0 .. n
    BY <1>1
  <2> HIDE DEF None
  <2> QED BY <1>1, <1>2, <2>1
<1>4. PICK g : Chain(g, k - 1, base, step)
  BY <1>3
<1> DEFINE h == [i \in 0 .. k |-> IF i = k THEN step[k][g[k - 1]] ELSE g[i]]
<1>5. \A i \in 0 .. k : h[i] = IF i = 0 THEN base ELSE step[i][h[i - 1]]
  <2> SUFFICES ASSUME NEW i \in 0 .. k PROVE h[i] = IF i = 0 THEN base ELSE step[i][h[i - 1]]
    OBVIOUS
  <2>1. CASE i = k
    <3>1. h[i - 1] = g[k - 1]
      BY <1>2, <1>3, <2>1
    <3> QED BY <1>2, <2>1, <3>1
  <2>2. CASE i # k
    <3>1. i \in 0 .. k - 1 /\ h[i] = g[i]
      BY <1>3, <2>2
    <3>2. g[i] = IF i = 0 THEN base ELSE step[i][g[i - 1]]
      BY <1>4, <3>1 DEF Chain
    <3>3. i # 0 => h[i - 1] = g[i - 1]
      <4>1. i # 0 => i - 1 \in 0 .. k /\ i - 1 # k
        BY <1>3, <2>2
      <4> QED BY <4>1
    <3> HIDE DEF h
    <3> QED BY <3>1, <3>2, <3>3
  <2> QED BY <2>1, <2>2
<1>6. Chain(h, k, base, step)
  <2> DEFINE e == [i \in 0 .. k |-> IF i = 0 THEN base ELSE step[i][h[i - 1]]]
  <2>1. h = [i \in 0 .. k |-> h[i]]
    OBVIOUS
  <2> HIDE DEF h
  <2>2. h = e
    BY <1>5, <2>1
  <2> QED BY <2>2 DEF Chain
<1> QED BY <1>1, <1>6

LEMMA ChainIsNat ==
    ASSUME NEW n \in Nat, NEW base \in Nat, NEW step \in [1 .. n -> [Nat -> Nat]],
           NEW g, Chain(g, n, base, step)
    PROVE  \A i \in 0 .. n : g[i] \in Nat
<1> DEFINE Bad == {k \in 0 .. n : g[k] \notin Nat}
<1> SUFFICES ASSUME Bad # {} PROVE FALSE
  OBVIOUS
<1>1. PICK k \in Bad : \A j \in Bad : ~(j < k)
  <2>1. Bad \in SUBSET Nat
    OBVIOUS
  <2> HIDE DEF Bad
  <2> QED BY <2>1, Smallest
<1>2. g[k] = IF k = 0 THEN base ELSE step[k][g[k - 1]]
  <2>1. k \in 0 .. n
    BY <1>1
  <2> HIDE DEF Bad
  <2> QED BY <2>1 DEF Chain
<1>3. k # 0 => g[k - 1] \in Nat /\ k \in 1 .. n
  <2>1. k \in 0 .. n
    BY <1>1
  <2>2. k # 0 => k - 1 \in 0 .. n /\ k - 1 \notin Bad
    <3> HIDE DEF Bad
    <3> QED BY <1>1, <2>1
  <2>3. k # 0 => k \in 1 .. n
    BY <2>1
  <2>4. k # 0 => g[k - 1] \in Nat
    BY <2>2
  <2> HIDE DEF Bad
  <2> QED BY <2>3, <2>4
<1>4. g[k] \in Nat
  BY <1>2, <1>3
<1> QED BY <1>1, <1>4

LEMMA Division ==
    \A x \in Nat : /\ x \div Base \in Nat /\ x % Base \in 0 .. Base - 1
                   /\ x = ((x \div Base) * Base) + (x % Base)
<1> SUFFICES ASSUME NEW b \in Nat \ {0}, NEW x \in Nat
             PROVE  /\ x \div b \in Nat /\ x % b \in 0 .. b - 1
                    /\ x = ((x \div b) * b) + (x % b)
  BY VarintAssumption
<1> QED OBVIOUS

LEMMA ShiftedIs ==
    ASSUME NEW v \in Nat
    PROVE  /\ Shifted(v)[0] = v
           /\ \A i \in 0 .. MaxDigits : Shifted(v)[i] \in Nat
           /\ \A i \in 1 .. MaxDigits : Shifted(v)[i] = Shifted(v)[i - 1] \div Base
<1> DEFINE n == MaxDigits
           step == [i \in 1 .. n |-> [x \in Nat |-> x \div Base]]
           s == Shifted(v)
<1>1. n \in Nat /\ step \in [1 .. n -> [Nat -> Nat]]
  BY VarintAssumption
<1>2. \A g : (g = [i \in 0 .. n |-> IF i = 0 THEN v ELSE g[i - 1] \div Base])
             => Chain(g, n, v, step)
  <2> SUFFICES ASSUME NEW g, g = [i \in 0 .. n |-> IF i = 0 THEN v ELSE g[i - 1] \div Base]
               PROVE  Chain(g, n, v, step)
    OBVIOUS
  <2>1. \A i \in 0 .. n : g[i] \in Nat
    <3> DEFINE Bad == {k \in 0 .. n : g[k] \notin Nat}
    <3> SUFFICES ASSUME Bad # {} PROVE FALSE
      OBVIOUS
    <3>1. PICK k \in Bad : \A j \in Bad : ~(j < k)
      <4>1. Bad \in SUBSET Nat
        OBVIOUS
      <4> HIDE DEF Bad
      <4> QED BY <4>1, Smallest
    <3>2. k \in 0 .. n /\ g[k] = IF k = 0 THEN v ELSE g[k - 1] \div Base
      BY <3>1
    <3>3. k # 0 => k - 1 \notin Bad /\ k - 1 \in 0 .. n
      BY <1>1, <3>1
    <3>4. k # 0 => g[k - 1] \in Nat
      BY <3>3
    <3>5. g[k] \in Nat
      <4> DEFINE x == g[k - 1]
      <4>1. k # 0 => x \in Nat /\ g[k] = x \div Base
        BY <3>2, <3>4
      <4> HIDE DEF x
      <4>2. k # 0 => x \div Base \in Nat
        BY <4>1, Division
      <4> QED BY <3>2, <4>1, <4>2
    <3> QED BY <3>1, <3>5
  <2>2. \A i \in 0 .. n : (IF i = 0 THEN v ELSE step[i][g[i - 1]])
                        = (IF i = 0 THEN v ELSE g[i - 1] \div Base)
    <3> SUFFICES ASSUME NEW i \in 0 .. n, i # 0 PROVE step[i][g[i - 1]] = g[i - 1] \div Base
      OBVIOUS
    <3>1. i - 1 \in 0 .. n /\ i \in 1 .. n
      BY <1>1
    <3> QED BY <2>1, <3>1
  <2> HIDE DEF step
  <2> QED BY <2>2 DEF Chain
<1>3. PICK g : Chain(g, n, v, step)
  BY <1>1, ChainExists
<1>4. g = [i \in 0 .. n |-> IF i = 0 THEN v ELSE g[i - 1] \div Base]
  <2>1. \A i \in 0 .. n : g[i] \in Nat
    <3> HIDE DEF step, n
    <3> QED BY <1>1, <1>3, ChainIsNat
  <2>2. \A i \in 0 .. n : (IF i = 0 THEN v ELSE step[i][g[i - 1]])
                        = (IF i = 0 THEN v ELSE g[i - 1] \div Base)
    <3> SUFFICES ASSUME NEW i \in 0 .. n, i # 0 PROVE step[i][g[i - 1]] = g[i - 1] \div Base
      OBVIOUS
    <3>1. i - 1 \in 0 .. n /\ i \in 1 .. n
      BY <1>1
    <3> QED BY <2>1, <3>1
  <2> HIDE DEF step
  <2> QED BY <1>3, <2>2 DEF Chain
<1>5. s = [i \in 0 .. n |-> IF i = 0 THEN v ELSE s[i - 1] \div Base]
  <2> DEFINE c == CHOOSE g1 : g1 = [i \in 0 .. n |-> IF i = 0 THEN v ELSE g1[i - 1] \div Base]
  <2>1. c = [i \in 0 .. n |-> IF i = 0 THEN v ELSE c[i - 1] \div Base]
    BY <1>4
  <2>2. s = c
    BY DEF Shifted
  <2> HIDE DEF c, s
  <2> QED BY <2>1, <2>2
<1> HIDE DEF s
<1>6. \A i \in 0 .. n : s[i] \in Nat
  <2>1. Chain(s, n, v, step)
    BY <1>2, <1>5
  <2> HIDE DEF step, n
  <2> QED BY <1>1, <2>1, ChainIsNat
<1>7. s[0] = v /\ \A i \in 1 .. n : s[i] = s[i - 1] \div Base
  <2>1. 0 \in 0 .. n /\ \A i \in 1 .. n : i \in 0 .. n /\ i # 0
    BY <1>1
  <2> HIDE DEF n
  <2> QED BY <1>5, <2>1
<1> QED BY <1>6, <1>7 DEF s

LEMMA NumberIs ==
    ASSUME NEW bytes \in Seq(Byte), NEW g,
           LET n == Len(bytes)
           IN  /\ g \in [0 .. n -> Nat] /\ g[0] = 0
               /\ \A k \in 1 .. n : g[k] = (g[k - 1] * Base) + Digit(bytes[n + 1 - k])
    PROVE  Number(bytes) = g[Len(bytes)]
<1> DEFINE n == Len(bytes)
           Sums(f) == f = [k \in 0 .. n |-> IF k = 0 THEN 0
                                             ELSE (f[k - 1] * Base) + Digit(bytes[n + 1 - k])]
           c == CHOOSE f : Sums(f)
<1>1. n \in Nat
  BY LenProperties
<1>2. Number(bytes) = c[n]
  BY DEF Number
<1>3. Sums(g)
  <2> DEFINE e == [k \in 0 .. n |-> IF k = 0 THEN 0 ELSE (g[k - 1] * Base) + Digit(bytes[n + 1 - k])]
  <2>1. g = [k \in 0 .. n |-> g[k]]
    OBVIOUS
  <2>2. \A k \in 0 .. n : g[k] = IF k = 0 THEN 0 ELSE (g[k - 1] * Base) + Digit(bytes[n + 1 - k])
    <3>1. \A k \in 0 .. n : k = 0 \/ k \in 1 .. n
      BY <1>1
    <3> QED BY <3>1
  <2>3. g = e
    BY <2>1, <2>2, Zenon
  <2> QED BY <2>3
<1>4. Sums(c)
  <2> HIDE DEF Sums
  <2> QED BY <1>3
<1>5. \A k \in 0 .. n : c[k] = g[k]
  <2> DEFINE Bad == {k \in 0 .. n : c[k] # g[k]}
  <2> SUFFICES ASSUME Bad # {} PROVE FALSE
    OBVIOUS
  <2>1. PICK k \in Bad : \A j \in Bad : ~(j < k)
    <3>1. Bad \in SUBSET Nat
      OBVIOUS
    <3> HIDE DEF Bad
    <3> QED BY <3>1, Smallest
  <2>2. k \in 0 .. n
    BY <2>1
  <2>3. c[k] = IF k = 0 THEN 0 ELSE (c[k - 1] * Base) + Digit(bytes[n + 1 - k])
    <3> HIDE DEF Bad, c
    <3> QED BY <1>4, <2>2
  <2>4. g[k] = IF k = 0 THEN 0 ELSE (g[k - 1] * Base) + Digit(bytes[n + 1 - k])
    <3> HIDE DEF Bad, c
    <3> QED BY <1>3, <2>2
  <2>5. k # 0 => k - 1 \in 0 .. n /\ k - 1 \notin Bad
    <3> HIDE DEF Bad, c
    <3> QED BY <1>1, <2>1, <2>2
  <2>6. k # 0 => c[k - 1] = g[k - 1]
    <3> HIDE DEF c
    <3> QED BY <2>5
  <2>7. c[k] # g[k]
    BY <2>1
  <2> HIDE DEF c, Bad
  <2> QED BY <2>3, <2>4, <2>6, <2>7
<1>6. n \in 0 .. n
  BY <1>1
<1> HIDE DEF c, n
<1> QED BY <1>2, <1>5, <1>6 DEF n

LEMMA NumDigitsIs ==
    ASSUME NEW v, IsNumber(v)
    PROVE  /\ NumDigits(v) \in 1 .. MaxDigits /\ Shifted(v)[NumDigits(v)] = 0
           /\ \A m \in 1 .. NumDigits(v) - 1 : Shifted(v)[m] # 0
<1> DEFINE Zero == {n \in 1 .. MaxDigits : Shifted(v)[n] = 0}
<1>1. MaxDigits \in Zero
  BY VarintAssumption DEF IsNumber
<1>2. PICK n \in Zero : \A j \in Zero : ~(j < n)
  <2>1. Zero \in SUBSET Nat
    OBVIOUS
  <2> HIDE DEF Zero
  <2> QED BY <1>1, <2>1, Smallest
<1>3. n \in 1 .. MaxDigits /\ Shifted(v)[n] = 0
  BY <1>2
<1>4. \A m \in 1 .. n - 1 : Shifted(v)[m] # 0
  <2> SUFFICES ASSUME NEW m \in 1 .. n - 1 PROVE m \notin Zero
    <3> SUFFICES ASSUME NEW m \in 1 .. n - 1 PROVE Shifted(v)[m] # 0
      OBVIOUS
    <3>1. m \in 1 .. MaxDigits
      BY <1>3, VarintAssumption
    <3> QED BY <3>1
  <2>1. m < n
    BY <1>3, VarintAssumption
  <2> HIDE DEF Zero
  <2> QED BY <1>2, <2>1
<1> HIDE DEF Zero
<1> QED BY <1>3, <1>4 DEF NumDigits

\* Every number of the code is read back: putVarint and getVarint.
LEMMA VarintReadsBack ==
    ASSUME NEW v, IsNumber(v)
    PROVE  ReadsBack(v)
<1> DEFINE s == Shifted(v)  n == NumDigits(v)  bytes == PutVarint(v)
<1>1. /\ v \in Nat /\ s[0] = v /\ MaxDigits \in Nat
      /\ \A i \in 0 .. MaxDigits : s[i] \in Nat
      /\ \A i \in 1 .. MaxDigits : s[i] = s[i - 1] \div Base
  BY ShiftedIs, VarintAssumption DEF IsNumber
<1>2. n \in 1 .. MaxDigits /\ s[n] = 0
  BY NumDigitsIs
<1>3. bytes = [i \in 1 .. n |-> (s[i - 1] % Base) + (IF i < n THEN Base ELSE 0)]
  BY DEF PutVarint
<1>4. \A i \in 1 .. n : /\ s[i - 1] \in Nat /\ s[i - 1] % Base \in 0 .. Base - 1
                        /\ s[i - 1] = (s[i] * Base) + (s[i - 1] % Base)
  <2> SUFFICES ASSUME NEW i \in 1 .. n
               PROVE  /\ s[i - 1] \in Nat /\ s[i - 1] % Base \in 0 .. Base - 1
                      /\ s[i - 1] = (s[i] * Base) + (s[i - 1] % Base)
    OBVIOUS
  <2>1. i \in 1 .. MaxDigits /\ i - 1 \in 0 .. MaxDigits
    BY <1>1, <1>2
  <2> HIDE DEF s, n
  <2>2. s[i - 1] \in Nat /\ s[i] = s[i - 1] \div Base
    BY <1>1, <2>1
  <2> QED BY <2>2, Division
<1> HIDE DEF s, n, bytes
<1>5. \A i \in 1 .. n : bytes[i] \in Byte /\ (More(bytes[i]) <=> i < n) /\ Digit(bytes[i]) = s[i - 1] % Base
  <2> SUFFICES ASSUME NEW i \in 1 .. n
               PROVE  /\ bytes[i] \in Byte /\ (More(bytes[i]) <=> i < n)
                      /\ Digit(bytes[i]) = s[i - 1] % Base
    OBVIOUS
  <2> DEFINE d == s[i - 1] % Base
  <2>1. bytes[i] = d + (IF i < n THEN Base ELSE 0) /\ d \in 0 .. Base - 1 /\ Base \in Nat \ {0, 1}
    BY <1>3, <1>4, VarintAssumption
  <2> HIDE DEF d
  <2>2. d % Base = d /\ (d + Base) % Base = d /\ d \in Nat
    BY <2>1
  <2>3. CASE i < n
    <3>1. bytes[i] = d + Base
      BY <2>1, <2>3
    <3> QED BY <2>1, <2>2, <2>3, <3>1 DEF More, Digit, Byte, d
  <2>4. CASE ~(i < n)
    <3>1. bytes[i] = d
      BY <2>1, <2>4
    <3> QED BY <2>1, <2>2, <2>4, <3>1 DEF More, Digit, Byte, d
  <2> QED BY <2>3, <2>4
<1>6. bytes \in Seq(Byte) /\ Len(bytes) = n
  <2>1. bytes \in [1 .. n -> Byte] /\ n \in Nat
    <3>1. bytes = [i \in 1 .. n |-> bytes[i]]
      BY <1>3
    <3> QED BY <1>1, <1>2, <1>5, <3>1
  <2> QED BY <2>1, Sequence
<1>7. Number(bytes) = v
  <2> DEFINE g == [k \in 0 .. n |-> s[n - k]]
  <2>1. g \in [0 .. n -> Nat] /\ g[0] = 0 /\ g[n] = v
    <3>1. \A k \in 0 .. n : n - k \in 0 .. MaxDigits
      BY <1>1, <1>2
    <3>2. 0 \in 0 .. n /\ n \in 0 .. n /\ n - 0 = n /\ n - n = 0
      BY <1>1, <1>2
    <3> QED BY <1>1, <1>2, <3>1, <3>2
  <2>2. \A k \in 1 .. n : g[k] = (g[k - 1] * Base) + Digit(bytes[n + 1 - k])
    <3> SUFFICES ASSUME NEW k \in 1 .. n
                 PROVE  g[k] = (g[k - 1] * Base) + Digit(bytes[n + 1 - k])
      OBVIOUS
    <3> DEFINE i == n + 1 - k
    <3>1. i \in 1 .. n /\ n - k = i - 1 /\ n - (k - 1) = i /\ k \in 0 .. n /\ k - 1 \in 0 .. n
      BY <1>1, <1>2
    <3>2. g[k] = s[i - 1] /\ g[k - 1] = s[i]
      BY <3>1
    <3> HIDE DEF i, g
    <3>3. g[k] = (g[k - 1] * Base) + Digit(bytes[i])
      BY <1>4, <1>5, <3>1, <3>2
    <3> QED BY <3>3 DEF i
  <2> HIDE DEF g
  <2> QED BY <1>6, <2>1, <2>2, NumberIs
<1> QED BY <1>2, <1>5, <1>6, <1>7 DEF ReadsBack, bytes

-----------------------------------------------------------------------------
(* The stream of several frames is that of all but the last and the last.   *)

\* g[i] is the first i of the sequences s, one behind the other.
Flat(g, s, n) == g = [i \in 1 .. n |-> IF i = 1 THEN s[1] ELSE g[i - 1] \o s[i]]

LEMMA FlatExists ==
    ASSUME NEW s, NEW n \in Nat
    PROVE  \E g : Flat(g, s, n)
<1> DEFINE None == {k \in Nat : ~\E g : Flat(g, s, k)}
<1> SUFFICES ASSUME None # {} PROVE FALSE
  OBVIOUS
<1>1. PICK k \in None : \A j \in None : ~(j < k)
  <2>1. None \in SUBSET Nat
    OBVIOUS
  <2> HIDE DEF None
  <2> QED BY <2>1, Smallest
<1>2. k # 0
  <2>1. Flat([i \in 1 .. 0 |-> 0], s, 0)
    BY DEF Flat
  <2> QED BY <2>1
<1>3. k - 1 \in Nat /\ k - 1 \notin None
  BY <1>1, <1>2
<1>4. PICK g : Flat(g, s, k - 1)
  BY <1>3
<1> DEFINE h == [i \in 1 .. k |-> IF i = k THEN IF i = 1 THEN s[1] ELSE g[k - 1] \o s[k]
                                  ELSE g[i]]
<1>5. \A i \in 1 .. k : h[i] = IF i = 1 THEN s[1] ELSE h[i - 1] \o s[i]
  <2> SUFFICES ASSUME NEW i \in 1 .. k PROVE h[i] = IF i = 1 THEN s[1] ELSE h[i - 1] \o s[i]
    OBVIOUS
  <2>1. CASE i = k
    BY <1>3, <2>1
  <2>2. CASE i # k
    <3>1. i \in 1 .. k - 1 /\ h[i] = g[i]
      BY <1>3, <2>2
    <3>2. g[i] = IF i = 1 THEN s[1] ELSE g[i - 1] \o s[i]
      BY <1>4, <3>1 DEF Flat
    <3>3. i # 1 => i - 1 \in 1 .. k /\ i - 1 # k
      BY <1>3, <2>2
    <3> QED BY <3>1, <3>2, <3>3
  <2> QED BY <2>1, <2>2
<1>6. h = [i \in 1 .. k |-> IF i = 1 THEN s[1] ELSE h[i - 1] \o s[i]]
  <2> DEFINE e == [i \in 1 .. k |-> IF i = 1 THEN s[1] ELSE h[i - 1] \o s[i]]
  <2>1. h = [i \in 1 .. k |-> h[i]]
    OBVIOUS
  <2> HIDE DEF h
  <2> QED BY <1>5, <2>1
<1>7. Flat(h, s, k)
  <2> HIDE DEF h
  <2> QED BY <1>6 DEF Flat
<1> QED BY <1>1, <1>7

\* It does not depend on what comes behind.
LEMMA FlatAgree ==
    ASSUME NEW s, NEW t, NEW g, NEW h, NEW n \in Nat, NEW m \in Nat, n <= m,
           Flat(g, s, n), Flat(h, t, m), \A i \in 1 .. n : s[i] = t[i]
    PROVE  \A i \in 1 .. n : g[i] = h[i]
<1> DEFINE D == {k \in 1 .. n : g[k] # h[k]}
<1> SUFFICES ASSUME D # {} PROVE FALSE
  OBVIOUS
<1>1. PICK k \in D : \A j \in D : ~(j < k)
  <2>1. D \in SUBSET Nat
    OBVIOUS
  <2> HIDE DEF D
  <2> QED BY <2>1, Smallest
<1>2. /\ g[k] = IF k = 1 THEN s[1] ELSE g[k - 1] \o s[k]
      /\ h[k] = IF k = 1 THEN t[1] ELSE h[k - 1] \o t[k]
  <2>1. k \in 1 .. n /\ k \in 1 .. m
    BY <1>1
  <2> HIDE DEF D
  <2> QED BY <2>1 DEF Flat
<1>3. k # 1 => k - 1 \in 1 .. n /\ k - 1 \notin D
  BY <1>1
<1> QED BY <1>1, <1>2, <1>3

LEMMA FlattenIs ==
    ASSUME NEW s, Len(s) \in Nat \ {0}
    PROVE  \E g : Flat(g, s, Len(s)) /\ FlattenSeq(s) = g[Len(s)]
<1> DEFINE g == CHOOSE g : g = [i \in 1 .. Len(s) |-> IF i = 1 THEN s[i] ELSE g[i - 1] \o s[i]]
<1>1. \A f : Flat(f, s, Len(s)) <=>
                f = [i \in 1 .. Len(s) |-> IF i = 1 THEN s[i] ELSE f[i - 1] \o s[i]]
  <2> SUFFICES ASSUME NEW f
               PROVE  [i \in 1 .. Len(s) |-> IF i = 1 THEN s[1] ELSE f[i - 1] \o s[i]]
                    = [i \in 1 .. Len(s) |-> IF i = 1 THEN s[i] ELSE f[i - 1] \o s[i]]
    BY DEF Flat
  <2> QED OBVIOUS
<1>2. \E f : Flat(f, s, Len(s))
  BY FlatExists
<1>3. Flat(g, s, Len(s))
  BY <1>1, <1>2
<1>4. FlattenSeq(s) = g[Len(s)]
  BY DEF FlattenSeq
<1> QED BY <1>3, <1>4

\* Where the elements of two sequences are in the one made of both.
LEMMA ConcatIndex ==
    \A S : \A s, t \in Seq(S) :
        /\ Len(s) \in Nat /\ Len(t) \in Nat
        /\ s \o t \in Seq(S) /\ Len(s \o t) = Len(s) + Len(t)
        /\ \A i \in 1 .. Len(s) : (s \o t)[i] = s[i]
        /\ \A i \in 1 .. Len(t) : (s \o t)[Len(s) + i] = t[i]
<1> TAKE S
<1> TAKE s, t \in Seq(S)
<1> DEFINE m == Len(s)  n == Len(t)
<1>1. m \in Nat /\ n \in Nat
  BY LenProperties
<1>2. /\ s \o t \in Seq(S) /\ Len(s \o t) = m + n
      /\ \A i \in 1 .. m + n : (s \o t)[i] = IF i <= m THEN s[i] ELSE t[i - m]
  BY ConcatProperties
<1> DEFINE u == s \o t
<1> HIDE DEF u, m, n
<1>3. \A i \in 1 .. m + n : u[i] = IF i <= m THEN s[i] ELSE t[i - m]
  BY <1>2 DEF u, m, n
<1>4. \A i \in 1 .. m : u[i] = s[i]
  BY <1>1, <1>3
<1>5. \A i \in 1 .. n : u[m + i] = t[i]
  <2> SUFFICES ASSUME NEW i \in 1 .. n PROVE u[m + i] = t[i]
    OBVIOUS
  <2>1. m + i \in 1 .. m + n /\ ~(m + i <= m) /\ (m + i) - m = i
    BY <1>1
  <2> QED BY <1>3, <2>1
<1> QED BY <1>1, <1>2, <1>4, <1>5 DEF u, m, n

LEMMA Assoc ==
    \A s, t, u \in Seq(Byte) : (s \o t) \o u = s \o (t \o u)
BY ConcatAssociative

LEMMA CancelLeft ==
    \A s, t, u \in Seq(Byte) : s \o t = s \o u => t = u
BY ConcatSimplifications

LEMMA FirstOfAppend ==
    ASSUME NEW S, NEW s \in Seq(S), NEW e \in S, NEW k \in 0 .. Len(s)
    PROVE  SubSeq(Append(s, e), 1, k) = SubSeq(s, 1, k)
<1>1. Len(s) \in Nat /\ \A i \in 1 .. Len(s) : Append(s, e)[i] = s[i] /\ s[i] \in S
  BY AppendProperties, LenProperties, ElementOfSeq
<1> DEFINE a == SubSeq(Append(s, e), 1, k)  b == SubSeq(s, 1, k)
<1>2. \A i \in 1 .. k : Append(s, e)[i] = s[i] /\ s[i] \in S
  BY <1>1
<1>3. a \in Seq(S) /\ Len(a) = k /\ \A i \in 1 .. k : a[i] = Append(s, e)[i]
  BY <1>2, SubSeqProperties
<1>4. b \in Seq(S) /\ Len(b) = k /\ \A i \in 1 .. k : b[i] = s[i]
  BY <1>2, SubSeqProperties
<1>5. a = b
  BY <1>2, <1>3, <1>4, SeqEqual
<1> QED BY <1>5 DEF a, b

LEMMA FlattenEmpty == FlattenSeq(<<>>) = <<>>
<1>1. Len(<<>>) = 0
  OBVIOUS
<1> QED BY <1>1 DEF FlattenSeq

LEMMA FlattenAppend ==
    ASSUME NEW s \in Seq(Seq(Byte)), NEW e \in Seq(Byte)
    PROVE  FlattenSeq(Append(s, e)) = FlattenSeq(s) \o e
<1> DEFINE n == Len(s)  t == Append(s, e)
<1>1. /\ n \in Nat /\ Len(t) = n + 1 /\ t[n + 1] = e
      /\ \A i \in 1 .. n : t[i] = s[i]
  BY AppendProperties, LenProperties
<1> HIDE DEF t, n
<1>2. n + 1 \in Nat \ {0} /\ n + 1 \in 1 .. n + 1 /\ (n + 1) - 1 = n
  BY <1>1
<1>3. PICK h : Flat(h, t, n + 1) /\ FlattenSeq(t) = h[n + 1]
  BY <1>1, <1>2, FlattenIs
<1>4. h[n + 1] = IF n + 1 = 1 THEN t[1] ELSE h[n] \o t[n + 1]
  BY <1>2, <1>3 DEF Flat
<1>5. CASE n = 0
  <2>1. s = <<>>
    BY <1>5 DEF n
  <2>2. <<>> \o e = e
    BY ConcatEmptySeq
  <2> QED BY <1>1, <1>3, <1>4, <1>5, <2>1, <2>2, FlattenEmpty DEF t
<1>6. CASE n # 0
  <2>1. PICK g : Flat(g, s, n) /\ FlattenSeq(s) = g[n]
    BY <1>1, <1>6, FlattenIs DEF n
  <2>2. g[n] = h[n]
    <3>1. n \in 1 .. n /\ n + 1 \in Nat /\ n <= n + 1
      BY <1>1, <1>6
    <3>2. \A i \in 1 .. n : s[i] = t[i]
      BY <1>1
    <3>3. \A i \in 1 .. n : g[i] = h[i]
      BY <1>1, <1>3, <2>1, <3>1, <3>2, FlatAgree
    <3> QED BY <3>1, <3>3
  <2>3. n + 1 # 1
    BY <1>1, <1>6
  <2> QED BY <1>1, <1>3, <1>4, <2>1, <2>2, <2>3 DEF t
<1> QED BY <1>5, <1>6

LEMMA FlattenBytes ==
    ASSUME NEW s \in Seq(Seq(Byte))
    PROVE  FlattenSeq(s) \in Seq(Byte)
<1> DEFINE Bad == {n \in Nat : \E t \in Seq(Seq(Byte)) : Len(t) = n /\ FlattenSeq(t) \notin Seq(Byte)}
<1>1. Bad = {}
  <2> SUFFICES ASSUME Bad # {} PROVE FALSE
    OBVIOUS
  <2>1. PICK n \in Bad : \A j \in Bad : ~(j < n)
    <3>1. Bad \in SUBSET Nat
      OBVIOUS
    <3> HIDE DEF Bad
    <3> QED BY <3>1, Smallest
  <2>2. PICK t \in Seq(Seq(Byte)) : n \in Nat /\ Len(t) = n /\ FlattenSeq(t) \notin Seq(Byte)
    BY <2>1
  <2>3. CASE t = <<>>
    BY <2>2, <2>3, EmptySeq, FlattenEmpty
  <2>4. CASE t # <<>>
    <3>1. PICK q \in Seq(Seq(Byte)), e \in Seq(Byte) : t = Append(q, e)
      BY <2>4, SequenceEmptyOrAppend
    <3>2. Len(q) \in Nat /\ Len(q) < n
      BY <2>2, <3>1, AppendProperties, LenProperties
    <3>3. FlattenSeq(q) \in Seq(Byte)
      <4>1. Len(q) \notin Bad
        <5> HIDE DEF Bad
        <5> QED BY <2>1, <3>2
      <4> QED BY <3>2, <4>1
    <3>4. FlattenSeq(t) = FlattenSeq(q) \o e
      BY <3>1, FlattenAppend
    <3> QED BY <2>2, <3>3, <3>4, ConcatProperties
  <2> QED BY <2>3, <2>4
<1>2. Len(s) \in Nat
  BY LenProperties
<1> QED BY <1>1, <1>2

LEMMA FirstOf ==
    ASSUME NEW S, NEW s \in Seq(S), NEW k \in 0 .. Len(s)
    PROVE  /\ SubSeq(s, 1, k) \in Seq(S) /\ Len(SubSeq(s, 1, k)) = k
           /\ \A i \in 1 .. k : SubSeq(s, 1, k)[i] = s[i]
<1>1. k \in Nat /\ \A i \in 1 .. k : s[i] \in S
  BY LenProperties, ElementOfSeq
<1> DEFINE d == SubSeq(s, 1, k)
<1>2. d \in Seq(S) /\ Len(d) = (IF 1 <= k THEN k - 1 + 1 ELSE 0) /\ \A i \in 1 .. k - 1 + 1 : d[i] = s[1 + i - 1]
  BY <1>1, SubSeqProperties
<1> HIDE DEF d
<1>3. Len(d) = k /\ \A i \in 1 .. k : d[i] = s[i]
  BY <1>1, <1>2
<1> QED BY <1>2, <1>3 DEF d

LEMMA OneMore ==
    ASSUME NEW S, NEW s \in Seq(S), NEW k \in 0 .. Len(s), k + 1 \in 1 .. Len(s)
    PROVE  SubSeq(s, 1, k + 1) = Append(SubSeq(s, 1, k), s[k + 1])
<1> DEFINE c == SubSeq(s, 1, k + 1)  d == SubSeq(s, 1, k)  g == Append(d, s[k + 1])
<1>1. c \in Seq(S) /\ Len(c) = k + 1 /\ \A i \in 1 .. k + 1 : c[i] = s[i]
  <2>1. k + 1 \in 0 .. Len(s)
    OBVIOUS
  <2> HIDE DEF c
  <2> QED BY <2>1, FirstOf DEF c
<1>2. d \in Seq(S) /\ Len(d) = k /\ \A i \in 1 .. k : d[i] = s[i]
  BY FirstOf
<1>3. s[k + 1] \in S /\ k \in Nat
  BY ElementOfSeq, LenProperties
<1> HIDE DEF c, d
<1>4. g \in Seq(S) /\ Len(g) = k + 1 /\ g[k + 1] = s[k + 1] /\ \A i \in 1 .. k : g[i] = d[i]
  BY <1>2, <1>3, AppendProperties
<1> HIDE DEF g
<1>5. \A i \in 1 .. k + 1 : c[i] = g[i]
  <2>1. /\ \A i \in 1 .. k + 1 : i \in 1 .. k \/ i = k + 1
        /\ \A i \in 1 .. k : i \in 1 .. k + 1
        /\ k + 1 \in 1 .. k + 1
    BY <1>3
  <2>2. \A i \in 1 .. k : c[i] = g[i]
    BY <1>1, <1>2, <1>4, <2>1
  <2>3. c[k + 1] = g[k + 1]
    BY <1>1, <1>4, <2>1
  <2> QED BY <2>1, <2>2, <2>3
<1>6. c = g
  BY <1>1, <1>4, <1>5, SeqEqual
<1> QED BY <1>6 DEF c, d, g

LEMMA FlattenNext ==
    ASSUME NEW s \in Seq(Seq(Byte)), NEW k \in 0 .. Len(s), k + 1 \in 1 .. Len(s)
    PROVE  FlattenSeq(SubSeq(s, 1, k + 1)) = FlattenSeq(SubSeq(s, 1, k)) \o s[k + 1]
<1>1. SubSeq(s, 1, k + 1) = Append(SubSeq(s, 1, k), s[k + 1])
  BY OneMore
<1>2. SubSeq(s, 1, k) \in Seq(Seq(Byte)) /\ s[k + 1] \in Seq(Byte)
  BY FirstOf, ElementOfSeq
<1> QED BY <1>1, <1>2, FlattenAppend

\* The first k of several sequences, and what comes behind them.
LEMMA FlattenFirst ==
    ASSUME NEW s \in Seq(Seq(Byte)), NEW k \in 0 .. Len(s)
    PROVE  \E u \in Seq(Byte) : FlattenSeq(s) = FlattenSeq(SubSeq(s, 1, k)) \o u
<1> DEFINE Left(t) == \E u \in Seq(Byte) : FlattenSeq(t) = FlattenSeq(SubSeq(t, 1, k)) \o u
           Bad == {n \in Nat : \E t \in Seq(Seq(Byte)) : Len(t) = n /\ k <= n /\ ~Left(t)}
<1> HIDE DEF Left
<1>0. k \in Nat /\ Len(s) \in Nat
  BY LenProperties
<1>1. Bad = {}
  <2> SUFFICES ASSUME Bad # {} PROVE FALSE
    OBVIOUS
  <2>1. PICK n \in Bad : \A j \in Bad : ~(j < n)
    <3>1. Bad \in SUBSET Nat
      OBVIOUS
    <3> HIDE DEF Bad
    <3> QED BY <3>1, Smallest
  <2>2. PICK t \in Seq(Seq(Byte)) : n \in Nat /\ Len(t) = n /\ k <= n /\ ~Left(t)
    BY <2>1
  <2>3. CASE k = n
    <3>1. SubSeq(t, 1, k) = t
      BY <2>2, <2>3, SubSeqFull
    <3>2. FlattenSeq(t) = FlattenSeq(t) \o <<>> /\ <<>> \in Seq(Byte)
      BY FlattenBytes, ConcatEmptySeq, EmptySeq
    <3> QED BY <2>2, <3>1, <3>2 DEF Left
  <2>4. CASE k # n
    <3>1. PICK q \in Seq(Seq(Byte)), e \in Seq(Byte) : t = Append(q, e)
      <4>1. t # <<>>
        BY <1>0, <2>2, <2>4
      <4> QED BY <4>1, SequenceEmptyOrAppend
    <3>2. Len(q) \in Nat /\ Len(q) < n /\ k <= Len(q)
      BY <1>0, <2>2, <2>4, <3>1, AppendProperties, LenProperties
    <3>3. Left(q)
      <4>1. Len(q) \notin Bad
        <5> HIDE DEF Bad
        <5> QED BY <2>1, <3>2
      <4> QED BY <3>2, <4>1
    <3> DEFINE x == FlattenSeq(SubSeq(q, 1, k))
    <3>4. PICK u \in Seq(Byte) : FlattenSeq(q) = x \o u
      BY <3>3 DEF Left
    <3>5. SubSeq(t, 1, k) = SubSeq(q, 1, k)
      BY <1>0, <3>1, <3>2, FirstOfAppend
    <3>6. FlattenSeq(t) = FlattenSeq(q) \o e
      BY <3>1, FlattenAppend
    <3>7. x \in Seq(Byte) /\ u \in Seq(Byte) /\ e \in Seq(Byte)
      <4>1. SubSeq(q, 1, k) \in Seq(Seq(Byte))
        BY <1>0, <3>2, FirstOf
      <4> QED BY <4>1, FlattenBytes
    <3> HIDE DEF x
    <3>8. (x \o u) \o e = x \o (u \o e)
      BY ONLY <3>7, Assoc
    <3>9. u \o e \in Seq(Byte)
      BY ONLY <3>7, ConcatProperties
    <3>10. FlattenSeq(t) = FlattenSeq(SubSeq(t, 1, k)) \o (u \o e)
      BY <3>4, <3>5, <3>6, <3>8 DEF x
    <3> QED BY <2>2, <3>9, <3>10 DEF Left
  <2> QED BY <2>3, <2>4
<1>2. Left(s)
  BY <1>0, <1>1
<1> QED BY <1>2 DEF Left

\* Where the bytes of the k-th are: from Place(s, k) on.
Place(s, k) == Len(FlattenSeq(SubSeq(s, 1, k - 1))) + 1

LEMMA PlaceOfPart ==
    ASSUME NEW s \in Seq(Seq(Byte))
    PROVE  /\ FlattenSeq(s) \in Seq(Byte)
           /\ Place(s, 1) = 1 /\ Place(s, Len(s) + 1) = Len(FlattenSeq(s)) + 1
           /\ \A k \in 1 .. Len(s) :
                /\ Place(s, k) \in Nat \ {0} /\ Place(s, k + 1) \in Nat \ {0}
                /\ s[k] \in Seq(Byte)
                /\ Place(s, k + 1) = Place(s, k) + Len(s[k])
                /\ Place(s, k + 1) <= Len(FlattenSeq(s)) + 1
                /\ \A j \in 1 .. Len(s[k]) : FlattenSeq(s)[Place(s, k) + j - 1] = s[k][j]
<1>1. FlattenSeq(s) \in Seq(Byte)
  BY FlattenBytes
<1>2. Place(s, 1) = 1
  <2>1. SubSeq(s, 1, 0) = <<>> /\ 1 - 1 = 0 /\ Len(<<>>) = 0 /\ 0 + 1 = 1
    BY SubSeqEmpty
  <2>2. Place(s, 1) = Len(FlattenSeq(SubSeq(s, 1, 1 - 1))) + 1
    BY DEF Place
  <2> QED BY <2>1, <2>2, FlattenEmpty
<1>3. Place(s, Len(s) + 1) = Len(FlattenSeq(s)) + 1
  <2>1. (Len(s) + 1) - 1 = Len(s)
    BY LenProperties
  <2>2. SubSeq(s, 1, Len(s)) = s
    BY SubSeqFull
  <2> QED BY <2>1, <2>2 DEF Place
<1>4. ASSUME NEW k \in 1 .. Len(s)
      PROVE  /\ Place(s, k) \in Nat \ {0} /\ Place(s, k + 1) \in Nat \ {0}
             /\ s[k] \in Seq(Byte)
             /\ Place(s, k + 1) = Place(s, k) + Len(s[k])
             /\ Place(s, k + 1) <= Len(FlattenSeq(s)) + 1
             /\ \A j \in 1 .. Len(s[k]) : FlattenSeq(s)[Place(s, k) + j - 1] = s[k][j]
  <2> DEFINE h == k - 1  a == FlattenSeq(SubSeq(s, 1, h))  e == s[k]  f == FlattenSeq(s)
  <2>1. /\ Len(s) \in Nat /\ h \in 0 .. Len(s) /\ h + 1 = k /\ h + 1 \in 1 .. Len(s) /\ k \in 0 .. Len(s)
        /\ (k + 1) - 1 = k
    BY LenProperties
  <2>2. a \in Seq(Byte) /\ e \in Seq(Byte)
    <3>1. SubSeq(s, 1, h) \in Seq(Seq(Byte))
      <4> HIDE DEF h
      <4> QED BY <2>1, FirstOf
    <3> QED BY <3>1, FlattenBytes, ElementOfSeq
  <2>3. FlattenSeq(SubSeq(s, 1, k)) = a \o e
    <3> HIDE DEF h
    <3> QED BY <2>1, FlattenNext
  <2>4. PICK u \in Seq(Byte) : f = (a \o e) \o u
    BY <2>1, <2>3, FlattenFirst
  <2>5. Place(s, k) = Len(a) + 1 /\ Place(s, k + 1) = Len(a \o e) + 1
    BY <2>1, <2>3 DEF Place
  <2> HIDE DEF a, e, f
  <2> DEFINE x == a \o e
  <2>6. /\ x \in Seq(Byte) /\ Len(a) \in Nat /\ Len(e) \in Nat /\ Len(x) = Len(a) + Len(e)
        /\ \A j \in 1 .. Len(e) : x[Len(a) + j] = e[j]
    BY ONLY <2>2, ConcatIndex
  <2>7. /\ Len(u) \in Nat /\ Len(f) = Len(x) + Len(u)
        /\ \A j \in 1 .. Len(x) : f[j] = x[j]
    <3>1. x \in Seq(Byte) /\ u \in Seq(Byte) /\ f = x \o u
      BY <2>4, <2>6
    <3> HIDE DEF x
    <3> QED BY ONLY <3>1, ConcatIndex
  <2> HIDE DEF x
  <2>8. /\ Place(s, k) = Len(a) + 1 /\ Place(s, k + 1) = Len(a) + Len(e) + 1
        /\ Len(a) + Len(e) <= Len(f)
    BY <2>5, <2>6, <2>7 DEF x
  <2>9. \A j \in 1 .. Len(e) : f[Place(s, k) + j - 1] = e[j]
    <3> SUFFICES ASSUME NEW j \in 1 .. Len(e) PROVE f[Place(s, k) + j - 1] = e[j]
      OBVIOUS
    <3>1. Place(s, k) + j - 1 = Len(a) + j /\ Len(a) + j \in 1 .. Len(x)
      BY <2>6, <2>8
    <3> QED BY <2>6, <2>7, <3>1
  <2>10. /\ Place(s, k) \in Nat \ {0} /\ Place(s, k + 1) \in Nat \ {0}
         /\ Place(s, k + 1) = Place(s, k) + Len(e) /\ Place(s, k + 1) <= Len(f) + 1
    BY <2>6, <2>7, <2>8
  <2> QED BY <2>2, <2>9, <2>10 DEF e, f
<1> QED BY <1>1, <1>2, <1>3, <1>4


-----------------------------------------------------------------------------
(* A varint in a buffer.                                                   *)

\* A varint in a buffer, of which the end may not be there yet.
LEMMA VarintFound ==
    ASSUME NEW v, ReadsBack(v), NEW buf \in Seq(Byte), NEW i \in Nat \ {0},
           \A k \in 1 .. Len(PutVarint(v)) :
               i + k - 1 <= Len(buf) => buf[i + k - 1] = PutVarint(v)[k]
    PROVE  /\ HasVarint(buf, i) <=> i + Len(PutVarint(v)) - 1 <= Len(buf)
           /\ i + Len(PutVarint(v)) - 1 <= Len(buf) =>
                  After(buf, i) = i + Len(PutVarint(v)) /\ GetVarint(buf, i) = v
<1> DEFINE p == PutVarint(v)  n == Len(p)
<1>1. /\ p \in Seq(Byte) /\ n \in 1 .. MaxDigits /\ MaxDigits \in Nat /\ Len(buf) \in Nat
      /\ n = Len(p) /\ \A k \in 1 .. n : More(p[k]) <=> k < n
      /\ Number(p) = v
  BY VarintAssumption, LenProperties DEF ReadsBack
<1>2. \A k \in 1 .. n : i + k - 1 <= Len(buf) => buf[i + k - 1] = p[k]
  OBVIOUS
<1> HIDE DEF n, p
<1>3. \A j \in i .. i + n - 1 : j <= Len(buf) => (More(buf[j]) <=> j < i + n - 1)
  <2> SUFFICES ASSUME NEW j \in i .. i + n - 1, j <= Len(buf)
               PROVE  More(buf[j]) <=> j < i + n - 1
    OBVIOUS
  <2>1. j - i + 1 \in 1 .. n /\ i + (j - i + 1) - 1 = j /\ (j - i + 1 < n <=> j < i + n - 1)
    BY <1>1
  <2>2. buf[j] = p[j - i + 1]
    BY <1>2, <2>1
  <2> QED BY <1>1, <2>1, <2>2
<1>4. \A j \in LastByte(buf, i) : j = i + n - 1
  <2> SUFFICES ASSUME NEW j \in LastByte(buf, i), j # i + n - 1 PROVE FALSE
    OBVIOUS
  <2>1. j \in i .. Len(buf) /\ ~More(buf[j]) /\ \A k \in i .. j - 1 : More(buf[k])
    BY DEF LastByte
  <2>2. CASE j < i + n - 1
    <3>1. j \in i .. i + n - 1 /\ j <= Len(buf)
      BY <1>1, <2>1, <2>2
    <3> QED BY <1>3, <2>1, <2>2, <3>1
  <2>3. CASE j > i + n - 1
    <3>1. /\ i + n - 1 \in i .. i + n - 1 /\ i + n - 1 <= Len(buf)
          /\ i + n - 1 \in i .. j - 1 /\ ~(i + n - 1 < i + n - 1)
      BY <1>1, <2>1, <2>3
    <3> QED BY <1>3, <2>1, <3>1
  <2> QED BY <1>1, <2>1, <2>2, <2>3
<1>5. i + n - 1 <= Len(buf) => i + n - 1 \in LastByte(buf, i)
  <2> SUFFICES ASSUME i + n - 1 <= Len(buf) PROVE i + n - 1 \in LastByte(buf, i)
    OBVIOUS
  <2>1. i + n - 1 \in i .. Len(buf) /\ (i + n - 1) - i < MaxDigits
    BY <1>1
  <2>2. ~More(buf[i + n - 1])
    <3>1. i + n - 1 \in i .. i + n - 1 /\ ~(i + n - 1 < i + n - 1)
      BY <1>1
    <3> QED BY <1>3, <3>1
  <2>3. \A k \in i .. (i + n - 1) - 1 : More(buf[k])
    <3> SUFFICES ASSUME NEW k \in i .. (i + n - 1) - 1 PROVE More(buf[k])
      OBVIOUS
    <3>1. k \in i .. i + n - 1 /\ k <= Len(buf) /\ k < i + n - 1
      BY <1>1
    <3> QED BY <1>3, <3>1
  <2> QED BY <2>1, <2>2, <2>3 DEF LastByte
<1>6. HasVarint(buf, i) => i + n - 1 <= Len(buf)
  <2> SUFFICES ASSUME NEW j \in LastByte(buf, i) PROVE i + n - 1 <= Len(buf)
    BY DEF HasVarint
  <2>1. j \in i .. Len(buf) /\ j = i + n - 1
    BY <1>4 DEF LastByte
  <2> QED BY <1>1, <2>1
<1>7. ASSUME i + n - 1 <= Len(buf)
      PROVE  HasVarint(buf, i) /\ After(buf, i) = i + n /\ GetVarint(buf, i) = v
  <2>1. HasVarint(buf, i)
    BY <1>5, <1>7 DEF HasVarint
  <2>2. After(buf, i) = i + n
    <3> DEFINE c == CHOOSE j \in LastByte(buf, i) : TRUE
    <3>1. c = i + n - 1
      BY <1>4, <1>5, <1>7
    <3>2. After(buf, i) = 1 + c
      BY DEF After
    <3> HIDE DEF c
    <3> QED BY <1>1, <3>1, <3>2
  <2>3. SubSeq(buf, i, i + n - 1) = p
    <3> DEFINE m == i + n - 1  s == SubSeq(buf, i, m)
    <3>1. m \in Int /\ i \in Int /\ m - i + 1 = n /\ i <= m
      BY <1>1
    <3>2. \A j \in i .. m : buf[j] \in Byte
      <4>1. \A j \in i .. m : j \in 1 .. Len(buf)
        BY <1>1, <1>7
      <4> QED BY <4>1, ElementOfSeq
    <3> HIDE DEF m
    <3>3. s \in Seq(Byte) /\ Len(s) = n /\ \A k \in 1 .. n : s[k] = buf[i + k - 1]
      BY <3>1, <3>2, SubSeqProperties
    <3>4. \A k \in 1 .. n : buf[i + k - 1] = p[k]
      <4>1. \A k \in 1 .. n : i + k - 1 <= Len(buf)
        BY <1>1, <1>7
      <4> QED BY <1>2, <4>1
    <3> HIDE DEF s
    <3>5. s = p
      BY <1>1, <3>3, <3>4, SeqEqual
    <3> QED BY <3>5 DEF s, m
  <2>4. After(buf, i) - 1 = i + n - 1
    BY <1>1, <2>2
  <2> QED BY <1>1, <2>1, <2>2, <2>3, <2>4 DEF GetVarint
<1> QED BY <1>6, <1>7 DEF n, p

-----------------------------------------------------------------------------
(* Fields.                                                                  *)

LEMMA OneDigit ==
    ASSUME NEW v \in Nat, v < Base
    PROVE  IsNumber(v) /\ PutVarint(v) = <<v>>
<1>1. \A i \in 1 .. MaxDigits : Shifted(v)[i] = 0
  <2> DEFINE Bad == {i \in 1 .. MaxDigits : Shifted(v)[i] # 0}
  <2>1. Bad = {}
    <3> SUFFICES ASSUME Bad # {} PROVE FALSE
      OBVIOUS
    <3>1. PICK i \in Bad : \A j \in Bad : ~(j < i)
      <4>1. Bad \in SUBSET Nat
        BY VarintAssumption
      <4> HIDE DEF Bad
      <4> QED BY <4>1, Smallest
    <3>2. i \in 1 .. MaxDigits /\ Shifted(v)[i] # 0
      BY <3>1
    <3>3. Shifted(v)[i] = Shifted(v)[i - 1] \div Base /\ Shifted(v)[0] = v
      BY <3>2, ShiftedIs
    <3>4. CASE i = 1
      <4>1. v \div Base = 0
        BY VarintAssumption
      <4> QED BY <3>2, <3>3, <3>4, <4>1
    <3>5. CASE i # 1
      <4>1. i - 1 \in 1 .. MaxDigits /\ i - 1 < i
        BY <3>2, <3>5, VarintAssumption
      <4>2. Shifted(v)[i - 1] = 0
        BY <3>1, <4>1
      <4>3. 0 \div Base = 0
        BY VarintAssumption
      <4> QED BY <3>2, <3>3, <4>2, <4>3
    <3> QED BY <3>4, <3>5
  <2> QED BY <2>1
<1>2. IsNumber(v)
  BY <1>1, VarintAssumption DEF IsNumber
<1>3. NumDigits(v) = 1
  <2>1. 1 \in 1 .. MaxDigits
    BY VarintAssumption
  <2>2. NumDigits(v) \in 1 .. MaxDigits /\ ~(1 \in 1 .. NumDigits(v) - 1)
    BY <1>1, <1>2, <2>1, NumDigitsIs
  <2> QED BY <2>2, VarintAssumption
<1>4. PutVarint(v) = <<v>>
  <2>1. Shifted(v)[1 - 1] = v /\ v % Base = v
    BY ShiftedIs, VarintAssumption
  <2>2. PutVarint(v) = [i \in 1 .. 1 |-> (Shifted(v)[i - 1] % Base) + (IF i < 1 THEN Base ELSE 0)]
    BY <1>3 DEF PutVarint
  <2>3. \A i \in 1 .. 1 : i = 1 /\ (Shifted(v)[i - 1] % Base) + (IF i < 1 THEN Base ELSE 0) = v
    BY <2>1
  <2>4. PutVarint(v) = [i \in 1 .. 1 |-> v]
    BY <2>2, <2>3, Zenon
  <2> QED BY <2>4
<1> QED BY <1>2, <1>4

\* A number is its quotient and its remainder.
LEMMA TagParts ==
    ASSUME NEW f, IsField(f)
    PROVE  LET t == (f.field * WireMod) + f.wire
           IN  t \in Nat /\ t \div WireMod = f.field /\ t % WireMod = f.wire
<1>1. f.field \in Nat /\ f.wire \in Nat /\ f.wire < WireMod /\ WireMod \in Nat \ {0}
  BY CodecAssumption DEF IsField, VarintWire, BytesWire, FixedWire
<1>2. \A a, c \in Nat, w \in Nat \ {0} :
          c < w => /\ (a * w) + c \in Nat
                   /\ ((a * w) + c) \div w = a /\ ((a * w) + c) % w = c
  OBVIOUS
<1> QED BY <1>1, <1>2

\* The three kinds of values.
LEMMA Values ==
    ASSUME NEW f, IsField(f)
    PROVE  /\ f.wire = VarintWire => Body(f) = PutVarint(f.value) /\ IsNumber(f.value)
           /\ f.wire = BytesWire => /\ Body(f) = PutVarint(Len(f.value)) \o f.value
                                    /\ IsNumber(Len(f.value)) /\ f.value \in Seq(Byte)
           /\ f.wire = FixedWire => /\ Body(f) = f.value /\ Len(f.value) = FixedLen
                                    /\ f.value \in Seq(Byte)
           /\ f.wire \in {VarintWire, BytesWire, FixedWire}
<1>1. CASE f.wire = VarintWire
  BY <1>1 DEF IsField, Body, VarintWire, BytesWire, FixedWire
<1>2. CASE f.wire = BytesWire
  <2> DEFINE x == PutVarint(Len(f.value)) \o f.value  y == PutVarint(f.value)
  <2>1. Body(f) = CASE f.wire = VarintWire -> y [] f.wire = BytesWire -> x [] OTHER -> f.value
    BY DEF Body
  <2> HIDE DEF x, y
  <2>2. Body(f) = x
    BY <1>2, <2>1 DEF VarintWire, BytesWire
  <2>3. IsNumber(Len(f.value)) /\ f.value \in Seq(Byte) /\ f.wire # VarintWire /\ f.wire # FixedWire
    BY <1>2 DEF IsField, VarintWire, BytesWire, FixedWire
  <2> QED BY <1>2, <2>2, <2>3 DEF x
<1>3. CASE f.wire = FixedWire
  BY <1>3 DEF IsField, Body, VarintWire, BytesWire, FixedWire
<1> QED BY <1>1, <1>2, <1>3 DEF IsField

\* A field is its tag and its value.
LEMMA FieldBytes ==
    ASSUME NEW f, IsField(f)
    PROVE  LET t == (f.field * WireMod) + f.wire
               p == PutVarint(t)
               b == Body(f)
               e == EncodeField(f)
           IN  /\ ReadsBack(t) /\ t \div WireMod = f.field /\ t % WireMod = f.wire
               /\ p \in Seq(Byte) /\ Len(p) \in Nat \ {0} /\ b \in Seq(Byte)
               /\ e \in Seq(Byte) /\ Len(b) \in Nat /\ Len(e) = Len(p) + Len(b) /\ Len(e) > 0
               /\ \A k \in 1 .. Len(p) : e[k] = p[k]
               /\ \A k \in 1 .. Len(b) : e[Len(p) + k] = b[k]
<1> DEFINE t == (f.field * WireMod) + f.wire
           p == PutVarint(t)  a == Len(p)  b == Body(f)  e == EncodeField(f)
<1>1. ReadsBack(t) /\ t \div WireMod = f.field /\ t % WireMod = f.wire
  <2>1. IsNumber(t)
    BY DEF IsField
  <2> QED BY <2>1, VarintReadsBack, TagParts
<1>2. /\ p \in Seq(Byte) /\ a = Len(p) /\ a \in Nat \ {0} /\ e = p \o b
  BY <1>1, VarintAssumption, LenProperties DEF ReadsBack, EncodeField
<1>3. b \in Seq(Byte)
  <2>1. CASE f.wire = VarintWire
    <3>1. b = PutVarint(f.value) /\ IsNumber(f.value)
      BY <2>1, Values
    <3> QED BY <3>1, VarintReadsBack DEF ReadsBack
  <2>2. CASE f.wire = BytesWire
    <3>1. b = PutVarint(Len(f.value)) \o f.value /\ IsNumber(Len(f.value)) /\ f.value \in Seq(Byte)
      BY <2>2, Values
    <3>2. PutVarint(Len(f.value)) \in Seq(Byte) /\ f.value \in Seq(Byte)
      BY <3>1, VarintReadsBack DEF ReadsBack
    <3>3. PutVarint(Len(f.value)) \o f.value \in Seq(Byte)
      BY ONLY <3>2, ConcatIndex
    <3> QED BY <3>1, <3>3
  <2>3. CASE f.wire = FixedWire
    <3>1. b = f.value /\ f.value \in Seq(Byte)
      BY <2>3, Values
    <3> QED BY <3>1
  <2> QED BY <2>1, <2>2, <2>3 DEF IsField
<1> HIDE DEF a, b, e, p, t
<1>4. /\ e \in Seq(Byte) /\ Len(b) \in Nat /\ Len(e) = a + Len(b)
      /\ \A k \in 1 .. a : e[k] = p[k]
      /\ \A k \in 1 .. Len(b) : e[a + k] = b[k]
  <2>1. p \in Seq(Byte) /\ b \in Seq(Byte)
    BY <1>2, <1>3
  <2>2. /\ Len(b) \in Nat /\ p \o b \in Seq(Byte) /\ Len(p \o b) = Len(p) + Len(b)
        /\ \A k \in 1 .. Len(p) : (p \o b)[k] = p[k]
        /\ \A k \in 1 .. Len(b) : (p \o b)[Len(p) + k] = b[k]
    BY ONLY <2>1, ConcatIndex
  <2> QED BY <1>2, <2>2
<1>5. Len(e) > 0
  BY <1>2, <1>4
<1> QED BY <1>1, <1>2, <1>3, <1>4, <1>5 DEF a, b, e, p, t

\* A field at its place in a buffer is read as it was written.
LEMMA FieldAt ==
    ASSUME NEW f, IsField(f), NEW buf \in Seq(Byte), NEW i \in Nat \ {0},
           i + Len(EncodeField(f)) <= Len(buf) + 1,
           \A k \in 1 .. Len(EncodeField(f)) : buf[i + k - 1] = EncodeField(f)[k]
    PROVE  /\ Readable(buf, i) /\ FieldOf(buf, i) = f.field /\ WireOf(buf, i) = f.wire
           /\ Skip(buf, i) = i + Len(EncodeField(f))
           /\ f.wire = VarintWire => GetVarint(buf, ValueAt(buf, i)) = f.value
           /\ f.wire = BytesWire =>
                  SubSeq(buf, After(buf, ValueAt(buf, i)), Skip(buf, i) - 1) = f.value
<1> DEFINE t == (f.field * WireMod) + f.wire
           p == PutVarint(t)  a == Len(p)  b == Body(f)  e == EncodeField(f)
<1>1. ReadsBack(t) /\ t \div WireMod = f.field /\ t % WireMod = f.wire
  BY FieldBytes
<1>2. /\ p \in Seq(Byte) /\ a = Len(p) /\ a \in Nat \ {0} /\ Len(buf) \in Nat
  BY FieldBytes, LenProperties
<1>3. b \in Seq(Byte)
  BY FieldBytes
<1>4. /\ e \in Seq(Byte) /\ Len(b) \in Nat /\ Len(e) = a + Len(b)
      /\ \A k \in 1 .. a : e[k] = p[k]
      /\ \A k \in 1 .. Len(b) : e[a + k] = b[k]
  BY FieldBytes
<1> HIDE DEF a, b, e, p, t
<1>5. /\ i + Len(e) <= Len(buf) + 1
      /\ \A k \in 1 .. Len(e) : buf[i + k - 1] = e[k]
  BY DEF e
<1> DEFINE v == i + a
<1>6. /\ \A k \in 1 .. a : buf[i + k - 1] = p[k]
      /\ \A k \in 1 .. Len(b) : buf[v + k - 1] = b[k]
  <2>1. \A k \in 1 .. a : k \in 1 .. Len(e)
    BY <1>2, <1>4
  <2>2. \A k \in 1 .. Len(b) : a + k \in 1 .. Len(e) /\ i + (a + k) - 1 = v + k - 1
    BY <1>2, <1>4
  <2> HIDE DEF v
  <2> QED BY <1>4, <1>5, <2>1, <2>2
<1>7. /\ HasVarint(buf, i) /\ After(buf, i) = v /\ GetVarint(buf, i) = t
  <2>1. i + a - 1 <= Len(buf)
    BY <1>2, <1>4, <1>5
  <2> HIDE DEF v
  <2>2. /\ HasVarint(buf, i) <=> i + a - 1 <= Len(buf)
        /\ i + a - 1 <= Len(buf) => After(buf, i) = i + a /\ GetVarint(buf, i) = t
    BY <1>1, <1>6, VarintFound DEF a, p
  <2> QED BY <2>1, <2>2 DEF v
<1>8. /\ i <= Len(buf) /\ v \in Nat \ {0} /\ v + Len(b) <= Len(buf) + 1
      /\ i + Len(e) = v + Len(b)
  BY <1>2, <1>4, <1>5
<1> HIDE DEF v
<1>9. FieldOf(buf, i) = f.field /\ WireOf(buf, i) = f.wire /\ ValueAt(buf, i) = v
  BY <1>1, <1>7 DEF FieldOf, WireOf, Tag, ValueAt
<1>10. ASSUME f.wire = VarintWire
       PROVE  /\ Readable(buf, i) /\ Skip(buf, i) = v + Len(b) /\ GetVarint(buf, v) = f.value
  <2>1. b = PutVarint(f.value) /\ ReadsBack(f.value)
    <3>1. b = PutVarint(f.value) /\ IsNumber(f.value)
      BY <1>10, Values DEF b
    <3> QED BY <3>1, VarintReadsBack
  <2>2. v + Len(b) - 1 <= Len(buf)
    BY <1>4, <1>8
  <2>3. HasVarint(buf, v) /\ After(buf, v) = v + Len(b) /\ GetVarint(buf, v) = f.value
    <3>1. \A k \in 1 .. Len(PutVarint(f.value)) : buf[v + k - 1] = PutVarint(f.value)[k]
      BY <1>6, <2>1
    <3>2. v + Len(PutVarint(f.value)) - 1 <= Len(buf)
      BY <2>1, <2>2
    <3> QED BY <1>8, <2>1, <3>1, <3>2, VarintFound
  <2>4. Skip(buf, i) = v + Len(b)
    BY <1>9, <1>10, <2>3 DEF Skip, VarintWire, BytesWire
  <2>5. Readable(buf, i)
    BY <1>7, <1>8, <1>9, <1>10, <2>3 DEF Readable
  <2> QED BY <2>3, <2>4, <2>5
<1>11. ASSUME f.wire = BytesWire
       PROVE  /\ Readable(buf, i) /\ Skip(buf, i) = v + Len(b)
              /\ SubSeq(buf, After(buf, v), Skip(buf, i) - 1) = f.value
  <2> DEFINE n == Len(f.value)  q == PutVarint(n)  d == Len(q)
  <2>1. /\ ReadsBack(n) /\ f.value \in Seq(Byte) /\ n = Len(f.value) /\ n \in Nat
        /\ q \in Seq(Byte) /\ d = Len(q) /\ d \in Nat \ {0} /\ b = q \o f.value
    <3>1. b = PutVarint(Len(f.value)) \o f.value /\ IsNumber(n) /\ f.value \in Seq(Byte)
      BY <1>11, Values DEF b
    <3>2. ReadsBack(n)
      BY <3>1, VarintReadsBack
    <3> QED BY <3>1, <3>2, VarintAssumption, LenProperties DEF ReadsBack
  <2> HIDE DEF n, q, d
  <2>2. /\ Len(b) = d + n
        /\ \A k \in 1 .. d : b[k] = q[k]
        /\ \A k \in 1 .. n : b[d + k] = f.value[k]
    <3>1. q \in Seq(Byte) /\ f.value \in Seq(Byte)
      BY <2>1
    <3>2. /\ Len(q \o f.value) = Len(q) + Len(f.value)
          /\ \A k \in 1 .. Len(q) : (q \o f.value)[k] = q[k]
          /\ \A k \in 1 .. Len(f.value) : (q \o f.value)[Len(q) + k] = f.value[k]
      BY ONLY <3>1, ConcatIndex
    <3> QED BY <2>1, <3>2
  <2>3. HasVarint(buf, v) /\ After(buf, v) = v + d /\ GetVarint(buf, v) = n
    <3>1. \A k \in 1 .. d : buf[v + k - 1] = q[k]
      <4>1. \A k \in 1 .. d : k \in 1 .. Len(b)
        BY <2>1, <2>2
      <4> QED BY <1>6, <2>2, <4>1
    <3>2. v + d - 1 <= Len(buf)
      BY <1>8, <2>1, <2>2
    <3>3. /\ HasVarint(buf, v) <=> v + d - 1 <= Len(buf)
          /\ v + d - 1 <= Len(buf) => After(buf, v) = v + d /\ GetVarint(buf, v) = n
      BY <1>8, <2>1, <3>1, VarintFound DEF d, q
    <3> QED BY <3>2, <3>3
  <2>4. Skip(buf, i) = v + Len(b)
    <3>1. Skip(buf, i) = After(buf, v) + GetVarint(buf, v)
      BY <1>9, <1>11 DEF Skip, VarintWire, BytesWire
    <3>2. v \in Nat /\ d \in Nat /\ n \in Nat /\ Len(b) = d + n
      BY <1>8, <2>1, <2>2
    <3>3. v + d + n = v + Len(b)
      BY ONLY <3>2
    <3> QED BY ONLY <2>3, <3>1, <3>3
  <2>5. Readable(buf, i)
    BY <1>7, <1>8, <1>9, <1>11, <2>3 DEF Readable
  <2>6. SubSeq(buf, v + d, (v + Len(b)) - 1) = f.value
    <3> DEFINE m == v + d  z == (v + Len(b)) - 1  s == SubSeq(buf, m, z)
    <3>1. m \in Int /\ z \in Int /\ (IF m <= z THEN z - m + 1 ELSE 0) = n /\ z - m + 1 = n
      BY <1>8, <2>1, <2>2
    <3>2. \A k \in m .. z : buf[k] \in Byte
      <4>1. \A k \in m .. z : k \in 1 .. Len(buf)
        BY <1>2, <1>8, <2>1, <2>2
      <4> QED BY <4>1, ElementOfSeq
    <3>3. \A k \in 1 .. n : buf[m + k - 1] = f.value[k]
      <4>1. \A k \in 1 .. n : d + k \in 1 .. Len(b) /\ v + (d + k) - 1 = m + k - 1
        BY <1>8, <2>1, <2>2
      <4> HIDE DEF m
      <4> QED BY <1>6, <2>2, <4>1
    <3> HIDE DEF m, z
    <3>4. s \in Seq(Byte) /\ Len(s) = n /\ \A k \in 1 .. n : s[k] = buf[m + k - 1]
      BY <3>1, <3>2, SubSeqProperties
    <3> HIDE DEF s
    <3>5. s = f.value
      <4>1. f.value \in Seq(Byte) /\ Len(s) = Len(f.value)
        BY <2>1, <3>4
      <4>2. \A k \in 1 .. Len(s) : s[k] = f.value[k]
        BY <3>3, <3>4
      <4> QED BY ONLY <3>4, <4>1, <4>2, SeqEqual
    <3> QED BY <3>5 DEF s, m, z
  <2>7. SubSeq(buf, After(buf, v), Skip(buf, i) - 1) = f.value
    BY <2>3, <2>4, <2>6, Zenon
  <2> QED BY <2>4, <2>5, <2>7
<1>12. ASSUME f.wire = FixedWire
       PROVE  Readable(buf, i) /\ Skip(buf, i) = v + Len(b)
  <2>1. b = f.value /\ Len(f.value) = FixedLen
    BY <1>12, Values DEF b
  <2>2. Skip(buf, i) = v + FixedLen
    BY <1>9, <1>12 DEF Skip, VarintWire, BytesWire, FixedWire
  <2> QED BY <1>7, <1>8, <1>9, <1>12, <2>1, <2>2
          DEF Readable, VarintWire, BytesWire, FixedWire
<1>13. f.wire \in {VarintWire, BytesWire, FixedWire}
  BY DEF IsField
<1>14. Readable(buf, i) /\ Skip(buf, i) = i + Len(e)
  BY <1>8, <1>10, <1>11, <1>12, <1>13
<1> QED BY <1>9, <1>10, <1>11, <1>14 DEF e

-----------------------------------------------------------------------------
(* Messages.                                                                *)

Parts(m) == [i \in DOMAIN m |-> EncodeField(m[i])]

LEMMA PartsOf ==
    ASSUME NEW m, IsMessage(m)
    PROVE  /\ Len(m) \in Nat /\ DOMAIN m = 1 .. Len(m)
           /\ Parts(m) \in Seq(Seq(Byte)) /\ Len(Parts(m)) = Len(m)
           /\ \A k \in 1 .. Len(m) : Parts(m)[k] = EncodeField(m[k]) /\ IsField(m[k])
           /\ EncodeMessage(m) = FlattenSeq(Parts(m))
<1>1. Len(m) \in Nat /\ DOMAIN m = 1 .. Len(m)
  BY LenProperties DEF IsMessage
<1>2. \A k \in 1 .. Len(m) : /\ Parts(m)[k] = EncodeField(m[k]) /\ IsField(m[k])
                             /\ EncodeField(m[k]) \in Seq(Byte)
  BY <1>1, FieldBytes DEF IsMessage, Parts
<1>3. Parts(m) \in [1 .. Len(m) -> Seq(Byte)]
  BY <1>1, <1>2 DEF Parts
<1>4. Parts(m) \in Seq(Seq(Byte)) /\ Len(Parts(m)) = Len(m)
  BY <1>1, <1>3, Sequence
<1>5. EncodeMessage(m) = FlattenSeq(Parts(m))
  BY DEF EncodeMessage, Parts
<1> QED BY <1>1, <1>2, <1>4, <1>5

\* The reader comes to the places of the fields and to no other.
Places(m) == {Place(Parts(m), k) : k \in 1 .. Len(m)}

LEMMA PlacesGrow ==
    ASSUME NEW m, IsMessage(m), NEW k \in 1 .. Len(m) + 1, NEW j \in 1 .. k - 1
    PROVE  /\ Place(Parts(m), j) < Place(Parts(m), k)
<1> DEFINE s == Parts(m)
           Bad == {i \in 1 .. Len(m) + 1 : j < i /\ ~(Place(s, j) < Place(s, i))}
<1> SUFFICES ASSUME Bad # {} PROVE FALSE
  <2>1. j < k
    BY PartsOf
  <2> QED BY <2>1
<1>1. PICK i \in Bad : \A h \in Bad : ~(h < i)
  <2>1. Bad \in SUBSET Nat
    BY PartsOf
  <2> HIDE DEF Bad
  <2> QED BY <2>1, Smallest
<1>2. i \in 1 .. Len(m) + 1 /\ j < i /\ ~(Place(s, j) < Place(s, i))
  BY <1>1
<1>3. /\ Len(m) \in Nat /\ j \in 1 .. Len(m) /\ i - 1 \in 1 .. Len(m) /\ (i - 1) + 1 = i
      /\ j <= i - 1
  BY <1>2, PartsOf
<1>4. /\ Place(s, j) \in Nat
      /\ Place(s, i - 1) \in Nat /\ Place(s, i) \in Nat
      /\ Place(s, i) > Place(s, i - 1)
  <2>1. \A h \in 1 .. Len(m) : Len(s[h]) > 0 /\ Len(s[h]) \in Nat
    <3>1. \A h \in 1 .. Len(m) : s[h] = EncodeField(m[h]) /\ IsField(m[h])
      BY PartsOf
    <3>2. \A h \in 1 .. Len(m) : EncodeField(m[h]) \in Seq(Byte) /\ Len(EncodeField(m[h])) > 0
      BY <3>1, FieldBytes
    <3> HIDE DEF s
    <3> QED BY <3>1, <3>2, LenProperties
  <2>2. s \in Seq(Seq(Byte)) /\ Len(s) = Len(m)
    BY PartsOf
  <2> HIDE DEF s
  <2>3. \A h \in 1 .. Len(m) : /\ Place(s, h) \in Nat /\ Place(s, h + 1) \in Nat
                               /\ Place(s, h + 1) = Place(s, h) + Len(s[h])
    BY <2>2, PlaceOfPart
  <2>4. /\ Place(s, j) \in Nat /\ Place(s, i - 1) \in Nat /\ Place(s, i) \in Nat
        /\ Place(s, i) = Place(s, i - 1) + Len(s[i - 1])
        /\ Len(s[i - 1]) > 0 /\ Len(s[i - 1]) \in Nat
    BY <1>3, <2>1, <2>3
  <2> HIDE DEF Bad
  <2> QED BY ONLY <2>4
<1>5. CASE j = i - 1
  BY <1>2, <1>4, <1>5
<1>6. CASE j # i - 1
  <2>1. i - 1 \in Bad
    <3>1. i - 1 \notin Bad => Place(s, j) < Place(s, i - 1)
      <4>1. j < i - 1 /\ i - 1 \in 1 .. Len(m) + 1
        BY <1>3, <1>6
      <4> HIDE DEF s
      <4> QED BY <4>1
    <3> HIDE DEF Bad, s
    <3> QED BY <1>2, <1>4, <3>1
  <2>2. i - 1 < i
    BY <1>3
  <2> HIDE DEF Bad
  <2> QED BY <1>1, <2>1, <2>2
<1> QED BY <1>5, <1>6

LEMMA PlaceBound ==
    ASSUME NEW m, IsMessage(m)
    PROVE  /\ \A k \in 1 .. Len(m) + 1 : Place(Parts(m), k) \in Nat \ {0} /\ k <= Place(Parts(m), k)
           /\ Place(Parts(m), 1) = 1 /\ Place(Parts(m), Len(m) + 1) = Len(EncodeMessage(m)) + 1
           /\ EncodeMessage(m) \in Seq(Byte) /\ Len(m) <= Len(EncodeMessage(m))
           /\ Len(EncodeMessage(m)) \in Nat
<1> DEFINE s == Parts(m)  n == Len(m)
<1>1. n \in Nat /\ s \in Seq(Seq(Byte)) /\ Len(s) = n /\ EncodeMessage(m) = FlattenSeq(s)
  BY PartsOf
<1>2. \A k \in 1 .. n + 1 : \A j \in 1 .. k - 1 : Place(s, j) < Place(s, k)
  BY PlacesGrow
<1> HIDE DEF s, n
<1>3. /\ FlattenSeq(s) \in Seq(Byte) /\ Place(s, 1) = 1 /\ Place(s, n + 1) = Len(FlattenSeq(s)) + 1
      /\ \A k \in 1 .. n : Place(s, k) \in Nat \ {0} /\ Place(s, k + 1) \in Nat \ {0}
  BY <1>1, PlaceOfPart
<1>4. \A k \in 1 .. n + 1 : Place(s, k) \in Nat \ {0}
  <2> SUFFICES ASSUME NEW k \in 1 .. n + 1 PROVE Place(s, k) \in Nat \ {0}
    OBVIOUS
  <2>1. CASE k = 1
    BY <1>3, <2>1
  <2>2. CASE k # 1
    <3>1. k - 1 \in 1 .. n /\ (k - 1) + 1 = k
      BY <1>1, <2>2
    <3> QED BY <1>3, <3>1
  <2> QED BY <2>1, <2>2
<1>5. \A k \in 1 .. n + 1 : k <= Place(s, k)
  <2> DEFINE Bad == {k \in 1 .. n + 1 : ~(k <= Place(s, k))}
  <2> SUFFICES ASSUME Bad # {} PROVE FALSE
    OBVIOUS
  <2>1. PICK k \in Bad : \A j \in Bad : ~(j < k)
    <3>1. Bad \in SUBSET Nat
      BY <1>1
    <3> HIDE DEF Bad
    <3> QED BY <3>1, Smallest
  <2>2. k \in 1 .. n + 1 /\ ~(k <= Place(s, k))
    BY <2>1
  <2>3. k # 1
    BY <1>3, <2>2
  <2>4. k - 1 \in 1 .. n + 1 /\ k - 1 \in 1 .. k - 1 /\ k - 1 < k
    BY <1>1, <2>2, <2>3
  <2>5. k - 1 <= Place(s, k - 1)
    BY <2>1, <2>4
  <2>6. Place(s, k - 1) < Place(s, k) /\ Place(s, k - 1) \in Nat /\ Place(s, k) \in Nat
    BY <1>2, <1>4, <2>2, <2>4
  <2> HIDE DEF Bad
  <2> QED BY <1>1, <2>2, <2>5, <2>6
<1>6. Len(FlattenSeq(s)) \in Nat /\ n <= Len(FlattenSeq(s))
  <2>1. n + 1 \in 1 .. n + 1
    BY <1>1
  <2>2. n + 1 <= Place(s, n + 1)
    BY <1>5, <2>1
  <2>3. Len(FlattenSeq(s)) \in Nat
    BY <1>3, LenProperties
  <2> QED BY <1>1, <1>3, <2>2, <2>3
<1> QED BY <1>1, <1>3, <1>4, <1>5, <1>6 DEF s, n

\* A field of a message where the message puts it.
LEMMA PartRead ==
    ASSUME NEW m, IsMessage(m), NEW k \in 1 .. Len(m)
    PROVE  LET buf == EncodeMessage(m)
               i   == Place(Parts(m), k)
               f   == m[k]
           IN  /\ Readable(buf, i) /\ FieldOf(buf, i) = f.field /\ WireOf(buf, i) = f.wire
               /\ Skip(buf, i) = Place(Parts(m), k + 1) /\ Skip(buf, i) <= Len(buf) + 1
               /\ f.wire = VarintWire => GetVarint(buf, ValueAt(buf, i)) = f.value
               /\ f.wire = BytesWire =>
                      SubSeq(buf, After(buf, ValueAt(buf, i)), Skip(buf, i) - 1) = f.value
<1> DEFINE s == Parts(m)  buf == EncodeMessage(m)  i == Place(s, k)  f == m[k]
<1>1. /\ s \in Seq(Seq(Byte)) /\ k \in 1 .. Len(s) /\ buf = FlattenSeq(s)
      /\ s[k] = EncodeField(f) /\ IsField(f)
  BY PartsOf
<1>2. /\ i \in Nat \ {0} /\ buf \in Seq(Byte)
      /\ Place(s, k + 1) = i + Len(EncodeField(f)) /\ Place(s, k + 1) <= Len(buf) + 1
      /\ \A j \in 1 .. Len(EncodeField(f)) : buf[i + j - 1] = EncodeField(f)[j]
  <2> HIDE DEF s, buf, f
  <2> DEFINE t == FlattenSeq(s)  e == s[k]
  <2>1. t \in Seq(Byte)
    BY <1>1, PlaceOfPart
  <2>2. /\ Place(s, k) \in Nat \ {0}
        /\ Place(s, k + 1) = Place(s, k) + Len(e) /\ Place(s, k + 1) <= Len(t) + 1
        /\ \A j \in 1 .. Len(e) : t[Place(s, k) + j - 1] = e[j]
    BY <1>1, PlaceOfPart
  <2>3. t = buf /\ e = EncodeField(f)
    BY <1>1
  <2> HIDE DEF t, e
  <2> QED BY <2>1, <2>2, <2>3
<1> HIDE DEF s, buf, i, f
<1>3. i + Len(EncodeField(f)) <= Len(buf) + 1
  BY <1>2
<1>4. /\ Readable(buf, i) /\ FieldOf(buf, i) = f.field /\ WireOf(buf, i) = f.wire
      /\ Skip(buf, i) = i + Len(EncodeField(f))
      /\ f.wire = VarintWire => GetVarint(buf, ValueAt(buf, i)) = f.value
      /\ f.wire = BytesWire =>
             SubSeq(buf, After(buf, ValueAt(buf, i)), Skip(buf, i) - 1) = f.value
  BY <1>1, <1>2, <1>3, FieldAt
<1>5. Skip(buf, i) = Place(s, k + 1) /\ Skip(buf, i) <= Len(buf) + 1
  BY <1>2, <1>4
<1> QED BY <1>4, <1>5 DEF s, buf, i, f

LEMMA StartsAre ==
    ASSUME NEW m, IsMessage(m)
    PROVE  Starts(EncodeMessage(m)) = Places(m)
<1> DEFINE s == Parts(m)  n == Len(m)  buf == EncodeMessage(m)  L == Len(buf)
           Next1(i) == IF i # 0 /\ Readable(buf, i) THEN Skip(buf, i) ELSE 0
           Steps(g) == g = [j \in 0 .. L |-> IF j = 0 THEN 1 ELSE Next1(g[j - 1])]
           w == [j \in 0 .. L |-> IF j <= n THEN Place(s, j + 1) ELSE 0]
           c == CHOOSE g : Steps(g)
<1>1. n \in Nat /\ L \in Nat /\ n <= L /\ Place(s, 1) = 1 /\ Place(s, n + 1) = L + 1
      /\ \A k \in 1 .. n + 1 : Place(s, k) \in Nat \ {0}
  BY PlaceBound, PartsOf
<1>2. \A k \in 1 .. n : Readable(buf, Place(s, k)) /\ Skip(buf, Place(s, k)) = Place(s, k + 1)
  BY PartRead
<1>3. Starts(buf) = {i \in {c[j] : j \in 0 .. L} : i # 0 /\ Readable(buf, i)}
  BY DEF Starts
<1>4. ~Readable(buf, L + 1)
  BY <1>1 DEF Readable
<1> HIDE DEF s, n, buf, L
<1>5. \A j \in 1 .. L : w[j] = Next1(w[j - 1])
  <2> SUFFICES ASSUME NEW j \in 1 .. L PROVE w[j] = Next1(w[j - 1])
    OBVIOUS
  <2>1. /\ j - 1 \in 0 .. L /\ j \in 0 .. L /\ (j - 1) + 1 = j
        /\ w[j] = IF j <= n THEN Place(s, j + 1) ELSE 0
        /\ w[j - 1] = IF j - 1 <= n THEN Place(s, j) ELSE 0
    BY <1>1
  <2>2. CASE j <= n
    <3>1. j \in 1 .. n /\ j \in 1 .. n + 1 /\ j - 1 <= n
      BY <1>1, <2>2
    <3>2. w[j] = Place(s, j + 1) /\ w[j - 1] = Place(s, j) /\ Place(s, j) # 0
      BY <1>1, <2>1, <2>2, <3>1
    <3> HIDE DEF w
    <3> QED BY <1>2, <3>1, <3>2
  <2>3. CASE j = n + 1
    <3>1. w[j] = 0 /\ w[j - 1] = L + 1
      BY <1>1, <2>1, <2>3
    <3> HIDE DEF w
    <3> QED BY <1>4, <3>1
  <2>4. CASE j > n + 1
    <3>1. w[j] = 0 /\ w[j - 1] = 0
      BY <1>1, <2>1, <2>4
    <3> HIDE DEF w
    <3> QED BY <3>1
  <2> QED BY <1>1, <2>2, <2>3, <2>4
<1> HIDE DEF Next1
<1>6. w[0] = 1
  <2>1. 0 \in 0 .. L /\ 0 <= n /\ 0 + 1 = 1
    BY <1>1
  <2> QED BY <1>1, <2>1
<1>7. Steps(w)
  <2> DEFINE v == [j \in 0 .. L |-> IF j = 0 THEN 1 ELSE Next1(w[j - 1])]
  <2>1. w = [j \in 0 .. L |-> w[j]]
    OBVIOUS
  <2>2. \A j \in 0 .. L : w[j] = IF j = 0 THEN 1 ELSE Next1(w[j - 1])
    <3>1. \A j \in 0 .. L : j = 0 \/ j \in 1 .. L
      BY <1>1
    <3> HIDE DEF w
    <3> QED BY <1>5, <1>6, <3>1
  <2> HIDE DEF w
  <2>3. w = v
    BY <2>1, <2>2, Zenon
  <2> QED BY <2>3
<1> HIDE DEF w
<1>8. Steps(c)
  <2> HIDE DEF Steps
  <2> QED BY <1>7
<1>9. /\ c[0] = 1 /\ \A j \in 1 .. L : c[j] = Next1(c[j - 1])
  <2> HIDE DEF c
  <2>1. 0 \in 0 .. L /\ \A j \in 1 .. L : j \in 0 .. L /\ j # 0
    BY <1>1
  <2> QED BY <1>8, <2>1
<1> HIDE DEF c, Steps
<1>10. \A j \in 0 .. L : c[j] = w[j]
  <2> DEFINE Bad == {j \in 0 .. L : c[j] # w[j]}
  <2> SUFFICES ASSUME Bad # {} PROVE FALSE
    OBVIOUS
  <2>1. PICK j \in Bad : \A h \in Bad : ~(h < j)
    <3>1. Bad \in SUBSET Nat
      OBVIOUS
    <3> HIDE DEF Bad
    <3> QED BY <3>1, Smallest
  <2>2. j \in 0 .. L /\ c[j] # w[j]
    BY <2>1
  <2>3. j # 0
    BY <1>6, <1>9, <2>2
  <2>4. j \in 1 .. L /\ j - 1 \in 0 .. L /\ j - 1 < j
    BY <1>1, <2>2, <2>3
  <2>5. c[j - 1] = w[j - 1]
    BY <2>1, <2>4
  <2> HIDE DEF Bad
  <2> QED BY <1>5, <1>9, <2>2, <2>4, <2>5
<1>11. Starts(buf) \subseteq Places(m)
  <2> SUFFICES ASSUME NEW j \in 0 .. L, c[j] # 0, Readable(buf, c[j])
               PROVE  \E k \in 1 .. n : c[j] = Place(s, k)
    BY <1>3 DEF Places, s, n
  <2>1. c[j] = IF j <= n THEN Place(s, j + 1) ELSE 0
    BY <1>10 DEF w
  <2>2. j <= n /\ c[j] = Place(s, j + 1)
    BY <2>1
  <2>3. j # n
    BY <1>1, <1>4, <2>2
  <2>4. j + 1 \in 1 .. n
    BY <1>1, <2>2, <2>3
  <2> QED BY <2>2, <2>4
<1>12. Places(m) \subseteq Starts(buf)
  <2> SUFFICES ASSUME NEW k \in 1 .. n PROVE Place(s, k) \in Starts(buf)
    BY DEF Places, s, n
  <2>1. k - 1 \in 0 .. L /\ k - 1 <= n /\ (k - 1) + 1 = k /\ k \in 1 .. n + 1
    BY <1>1
  <2>2. c[k - 1] = Place(s, k)
    BY <1>10, <2>1 DEF w
  <2>3. Place(s, k) # 0 /\ Readable(buf, Place(s, k))
    BY <1>1, <1>2, <2>1
  <2> QED BY <1>3, <2>1, <2>2, <2>3
<1> QED BY <1>11, <1>12 DEF buf

\* The first of some fields.
LEMMA FirstPlace ==
    ASSUME NEW m, IsMessage(m), NEW put \in SUBSET (1 .. Len(m)), put # {}
    PROVE  /\ Min(put) \in put
           /\ Min({Place(Parts(m), k) : k \in put}) = Place(Parts(m), Min(put))
<1> DEFINE s == Parts(m)  P == {Place(s, k) : k \in put}
<1>1. PICK a \in put : \A k \in put : ~(k < a)
  <2>1. put \in SUBSET Nat
    BY PartsOf
  <2> QED BY <2>1, Smallest
<1>2. \A k \in put : k \in 1 .. Len(m) + 1 /\ k \in Nat /\ Place(s, k) \in Nat
  <2>1. \A k \in put : k \in 1 .. Len(m) + 1 /\ k \in Nat
    BY PartsOf
  <2> QED BY <2>1, PlaceBound
<1>3. \A k \in put : a <= k
  BY <1>1, <1>2
<1>4. \A k \in put : Place(s, a) <= Place(s, k)
  <2> SUFFICES ASSUME NEW k \in put PROVE Place(s, a) <= Place(s, k)
    OBVIOUS
  <2>1. CASE k = a
    BY <1>2, <2>1
  <2>2. CASE k # a
    <3>1. a \in 1 .. k - 1
      BY <1>1, <1>2, <1>3, <2>2
    <3>2. Place(s, a) < Place(s, k)
      BY <1>2, <3>1, PlacesGrow
    <3> QED BY <1>2, <3>2
  <2> QED BY <2>1, <2>2
<1> HIDE DEF s
<1>5. Min(put) = a
  <2>1. \A x \in put : (\A y \in put : x <= y) => x = a
    BY <1>2, <1>3
  <2> QED BY <1>3, <2>1 DEF Min
<1>6. Min(P) = Place(s, a)
  <2>1. Place(s, a) \in P /\ \A y \in P : Place(s, a) <= y
    BY <1>4
  <2>2. \A x \in P : (\A y \in P : x <= y) => x = Place(s, a)
    <3> SUFFICES ASSUME NEW k \in put, \A y \in P : Place(s, k) <= y PROVE Place(s, k) = Place(s, a)
      OBVIOUS
    <3>1. Place(s, k) <= Place(s, a) /\ Place(s, a) <= Place(s, k)
      BY <1>4, <2>1
    <3> QED BY <1>2, <3>1
  <2> HIDE DEF P
  <2> QED BY <2>1, <2>2 DEF Min
<1> QED BY <1>5, <1>6 DEF s

\* The reader finds what was put into each field.
LEMMA FieldsRead ==
    ASSUME NEW m, IsMessage(m), NEW field
    PROVE  /\ PbField(EncodeMessage(m), field) = Given(m, field, VarintWire, 0)
           /\ PbFieldBytes(EncodeMessage(m), field) = Given(m, field, BytesWire, <<>>)
<1> DEFINE s == Parts(m)  buf == EncodeMessage(m)
           put(wire)   == {k \in DOMAIN m : m[k].field = field /\ m[k].wire = wire}
           there(wire) == {Place(s, k) : k \in put(wire)}
<1>1. /\ DOMAIN m = 1 .. Len(m)
      /\ \A wire : put(wire) \in SUBSET (1 .. Len(m))
  BY PartsOf
<1>2. \A wire : Found(buf, field, wire) = there(wire)
  <2> SUFFICES ASSUME NEW wire PROVE Found(buf, field, wire) = there(wire)
    OBVIOUS
  <2>1. Found(buf, field, wire)
            = {i \in Places(m) : FieldOf(buf, i) = field /\ WireOf(buf, i) = wire}
    BY StartsAre DEF Found
  <2>2. \A k \in 1 .. Len(m) : /\ FieldOf(buf, Place(s, k)) = m[k].field
                               /\ WireOf(buf, Place(s, k)) = m[k].wire
    BY PartRead
  <2> HIDE DEF s, buf
  <2> QED BY <1>1, <2>1, <2>2 DEF Places, s
<1>3. \A k \in 1 .. Len(m) : Skip(buf, Place(s, k)) <= Len(buf) + 1
  BY PartRead
<1>4. {i \in Found(buf, field, BytesWire) : Skip(buf, i) <= Len(buf) + 1} = there(BytesWire)
  <2> HIDE DEF s, buf
  <2> QED BY <1>1, <1>2, <1>3
<1>5. \A wire : /\ Given(m, field, wire, 0) = IF put(wire) = {} THEN 0 ELSE m[Min(put(wire))].value
                /\ Given(m, field, wire, <<>>) = IF put(wire) = {} THEN <<>> ELSE m[Min(put(wire))].value
  BY DEF Given
<1>6. \A wire : put(wire) # {} => /\ Min(put(wire)) \in put(wire)
                                  /\ Min(there(wire)) = Place(s, Min(put(wire)))
  <2> SUFFICES ASSUME NEW wire, put(wire) # {}
               PROVE  /\ Min(put(wire)) \in put(wire)
                      /\ Min(there(wire)) = Place(s, Min(put(wire)))
    OBVIOUS
  <2> DEFINE q == put(wire)
  <2>1. q \in SUBSET (1 .. Len(m)) /\ q # {}
    BY <1>1
  <2> HIDE DEF q
  <2>2. Min(q) \in q /\ Min({Place(Parts(m), k) : k \in q}) = Place(Parts(m), Min(q))
    BY <2>1, FirstPlace
  <2> QED BY <2>2 DEF q
<1>7. \A wire : put(wire) = {} <=> there(wire) = {}
  OBVIOUS
<1>8. \A wire : \A k \in put(wire) : k \in 1 .. Len(m) /\ m[k].wire = wire
  BY <1>1
<1> HIDE DEF put, there
<1>9. PbField(buf, field) = Given(m, field, VarintWire, 0)
  <2>1. PbField(buf, field) = IF there(VarintWire) = {} THEN 0
                              ELSE GetVarint(buf, ValueAt(buf, Min(there(VarintWire))))
    BY <1>2 DEF PbField
  <2>2. CASE put(VarintWire) = {}
    BY <1>5, <1>7, <2>1, <2>2
  <2>3. CASE put(VarintWire) # {}
    <3> DEFINE a == Min(put(VarintWire))
    <3>1. a \in 1 .. Len(m) /\ m[a].wire = VarintWire /\ Min(there(VarintWire)) = Place(s, a)
      BY <1>6, <1>8, <2>3
    <3> HIDE DEF a
    <3>2. GetVarint(buf, ValueAt(buf, Place(s, a))) = m[a].value
      BY <3>1, PartRead
    <3>3. there(VarintWire) # {}
      BY <1>7, <2>3
    <3>4. Given(m, field, VarintWire, 0) = m[a].value
      BY <1>5, <2>3 DEF a
    <3> QED BY <2>1, <3>1, <3>2, <3>3, <3>4
  <2> QED BY <2>2, <2>3
<1>10. PbFieldBytes(buf, field) = Given(m, field, BytesWire, <<>>)
  <2> DEFINE From(i) == SubSeq(buf, After(buf, ValueAt(buf, i)), Skip(buf, i) - 1)
  <2>1. PbFieldBytes(buf, field) = IF there(BytesWire) = {} THEN <<>>
                                   ELSE From(Min(there(BytesWire)))
    BY <1>4 DEF PbFieldBytes
  <2> HIDE DEF From
  <2>2. CASE put(BytesWire) = {}
    BY <1>5, <1>7, <2>1, <2>2
  <2>3. CASE put(BytesWire) # {}
    <3> DEFINE a == Min(put(BytesWire))
    <3>1. a \in 1 .. Len(m) /\ m[a].wire = BytesWire /\ Min(there(BytesWire)) = Place(s, a)
      BY <1>6, <1>8, <2>3
    <3> HIDE DEF a
    <3>2. From(Place(s, a)) = m[a].value
      BY <3>1, PartRead DEF From
    <3>3. there(BytesWire) # {}
      BY <1>7, <2>3
    <3>4. Given(m, field, BytesWire, <<>>) = m[a].value
      BY <1>5, <2>3 DEF a
    <3> QED BY <2>1, <3>1, <3>2, <3>3, <3>4
  <2> QED BY <2>2, <2>3
<1> QED BY <1>9, <1>10

\* And the client what is put into an answer of a number and some bytes.
LEMMA AnswerRead ==
    ASSUME NEW x, IsNumber(x), NEW y \in Seq(Byte), IsNumber(Len(y))
    PROVE  LET ans == PutMessage(<<[field |-> 1, wire |-> VarintWire, value |-> x],
                                   [field |-> 2, wire |-> BytesWire, value |-> y]>>)
           IN  PbField(ans, 1) = x /\ PbFieldBytes(ans, 2) = y
<1> DEFINE f == [field |-> 1, wire |-> VarintWire, value |-> x]
           g == [field |-> 2, wire |-> BytesWire, value |-> y]
           m == <<f, g>>
           Tag1(h) == (h.field * WireMod) + h.wire
<1>1. /\ f.field = 1 /\ f.wire = VarintWire /\ f.value = x
      /\ g.field = 2 /\ g.wire = BytesWire /\ g.value = y
  OBVIOUS
<1>2. /\ DOMAIN m = 1 .. 2 /\ m[1] = f /\ m[2] = g /\ DOMAIN m = {1, 2}
      /\ m \in Seq({m[i] : i \in DOMAIN m})
  OBVIOUS
<1>3. VarintWire # BytesWire
  BY DEF VarintWire, BytesWire
<1> HIDE DEF f, g
<1>4. \A h \in {f, g} : Tag1(h) \in Nat /\ Tag1(h) < Base
  <2>1. /\ (1 * WireMod) + 0 \in Nat /\ (1 * WireMod) + 0 < Base
        /\ (2 * WireMod) + 2 \in Nat /\ (2 * WireMod) + 2 < Base
    BY CodecAssumption, TagsAssumption, VarintAssumption DEF BytesWire
  <2> QED BY <1>1, <2>1 DEF VarintWire, BytesWire
<1>5. \A h \in {f, g} : IsNumber(Tag1(h)) /\ PutVarint(Tag1(h)) = <<Tag1(h)>>
  <2> HIDE DEF Tag1
  <2> QED BY <1>4, OneDigit
<1>6. IsField(f) /\ IsField(g)
  <2>1. 1 \in Nat /\ 2 \in Nat
    OBVIOUS
  <2> QED BY <1>1, <1>3, <1>5, <2>1 DEF IsField
<1>7. \A h \in {f, g} : PutField(h) = EncodeField(h)
  <2>1. \A h \in {f, g} : Tag1(h) % (2 * Base) = Tag1(h)
    <3>1. \A t \in Nat, b \in Nat : t < b => t % (2 * b) = t
      OBVIOUS
    <3> HIDE DEF Tag1
    <3> QED BY <1>4, <3>1, VarintAssumption
  <2> QED BY <1>5, <2>1 DEF PutField, EncodeField
<1>8. IsMessage(m)
  <2> HIDE DEF m
  <2> QED BY <1>2, <1>6 DEF IsMessage
<1>9. PutMessage(m) = EncodeMessage(m)
  <2>1. \A i \in DOMAIN m : PutField(m[i]) = EncodeField(m[i])
    BY <1>2, <1>7
  <2> HIDE DEF m
  <2>2. [i \in DOMAIN m |-> PutField(m[i])] = [i \in DOMAIN m |-> EncodeField(m[i])]
    BY <2>1
  <2> QED BY <2>2 DEF PutMessage, EncodeMessage
<1> HIDE DEF m
<1>10. Given(m, 1, VarintWire, 0) = x
  <2>1. {i \in DOMAIN m : m[i].field = 1 /\ m[i].wire = VarintWire} = {1}
    BY <1>1, <1>2, <1>3
  <2>2. Min({1}) = 1
    BY DEF Min
  <2> QED BY <1>1, <1>2, <2>1, <2>2 DEF Given
<1>11. Given(m, 2, BytesWire, <<>>) = y
  <2>1. {i \in DOMAIN m : m[i].field = 2 /\ m[i].wire = BytesWire} = {2}
    BY <1>1, <1>2, <1>3
  <2>2. Min({2}) = 2
    BY DEF Min
  <2> QED BY <1>1, <1>2, <2>1, <2>2 DEF Given
<1>12. PbField(EncodeMessage(m), 1) = x /\ PbFieldBytes(EncodeMessage(m), 2) = y
  BY <1>8, <1>10, <1>11, FieldsRead
<1> QED BY <1>9, <1>12 DEF m, f, g

\* What is given is a number, or bytes with a length.
LEMMA GivenIs ==
    ASSUME NEW m, IsMessage(m), NEW field
    PROVE  /\ IsNumber(Given(m, field, VarintWire, 0))
           /\ Given(m, field, BytesWire, <<>>) \in Seq(Byte)
           /\ IsNumber(Len(Given(m, field, BytesWire, <<>>)))
<1> DEFINE put(wire) == {k \in DOMAIN m : m[k].field = field /\ m[k].wire = wire}
<1>1. \A wire, d : Given(m, field, wire, d) = IF put(wire) = {} THEN d ELSE m[Min(put(wire))].value
  BY DEF Given
<1>2. \A wire : put(wire) # {} =>
          /\ IsField(m[Min(put(wire))]) /\ m[Min(put(wire))].wire = wire
  <2> SUFFICES ASSUME NEW wire, put(wire) # {}
               PROVE  IsField(m[Min(put(wire))]) /\ m[Min(put(wire))].wire = wire
    OBVIOUS
  <2> DEFINE q == put(wire)
  <2>1. q \in SUBSET (1 .. Len(m)) /\ q # {} /\ \A k \in q : IsField(m[k]) /\ m[k].wire = wire
    BY PartsOf
  <2> HIDE DEF q
  <2>2. Min(q) \in q
    BY <2>1, FirstPlace
  <2> QED BY <2>1, <2>2 DEF q
<1>3. IsNumber(0) /\ <<>> \in Seq(Byte) /\ Len(<<>>) = 0
  <2>1. 0 \in Nat /\ 0 < Base
    BY VarintAssumption
  <2> QED BY <2>1, OneDigit, EmptySeq
<1> HIDE DEF put
<1>4. IsNumber(Given(m, field, VarintWire, 0))
  <2>1. CASE put(VarintWire) = {}
    BY <1>1, <1>3, <2>1
  <2>2. CASE put(VarintWire) # {}
    <3> DEFINE f == m[Min(put(VarintWire))]
    <3>1. IsField(f) /\ f.wire = VarintWire /\ Given(m, field, VarintWire, 0) = f.value
      BY <1>1, <1>2, <2>2
    <3> HIDE DEF f
    <3>2. IsNumber(f.value)
      BY <3>1, Values
    <3> QED BY <3>1, <3>2
  <2> QED BY <2>1, <2>2
<1>5. /\ Given(m, field, BytesWire, <<>>) \in Seq(Byte)
      /\ IsNumber(Len(Given(m, field, BytesWire, <<>>)))
  <2>1. CASE put(BytesWire) = {}
    <3>1. Given(m, field, BytesWire, <<>>) = <<>>
      BY <1>1, <2>1
    <3> QED BY <1>3, <3>1
  <2>2. CASE put(BytesWire) # {}
    <3> DEFINE f == m[Min(put(BytesWire))]
    <3>1. IsField(f) /\ f.wire = BytesWire /\ Given(m, field, BytesWire, <<>>) = f.value
      BY <1>1, <1>2, <2>2
    <3> HIDE DEF f
    <3>2. f.value \in Seq(Byte) /\ IsNumber(Len(f.value))
      BY <3>1, Values
    <3> QED BY <3>1, <3>2
  <2> QED BY <2>1, <2>2
<1> QED BY <1>4, <1>5

-----------------------------------------------------------------------------
(* A frame.                                                                 *)

LEMMA PayloadBytes == \A f \in Frames : Payload(f) \in Seq(Byte) /\ IsNumber(Len(Payload(f)))
BY FramesAssumption, PlaceBound DEF Payload

LEMMA HeadersReadBack == \A f \in Frames : ReadsBack(f.type) /\ ReadsBack(Len(Payload(f)))
BY FramesAssumption, PayloadBytes, VarintReadsBack

LEMMA Encoded ==
    ASSUME NEW f \in Frames
    PROVE  LET n == Len(Payload(f))
               a == Len(PutVarint(n))
               b == Len(PutVarint(f.type))
           IN
           /\ a \in 1 .. MaxDigits /\ b \in 1 .. MaxDigits /\ n \in Nat
           /\ Encode(f) \in Seq(Byte) /\ Len(Encode(f)) = 1 + a + b + n
           /\ Encode(f)[1] = f.first
           /\ \A k \in 1 .. a : Encode(f)[1 + k] = PutVarint(n)[k]
           /\ \A k \in 1 .. b : Encode(f)[1 + a + k] = PutVarint(f.type)[k]
           /\ \A k \in 1 .. n : Encode(f)[1 + a + b + k] = Payload(f)[k]
<1> DEFINE r == Payload(f)  n == Len(r)
           p == PutVarint(n)  a == Len(p)
           q == PutVarint(f.type)  b == Len(q)
           s == <<f.first>>
<1>1. /\ s \in Seq(Byte) /\ Len(s) = 1 /\ r \in Seq(Byte)
      /\ p \in Seq(Byte) /\ q \in Seq(Byte) /\ a \in 1 .. MaxDigits /\ b \in 1 .. MaxDigits
  BY FramesAssumption, PayloadBytes, HeadersReadBack DEF ReadsBack
<1>2. /\ a = Len(p) /\ b = Len(q) /\ n = Len(r) /\ a \in Nat /\ b \in Nat /\ n \in Nat
      /\ Encode(f) = ((s \o p) \o q) \o r
  BY <1>1 DEF Encode
<1> HIDE DEF a, b, n, p, q, r, s
<1> DEFINE x == s \o p  y == x \o q
<1>3. /\ x \in Seq(Byte) /\ Len(x) = 1 + a
      /\ \A k \in 1 .. a : x[1 + k] = p[k]
  <2>1. Len(s) = 1 /\ Len(p) = a
    BY <1>1, <1>2
  <2>2. /\ s \o p \in Seq(Byte) /\ Len(s \o p) = Len(s) + Len(p)
        /\ \A k \in 1 .. Len(p) : (s \o p)[Len(s) + k] = p[k]
    <3>1. s \in Seq(Byte) /\ p \in Seq(Byte)
      BY <1>1
    <3> QED BY <3>1, ConcatIndex
  <2> QED BY <2>1, <2>2
<1>4. /\ y \in Seq(Byte) /\ Len(y) = 1 + a + b
      /\ \A k \in 1 .. 1 + a : y[k] = x[k]
      /\ \A k \in 1 .. b : y[1 + a + k] = q[k]
  <2> HIDE DEF x
  <2>1. Len(x) = 1 + a /\ Len(q) = b
    BY <1>2, <1>3
  <2>2. /\ x \o q \in Seq(Byte) /\ Len(x \o q) = Len(x) + Len(q)
        /\ \A k \in 1 .. Len(x) : (x \o q)[k] = x[k]
        /\ \A k \in 1 .. Len(q) : (x \o q)[Len(x) + k] = q[k]
    <3>1. x \in Seq(Byte) /\ q \in Seq(Byte)
      BY <1>1, <1>3
    <3> QED BY <3>1, ConcatIndex
  <2> QED BY <2>1, <2>2
<1> HIDE DEF x, y
<1>5. /\ Encode(f) \in Seq(Byte) /\ Len(Encode(f)) = 1 + a + b + n
      /\ \A k \in 1 .. 1 + a + b : Encode(f)[k] = y[k]
      /\ \A k \in 1 .. n : Encode(f)[1 + a + b + k] = r[k]
  <2>1. Encode(f) = y \o r
    BY <1>2 DEF x, y
  <2>2. Len(y) = 1 + a + b /\ Len(r) = n
    BY <1>2, <1>4
  <2>3. /\ y \o r \in Seq(Byte) /\ Len(y \o r) = Len(y) + Len(r)
        /\ \A k \in 1 .. Len(y) : (y \o r)[k] = y[k]
        /\ \A k \in 1 .. Len(r) : (y \o r)[Len(y) + k] = r[k]
    <3>1. y \in Seq(Byte) /\ r \in Seq(Byte)
      BY <1>1, <1>4
    <3> QED BY <3>1, ConcatIndex
  <2> QED BY <2>1, <2>2, <2>3
<1>6. \A k \in 1 .. a : Encode(f)[1 + k] = p[k]
  BY <1>2, <1>3, <1>4, <1>5
<1>7. \A k \in 1 .. b : Encode(f)[1 + a + k] = q[k]
  BY <1>2, <1>4, <1>5
<1>8. Encode(f)[1] = f.first
  <2>1. x[1] = s[1] /\ s[1] = f.first
    BY <1>1, <1>2, ConcatIndex DEF x, s
  <2> QED BY <1>2, <1>4, <1>5, <2>1
<1> QED BY <1>1, <1>2, <1>5, <1>6, <1>7, <1>8 DEF a, b, n, p, q, r

-----------------------------------------------------------------------------
(* The bytes of several frames.                                             *)

Coded(fs) == [i \in DOMAIN fs |-> Encode(fs[i])]

LEMMA CodedIs ==
    ASSUME NEW fs \in Seq(Frames)
    PROVE  /\ Coded(fs) \in Seq(Seq(Byte)) /\ Len(Coded(fs)) = Len(fs) /\ Len(fs) \in Nat
           /\ \A i \in 1 .. Len(fs) : Coded(fs)[i] = Encode(fs[i]) /\ fs[i] \in Frames
           /\ Bytes(fs) = FlattenSeq(Coded(fs))
<1>1. Len(fs) \in Nat /\ DOMAIN fs = 1 .. Len(fs) /\ \A i \in 1 .. Len(fs) : fs[i] \in Frames
  BY LenProperties, ElementOfSeq
<1>2. \A i \in 1 .. Len(fs) : Coded(fs)[i] = Encode(fs[i]) /\ Encode(fs[i]) \in Seq(Byte)
  BY <1>1, Encoded DEF Coded
<1>3. Coded(fs) \in [1 .. Len(fs) -> Seq(Byte)]
  BY <1>1, <1>2 DEF Coded
<1>4. Coded(fs) \in Seq(Seq(Byte)) /\ Len(Coded(fs)) = Len(fs)
  BY <1>1, <1>3, Sequence
<1>5. Bytes(fs) = FlattenSeq(Coded(fs))
  BY DEF Bytes, Coded
<1> QED BY <1>1, <1>2, <1>4, <1>5

LEMMA CodedFirst ==
    ASSUME NEW fs \in Seq(Frames), NEW k \in 0 .. Len(fs)
    PROVE  SubSeq(fs, 1, k) \in Seq(Frames) /\ Coded(SubSeq(fs, 1, k)) = SubSeq(Coded(fs), 1, k)
<1> DEFINE d == SubSeq(fs, 1, k)  c == Coded(d)  e == SubSeq(Coded(fs), 1, k)
<1>1. d \in Seq(Frames) /\ Len(d) = k /\ \A i \in 1 .. k : d[i] = fs[i]
  BY FirstOf
<1> HIDE DEF d
<1>2. c \in Seq(Seq(Byte)) /\ Len(c) = k /\ \A i \in 1 .. k : c[i] = Encode(d[i])
  BY <1>1, CodedIs
<1>3. e \in Seq(Seq(Byte)) /\ Len(e) = k /\ \A i \in 1 .. k : e[i] = Coded(fs)[i]
  <2>1. k \in 0 .. Len(Coded(fs)) /\ Coded(fs) \in Seq(Seq(Byte))
    BY CodedIs
  <2> QED BY <2>1, FirstOf
<1>4. \A i \in 1 .. k : Coded(fs)[i] = Encode(fs[i])
  BY CodedIs
<1> HIDE DEF c, e
<1>5. \A i \in 1 .. k : c[i] = e[i]
  BY <1>1, <1>2, <1>3, <1>4
<1>6. c = e
  BY <1>2, <1>3, <1>5, SeqEqual
<1> QED BY <1>1, <1>6 DEF c, d, e

LEMMA NoBytes == Bytes(<<>>) = <<>>
<1>1. [i \in DOMAIN <<>> |-> Encode(<<>>[i])] = <<>>
  OBVIOUS
<1> QED BY <1>1, FlattenEmpty DEF Bytes

LEMMA BytesAppend ==
    ASSUME NEW fs \in Seq(Frames), NEW f \in Frames
    PROVE  Bytes(Append(fs, f)) = Bytes(fs) \o Encode(f)
<1> DEFINE n == Len(fs)  gs == Append(fs, f)  c == Coded(gs)  e == Append(Coded(fs), Encode(f))
<1>1. /\ n \in Nat /\ gs \in Seq(Frames) /\ Len(gs) = n + 1 /\ gs[n + 1] = f
      /\ \A i \in 1 .. n : gs[i] = fs[i]
  BY AppendProperties, LenProperties
<1>2. /\ Coded(fs) \in Seq(Seq(Byte)) /\ Len(Coded(fs)) = n /\ Encode(f) \in Seq(Byte)
      /\ \A i \in 1 .. n : Coded(fs)[i] = Encode(fs[i])
      /\ Bytes(fs) = FlattenSeq(Coded(fs))
  BY CodedIs, Encoded
<1> HIDE DEF n, gs
<1>3. /\ c \in Seq(Seq(Byte)) /\ Len(c) = n + 1 /\ Bytes(gs) = FlattenSeq(c)
      /\ \A i \in 1 .. n + 1 : c[i] = Encode(gs[i])
  BY <1>1, CodedIs
<1>4. /\ e \in Seq(Seq(Byte)) /\ Len(e) = n + 1 /\ e[n + 1] = Encode(f)
      /\ \A i \in 1 .. n : e[i] = Coded(fs)[i]
  BY <1>2, AppendProperties
<1>5. FlattenSeq(e) = Bytes(fs) \o Encode(f)
  BY <1>2, FlattenAppend
<1> HIDE DEF c, e
<1>6. \A i \in 1 .. n + 1 : c[i] = e[i]
  <2>1. /\ \A i \in 1 .. n + 1 : i \in 1 .. n \/ i = n + 1
        /\ \A i \in 1 .. n : i \in 1 .. n + 1
        /\ n + 1 \in 1 .. n + 1
    BY <1>1
  <2>2. \A i \in 1 .. n : c[i] = e[i]
    BY <1>1, <1>2, <1>3, <1>4, <2>1
  <2>3. c[n + 1] = e[n + 1]
    BY <1>1, <1>3, <1>4, <2>1
  <2> QED BY <2>1, <2>2, <2>3
<1>7. c = e
  BY <1>3, <1>4, <1>6, SeqEqual
<1> QED BY <1>3, <1>5, <1>7 DEF gs

LEMMA BytesAreBytes ==
    ASSUME NEW fs \in Seq(Frames)
    PROVE  Bytes(fs) \in Seq(Byte)
BY CodedIs, FlattenBytes

\* The stream of the first k frames, and what comes behind it.
LEMMA BytesOfFirst ==
    ASSUME NEW fs \in Seq(Frames), NEW k \in 0 .. Len(fs)
    PROVE  \E u \in Seq(Byte) : Bytes(fs) = Bytes(SubSeq(fs, 1, k)) \o u
<1>1. /\ SubSeq(fs, 1, k) \in Seq(Frames)
      /\ Bytes(fs) = FlattenSeq(Coded(fs)) /\ Coded(fs) \in Seq(Seq(Byte))
      /\ k \in 0 .. Len(Coded(fs))
  BY CodedIs, CodedFirst
<1>2. Bytes(SubSeq(fs, 1, k)) = FlattenSeq(SubSeq(Coded(fs), 1, k))
  BY <1>1, CodedIs, CodedFirst
<1> QED BY <1>1, <1>2, FlattenFirst

LEMMA BytesNext ==
    ASSUME NEW fs \in Seq(Frames), NEW k \in 0 .. Len(fs),
           k + 1 \in 1 .. Len(fs)
    PROVE  Bytes(SubSeq(fs, 1, k + 1)) = Bytes(SubSeq(fs, 1, k)) \o Encode(fs[k + 1])
<1>1. /\ Coded(fs) \in Seq(Seq(Byte)) /\ Len(Coded(fs)) = Len(fs)
      /\ Coded(fs)[k + 1] = Encode(fs[k + 1])
  BY CodedIs
<1>2. \A j \in 0 .. Len(fs) :
          /\ SubSeq(fs, 1, j) \in Seq(Frames)
          /\ Bytes(SubSeq(fs, 1, j)) = FlattenSeq(SubSeq(Coded(fs), 1, j))
  <2> SUFFICES ASSUME NEW j \in 0 .. Len(fs)
               PROVE  /\ SubSeq(fs, 1, j) \in Seq(Frames)
                      /\ Bytes(SubSeq(fs, 1, j)) = FlattenSeq(SubSeq(Coded(fs), 1, j))
    OBVIOUS
  <2>1. SubSeq(fs, 1, j) \in Seq(Frames) /\ Coded(SubSeq(fs, 1, j)) = SubSeq(Coded(fs), 1, j)
    BY CodedFirst
  <2> QED BY <2>1, CodedIs
<1>3. k + 1 \in 0 .. Len(fs)
  OBVIOUS
<1>4. FlattenSeq(SubSeq(Coded(fs), 1, k + 1))
          = FlattenSeq(SubSeq(Coded(fs), 1, k)) \o Coded(fs)[k + 1]
  BY <1>1, FlattenNext
<1> QED BY <1>1, <1>2, <1>3, <1>4

-----------------------------------------------------------------------------
(* What the parser finds.                                                   *)

\* The buffer from the parser's place on agrees with a frame.
LEMMA Parse ==
    ASSUME NEW f \in Frames, rx \in Seq(Byte),
           consumed \in 0 .. Len(rx), NEW l, l = Len(Encode(f)),
           \A k \in 1 .. l : consumed + k <= Len(rx) => rx[consumed + k] = Encode(f)[k]
    PROVE  /\ l \in Nat \ {0}
           /\ HasFrame <=> consumed + l <= Len(rx)
           /\ HasFrame => /\ GetVarint(rx, After(rx, At + 1)) = f.type
                          /\ PayloadAt + PayloadLen - 1 = consumed + l
                          /\ SubSeq(rx, PayloadAt, PayloadAt + PayloadLen - 1) = Payload(f)
<1> DEFINE n == Len(Payload(f))
           a == Len(PutVarint(n))
           b == Len(PutVarint(f.type))
<1>1. /\ a \in Nat \ {0} /\ b \in Nat \ {0} /\ n \in Nat
      /\ l = 1 + a + b + n
      /\ Len(rx) \in Nat /\ consumed \in Nat
      /\ \A k \in 1 .. a : Encode(f)[1 + k] = PutVarint(n)[k]
      /\ \A k \in 1 .. b : Encode(f)[1 + a + k] = PutVarint(f.type)[k]
      /\ \A k \in 1 .. n : Encode(f)[1 + a + b + k] = Payload(f)[k]
  <2>1. /\ a \in 1 .. MaxDigits /\ b \in 1 .. MaxDigits /\ n \in Nat
        /\ Len(Encode(f)) = 1 + a + b + n
        /\ \A k \in 1 .. a : Encode(f)[1 + k] = PutVarint(n)[k]
        /\ \A k \in 1 .. b : Encode(f)[1 + a + k] = PutVarint(f.type)[k]
        /\ \A k \in 1 .. n : Encode(f)[1 + a + b + k] = Payload(f)[k]
    BY Encoded
  <2>2. MaxDigits \in Nat /\ Len(rx) \in Nat
    BY VarintAssumption, LenProperties
  <2> HIDE DEF a, b, n
  <2> QED BY <2>1, <2>2
<1>2. ReadsBack(n) /\ ReadsBack(f.type) /\ Payload(f) \in Seq(Byte) /\ n = Len(Payload(f))
  BY PayloadBytes, HeadersReadBack
<1> HIDE DEF a, b, n
<1> DEFINE i == consumed + 2  j == consumed + 2 + a
<1>3. /\ HasVarint(rx, i) <=> consumed + 1 + a <= Len(rx)
      /\ consumed + 1 + a <= Len(rx) => After(rx, i) = j /\ GetVarint(rx, i) = n
  <2>1. \A k \in 1 .. a : i + k - 1 <= Len(rx) => rx[i + k - 1] = PutVarint(n)[k]
    <3> SUFFICES ASSUME NEW k \in 1 .. a, i + k - 1 <= Len(rx)
                 PROVE  rx[i + k - 1] = PutVarint(n)[k]
      OBVIOUS
    <3>1. 1 + k \in 1 .. l /\ i + k - 1 = consumed + (1 + k)
      BY <1>1
    <3> QED BY <1>1, <3>1
  <2>2. i \in Nat \ {0} /\ i + a - 1 = consumed + 1 + a /\ i + a = j
    <3> QED BY <1>1
  <2>3. /\ HasVarint(rx, i) <=> i + a - 1 <= Len(rx)
        /\ i + a - 1 <= Len(rx) => After(rx, i) = i + a /\ GetVarint(rx, i) = n
    <3> HIDE DEF i
    <3> QED BY <1>2, <2>1, <2>2, VarintFound DEF a
  <2> QED BY <2>2, <2>3
<1>4. /\ HasVarint(rx, j) <=> consumed + 1 + a + b <= Len(rx)
      /\ consumed + 1 + a + b <= Len(rx) => /\ After(rx, j) = consumed + 2 + a + b
                                            /\ GetVarint(rx, j) = f.type
  <2>1. \A k \in 1 .. b : j + k - 1 <= Len(rx) => rx[j + k - 1] = PutVarint(f.type)[k]
    <3> SUFFICES ASSUME NEW k \in 1 .. b, j + k - 1 <= Len(rx)
                 PROVE  rx[j + k - 1] = PutVarint(f.type)[k]
      OBVIOUS
    <3>1. 1 + a + k \in 1 .. l /\ j + k - 1 = consumed + (1 + a + k)
      BY <1>1
    <3> QED BY <1>1, <3>1
  <2>2. j \in Nat \ {0} /\ j + b - 1 = consumed + 1 + a + b /\ j + b = consumed + 2 + a + b
    <3> QED BY <1>1
  <2>3. /\ HasVarint(rx, j) <=> j + b - 1 <= Len(rx)
        /\ j + b - 1 <= Len(rx) => After(rx, j) = j + b /\ GetVarint(rx, j) = f.type
    <3> HIDE DEF j
    <3> QED BY <1>2, <2>1, <2>2, VarintFound DEF b
  <2> QED BY <2>2, <2>3
<1>5. At + 1 = i
  BY <1>1 DEF At
<1>6. HasFrame => consumed + l <= Len(rx)
  <2> SUFFICES ASSUME HasFrame PROVE consumed + l <= Len(rx)
    OBVIOUS
  <2>1. HasVarint(rx, i) /\ HasVarint(rx, After(rx, i)) /\ PayloadLen <= Len(rx) - PayloadAt + 1
    BY <1>5 DEF HasFrame, HasHeader
  <2>2. After(rx, i) = j /\ GetVarint(rx, i) = n
    BY <1>3, <2>1
  <2>3. After(rx, j) = consumed + 2 + a + b
    BY <1>4, <2>1, <2>2
  <2>4. n <= Len(rx) - (consumed + 2 + a + b) + 1
    <3>1. PayloadLen = n /\ PayloadAt = consumed + 2 + a + b
      BY <1>5, <2>2, <2>3 DEF PayloadLen, PayloadAt
    <3> QED BY <2>1, <3>1
  <2> QED BY <1>1, <2>4
<1>7. ASSUME consumed + l <= Len(rx)
      PROVE  /\ HasFrame /\ GetVarint(rx, After(rx, At + 1)) = f.type
             /\ PayloadAt + PayloadLen - 1 = consumed + l
             /\ PayloadAt = consumed + 2 + a + b
  <2>1. consumed + 1 + a <= Len(rx) /\ consumed + 1 + a + b <= Len(rx) /\ consumed + 1 <= Len(rx)
    BY <1>1, <1>7
  <2>2. /\ HasVarint(rx, At + 1) /\ After(rx, At + 1) = j /\ PayloadLen = n
        /\ HasVarint(rx, j) /\ PayloadAt = consumed + 2 + a + b /\ GetVarint(rx, j) = f.type
    BY <1>3, <1>4, <1>5, <2>1 DEF PayloadLen, PayloadAt
  <2>3. /\ PayloadAt + PayloadLen - 1 = consumed + l
        /\ PayloadLen <= Len(rx) - PayloadAt + 1
    BY <1>1, <1>7, <2>2
  <2>4. HasFrame
    <3>1. At <= Len(rx)
      BY <2>1 DEF At
    <3> QED BY <2>2, <2>3, <3>1 DEF HasFrame, HasHeader
  <2> QED BY <2>2, <2>3, <2>4
<1>8. ASSUME consumed + l <= Len(rx)
      PROVE  SubSeq(rx, consumed + 2 + a + b, consumed + l) = Payload(f)
  <2> DEFINE m == consumed + 2 + a + b  e == consumed + l  s == SubSeq(rx, m, e)
  <2>1. m \in Int /\ e \in Int /\ e - m + 1 = n /\ (IF m <= e THEN n ELSE 0) = n
    BY <1>1
  <2>2. \A k \in m .. e : rx[k] \in Byte
    <3>1. \A k \in m .. e : k \in 1 .. Len(rx)
      BY <1>1, <1>8
    <3> QED BY <3>1, ElementOfSeq
  <2>3. \A k \in 1 .. n : rx[m + k - 1] = Payload(f)[k]
    <3> SUFFICES ASSUME NEW k \in 1 .. n PROVE rx[m + k - 1] = Payload(f)[k]
      OBVIOUS
    <3>1. /\ 1 + a + b + k \in 1 .. l /\ m + k - 1 = consumed + (1 + a + b + k)
          /\ consumed + (1 + a + b + k) <= Len(rx)
      BY <1>1, <1>8
    <3> QED BY <1>1, <3>1
  <2> HIDE DEF m, e
  <2>4. s \in Seq(Byte) /\ Len(s) = n /\ \A k \in 1 .. n : s[k] = rx[m + k - 1]
    BY <2>1, <2>2, SubSeqProperties
  <2> HIDE DEF s
  <2>5. s = Payload(f)
    BY <1>2, <2>3, <2>4, SeqEqual
  <2> QED BY <2>5 DEF s, m, e
<1>9. l \in Nat \ {0}
  BY <1>1
<1>10. HasFrame => SubSeq(rx, PayloadAt, PayloadAt + PayloadLen - 1) = Payload(f)
  BY <1>6, <1>7, <1>8
<1> QED BY <1>6, <1>7, <1>9, <1>10

-----------------------------------------------------------------------------
(* The stream: of the frames fs, k are handled, and ahead of the parser is  *)
(* what follows them, all of it while the client is there.                  *)
Stream(k, fs, ahead, there) ==
    \E lost \in Seq(Byte) :
        /\ Bytes(fs) = Bytes(SubSeq(fs, 1, k)) \o (ahead \o lost)
        /\ there => lost = <<>>

LEMMA FirstBytes ==
    ASSUME NEW fs \in Seq(Frames), NEW k \in 0 .. Len(fs)
    PROVE  /\ SubSeq(fs, 1, k) \in Seq(Frames)
           /\ Bytes(SubSeq(fs, 1, k)) \in Seq(Byte) /\ Bytes(fs) \in Seq(Byte)
<1>1. \A i \in 1 .. k : fs[i] \in Frames
  BY LenProperties, ElementOfSeq
<1>2. SubSeq(fs, 1, k) \in Seq(Frames)
  BY <1>1, SubSeqProperties
<1> QED BY <1>2, BytesAreBytes

LEMMA StreamSend ==
    ASSUME NEW fs \in Seq(Frames), NEW k \in 0 .. Len(fs),
           NEW ahead \in Seq(Byte), Stream(k, fs, ahead, TRUE), NEW f \in Frames, NEW there
    PROVE  Stream(k, Append(fs, f), ahead \o Encode(f), there)
<1> DEFINE b == Bytes(SubSeq(fs, 1, k))  e == Encode(f)
<1>1. b \in Seq(Byte) /\ ahead \in Seq(Byte) /\ e \in Seq(Byte)
  BY FirstBytes, Encoded
<1>2. Bytes(Append(fs, f)) = Bytes(fs) \o e
  BY BytesAppend
<1>3. SubSeq(Append(fs, f), 1, k) = SubSeq(fs, 1, k)
  BY FirstOfAppend
<1>4. Bytes(fs) = b \o (ahead \o <<>>)
  BY DEF Stream
<1> HIDE DEF b, e
<1>5. ahead \o <<>> = ahead /\ ahead \o e \in Seq(Byte)
  BY ONLY <1>1, ConcatEmptySeq, ConcatProperties
<1>6. (ahead \o e) \o <<>> = ahead \o e
  BY ONLY <1>5, ConcatEmptySeq
<1>7. (b \o ahead) \o e = b \o (ahead \o e)
  BY ONLY <1>1, Assoc
<1>8. Bytes(Append(fs, f)) = b \o ((ahead \o e) \o <<>>)
  BY ONLY <1>2, <1>4, <1>5, <1>6, <1>7
<1>9. <<>> \in Seq(Byte)
  BY EmptySeq
<1> QED BY <1>3, <1>8, <1>9 DEF Stream, b, e

LEMMA StreamVanish ==
    ASSUME NEW fs \in Seq(Frames), NEW k \in 0 .. Len(fs),
           NEW s \in Seq(Byte), NEW way \in Seq(Byte), Stream(k, fs, s \o way, TRUE),
           NEW left \in Prefixes(way)
    PROVE  left \in Seq(Byte) /\ Stream(k, fs, s \o left, FALSE)
<1> DEFINE b == Bytes(SubSeq(fs, 1, k))
<1>1. PICK n \in 0 .. Len(way) : left = SubSeq(way, 1, n)
  BY DEF Prefixes
<1> DEFINE lost == SubSeq(way, n + 1, Len(way))
<1>2. left \in Seq(Byte) /\ lost \in Seq(Byte)
  <2>1. Len(way) \in Nat /\ \A i \in 1 .. Len(way) : way[i] \in Byte
    BY LenProperties, ElementOfSeq
  <2>2. (\A i \in 1 .. n : way[i] \in Byte) /\ \A i \in n + 1 .. Len(way) : way[i] \in Byte
    BY <2>1
  <2> QED BY <1>1, <2>1, <2>2, SubSeqProperties
<1>3. left \o lost = way
  <2>1. /\ 1 \in 1 .. Len(way) + 1 /\ n \in 1 - 1 .. Len(way) /\ Len(way) \in n .. Len(way)
    BY LenProperties
  <2>2. SubSeq(way, 1, n) \o SubSeq(way, n + 1, Len(way)) = SubSeq(way, 1, Len(way))
    BY <2>1, ConcatAdjacentSubSeq
  <2>3. SubSeq(way, 1, Len(way)) = way
    BY SubSeqFull
  <2> QED BY <1>1, <2>2, <2>3
<1>4. b \in Seq(Byte)
  BY FirstBytes
<1>5. Bytes(fs) = b \o ((s \o way) \o <<>>)
  BY DEF Stream
<1> HIDE DEF b, lost
<1>6. s \in Seq(Byte) /\ way \in Seq(Byte)
  OBVIOUS
<1>7. s \o way \in Seq(Byte)
  BY ONLY <1>6, ConcatProperties
<1>8. (s \o way) \o <<>> = s \o way
  BY ONLY <1>7, ConcatEmptySeq
<1>9. s \o way = (s \o left) \o lost
  <2>1. (s \o left) \o lost = s \o (left \o lost)
    BY ONLY <1>2, <1>6, Assoc
  <2> QED BY ONLY <2>1, <1>3
<1>10. Bytes(fs) = b \o ((s \o left) \o lost)
  BY ONLY <1>5, <1>8, <1>9
<1> QED BY <1>2, <1>10 DEF Stream, b

\* What is ahead begins with the next frame, as far as it is there.
LEMMA StreamNext ==
    ASSUME NEW fs \in Seq(Frames), NEW k \in 0 .. Len(fs),
           NEW ahead \in Seq(Byte), NEW there, Stream(k, fs, ahead, there), ahead # <<>>
    PROVE  /\ k + 1 \in 1 .. Len(fs) /\ fs[k + 1] \in Frames
           /\ \A j \in 1 .. Len(Encode(fs[k + 1])) :
                  j <= Len(ahead) => ahead[j] = Encode(fs[k + 1])[j]
<1> DEFINE b == Bytes(SubSeq(fs, 1, k))
<1>1. PICK lost \in Seq(Byte) : Bytes(fs) = b \o (ahead \o lost)
  BY DEF Stream
<1>2. b \in Seq(Byte) /\ Len(fs) \in Nat /\ ahead \in Seq(Byte) /\ lost \in Seq(Byte)
  BY FirstBytes, LenProperties
<1>3. ahead \o lost \in Seq(Byte) /\ ahead \o lost # <<>>
  <2>1. ahead \o lost \in Seq(Byte)
    BY ONLY <1>2, ConcatProperties
  <2>2. ahead \o lost = <<>> => ahead = <<>>
    BY ONLY <1>2, ConcatSimplifications!concIsEmpty
  <2> QED BY <2>1, <2>2
<1>4. k # Len(fs)
  <2> SUFFICES ASSUME k = Len(fs) PROVE FALSE
    OBVIOUS
  <2>1. SubSeq(fs, 1, k) = fs
    BY SubSeqFull
  <2>2. b = b \o (ahead \o lost)
    BY <1>1, <2>1
  <2> DEFINE x == ahead \o lost
  <2>3. x \in Seq(Byte) /\ x # <<>> /\ b = b \o x
    BY <1>3, <2>2
  <2> HIDE DEF x, b
  <2>4. x = <<>>
    BY ONLY <1>2, <2>3, ConcatSimplifications!idRight
  <2> QED BY <2>3, <2>4
<1>5. k + 1 \in 1 .. Len(fs) /\ fs[k + 1] \in Frames
  BY <1>2, <1>4, ElementOfSeq
<1> DEFINE f == fs[k + 1]  e == Encode(f)
<1>6. e \in Seq(Byte)
  BY <1>5, Encoded
<1>7. Bytes(SubSeq(fs, 1, k + 1)) = b \o e
  BY <1>5, BytesNext
<1>8. PICK u \in Seq(Byte) : Bytes(fs) = Bytes(SubSeq(fs, 1, k + 1)) \o u
  <2>1. k + 1 \in 0 .. Len(fs)
    BY <1>5
  <2> QED BY <2>1, BytesOfFirst
<1>9. b \o (e \o u) = b \o (ahead \o lost)
  <2>1. b \in Seq(Byte) /\ e \in Seq(Byte) /\ u \in Seq(Byte)
    BY <1>2, <1>6
  <2> HIDE DEF b, e
  <2>2. (b \o e) \o u = b \o (e \o u)
    BY ONLY <2>1, Assoc
  <2> QED BY ONLY <1>1, <1>7, <1>8, <2>2
<1> DEFINE x == e \o u  y == ahead \o lost
<1>10. x = y
  <2>1. b \in Seq(Byte) /\ x \in Seq(Byte) /\ y \in Seq(Byte) /\ b \o x = b \o y
    BY <1>2, <1>3, <1>6, <1>8, <1>9, ConcatProperties
  <2> HIDE DEF b, x, y
  <2> QED BY ONLY <2>1, CancelLeft
<1>11. \A j \in 1 .. Len(e) : x[j] = e[j]
  BY <1>6, <1>8, ConcatIndex
<1>12. \A j \in 1 .. Len(ahead) : y[j] = ahead[j]
  BY <1>2, ConcatIndex
<1>13. Len(ahead) \in Nat /\ Len(e) \in Nat
  BY <1>2, <1>6, LenProperties
<1> HIDE DEF e, x, y
<1>14. \A j \in 1 .. Len(e) : j <= Len(ahead) => ahead[j] = e[j]
  BY <1>10, <1>11, <1>12, <1>13
<1> QED BY <1>5, <1>14 DEF e

LEMMA StreamHandle ==
    ASSUME NEW fs \in Seq(Frames), NEW k \in 0 .. Len(fs),
           k + 1 \in 1 .. Len(fs), NEW rest \in Seq(Byte), NEW there,
           Stream(k, fs, Encode(fs[k + 1]) \o rest, there)
    PROVE  Stream(k + 1, fs, rest, there)
<1> DEFINE b == Bytes(SubSeq(fs, 1, k))  e == Encode(fs[k + 1])
<1>1. PICK lost \in Seq(Byte) : Bytes(fs) = b \o ((e \o rest) \o lost) /\ (there => lost = <<>>)
  BY DEF Stream
<1>2. b \in Seq(Byte) /\ e \in Seq(Byte) /\ rest \in Seq(Byte) /\ lost \in Seq(Byte)
  <2>1. fs[k + 1] \in Frames
    BY ElementOfSeq
  <2> QED BY <2>1, FirstBytes, Encoded
<1>3. Bytes(SubSeq(fs, 1, k + 1)) = b \o e
  BY BytesNext
<1> HIDE DEF b, e
<1>4. (e \o rest) \o lost = e \o (rest \o lost)
  BY ONLY <1>2, Assoc
<1> DEFINE x == rest \o lost
<1>5. x \in Seq(Byte)
  BY <1>2, ConcatProperties
<1>6. Bytes(fs) = b \o (e \o x)
  BY <1>1, <1>4
<1> HIDE DEF x
<1>7. (b \o e) \o x = b \o (e \o x)
  BY ONLY <1>2, <1>5, Assoc
<1>8. Bytes(fs) = Bytes(SubSeq(fs, 1, k + 1)) \o (rest \o lost)
  BY <1>3, <1>6, <1>7 DEF x
<1> QED BY <1>1, <1>8 DEF Stream

\* The property's form of it.
LEMMA StreamIsPrefix ==
    ASSUME NEW fs \in Seq(Frames), NEW k \in 0 .. Len(fs),
           NEW ahead \in Seq(Byte), NEW there, Stream(k, fs, ahead, there)
    PROVE  LET stream == Bytes(SubSeq(fs, 1, k)) \o ahead
           IN  IsPrefix(stream, Bytes(fs)) /\ (there => stream = Bytes(fs))
<1> DEFINE b == Bytes(SubSeq(fs, 1, k))  s == b \o ahead
<1>1. PICK lost \in Seq(Byte) : Bytes(fs) = b \o (ahead \o lost) /\ (there => lost = <<>>)
  BY DEF Stream
<1>2. b \in Seq(Byte) /\ ahead \in Seq(Byte) /\ lost \in Seq(Byte)
  BY FirstBytes
<1> HIDE DEF b
<1>3. s \in Seq(Byte)
  BY ONLY <1>2, ConcatProperties
<1>4. Bytes(fs) = s \o lost
  <2>1. (b \o ahead) \o lost = b \o (ahead \o lost)
    BY ONLY <1>2, Assoc
  <2> QED BY <1>1, <2>1
<1>5. there => s = Bytes(fs)
  <2> HIDE DEF s
  <2>1. s \o <<>> = s
    BY ONLY <1>3, ConcatEmptySeq
  <2> QED BY <1>1, <1>4, <2>1
<1>6. IsPrefix(s, Bytes(fs))
  <2> DEFINE x == s \o lost  m == Len(s)
  <2> HIDE DEF s
  <2>1. /\ m \in Nat /\ Len(lost) \in Nat /\ x \in Seq(Byte) /\ Len(x) = m + Len(lost)
        /\ \A i \in 1 .. m : x[i] = s[i]
    BY ONLY <1>2, <1>3, ConcatIndex
  <2>2. \A i \in 1 .. m : s[i] \in Byte
    BY <1>3, ElementOfSeq
  <2> HIDE DEF x, m
  <2> DEFINE c == SubSeq(s, 1, m)  d == SubSeq(x, 1, m)
  <2>3. c \in Seq(Byte) /\ Len(c) = m /\ \A i \in 1 .. m : c[i] = s[i]
    BY <2>1, <2>2, SubSeqProperties
  <2>4. d \in Seq(Byte) /\ Len(d) = m /\ \A i \in 1 .. m : d[i] = x[i]
    BY <2>1, <2>2, SubSeqProperties
  <2> HIDE DEF c, d
  <2>5. c = d
    BY <2>1, <2>3, <2>4, SeqEqual
  <2>6. m <= Len(x)
    BY <2>1
  <2> QED BY <1>4, <2>5, <2>6 DEF IsPrefix, c, d, x, m
<1> QED BY <1>5, <1>6 DEF b

-----------------------------------------------------------------------------
(* The invariant.  FramesInOrder is not inductive: that the frame before    *)
(* the parser is the next one sent takes that every byte of it is, and that *)
(* the buffer is never emptied for being full takes that in "recv" it holds *)
(* less than a frame.                                                       *)

HandledInv ==
    /\ Len(handled) <= Len(sent)
    /\ \A i \in DOMAIN handled : handled[i] = [type |-> sent[i].type,
                                               payload |-> Payload(sent[i])]

StreamInv == apiPc \in {"recv", "parse"} => Stream(Len(handled), sent, Ahead, peer = "up")

BufferInv == apiPc = "recv" => consumed = 0 /\ Kept = rx

SessionInv == TypeOK /\ HandledInv /\ StreamInv /\ BufferInv

LEMMA Sizes ==
    ASSUME TypeOK, HandledInv
    PROVE  /\ Len(handled) \in 0 .. Len(sent) /\ Len(sent) \in Nat /\ Len(rx) \in Nat
           /\ consumed \in Nat /\ consumed <= Len(rx) /\ At = consumed + 1
           /\ SubSeq(rx, At, Len(rx)) \in Seq(Byte)
           /\ Len(SubSeq(rx, At, Len(rx))) = Len(rx) - consumed
           /\ \A i \in 1 .. Len(rx) - consumed : SubSeq(rx, At, Len(rx))[i] = rx[consumed + i]
           /\ Ahead \in Seq(Byte)
<1>1. /\ Len(handled) \in Nat /\ Len(sent) \in Nat /\ Len(rx) \in Nat
      /\ consumed \in Nat /\ consumed <= Len(rx) /\ At = consumed + 1
  BY LenProperties DEF TypeOK, At
<1> DEFINE a == SubSeq(rx, At, Len(rx))
<1>2. \A i \in At .. Len(rx) : rx[i] \in Byte
  <2>1. \A i \in At .. Len(rx) : i \in 1 .. Len(rx)
    BY <1>1
  <2> QED BY <2>1, ElementOfSeq DEF TypeOK
<1>3. /\ a \in Seq(Byte) /\ Len(a) = (IF At <= Len(rx) THEN Len(rx) - At + 1 ELSE 0)
      /\ \A i \in 1 .. Len(rx) - At + 1 : a[i] = rx[At + i - 1]
  BY <1>1, <1>2, SubSeqProperties
<1>4. a \o net \in Seq(Byte)
  BY <1>3, ConcatProperties DEF TypeOK
<1> HIDE DEF a
<1>5. Len(a) = Len(rx) - consumed
  BY <1>1, <1>3
<1>6. \A i \in 1 .. Len(rx) - consumed : a[i] = rx[consumed + i]
  <2> SUFFICES ASSUME NEW i \in 1 .. Len(rx) - consumed PROVE a[i] = rx[consumed + i]
    OBVIOUS
  <2>1. i \in 1 .. Len(rx) - At + 1 /\ At + i - 1 = consumed + i
    BY <1>1
  <2> QED BY <1>3, <2>1
<1>7. Len(handled) <= Len(sent)
  BY DEF HandledInv
<1> QED BY <1>1, <1>3, <1>4, <1>5, <1>6, <1>7 DEF Ahead, a

\* What stands before the parser is the next frame the client has sent.
LEMMA NextFrame ==
    ASSUME TypeOK, HandledInv, StreamInv, apiPc = "parse", At <= Len(rx)
    PROVE  LET f == sent[Len(handled) + 1]
               l == Len(Encode(f))
           IN  /\ Len(handled) + 1 \in 1 .. Len(sent) /\ f \in Frames /\ l \in Nat \ {0}
               /\ \A k \in 1 .. l : consumed + k <= Len(rx) => rx[consumed + k] = Encode(f)[k]
               /\ HasFrame <=> consumed + l <= Len(rx)
               /\ HasFrame => /\ GetVarint(rx, After(rx, At + 1)) = f.type
                              /\ PayloadAt + PayloadLen - 1 = consumed + l
                              /\ SubSeq(rx, PayloadAt, PayloadAt + PayloadLen - 1) = Payload(f)
<1> DEFINE n == Len(handled)  f == sent[n + 1]  l == Len(Encode(f))
           a == SubSeq(rx, At, Len(rx))
<1>1. /\ n \in 0 .. Len(sent) /\ sent \in Seq(Frames) /\ Ahead \in Seq(Byte)
      /\ Len(rx) \in Nat /\ consumed \in Nat /\ consumed < Len(rx)
      /\ a \in Seq(Byte) /\ net \in Seq(Byte) /\ Len(a) = Len(rx) - consumed
      /\ \A i \in 1 .. Len(rx) - consumed : a[i] = rx[consumed + i]
      /\ rx \in Seq(Byte) /\ consumed \in 0 .. Len(rx)
  BY Sizes DEF TypeOK
<1>2. Stream(n, sent, Ahead, peer = "up")
  BY DEF StreamInv
<1> HIDE DEF a, n
<1>3. /\ Len(a) \in Nat /\ Len(net) \in Nat /\ Len(Ahead) = Len(a) + Len(net)
      /\ \A i \in 1 .. Len(a) : Ahead[i] = a[i]
  <2>1. a \in Seq(Byte) /\ net \in Seq(Byte)
    BY <1>1
  <2>2. Ahead = a \o net
    BY DEF Ahead, a
  <2> QED BY ONLY <2>1, <2>2, ConcatIndex
<1>4. Ahead # <<>>
  <2>1. Len(Ahead) # 0
    BY <1>1, <1>3
  <2> QED BY <2>1
<1>5. /\ n + 1 \in 1 .. Len(sent) /\ f \in Frames
      /\ \A j \in 1 .. l : j <= Len(Ahead) => Ahead[j] = Encode(f)[j]
  BY <1>1, <1>2, <1>4, StreamNext
<1>6. l \in Nat /\ Encode(f) \in Seq(Byte)
  BY <1>5, Encoded, LenProperties
<1>7. \A k \in 1 .. l : consumed + k <= Len(rx) => rx[consumed + k] = Encode(f)[k]
  <2> SUFFICES ASSUME NEW k \in 1 .. l, consumed + k <= Len(rx)
               PROVE  rx[consumed + k] = Encode(f)[k]
    OBVIOUS
  <2> HIDE DEF l, f
  <2>1. k \in 1 .. Len(rx) - consumed /\ k \in 1 .. Len(a) /\ k <= Len(Ahead)
    BY <1>1, <1>3, <1>6
  <2> QED BY <1>1, <1>3, <1>5, <2>1
<1> HIDE DEF f
<1>8. /\ l \in Nat \ {0}
      /\ HasFrame <=> consumed + l <= Len(rx)
      /\ HasFrame => /\ GetVarint(rx, After(rx, At + 1)) = f.type
                     /\ PayloadAt + PayloadLen - 1 = consumed + l
                     /\ SubSeq(rx, PayloadAt, PayloadAt + PayloadLen - 1) = Payload(f)
  BY <1>1, <1>5, <1>7, Parse
<1> QED BY <1>5, <1>7, <1>8 DEF n, f

LEMMA InitInv == Init => SessionInv
<1> SUFFICES ASSUME Init PROVE SessionInv
  OBVIOUS
<1>1. <<>> \in Seq(Byte) /\ <<>> \in Seq(Frames) /\ Len(<<>>) = 0
      /\ <<>> \in Seq([type : Nat, payload : Seq(Byte)])
  BY EmptySeq
<1>2. TypeOK
  <2>1. Len(rx) = 0 /\ Len(rx) <= RxCap /\ consumed \in 0 .. Len(rx)
    BY RxCapAssumption DEF Init
  <2> QED BY <1>1, <2>1 DEF Init, TypeOK
<1>3. HandledInv /\ StreamInv /\ BufferInv
  BY <1>1 DEF Init, HandledInv, StreamInv, BufferInv
<1> QED BY <1>2, <1>3 DEF SessionInv

-----------------------------------------------------------------------------
(* The steps.                                                               *)

\* What a step that leaves these alone keeps.
LEMMA QuietStep ==
    ASSUME SessionInv, UNCHANGED <<sent, handled, rx, consumed, net, btSub, stateSub>>,
           waiting' \in BOOLEAN, peer' \in {"none", "up", "closed", "gone"}, cliFd' \in BOOLEAN,
           \/ apiPc' \in {"accept", "close"}
           \/ apiPc' = apiPc /\ (peer' = "up" => peer = "up")
    PROVE  SessionInv'
<1>1. TypeOK'
  BY DEF SessionInv, TypeOK
<1>2. HandledInv'
  BY DEF SessionInv, HandledInv
<1>3. StreamInv'
  <2> SUFFICES ASSUME apiPc' \in {"recv", "parse"}
               PROVE  Stream(Len(handled), sent, Ahead, (peer = "up")')
    BY DEF StreamInv, Ahead, At
  <2>1. Stream(Len(handled), sent, Ahead, peer = "up") /\ ((peer = "up")' => peer = "up")
    BY DEF SessionInv, StreamInv
  <2> QED BY <2>1 DEF Stream
<1>4. BufferInv'
  BY DEF SessionInv, BufferInv, Kept
<1> QED BY <1>1, <1>2, <1>3, <1>4 DEF SessionInv

LEMMA SendStep ==
    ASSUME SessionInv, NEW f \in Frames, Send(f)
    PROVE  SessionInv'
<1>1. Encode(f) \in Seq(Byte)
  BY Encoded
<1>2. /\ sent \in Seq(Frames) /\ Len(handled) \in 0 .. Len(sent) /\ Ahead \in Seq(Byte)
      /\ SubSeq(rx, At, Len(rx)) \in Seq(Byte) /\ net \in Seq(Byte) /\ Len(sent) \in Nat
  BY Sizes DEF SessionInv, TypeOK
<1>3. TypeOK'
  <2>1. sent' \in Seq(Frames)
    BY <1>2, AppendProperties DEF Send
  <2>2. net' \in Seq(Byte)
    BY <1>1, <1>2, ConcatProperties DEF Send
  <2> QED BY <2>1, <2>2 DEF SessionInv, TypeOK, Send, subs
<1>4. HandledInv'
  <2>1. Len(sent') = Len(sent) + 1 /\ \A i \in 1 .. Len(sent) : sent'[i] = sent[i]
    BY <1>2, AppendProperties DEF Send
  <2>2. handled' = handled /\ DOMAIN handled = 1 .. Len(handled)
    BY LenProperties DEF Send, SessionInv, TypeOK
  <2>3. /\ Len(handled) <= Len(sent)
        /\ \A i \in DOMAIN handled : handled[i] = [type |-> sent[i].type, payload |-> Payload(sent[i])]
    BY DEF SessionInv, HandledInv
  <2>4. \A i \in DOMAIN handled : i \in 1 .. Len(sent)
    BY <1>2, <2>2
  <2>5. \A i \in DOMAIN handled' : handled'[i] = [type |-> sent'[i].type, payload |-> Payload(sent'[i])]
    BY <2>1, <2>2, <2>3, <2>4
  <2>6. Len(handled') <= Len(sent')
    BY <1>2, <2>1, <2>2
  <2> QED BY <2>5, <2>6 DEF HandledInv
<1>5. StreamInv'
  <2> SUFFICES ASSUME apiPc \in {"recv", "parse"} PROVE StreamInv'
    BY DEF StreamInv, Send
  <2>1. Stream(Len(handled), sent, Ahead, TRUE)
    BY DEF SessionInv, StreamInv, Send, Stream
  <2>2. Stream(Len(handled), Append(sent, f), Ahead \o Encode(f), (peer = "up")')
    BY <1>2, <2>1, StreamSend
  <2>3. Ahead' = Ahead \o Encode(f)
    <3> DEFINE a == SubSeq(rx, At, Len(rx))  e == Encode(f)
    <3>1. Ahead' = a \o (net \o e) /\ Ahead = a \o net
      BY DEF Ahead, At, Send
    <3>2. a \in Seq(Byte) /\ net \in Seq(Byte) /\ e \in Seq(Byte)
      BY <1>1, <1>2
    <3> HIDE DEF a, e
    <3>3. (a \o net) \o e = a \o (net \o e)
      BY ONLY <3>2, Assoc
    <3> QED BY <3>1, <3>3 DEF e
  <2>4. handled' = handled /\ sent' = Append(sent, f)
    BY DEF Send
  <2> QED BY <2>2, <2>3, <2>4 DEF StreamInv
<1>6. BufferInv'
  BY DEF SessionInv, BufferInv, Send, Kept
<1> QED BY <1>3, <1>4, <1>5, <1>6 DEF SessionInv

LEMMA VanishStep ==
    ASSUME SessionInv, Vanish
    PROVE  SessionInv'
<1>1. /\ sent \in Seq(Frames) /\ Len(handled) \in 0 .. Len(sent)
      /\ SubSeq(rx, At, Len(rx)) \in Seq(Byte) /\ net \in Seq(Byte)
  BY Sizes DEF SessionInv, TypeOK
<1>2. net' \in Seq(Byte)
  <2>1. PICK n \in 0 .. Len(net) : net' = SubSeq(net, 1, n)
    BY DEF Vanish, Prefixes
  <2>2. \A i \in 1 .. n : net[i] \in Byte
    BY <1>1, LenProperties, ElementOfSeq
  <2> QED BY <2>1, <2>2, SubSeqProperties
<1>3. TypeOK'
  BY <1>2 DEF SessionInv, TypeOK, Vanish, subs
<1>4. HandledInv'
  BY DEF SessionInv, HandledInv, Vanish
<1>5. StreamInv'
  <2> SUFFICES ASSUME apiPc \in {"recv", "parse"} PROVE StreamInv'
    BY DEF StreamInv, Vanish
  <2> DEFINE a == SubSeq(rx, At, Len(rx))
  <2>1. Stream(Len(handled), sent, a \o net, TRUE)
    BY DEF SessionInv, StreamInv, Vanish, Stream, Ahead
  <2>2. ASSUME NEW left \in Prefixes(net) PROVE Stream(Len(handled), sent, a \o left, FALSE)
    <3> HIDE DEF a
    <3>1. a \in Seq(Byte)
      BY <1>1 DEF a
    <3> QED BY <1>1, <2>1, <3>1, StreamVanish
  <2>3. Stream(Len(handled), sent, a \o net', FALSE)
    BY <2>2 DEF Vanish
  <2>4. Ahead' = a \o net' /\ handled' = handled /\ sent' = sent /\ (peer = "up")' = FALSE
    BY DEF Ahead, At, Vanish
  <2> HIDE DEF a
  <2> QED BY <2>3, <2>4 DEF StreamInv
<1>6. BufferInv'
  BY DEF SessionInv, BufferInv, Vanish, Kept
<1> QED BY <1>3, <1>4, <1>5, <1>6 DEF SessionInv

LEMMA AcceptStep ==
    ASSUME SessionInv, Accept
    PROVE  SessionInv'
<1>1. <<>> \in Seq(Byte) /\ <<>> \in Seq(Frames) /\ Len(<<>>) = 0
      /\ <<>> \in Seq([type : Nat, payload : Seq(Byte)])
  BY EmptySeq
<1>2. TypeOK'
  <2>1. Len(rx') = 0 /\ Len(rx') <= RxCap /\ consumed' \in 0 .. Len(rx')
    BY RxCapAssumption DEF Accept
  <2> QED BY <1>1, <2>1 DEF SessionInv, TypeOK, Accept, subs
<1>3. HandledInv'
  BY <1>1 DEF HandledInv, Accept
<1>4. BufferInv'
  BY DEF BufferInv, Kept, Accept
<1>5. StreamInv'
  <2>1. SubSeq(<<>>, 1, 0) = <<>>
    BY SubSeqEmpty
  <2>2. <<>> \o <<>> = <<>>
    BY <1>1, ConcatEmptySeq
  <2>3. Stream(0, <<>>, <<>>, TRUE)
    BY <1>1, <2>1, <2>2, NoBytes DEF Stream
  <2>4. /\ Len(handled') = 0 /\ sent' = <<>> /\ (peer = "up")' = TRUE
        /\ rx' = <<>> /\ net' = <<>> /\ consumed' = 0
    BY <1>1 DEF Accept
  <2>5. Ahead' = <<>>
    BY <1>1, <2>1, <2>2, <2>4 DEF Ahead, At
  <2> QED BY <2>3, <2>4, <2>5 DEF StreamInv
<1> QED BY <1>2, <1>3, <1>4, <1>5 DEF SessionInv

LEMMA RecvStep ==
    ASSUME SessionInv, Recv
    PROVE  SessionInv'
<1>1. Kept = rx /\ consumed = 0
  BY DEF SessionInv, BufferInv, Recv
<1>2. PICK n \in 1 .. Len(net) :
        /\ n <= RxCap - Len(rx)
        /\ rx' = rx \o SubSeq(net, 1, n)
        /\ net' = SubSeq(net, n + 1, Len(net))
  BY <1>1 DEF Recv
<1> DEFINE p == SubSeq(net, 1, n)  q == SubSeq(net, n + 1, Len(net))
<1>3. rx \in Seq(Byte) /\ net \in Seq(Byte) /\ Len(net) \in Nat /\ Len(rx) \in Nat
  BY LenProperties DEF SessionInv, TypeOK
<1>4. p \in Seq(Byte) /\ q \in Seq(Byte) /\ Len(p) = n
  <2>1. (\A i \in 1 .. n : net[i] \in Byte) /\ \A i \in n + 1 .. Len(net) : net[i] \in Byte
    BY <1>3, ElementOfSeq
  <2> QED BY <1>3, <2>1, SubSeqProperties
<1>5. p \o q = net
  <2>1. /\ 1 \in 1 .. Len(net) + 1 /\ n \in 1 - 1 .. Len(net) /\ Len(net) \in n .. Len(net)
    BY <1>3
  <2>2. p \o q = SubSeq(net, 1, Len(net))
    BY <1>3, <2>1, ConcatAdjacentSubSeq
  <2>3. SubSeq(net, 1, Len(net)) = net
    BY <1>3, SubSeqFull
  <2> QED BY <2>2, <2>3
<1>6. rx' = rx \o p /\ net' = q
  BY <1>2
<1> HIDE DEF p, q
<1>7. rx' \in Seq(Byte) /\ Len(rx') = Len(rx) + Len(p)
  <2>1. rx \in Seq(Byte) /\ p \in Seq(Byte)
    BY <1>3, <1>4
  <2> QED BY ONLY <1>6, <2>1, ConcatIndex
<1>8. TypeOK'
  <2>1. Len(rx') <= RxCap /\ consumed' \in 0 .. Len(rx')
    BY <1>2, <1>3, <1>4, <1>7, RxCapAssumption DEF Recv
  <2> QED BY <1>4, <1>6, <1>7, <2>1 DEF SessionInv, TypeOK, Recv, subs
<1>9. HandledInv'
  BY DEF SessionInv, HandledInv, Recv
<1>10. BufferInv'
  BY DEF BufferInv, Recv
<1>11. StreamInv'
  <2>1. Stream(Len(handled), sent, Ahead, peer = "up")
    BY DEF SessionInv, StreamInv, Recv
  <2>2. Ahead = rx \o net
    <3>1. At = 1
      BY <1>1 DEF At
    <3>2. SubSeq(rx, 1, Len(rx)) = rx
      BY <1>3, SubSeqFull
    <3> QED BY <3>1, <3>2 DEF Ahead
  <2>3. Ahead' = (rx \o p) \o q
    <3>1. At' = 1
      BY DEF At, Recv
    <3>2. SubSeq(rx', 1, Len(rx')) = rx'
      BY <1>7, SubSeqFull
    <3> QED BY <1>6, <3>1, <3>2 DEF Ahead
  <2>4. (rx \o p) \o q = rx \o (p \o q)
    <3>1. rx \in Seq(Byte) /\ p \in Seq(Byte) /\ q \in Seq(Byte)
      BY <1>3, <1>4
    <3> QED BY ONLY <3>1, Assoc
  <2>5. Ahead' = Ahead
    BY <1>5, <2>2, <2>3, <2>4
  <2>6. handled' = handled /\ sent' = sent /\ peer' = peer
    BY DEF Recv
  <2> QED BY <2>1, <2>5, <2>6 DEF StreamInv
<1> QED BY <1>8, <1>9, <1>10, <1>11 DEF SessionInv

LEMMA CloseStep ==
    ASSUME SessionInv, CloseClient
    PROVE  SessionInv'
<1>1. <<>> \in Seq(Byte) /\ Len(<<>>) = 0
  BY EmptySeq
<1>2. Len(rx') = 0 /\ Len(rx') <= RxCap /\ consumed' \in 0 .. Len(rx')
  BY RxCapAssumption DEF CloseClient, NoSession
<1>3. TypeOK'
  BY <1>1, <1>2 DEF SessionInv, TypeOK, CloseClient, NoSession
<1>4. HandledInv'
  BY DEF SessionInv, HandledInv, CloseClient
<1>5. StreamInv' /\ BufferInv'
  BY DEF StreamInv, BufferInv, CloseClient
<1> QED BY <1>3, <1>4, <1>5 DEF SessionInv

\* The frame handled is the next one, and the parser is behind it.
LEMMA ParseFrameStep ==
    ASSUME SessionInv, ParseFrame
    PROVE  SessionInv'
<1> DEFINE n == Len(handled)  f == sent[n + 1]  e == Encode(f)  l == Len(e)
           msg == [type |-> f.type, payload |-> Payload(f)]
<1>1. /\ n \in 0 .. Len(sent) /\ n \in Nat /\ Len(sent) \in Nat /\ Len(rx) \in Nat
      /\ consumed \in Nat /\ sent \in Seq(Frames) /\ rx \in Seq(Byte) /\ net \in Seq(Byte)
      /\ handled \in Seq([type : Nat, payload : Seq(Byte)])
  BY Sizes DEF SessionInv, TypeOK
<1>2. At <= Len(rx) /\ HasFrame
  BY DEF ParseFrame, HasFrame, HasHeader
<1>3. /\ n + 1 \in 1 .. Len(sent) /\ f \in Frames /\ l \in Nat \ {0}
      /\ \A k \in 1 .. l : consumed + k <= Len(rx) => rx[consumed + k] = e[k]
      /\ consumed + l <= Len(rx)
      /\ GetVarint(rx, After(rx, At + 1)) = f.type
      /\ PayloadAt + PayloadLen - 1 = consumed + l
      /\ SubSeq(rx, PayloadAt, PayloadAt + PayloadLen - 1) = Payload(f)
  BY <1>2, NextFrame DEF SessionInv, ParseFrame
<1>4. /\ handled' = Append(handled, msg)
      /\ UNCHANGED client
      /\ \/ cliFd' = FALSE /\ NoSession /\ apiPc' = "close"
         \/ /\ consumed' = consumed + l
            /\ btSub' \in BOOLEAN /\ stateSub' \in BOOLEAN
            /\ UNCHANGED <<apiPc, cliFd, rx>>
  BY <1>3 DEF ParseFrame
<1>5. msg \in [type : Nat, payload : Seq(Byte)] /\ e \in Seq(Byte)
  <2>1. f \in Frames
    BY <1>3
  <2>2. f.type \in Nat
    BY <2>1, FramesAssumption DEF IsNumber
  <2>3. Payload(f) \in Seq(Byte) /\ Encode(f) \in Seq(Byte)
    BY <2>1, PayloadBytes, Encoded
  <2> QED BY <1>3, <2>2, <2>3
<1> HIDE DEF msg
<1>6. /\ handled' \in Seq([type : Nat, payload : Seq(Byte)]) /\ Len(handled') = n + 1
      /\ \A i \in 1 .. n : handled'[i] = handled[i]
      /\ handled'[n + 1] = msg
  BY <1>1, <1>4, <1>5, AppendProperties
<1>7. TypeOK'
  <2>1. rx' \in Seq(Byte) /\ Len(rx') <= RxCap /\ consumed' \in 0 .. Len(rx')
    <3>1. CASE NoSession
      <4>1. rx' = <<>> /\ consumed' = 0 /\ Len(<<>>) = 0 /\ <<>> \in Seq(Byte)
        BY <3>1, EmptySeq DEF NoSession
      <4> QED BY <4>1, RxCapAssumption
    <3>2. CASE consumed' = consumed + l /\ rx' = rx
      <4>1. consumed + l \in 0 .. Len(rx)
        BY <1>1, <1>3
      <4> QED BY <1>1, <3>2, <4>1 DEF SessionInv, TypeOK
    <3> QED BY <1>4, <3>1, <3>2
  <2>2. btSub' \in BOOLEAN /\ stateSub' \in BOOLEAN
    BY <1>4 DEF NoSession
  <2>3. cliFd' \in BOOLEAN /\ apiPc' \in {"accept", "recv", "parse", "close"}
    BY <1>4 DEF SessionInv, TypeOK
  <2> QED BY <1>4, <1>6, <2>1, <2>2, <2>3 DEF SessionInv, TypeOK, client
<1>8. HandledInv'
  <2>1. sent' = sent /\ n + 1 <= Len(sent)
    BY <1>3, <1>4 DEF client
  <2>2. DOMAIN handled' = 1 .. n + 1 /\ DOMAIN handled = 1 .. n
    BY <1>1, <1>6, LenProperties
  <2>3. \A i \in 1 .. n : handled[i] = [type |-> sent[i].type, payload |-> Payload(sent[i])]
    BY <2>2 DEF SessionInv, HandledInv
  <2>4. \A i \in 1 .. n + 1 : handled'[i] = [type |-> sent[i].type, payload |-> Payload(sent[i])]
    <3> SUFFICES ASSUME NEW i \in 1 .. n + 1
                 PROVE  handled'[i] = [type |-> sent[i].type, payload |-> Payload(sent[i])]
      OBVIOUS
    <3>1. CASE i = n + 1
      BY <1>6, <3>1 DEF msg
    <3>2. CASE i # n + 1
      <4>1. i \in 1 .. n
        BY <1>1, <3>2
      <4> QED BY <1>6, <2>3, <4>1
    <3> QED BY <3>1, <3>2
  <2> QED BY <1>6, <2>1, <2>2, <2>4 DEF HandledInv
<1>9. StreamInv'
  <2> SUFFICES ASSUME apiPc' \in {"recv", "parse"} PROVE StreamInv'
    BY DEF StreamInv
  <2>1. consumed' = consumed + l /\ rx' = rx /\ net' = net /\ sent' = sent /\ peer' = peer
    BY <1>4 DEF client
  <2> DEFINE m == consumed + l  b == SubSeq(rx, m + 1, Len(rx))
  <2>2. SubSeq(rx, At, m) = e
    <3> DEFINE c == SubSeq(rx, At, m)
    <3>1. At = consumed + 1 /\ \A i \in At .. m : i \in 1 .. Len(rx)
      BY <1>1, <1>3 DEF At
    <3>2. \A i \in At .. m : rx[i] \in Byte
      BY <1>1, <3>1, ElementOfSeq
    <3>3. At \in Int /\ m \in Int /\ m - At + 1 = l /\ At <= m
      BY <1>1, <1>3, <3>1
    <3> HIDE DEF m, e, f
    <3>4. c \in Seq(Byte) /\ Len(c) = l /\ \A i \in 1 .. l : c[i] = rx[At + i - 1]
      BY <3>2, <3>3, SubSeqProperties
    <3>5. \A i \in 1 .. l : rx[At + i - 1] = e[i]
      <4> SUFFICES ASSUME NEW i \in 1 .. l PROVE rx[At + i - 1] = e[i]
        OBVIOUS
      <4>1. At + i - 1 = consumed + i /\ consumed + i <= Len(rx)
        BY <1>1, <1>3, <3>1
      <4> QED BY <1>3, <4>1
    <3> HIDE DEF c
    <3>6. c = e
      BY <1>5, <3>4, <3>5, SeqEqual
    <3> QED BY <3>6 DEF c
  <2>3. SubSeq(rx, At, Len(rx)) = e \o b
    <3> HIDE DEF e, f
    <3>1. At \in 1 .. Len(rx) + 1 /\ m \in At - 1 .. Len(rx) /\ Len(rx) \in m .. Len(rx)
      BY <1>1, <1>3 DEF At
    <3> HIDE DEF m
    <3>2. SubSeq(rx, At, m) \o SubSeq(rx, m + 1, Len(rx)) = SubSeq(rx, At, Len(rx))
      BY <1>1, <3>1, ConcatAdjacentSubSeq
    <3> QED BY <2>2, <3>2
  <2>4. b \in Seq(Byte)
    <3>1. m + 1 \in Int /\ \A i \in m + 1 .. Len(rx) : i \in 1 .. Len(rx)
      BY <1>1, <1>3
    <3>2. \A i \in m + 1 .. Len(rx) : rx[i] \in Byte
      BY <1>1, <3>1, ElementOfSeq
    <3> HIDE DEF m
    <3> QED BY <1>1, <3>1, <3>2, SubSeqProperties
  <2>5. Ahead' = b \o net
    <3>1. At' = m + 1
      BY <2>1 DEF At
    <3> QED BY <2>1, <3>1 DEF Ahead
  <2> HIDE DEF b
  <2>6. Ahead = e \o (b \o net) /\ b \o net \in Seq(Byte)
    <3>1. e \in Seq(Byte) /\ b \in Seq(Byte) /\ net \in Seq(Byte)
      BY <1>1, <1>5, <2>4
    <3> HIDE DEF e
    <3>2. (e \o b) \o net = e \o (b \o net)
      BY ONLY <3>1, Assoc
    <3>3. Ahead = (e \o b) \o net
      BY <2>3 DEF Ahead
    <3>4. b \o net \in Seq(Byte)
      BY ONLY <3>1, ConcatProperties
    <3> QED BY <3>2, <3>3, <3>4
  <2>7. Stream(n, sent, e \o (b \o net), peer = "up")
    <3>1. apiPc = "parse"
      BY DEF ParseFrame
    <3>2. Stream(n, sent, Ahead, peer = "up")
      BY <3>1 DEF SessionInv, StreamInv
    <3> QED BY <2>6, <3>2
  <2>8. Stream(n + 1, sent, b \o net, peer = "up")
    <3> DEFINE rest == b \o net
    <3>1. rest \in Seq(Byte) /\ Stream(n, sent, Encode(sent[n + 1]) \o rest, peer = "up")
      BY <2>6, <2>7
    <3> HIDE DEF rest, n
    <3>2. Stream(n + 1, sent, rest, peer = "up")
      BY <1>1, <1>3, <3>1, StreamHandle
    <3> QED BY <3>2 DEF rest
  <2> HIDE DEF n
  <2> QED BY <1>6, <2>1, <2>5, <2>8 DEF StreamInv
<1>10. BufferInv'
  BY <1>4 DEF BufferInv, ParseFrame
<1> QED BY <1>7, <1>8, <1>9, <1>10 DEF SessionInv

\* What is left is less than a frame: the buffer is not full of it.
LEMMA ParseMoreStep ==
    ASSUME SessionInv, ParseMore
    PROVE  SessionInv'
<1>1. /\ rx' = SubSeq(rx, At, Len(rx)) /\ consumed' = 0 /\ apiPc' = "recv" /\ apiPc = "parse"
      /\ net' = net /\ sent' = sent /\ peer' = peer /\ handled' = handled
  BY DEF ParseMore, client
<1>2. /\ rx' \in Seq(Byte) /\ Len(rx') = Len(rx) - consumed /\ Len(rx) \in Nat
      /\ consumed \in Nat /\ consumed <= Len(rx) /\ Len(rx) <= RxCap /\ At = consumed + 1
  BY <1>1, Sizes DEF SessionInv, TypeOK
<1>3. TypeOK'
  <2>1. Len(rx') <= RxCap /\ consumed' \in 0 .. Len(rx')
    BY <1>1, <1>2, RxCapAssumption
  <2> QED BY <1>2, <2>1 DEF SessionInv, TypeOK, ParseMore, client, subs
<1>4. HandledInv'
  BY <1>1 DEF SessionInv, HandledInv
<1>5. StreamInv'
  <2>1. Stream(Len(handled), sent, Ahead, peer = "up")
    BY <1>1 DEF SessionInv, StreamInv
  <2>2. Ahead' = SubSeq(rx', 1, Len(rx')) \o net
    <3>1. At' = 1
      BY <1>1 DEF At
    <3> QED BY <1>1, <3>1 DEF Ahead
  <2>3. SubSeq(rx', 1, Len(rx')) = rx'
    BY <1>2, SubSeqFull
  <2>4. Ahead' = Ahead
    BY <1>1, <2>2, <2>3 DEF Ahead
  <2> QED BY <1>1, <2>1, <2>4 DEF StreamInv
<1>6. BufferInv'
  <2>1. CASE At <= Len(rx)
    <3> DEFINE f == sent[Len(handled) + 1]  l == Len(Encode(f))
    <3>1. f \in Frames /\ l \in Nat \ {0} /\ ~(consumed + l <= Len(rx))
      BY <1>1, <2>1, NextFrame DEF SessionInv, ParseMore
    <3>2. l <= RxCap
      BY <3>1, RxCapAssumption
    <3> HIDE DEF f, l
    <3>3. ~(Len(rx') >= RxCap)
      BY <1>2, <3>1, <3>2, RxCapAssumption
    <3> QED BY <1>1, <3>3 DEF BufferInv, Kept
  <2>2. CASE ~(At <= Len(rx))
    <3>1. Len(rx') = 0
      BY <1>2, <2>2
    <3>2. rx' = <<>>
      BY <1>2, <3>1
    <3> QED BY <1>1, <3>2 DEF BufferInv, Kept
  <2> QED BY <2>1, <2>2
<1> QED BY <1>3, <1>4, <1>5, <1>6 DEF SessionInv

LEMMA NextInv ==
    ASSUME SessionInv, [Next]_vars
    PROVE  SessionInv'
<1>1. CASE Arrive
  BY <1>1, QuietStep DEF Arrive, subs, SessionInv, TypeOK
<1>2. CASE Leave
  BY <1>2, QuietStep DEF Leave, subs, SessionInv, TypeOK
<1>3. CASE Vanish
  BY <1>3, VanishStep
<1>4. CASE \E f \in Frames : Send(f)
  BY <1>4, SendStep
<1>5. CASE Accept
  BY <1>5, AcceptStep
<1>6. CASE CloseClient
  BY <1>6, CloseStep
<1>7. CASE Recv
  BY <1>7, RecvStep
<1>8. CASE RecvEnds \/ IdleTimeout
  <2>1. rx' = rx
    BY <1>8 DEF RecvEnds, IdleTimeout, SessionInv, BufferInv
  <2> QED BY <1>8, <2>1, QuietStep DEF RecvEnds, IdleTimeout, client, subs, SessionInv, TypeOK
<1>9. CASE ParseDesync
  BY <1>9, QuietStep DEF ParseDesync, client, subs, SessionInv, TypeOK
<1>10. CASE ParseFrame
  BY <1>10, ParseFrameStep
<1>11. CASE ParseMore
  BY <1>11, ParseMoreStep
<1>12. CASE UNCHANGED vars
  BY <1>12, QuietStep DEF vars, client, subs, SessionInv, TypeOK
<1> QED BY <1>1, <1>2, <1>3, <1>4, <1>5, <1>6, <1>7, <1>8, <1>9, <1>10, <1>11, <1>12
        DEF Next, Client, ApiStep

LEMMA InvIsInOrder ==
    ASSUME SessionInv
    PROVE  FramesInOrder
<1>1. HandledInv
  BY DEF SessionInv
<1>2. ASSUME apiPc \in {"recv", "parse"}
      PROVE  LET stream == Bytes(SubSeq(sent, 1, Len(handled))) \o Ahead
             IN  /\ IsPrefix(stream, Bytes(sent))
                 /\ peer = "up" => stream = Bytes(sent)
  <2>1. /\ sent \in Seq(Frames) /\ Len(handled) \in 0 .. Len(sent) /\ Ahead \in Seq(Byte)
    BY Sizes DEF SessionInv, TypeOK
  <2>2. Stream(Len(handled), sent, Ahead, peer = "up")
    BY <1>2 DEF SessionInv, StreamInv
  <2> QED BY <2>1, <2>2, StreamIsPrefix
<1> QED BY <1>1, <1>2 DEF FramesInOrder, HandledInv

(* Every frame a client has sent is handled in order, once, and as it was   *)
(* sent, whatever the frames, the size of the buffer and the cuts of the    *)
(* stream: serveClient and handleFrame (esphome_api.cpp) find in _rx the    *)
(* frames of sendMessage's form again, and nothing of an earlier client's.  *)
THEOREM FramesAreInOrder == Spec => [](TypeOK /\ FramesInOrder)
<1>1. Init => SessionInv
  BY InitInv
<1>2. SessionInv /\ [Next]_vars => SessionInv'
  BY NextInv
<1>3. SessionInv => TypeOK /\ FramesInOrder
  BY InvIsInOrder DEF SessionInv
<1> QED BY <1>1, <1>2, <1>3, PTL DEF Spec

-----------------------------------------------------------------------------
(* A handler finds in a frame's payload what the client has put into each   *)
(* field, whatever the message, and the client finds in an answer that      *)
(* returns a number and some bytes what it has sent: pbField and            *)
(* pbFieldBytes read what pbUint and pbBytes write, and step over fields of *)
(* other numbers and wire types.                                            *)
THEOREM FieldsAreReadBack == Spec => []FieldsReadBack
<1>1. ASSUME TypeOK, FramesInOrder PROVE FieldsReadBack
  <2> SUFFICES ASSUME NEW i \in DOMAIN handled
               PROVE  LET buf == handled[i].payload
                          m   == sent[i].msg
                          ans == AnswerTo(buf)
                      IN  /\ \A f \in {m[k].field : k \in DOMAIN m} \cup {1} :
                                /\ PbField(buf, f) = Given(m, f, VarintWire, 0)
                                /\ PbFieldBytes(buf, f) = Given(m, f, BytesWire, <<>>)
                          /\ PbField(ans, 1) = Given(m, 1, VarintWire, 0)
                          /\ PbFieldBytes(ans, 2) = Given(m, 2, BytesWire, <<>>)
    BY DEF FieldsReadBack
  <2> DEFINE buf == handled[i].payload
             m   == sent[i].msg
             x   == Given(m, 1, VarintWire, 0)
             y   == Given(m, 2, BytesWire, <<>>)
  <2>1. IsMessage(m) /\ buf = EncodeMessage(m)
    <3>1. i \in 1 .. Len(sent)
      <4>1. /\ handled \in Seq([type : Nat, payload : Seq(Byte)]) /\ sent \in Seq(Frames)
            /\ Len(handled) <= Len(sent)
        BY <1>1 DEF TypeOK, FramesInOrder
      <4>2. Len(sent) \in Nat /\ Len(handled) \in Nat /\ i \in 1 .. Len(handled)
        BY <4>1, LenProperties
      <4> QED BY <4>1, <4>2
    <3>2. sent[i] \in Frames
      BY <1>1, <3>1, ElementOfSeq DEF TypeOK
    <3>3. handled[i].payload = Payload(sent[i])
      BY <1>1 DEF FramesInOrder
    <3> QED BY <3>2, <3>3, FramesAssumption DEF Payload
  <2> HIDE DEF buf, m
  <2>2. \A f : /\ PbField(buf, f) = Given(m, f, VarintWire, 0)
               /\ PbFieldBytes(buf, f) = Given(m, f, BytesWire, <<>>)
    BY <2>1, FieldsRead
  <2>3. IsNumber(x) /\ y \in Seq(Byte) /\ IsNumber(Len(y))
    BY <2>1, GivenIs
  <2> HIDE DEF x, y
  <2>4. AnswerTo(buf) = PutMessage(<<[field |-> 1, wire |-> VarintWire, value |-> x],
                                     [field |-> 2, wire |-> BytesWire, value |-> y]>>)
    BY <2>2 DEF AnswerTo, x, y
  <2>5. PbField(AnswerTo(buf), 1) = x /\ PbFieldBytes(AnswerTo(buf), 2) = y
    BY <2>3, <2>4, AnswerRead
  <2> QED BY <2>2, <2>5 DEF buf, m, x, y
<1>2. Spec => []FieldsReadBack
  BY <1>1, FramesAreInOrder, PTL
<1> QED BY <1>2

-----------------------------------------------------------------------------
(* The subscriptions: they are those of the client served, for the socket   *)
(* is open from Accept until the client is let go, and each of the two      *)
(* places that let it go clears them.                                       *)
SubsInv ==
    /\ handled \in Seq({handled[i] : i \in DOMAIN handled})
    /\ btSub \in BOOLEAN /\ stateSub \in BOOLEAN /\ cliFd \in BOOLEAN
    /\ apiPc = "accept" => ~cliFd
    /\ apiPc \in {"recv", "parse"} => cliFd
    /\ SubscriptionIsItsOwn

LEMMA HandleSubs ==
    ASSUME SubsInv, ParseFrame
    PROVE  SubsInv'
<1> DEFINE n == Len(handled)
           type == GetVarint(rx, After(rx, At + 1))
           msg == [type |-> type, payload |-> SubSeq(rx, PayloadAt, PayloadAt + PayloadLen - 1)]
           S == {handled[i] : i \in DOMAIN handled} \cup {msg}
<1>1. /\ handled' = Append(handled, msg)
      /\ IF type = Close
         THEN cliFd' = FALSE /\ NoSession /\ apiPc' = "close"
         ELSE /\ btSub' = (type = Sub \/ (btSub /\ type # Unsub))
              /\ stateSub' = (type = SubStates \/ stateSub)
              /\ UNCHANGED <<apiPc, cliFd, rx>>
      /\ apiPc = "parse"
  BY DEF ParseFrame
<1>2. msg.type = type
  OBVIOUS
<1> HIDE DEF type, msg
<1>3. handled \in Seq(S)
  BY SeqMonotonic DEF SubsInv
<1>4. /\ n \in Nat /\ DOMAIN handled = 1 .. n /\ handled' \in Seq(S) /\ DOMAIN handled' = 1 .. n + 1
      /\ \A i \in 1 .. n : handled'[i] = handled[i]
      /\ handled'[n + 1] = msg
  <2>1. msg \in S
    OBVIOUS
  <2> HIDE DEF S
  <2>2. /\ Append(handled, msg) \in Seq(S) /\ Len(Append(handled, msg)) = n + 1
        /\ \A i \in 1 .. n : Append(handled, msg)[i] = handled[i]
        /\ Append(handled, msg)[n + 1] = msg
    BY <1>3, <2>1, AppendProperties
  <2>3. n \in Nat /\ DOMAIN handled = 1 .. n /\ DOMAIN Append(handled, msg) = 1 .. n + 1
    BY <1>3, <2>2, LenProperties
  <2> QED BY <1>1, <2>2, <2>3
<1>5. handled' \in Seq({handled'[i] : i \in DOMAIN handled'})
  <2> DEFINE R == {handled'[i] : i \in DOMAIN handled'}
  <2>1. handled' \in [1 .. n + 1 -> R]
    <3>1. handled' = [i \in 1 .. n + 1 |-> handled'[i]]
      <4> HIDE DEF S, n
      <4>1. handled' = [i \in DOMAIN handled' |-> handled'[i]]
        BY <1>4, SeqDef
      <4> QED BY <1>4, <4>1
    <3>2. \A i \in 1 .. n + 1 : handled'[i] \in R
      BY <1>4
    <3> HIDE DEF R, n
    <3> QED BY <3>1, <3>2
  <2> HIDE DEF R
  <2>2. n + 1 \in Nat
    BY <1>4
  <2>3. handled' \in Seq(R)
    BY <2>1, <2>2, Sequence
  <2> QED BY <2>3 DEF R
<1> HIDE DEF n, S
<1>6. CASE type = Close
  <2>1. ~btSub' /\ ~stateSub' /\ ~cliFd' /\ apiPc' = "close"
    BY <1>1, <1>6 DEF NoSession
  <2>2. SubscriptionIsItsOwn'
    BY <2>1 DEF SubscriptionIsItsOwn
  <2>3. btSub' \in BOOLEAN /\ stateSub' \in BOOLEAN /\ cliFd' \in BOOLEAN
    BY <1>1, <1>6 DEF NoSession
  <2> QED BY <1>5, <2>1, <2>2, <2>3 DEF SubsInv
<1>7. CASE type # Close
  <2>1. /\ btSub' = (type = Sub \/ (btSub /\ type # Unsub))
        /\ stateSub' = (type = SubStates \/ stateSub)
        /\ apiPc' = "parse" /\ cliFd' = cliFd /\ cliFd
    BY <1>1, <1>7 DEF SubsInv
  <2>2. \A t : Handled(t)' = Handled(t) \cup (IF type = t THEN {n + 1} ELSE {})
    <3> SUFFICES ASSUME NEW t
                 PROVE  {i \in DOMAIN handled' : handled'[i].type = t}
                      = {i \in DOMAIN handled : handled[i].type = t}
                            \cup (IF type = t THEN {n + 1} ELSE {})
      BY DEF Handled
    <3>1. \A i : i \in 1 .. n + 1 <=> i \in 1 .. n \/ i = n + 1
      BY <1>4
    <3>2. n + 1 \notin 1 .. n
      BY <1>4
    <3> QED BY <1>2, <1>4, <3>1, <3>2
  <2>3. \A t : \A i \in Handled(t) : i \in Nat /\ i < n + 1
    BY <1>4 DEF Handled
  <2>4. /\ btSub <=> \E i \in Handled(Sub) : \A j \in Handled(Unsub) : j < i
        /\ stateSub <=> Handled(SubStates) # {}
    BY <2>1 DEF SubsInv, SubscriptionIsItsOwn
  <2>5. btSub' <=> \E i \in Handled(Sub)' : \A j \in Handled(Unsub)' : j < i
    <3>1. CASE type = Sub
      <4>1. btSub'
        BY <2>1, <3>1
      <4>2. Handled(Sub)' = Handled(Sub) \cup {n + 1} /\ Handled(Unsub)' = Handled(Unsub)
        BY <2>2, <3>1, TypesAssumption
      <4> QED BY <2>3, <4>1, <4>2
    <3>2. CASE type = Unsub
      <4>1. ~btSub'
        BY <2>1, <3>2, TypesAssumption
      <4>2. Handled(Sub)' = Handled(Sub) /\ Handled(Unsub)' = Handled(Unsub) \cup {n + 1}
        BY <2>2, <3>2, TypesAssumption
      <4>3. \A i \in Handled(Sub) : ~(n + 1 < i)
        BY <1>4, <2>3
      <4> QED BY <4>1, <4>2, <4>3
    <3>3. CASE type # Sub /\ type # Unsub
      <4>1. btSub' <=> btSub
        BY <2>1, <3>3
      <4>2. Handled(Sub)' = Handled(Sub) /\ Handled(Unsub)' = Handled(Unsub)
        BY <2>2, <3>3
      <4> QED BY <2>4, <4>1, <4>2
    <3> QED BY <3>1, <3>2, <3>3
  <2>6. stateSub' <=> Handled(SubStates)' # {}
    <3>1. CASE type = SubStates
      BY <2>1, <2>2, <3>1
    <3>2. CASE type # SubStates
      <4>1. stateSub' <=> stateSub
        BY <2>1, <3>2
      <4>2. Handled(SubStates)' = Handled(SubStates)
        BY <2>2, <3>2
      <4> QED BY <2>4, <4>1, <4>2
    <3> QED BY <3>1, <3>2
  <2>7. SubscriptionIsItsOwn'
    BY <2>1, <2>5, <2>6 DEF SubscriptionIsItsOwn
  <2>8. btSub' \in BOOLEAN /\ stateSub' \in BOOLEAN /\ cliFd' \in BOOLEAN
    BY <2>1
  <2> QED BY <1>5, <2>1, <2>7, <2>8 DEF SubsInv
<1> QED BY <1>6, <1>7

\* What a step that leaves these alone keeps.
LEMMA SameSubs ==
    ASSUME SubsInv, UNCHANGED <<handled, btSub, stateSub, cliFd>>,
           apiPc' \in {apiPc, "close"} \/ (apiPc \in {"recv", "parse"} /\ apiPc' # "accept")
    PROVE  SubsInv'
<1>1. handled' \in Seq({handled'[i] : i \in DOMAIN handled'})
  BY DEF SubsInv
<1>2. SubscriptionIsItsOwn'
  BY DEF SubsInv, SubscriptionIsItsOwn, Handled
<1> QED BY <1>1, <1>2 DEF SubsInv

LEMMA SubsStep ==
    ASSUME SubsInv, [Next]_vars
    PROVE  SubsInv'
<1>1. CASE Client \/ Recv \/ RecvEnds \/ IdleTimeout \/ ParseDesync \/ ParseMore \/ UNCHANGED vars
  <2>1. UNCHANGED <<handled, btSub, stateSub, cliFd>>
    BY <1>1 DEF Client, Arrive, Leave, Vanish, Send, Recv, RecvEnds, IdleTimeout, ParseDesync,
                ParseMore, vars, subs
  <2>2. apiPc' \in {apiPc, "close"} \/ (apiPc \in {"recv", "parse"} /\ apiPc' # "accept")
    BY <1>1 DEF Client, Arrive, Leave, Vanish, Send, Recv, RecvEnds, IdleTimeout, ParseDesync,
                ParseMore, vars
  <2> QED BY <2>1, <2>2, SameSubs
<1>2. CASE Accept
  <2>1. /\ handled' = <<>> /\ cliFd' = TRUE /\ apiPc' = "recv" /\ ~btSub' /\ ~stateSub'
        /\ btSub' \in BOOLEAN /\ stateSub' \in BOOLEAN
    BY <1>2 DEF Accept, subs, SubsInv, SubscriptionIsItsOwn
  <2>2. \A t : Handled(t)' = {}
    BY <2>1 DEF Handled
  <2>3. handled' \in Seq({handled'[i] : i \in DOMAIN handled'})
    BY <2>1, EmptySeq
  <2> QED BY <2>1, <2>2, <2>3 DEF SubsInv, SubscriptionIsItsOwn
<1>3. CASE CloseClient
  <2>1. /\ handled' = handled /\ cliFd' = FALSE /\ apiPc' = "accept"
        /\ btSub' = FALSE /\ stateSub' = FALSE
    BY <1>3 DEF CloseClient, NoSession
  <2>2. handled' \in Seq({handled'[i] : i \in DOMAIN handled'})
    BY <2>1 DEF SubsInv
  <2> QED BY <2>1, <2>2 DEF SubsInv, SubscriptionIsItsOwn
<1>4. CASE ParseFrame
  BY <1>4, HandleSubs
<1> QED BY <1>1, <1>2, <1>3, <1>4 DEF Next, ApiStep

(* A client is streamed adverts and states when it has asked for them in    *)
(* this session and not taken it back: handleFrame sets and clears _btSub   *)
(* and _stateSub, closeClient and the end of serveClient clear both.        *)
THEOREM SubscriptionsAreOwn == Spec => []SubscriptionIsItsOwn
<1>1. Init => SubsInv
  <2> SUFFICES ASSUME Init PROVE SubsInv
    OBVIOUS
  <2>1. handled = <<>> /\ handled \in Seq({handled[i] : i \in DOMAIN handled})
    BY EmptySeq DEF Init
  <2> QED BY <2>1 DEF Init, SubsInv, SubscriptionIsItsOwn, Handled
<1>2. SubsInv /\ [Next]_vars => SubsInv'
  BY SubsStep
<1>3. SubsInv => SubscriptionIsItsOwn
  BY DEF SubsInv
<1> QED BY <1>1, <1>2, <1>3, PTL DEF Spec
=============================================================================
