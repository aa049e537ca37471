------------------------------- MODULE Codec --------------------------------
(***************************************************************************)
(* Protobuf payloads (wbrg1_ble_proxy/esphome_api.cpp: pbField,             *)
(* pbFieldBytes, pbUint, pbBytes, pbFixed32): fields one after the other,   *)
(* each a tag, field * WireMod + wire type, and a value.  The reader looks  *)
(* for one field and steps over the others; the writer puts the tag in one  *)
(* byte.                                                                    *)
(*                                                                         *)
(* In the code WireMod is 8 and the wire types are 0 (a varint), 2 (bytes), *)
(* 5 and 1 (4 and 8 bytes).  Of the last two there is one here, Fixed, of   *)
(* FixedLen bytes.  A number of the code is at most 64 bits, and the sum of *)
(* an index and a length does not wrap: a client's lengths are those of     *)
(* what it sends.                                                           *)
(***************************************************************************)
EXTENDS Varint, FiniteSetsExt

CONSTANTS WireMod, FixedLen

VarintWire == 0
FixedWire  == 1
BytesWire  == 2

ASSUME CodecAssumption == WireMod \in Nat /\ WireMod > BytesWire /\ FixedLen \in Nat

-----------------------------------------------------------------------------
(* A field is a record [field, wire, value]; a message a sequence of them.  *)

Body(f) == CASE f.wire = VarintWire -> PutVarint(f.value)
             [] f.wire = BytesWire  -> PutVarint(Len(f.value)) \o f.value
             [] OTHER               -> f.value

\* As protobuf has it, and the client does: the tag is a varint.
EncodeField(f) == PutVarint((f.field * WireMod) + f.wire) \o Body(f)

\* pbUint, pbString and pbBytes, pbFixed32: "(uint8_t)((field << 3) | wt)".
PutField(f) == <<((f.field * WireMod) + f.wire) % (2 * Base)>> \o Body(f)

\* What may stand in a message: a tag and a value the code can hold.  (It keeps
\* 32 bits of a field's number; protobuf has no longer ones.)
IsField(f) ==
    /\ f.field \in Nat /\ f.wire \in {VarintWire, BytesWire, FixedWire}
    /\ IsNumber((f.field * WireMod) + f.wire)
    /\ IF f.wire = VarintWire THEN IsNumber(f.value)
       ELSE /\ f.value \in Seq(Byte)
            /\ IF f.wire = BytesWire THEN IsNumber(Len(f.value)) ELSE Len(f.value) = FixedLen

IsMessage(m) == m \in Seq({m[i] : i \in DOMAIN m}) /\ \A i \in DOMAIN m : IsField(m[i])

EncodeMessage(m) == FlattenSeq([i \in DOMAIN m |-> EncodeField(m[i])])
PutMessage(m)    == FlattenSeq([i \in DOMAIN m |-> PutField(m[i])])

-----------------------------------------------------------------------------
(* The reader.                                                              *)

Tag(buf, i)     == GetVarint(buf, i)
FieldOf(buf, i) == Tag(buf, i) \div WireMod
WireOf(buf, i)  == Tag(buf, i) % WireMod
ValueAt(buf, i) == After(buf, i)

\* A tag with a value behind it, for a varint and for the length of bytes.
Readable(buf, i) ==
    /\ i <= Len(buf) /\ HasVarint(buf, i)
    /\ WireOf(buf, i) \in {VarintWire, BytesWire} => HasVarint(buf, ValueAt(buf, i))
    /\ WireOf(buf, i) \in {VarintWire, BytesWire, FixedWire}

\* Seeded fault: a field of fixed length is not stepped over.
SkipNotFixed(buf, i) ==
    LET v == ValueAt(buf, i) IN
    CASE WireOf(buf, i) = VarintWire -> After(buf, v)
      [] WireOf(buf, i) = BytesWire  -> After(buf, v) + GetVarint(buf, v)
      [] OTHER                       -> v

\* The index behind the field at i.
Skip(buf, i) ==
    LET v == ValueAt(buf, i) IN
    CASE WireOf(buf, i) = VarintWire -> After(buf, v)
      [] WireOf(buf, i) = BytesWire  -> After(buf, v) + GetVarint(buf, v)
      [] OTHER                       -> v + FixedLen

\* The indices the reader comes to: from 1 on, as far as it can read.
Starts(buf) ==
    LET Start[n \in 0 .. Len(buf)] ==
            IF n = 0 THEN 1
            ELSE LET i == Start[n - 1]
                 IN  IF i # 0 /\ Readable(buf, i) THEN Skip(buf, i) ELSE 0
    IN  {i \in {Start[n] : n \in 0 .. Len(buf)} : i # 0 /\ Readable(buf, i)}

\* The first field of this number and wire type.
Found(buf, field, wire) ==
    {i \in Starts(buf) : FieldOf(buf, i) = field /\ WireOf(buf, i) = wire}

\* pbField: 0, the caller's default, when there is none.
PbField(buf, field) ==
    LET found == Found(buf, field, VarintWire)
    IN  IF found = {} THEN 0 ELSE GetVarint(buf, ValueAt(buf, Min(found)))

\* pbFieldBytes: nothing when the length goes beyond the payload.
PbFieldBytes(buf, field) ==
    LET found == {i \in Found(buf, field, BytesWire) : Skip(buf, i) <= Len(buf) + 1}
    IN  IF found = {} THEN <<>>
        ELSE LET i == Min(found)
             IN  SubSeq(buf, After(buf, ValueAt(buf, i)), Skip(buf, i) - 1)
=============================================================================
