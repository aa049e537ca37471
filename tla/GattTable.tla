----------------------------- MODULE GattTable ------------------------------
(***************************************************************************)
(* What is in the discovery tables and what becomes of it                   *)
(* (wbrg1_ble_proxy/esphome_api.cpp: onDiscResult, handleGetServices,       *)
(* handleGattNotify).  A device is a row of attributes, its handles their   *)
(* places; the stack reports its services, then its characteristics, then   *)
(* its descriptors, one by one and in order, into _svc, _chr and _dsc, which *)
(* refuse what is beyond their length; the services sent to the client are  *)
(* put together from the three by comparing handles, each characteristic    *)
(* and each service in a buffer of fixed length; and a request for          *)
(* notifications finds the descriptor to write in the same tables.          *)
(* Who waits for whom, and when, is in module GattOps.                      *)
(*                                                                         *)
(* Left out: UUIDs but for 0x2902, which is kind "cccd".  A buffer's length *)
(* is counted in descriptors, and a characteristic is as long as one.       *)
(*                                                                         *)
(* External: the device; the stack, which in the last phase reports         *)
(* descriptors only, or each attribute (env "all").                         *)
(***************************************************************************)
EXTENDS Naturals, SequencesExt

CONSTANTS MaxSvc, MaxChr, MaxDsc,   \* MAX_SVC, MAX_CHR, MAX_DSC
          ChRoom, SvcRoom,          \* ch[160] and svc[512]
          MaxLen                    \* bound: attributes of a device

ASSUME TableAssumption ==
    {MaxSvc, MaxChr, MaxDsc, ChRoom, SvcRoom, MaxLen} \subseteq Nat \ {0}

Far == MaxLen + 1                   \* 0xFFFF: no such handle

\* Declarations of a characteristic that notifies, and of one that indicates.
Decls == {"ntf", "ind"}
Dscs  == {"cccd", "dsc"}

-----------------------------------------------------------------------------
(* Devices.                                                                 *)

Handles(d, kinds) == {h \in DOMAIN d : d[h] \in kinds}

\* The last attribute of these kinds up to handle h, 0 when there is none.
LastUpTo(d, kinds, h) == Max({0} \cup {k \in Handles(d, kinds) : k <= h})

\* What an attribute may be followed by: a declaration by its value, a value
\* by descriptors, one of them a CCCD.
Follows(d) ==
    IF d = <<>> THEN {"svc"}
    ELSE IF Last(d) \in Decls THEN {"val"}
    ELSE {"svc"} \cup Decls
         \cup (IF Last(d) = "svc" THEN {} ELSE {"dsc"})
         \cup (IF LastUpTo(d, {"svc", "val", "cccd"}, Len(d)) \in Handles(d, {"val"})
               THEN {"cccd"} ELSE {})

Rows[n \in 0 .. MaxLen] ==
    IF n = 0 THEN {<<>>}
    ELSE UNION {{Append(d, k) : k \in Follows(d)} : d \in Rows[n - 1]}

Devices == {d \in UNION {Rows[n] : n \in 1 .. MaxLen} : Last(d) \notin Decls}

\* The attributes a service or a characteristic's value begins a group of.
EndOf(d, h) ==
    Min({Len(d)} \cup {k - 1 : k \in {k \in Handles(d, {"svc"}) : k > h}})

VARIABLES
    dev, all,           \* the device; whether the last phase reports it all
    svc, chr, dsc,      \* _svc, _chr, _dsc: sequences of records
    phase,              \* the discovery's phase; "ready", "partial": none runs,
                        \* and the last one ended, or failed or was never
    next,               \* the handle the stack is at
    report,             \* messages 71 of the last discovery
    notified            \* the last notify request: [handle, cccd, value]

tables == <<svc, chr, dsc>>
tableVars == <<dev, all, tables, phase, next, report, notified>>

Nothing == [handle |-> 0, cccd |-> 0, value |-> 0]

TableInit ==
    /\ dev \in Devices /\ all \in BOOLEAN
    /\ svc = <<>> /\ chr = <<>> /\ dsc = <<>>
    /\ phase = "partial" /\ next = 1
    /\ report = <<>> /\ notified = Nothing

-----------------------------------------------------------------------------
(* Discovery.                                                               *)

\* handleGetServices empties the tables and starts.
GetServices ==
    /\ phase \in {"ready", "partial"}
    /\ svc' = <<>> /\ chr' = <<>> /\ dsc' = <<>>
    /\ phase' = "svc" /\ next' = 1
    /\ report' = <<>> /\ notified' = Nothing
    /\ UNCHANGED <<dev, all>>

Add(table, cap, e) == IF Len(table) < cap THEN Append(table, e) ELSE table

OnResult ==
    /\ phase \in {"svc", "chr", "dsc"} /\ next \in DOMAIN dev
    /\ LET k == dev[next] IN
       /\ svc' = IF phase = "svc" /\ k = "svc"
                 THEN Add(svc, MaxSvc, [start |-> next, end |-> EndOf(dev, next)])
                 ELSE svc
       /\ chr' = IF phase = "chr" /\ k \in Decls
                 THEN Add(chr, MaxChr, [decl |-> next, value |-> next + 1,
                                        notifies |-> k = "ntf"])
                 ELSE chr
       /\ dsc' = IF phase = "dsc" /\ (all \/ k \in Dscs)
                 THEN Add(dsc, MaxDsc, [handle |-> next, cccd |-> k = "cccd"])
                 ELSE dsc
    /\ next' = next + 1
    /\ UNCHANGED <<dev, all, phase, report, notified>>

OnDiscState ==
    /\ next = Len(dev) + 1 /\ phase \in {"svc", "chr", "dsc"}
    /\ phase' = CASE phase = "svc" -> "chr" [] phase = "chr" -> "dsc" [] OTHER -> "done"
    /\ next' = 1
    /\ UNCHANGED <<dev, all, tables, report, notified>>

\* It fails, or takes more than 10 s; what was found is reported all the same.
DiscoveryFails ==
    /\ phase \in {"svc", "chr", "dsc"}
    /\ phase' = "failed"
    /\ UNCHANGED <<dev, all, tables, next, report, notified>>

-----------------------------------------------------------------------------
(* handleGetServices: messages 71.                                          *)

\* Seeded fault: the declaration after it is counted to a characteristic.
BoundInclusive(c, s) ==
    Min({s.end} \cup {b.decl : b \in {b \in ToSet(chr) : b.decl > c.value /\ b.decl <= s.end}})

\* "bounded by the next characteristic declaration in this service (or svc end)"
Bound(c, s) ==
    Min({s.end} \cup {b.decl - 1 : b \in {b \in ToSet(chr) : b.decl > c.value
                                                             /\ b.decl <= s.end}})

\* The numbers of S in increasing order, and the elements of s at them.
Sorted(S) ==
    [i \in 1 .. Cardinality(S) |-> CHOOSE h \in S : Cardinality({k \in S : k < h}) = i - 1]
Picked(s, I) == [i \in 1 .. Cardinality(I) |-> s[Sorted(I)[i]]]

OwnDscs(c, s) ==
    {k \in DOMAIN dsc : dsc[k].handle > c.value /\ dsc[k].handle <= Bound(c, s)}

\* As many descriptors as there is room for.
Descriptors(c, s) ==
    LET found == Picked(dsc, OwnDscs(c, s))
    IN  SubSeq(found, 1, Min({Len(found), ChRoom}))

Message(c, s) ==
    [value |-> c.value, notifies |-> c.notifies, dscs |-> Descriptors(c, s)]

\* Seeded fault: where a service ends is not looked at.
OwnChrsFar(s) == {k \in DOMAIN chr : chr[k].decl > s.start}

OwnChrs(s) == {k \in DOMAIN chr : chr[k].decl > s.start /\ chr[k].decl <= s.end}

\* The first n characteristics with their descriptors.
Size(msgs, n) == n + Cardinality(UNION {{i} \X DOMAIN msgs[i].dscs : i \in 1 .. n})

\* As many characteristics as there is room for.
Characteristics(s) ==
    LET found   == Picked(chr, OwnChrs(s))
        msgs    == [i \in DOMAIN found |-> Message(found[i], s)]
        fitting == Max({n \in 0 .. Len(msgs) : Size(msgs, n) <= SvcRoom})
    IN  SubSeq(msgs, 1, fitting)

Report ==
    /\ phase \in {"done", "failed"}
    /\ report' = [i \in DOMAIN svc |-> [start |-> svc[i].start, chars |-> Characteristics(svc[i])]]
    /\ phase' = IF phase = "done" THEN "ready" ELSE "partial"
    /\ next' = 1
    /\ UNCHANGED <<dev, all, tables, notified>>

-----------------------------------------------------------------------------
(* handleGattNotify.                                                        *)

\* "first 0x2902 descriptor after the value handle, bounded by the next
\* characteristic declaration", of whichever service.
NotifyBound(v) == Min({Far} \cup {c.decl : c \in {c \in ToSet(chr) : c.decl > v}})

\* Seeded fault: any descriptor will do.
CccdForAny(v) == Min({Far} \cup {e.handle : e \in {e \in ToSet(dsc) :
                                     e.handle > v /\ e.handle < NotifyBound(v)}})

CccdFor(v) == Min({Far} \cup {e.handle : e \in {e \in ToSet(dsc) :
                                  e.cccd /\ e.handle > v /\ e.handle < NotifyBound(v)}})

\* Bit 0x10 of the properties, none for a value that is not in the table.
Value(v) == IF \E c \in ToSet(chr) : c.value = v /\ c.notifies THEN 1 ELSE 2

Notify(v) ==
    /\ phase \in {"ready", "partial"}
    /\ notified' = [handle |-> v, cccd |-> CccdFor(v), value |-> Value(v)]
    /\ UNCHANGED <<dev, all, tables, phase, next, report>>

-----------------------------------------------------------------------------
Values == Handles(dev, {"val"})

TableNext ==
    \/ GetServices \/ OnResult \/ OnDiscState \/ DiscoveryFails \/ Report
    \/ \E v \in Values : Notify(v)

TableSpec == TableInit /\ [][TableNext]_tableVars

-----------------------------------------------------------------------------
(* Properties.                                                              *)

TableTypeOK ==
    /\ Len(svc) <= MaxSvc /\ Len(chr) <= MaxChr /\ Len(dsc) <= MaxDsc
    /\ next \in 1 .. Len(dev) + 1
    /\ phase \in {"svc", "chr", "dsc", "done", "failed", "ready", "partial"}
    /\ \A i \in DOMAIN report : \A j \in DOMAIN report[i].chars :
           Len(report[i].chars[j].dscs) <= ChRoom

\* The device as it is: what belongs to which service and characteristic.
TrueDscs(v)   == {h \in Handles(dev, Dscs) : LastUpTo(dev, {"svc", "val"}, h) = v}
TrueValues(s) == {v \in Values : LastUpTo(dev, {"svc"}, v) = s}
TrueCccd(v)   == Min({Far} \cup (TrueDscs(v) \cap Handles(dev, {"cccd"})))
Notifies(v)   == dev[v - 1] = "ntf"

TrueDsc(h) == [handle |-> h, cccd |-> dev[h] = "cccd"]
TrueChr(v) ==
    LET ds == Sorted(TrueDscs(v))
    IN  [value |-> v, notifies |-> Notifies(v), dscs |-> [i \in DOMAIN ds |-> TrueDsc(ds[i])]]
TrueSvc(s) ==
    LET vs == Sorted(TrueValues(s))
    IN  [start |-> s, chars |-> [i \in DOMAIN vs |-> TrueChr(vs[i])]]
TrueReport ==
    LET ss == Sorted(Handles(dev, {"svc"})) IN [i \in DOMAIN ss |-> TrueSvc(ss[i])]

\* The tables, and the buffers, are long enough for the device.
ChrFit == Cardinality(Values) <= MaxChr
DscFit == Cardinality(IF all THEN DOMAIN dev ELSE Handles(dev, Dscs)) <= MaxDsc
RoomFit ==
    /\ \A v \in Values : Cardinality(TrueDscs(v)) <= ChRoom
    /\ \A s \in Handles(dev, {"svc"}) :
           Cardinality(TrueValues(s)) + Cardinality(UNION {TrueDscs(v) : v \in TrueValues(s)})
               <= SvcRoom
Fits == ChrFit /\ DscFit /\ RoomFit /\ Cardinality(Handles(dev, {"svc"})) <= MaxSvc

(* "Per connection: a table of services -> characteristics -> descriptors"  *)
(* (CONNECTABLE_DESIGN.md:49): the client is sent the device as it is, in   *)
(* order and complete, when it fits the tables and the buffers.             *)
ReportIsTheDevice == phase = "ready" /\ Fits => report = TrueReport

\* The last characteristic of a table that was full before the last one.
AtCut(v) == ~ChrFit /\ Len(chr) = MaxChr /\ v = chr[MaxChr].value

(* What is cut off by a table, a buffer or a discovery that failed is left  *)
(* out, and never moves what is left: a characteristic is reported in its   *)
(* own service and a descriptor under its own characteristic.  The one that *)
(* gets more than its own is the last of a _chr that was too short, which   *)
(* has no next declaration.                                                 *)
ReportedIsReal ==
    \A i \in DOMAIN report : \A j \in DOMAIN report[i].chars :
        LET c == report[i].chars[j] IN
        /\ c.value \in TrueValues(report[i].start) /\ c.notifies = Notifies(c.value)
        /\ ~AtCut(c.value) => \A k \in DOMAIN c.dscs : c.dscs[k].handle \in TrueDscs(c.value)

(* "The char's CCCD: first 0x2902 descriptor after the value handle,        *)
(* bounded by the next characteristic declaration" (esphome_api.cpp:767):   *)
(* notifications are turned on with the characteristic's own CCCD and by    *)
(* its own property, or refused when the CCCD was not found, although the   *)
(* services bound a descriptor in the report and not here.  A value that is *)
(* last in, or not in, a _chr that was too short may get another's; but     *)
(* what was reported to the client as its CCCD is always the one written.   *)
NotifyIsOwn ==
    notified # Nothing =>
        LET v == notified.handle IN
        /\ (\E c \in ToSet(chr) : c.value = v) /\ ~AtCut(v) =>
               /\ notified.cccd \in {TrueCccd(v), Far}
               /\ phase = "ready" /\ DscFit => notified.cccd = TrueCccd(v)
               /\ notified.value = (IF Notifies(v) THEN 1 ELSE 2)
        /\ \A i \in DOMAIN report : \A j \in DOMAIN report[i].chars :
               LET c == report[i].chars[j]
                   seen == {c.dscs[k].handle : k \in {k \in DOMAIN c.dscs : c.dscs[k].cccd}}
               IN  c.value = v /\ seen # {} => notified.cccd = Min(seen)
=============================================================================
