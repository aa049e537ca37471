-------------------------- MODULE Supervisor_proofs --------------------------
(***************************************************************************)
(* The boot counter and the recovery ladder, for any bound on the quiet     *)
(* passes and whatever goes wrong.                                          *)
(***************************************************************************)
EXTENDS Supervisor, TLAPS

(* The type invariant in parts, for the provers: the flags by what they are  *)
(* for, and the other values.                                               *)
StoreFlags == rec \in BOOLEAN /\ wdtOn \in BOOLEAN

BootFlags ==
    /\ safeMode \in BOOLEAN /\ bleUp \in BOOLEAN /\ announced \in BOOLEAN
    /\ byHand \in BOOLEAN /\ laddered \in BOOLEAN

AdvertFlags ==
    fresh \in BOOLEAN /\ moved \in BOOLEAN /\ heard \in BOOLEAN /\ queued \in BOOLEAN

RadioFlags == scanning \in BOOLEAN /\ pending \in BOOLEAN /\ linked \in BOOLEAN

FlagsOK == StoreFlags /\ BootFlags /\ AdvertFlags /\ RadioFlags

ValuesOK ==
    /\ bootReg \in 0 .. 2 /\ failures \in 0 .. 2 /\ quiet \in 0 .. MaxQuiet
    /\ sfx \in {"none", "begun", "rung1", "rung2", "failed"}
    /\ pc \in {"setup", "bleInit", "top", "watch", "drain", "ops", "ota", "pull",
               "ladder", "restart1", "wait1", "restart2", "wait2", "hung", "reset"}
    /\ host \in {"ok", "stalled"}

LEMMA TypeParts == TypeOK <=> env \in Envs /\ FlagsOK /\ ValuesOK
BY DEF TypeOK, FlagsOK, StoreFlags, BootFlags, AdvertFlags, RadioFlags, ValuesOK

(* What may go wrong in a behaviour is settled when it begins.              *)
LEMMA EnvKept == [Next]_vars => env' = env
<1>1. Setup \/ Diag => env' = env
  BY DEF Setup, StartSafe, Start, BleUp, BleInitHangs, Diag, DiagScan,
     DiagConnect, DiagHang, DiagBlocks, DiagReboot, DiagScanfix
<1>2. Pass => env' = env
  BY DEF Pass, Announce, NoDiag, Watch, WatchStarved, Drain, NoOp, OpConnects,
     OpScans, OpBlocks, NoPull, Pull, PullFails, PullDone, PullHangs
<1>3. Ladder => env' = env
  BY DEF Ladder, LadderBegin, LadderBlocks, Restart, Judge
<1>4. Reset \/ PowerLoss \/ HostTask \/ UNCHANGED vars => env' = env
  BY DEF Reset, PowerLoss, HostTask, Advert, LinkLost, HostStalls, vars
<1> QED BY <1>1, <1>2, <1>3, <1>4 DEF Next

(* One step keeps the flags Boolean: per group, the actions that touch it    *)
(* and the others.                                                          *)
LEMMA StoreStep ==
    ASSUME StoreFlags, [Next]_vars
    PROVE  StoreFlags'
<1> USE DEF StoreFlags, retained
<1>1. ASSUME rec' \in {rec, TRUE, FALSE}, wdtOn' \in {wdtOn, TRUE, FALSE}
      PROVE  StoreFlags'
  <2>1. rec' \in BOOLEAN BY <1>1, Zenon
  <2>2. wdtOn' \in BOOLEAN BY <1>1, Zenon
  <2> QED BY <2>1, <2>2
<1>2. Setup => rec' = rec /\ wdtOn' \in {wdtOn, TRUE}
  BY DEF Setup, StartSafe, Start, BleUp, BleInitHangs
<1>3. Diag => rec' \in {rec, TRUE} /\ wdtOn' = wdtOn
  BY DEF Diag, DiagScan, DiagConnect, DiagHang, DiagBlocks, DiagReboot, DiagScanfix
<1>4. Pass => rec' \in {rec, FALSE} /\ wdtOn' \in {wdtOn, TRUE, FALSE}
  BY DEF Pass, Announce, NoDiag, Watch, WatchStarved, Drain, NoOp, OpConnects,
     OpScans, OpBlocks, NoPull, Pull, PullFails, PullDone, PullHangs
<1>5. Ladder => rec' = rec /\ wdtOn' = wdtOn
  BY DEF Ladder, LadderBegin, LadderBlocks, Restart, Judge
<1>6. Reset \/ PowerLoss => rec' \in {rec, FALSE} /\ wdtOn' = FALSE
  BY DEF Reset, PowerLoss, RamLost
<1>7. HostTask \/ UNCHANGED vars => rec' = rec /\ wdtOn' = wdtOn
  BY DEF HostTask, Advert, LinkLost, HostStalls, vars
<1> QED BY <1>1, <1>2, <1>3, <1>4, <1>5, <1>6, <1>7, Zenon DEF Next

LEMMA BootFlagsStep ==
    ASSUME BootFlags, [Next]_vars
    PROVE  BootFlags'
<1> USE DEF BootFlags
<1>1. ASSUME UNCHANGED flags PROVE BootFlags'
  BY <1>1, Zenon DEF flags
<1>2. CASE Setup
  <2>1. CASE StartSafe
    BY <2>1, Zenon DEF StartSafe
  <2>2. CASE BleUp
    BY <2>2, Zenon DEF BleUp
  <2>3. CASE Start \/ BleInitHangs
    BY <1>1, <2>3, Zenon DEF Start, BleInitHangs
  <2> QED BY <1>2, <2>1, <2>2, <2>3 DEF Setup
<1>3. CASE Announce
  BY <1>3, Zenon DEF Announce
<1>4. CASE DiagScanfix
  BY <1>4, Zenon DEF DiagScanfix
<1>5. CASE WatchStarved
  BY <1>5, Zenon DEF WatchStarved
<1>6. CASE LadderBegin
  BY <1>6, Zenon DEF LadderBegin
<1>7. CASE LadderBlocks
  <2>1. /\ UNCHANGED <<safeMode, bleUp, announced, byHand>>
        /\ laddered' \in {laddered, TRUE}
    BY <1>7 DEF LadderBlocks
  <2> QED BY <2>1, Zenon
<1>8. CASE Reset \/ PowerLoss
  <2>1. RamLost
    BY <1>8 DEF Reset, PowerLoss
  <2> QED BY <2>1, Zenon DEF RamLost
<1>9. CASE DiagConnect \/ DiagHang \/ DiagBlocks \/ DiagReboot
  BY <1>1, <1>9, Zenon DEF DiagConnect, DiagHang, DiagBlocks, DiagReboot
<1>10. ASSUME NEW on \in BOOLEAN, DiagScan(on) PROVE BootFlags'
  BY <1>1, <1>10, Zenon DEF DiagScan
<1>11. CASE NoDiag \/ Watch \/ Drain \/ NoOp \/ OpConnects \/ OpScans \/ OpBlocks
  <2>1. UNCHANGED flags
    BY <1>11 DEF NoDiag, Watch, Drain, NoOp, OpConnects, OpScans, OpBlocks
  <2> QED BY <1>1, <2>1
<1>12. CASE NoPull \/ Pull \/ PullFails \/ PullDone \/ PullHangs \/ Restart \/ Judge
  <2>1. UNCHANGED flags
    BY <1>12 DEF NoPull, Pull, PullFails, PullDone, PullHangs, Restart, Judge
  <2> QED BY <1>1, <2>1
<1>13. CASE HostTask \/ UNCHANGED vars
  <2>1. UNCHANGED flags
    BY <1>13 DEF HostTask, Advert, LinkLost, HostStalls, vars
  <2> QED BY <1>1, <2>1
<1> QED
  BY <1>2, <1>3, <1>4, <1>5, <1>6, <1>7, <1>8, <1>9, <1>10, <1>11, <1>12, <1>13
  DEF Next, Diag, Pass, Ladder

LEMMA AdvertFlagsStep ==
    ASSUME AdvertFlags, [Next]_vars
    PROVE  AdvertFlags'
<1> USE DEF AdvertFlags
<1>1. ASSUME UNCHANGED counters PROVE AdvertFlags'
  BY <1>1, Zenon DEF counters
<1>2. CASE Watch \/ Judge
  <2>1. fresh' \in {fresh, FALSE} /\ UNCHANGED <<moved, heard, queued>>
    BY <1>2 DEF Watch, Judge
  <2> QED BY <2>1, Zenon
<1>3. CASE Drain
  BY <1>3, Zenon DEF Drain
<1>4. CASE Restart
  BY <1>4, Zenon DEF Restart
<1>5. CASE Reset \/ PowerLoss
  <2>1. RamLost
    BY <1>5 DEF Reset, PowerLoss
  <2> QED BY <2>1, Zenon DEF RamLost
<1>6. CASE Advert
  BY <1>6, Zenon DEF Advert
<1>7. CASE Setup \/ Diag
  <2>1. UNCHANGED counters
    BY <1>7 DEF Setup, StartSafe, Start, BleUp, BleInitHangs, Diag, DiagScan,
       DiagConnect, DiagHang, DiagBlocks, DiagReboot, DiagScanfix
  <2> QED BY <1>1, <2>1
<1>8. CASE Announce \/ NoDiag \/ WatchStarved \/ NoOp \/ OpConnects \/ OpScans \/ OpBlocks
  <2>1. UNCHANGED counters
    BY <1>8 DEF Announce, NoDiag, WatchStarved, NoOp, OpConnects, OpScans, OpBlocks
  <2> QED BY <1>1, <2>1
<1>9. CASE NoPull \/ Pull \/ PullFails \/ PullDone \/ PullHangs
  <2>1. UNCHANGED counters
    BY <1>9 DEF NoPull, Pull, PullFails, PullDone, PullHangs
  <2> QED BY <1>1, <2>1
<1>10. CASE LadderBegin \/ LadderBlocks \/ LinkLost \/ HostStalls \/ UNCHANGED vars
  <2>1. UNCHANGED counters
    BY <1>10 DEF LadderBegin, LadderBlocks, LinkLost, HostStalls, vars
  <2> QED BY <1>1, <2>1
<1> QED
  BY <1>2, <1>3, <1>4, <1>5, <1>6, <1>7, <1>8, <1>9, <1>10
  DEF Next, Pass, Ladder, HostTask

LEMMA RadioFlagsStep ==
    ASSUME RadioFlags, [Next]_vars
    PROVE  RadioFlags'
<1> USE DEF RadioFlags
<1>1. ASSUME UNCHANGED radio PROVE RadioFlags'
  BY <1>1, Zenon DEF radio
<1>2. CASE BleUp
  BY <1>2, Zenon DEF BleUp
<1>3. ASSUME NEW on \in BOOLEAN, DiagScan(on) PROVE RadioFlags'
  BY <1>3, Zenon DEF DiagScan
<1>4. CASE DiagConnect \/ OpConnects \/ OpScans
  <2>1. /\ scanning' \in {scanning, TRUE, FALSE}
        /\ pending' \in {FALSE, pending, linked}
        /\ linked' \in {linked, TRUE, FALSE}
    <3>1. CASE DiagConnect
      BY <3>1, Zenon DEF DiagConnect
    <3>2. CASE OpConnects
      BY <3>2, Zenon DEF OpConnects
    <3>3. CASE OpScans
      BY <3>3, Zenon DEF OpScans
    <3> QED BY <1>4, <3>1, <3>2, <3>3
  <2> QED BY <2>1, Zenon
<1>5. CASE LadderBegin \/ Restart
  BY <1>5, Zenon DEF LadderBegin, Restart
<1>6. CASE Reset \/ PowerLoss
  <2>1. RamLost
    BY <1>6 DEF Reset, PowerLoss
  <2> QED BY <2>1, Zenon DEF RamLost
<1>7. CASE LinkLost
  BY <1>7, Zenon DEF LinkLost
<1>8. CASE HostStalls
  BY <1>8, Zenon DEF HostStalls
<1>9. CASE StartSafe \/ Start \/ BleInitHangs \/ DiagHang \/ DiagBlocks \/ DiagReboot
  <2>1. UNCHANGED radio
    BY <1>9 DEF StartSafe, Start, BleInitHangs, DiagHang, DiagBlocks, DiagReboot
  <2> QED BY <1>1, <2>1
<1>10. CASE DiagScanfix \/ Announce \/ NoDiag \/ Watch \/ WatchStarved \/ Drain
  <2>1. UNCHANGED radio
    BY <1>10 DEF DiagScanfix, Announce, NoDiag, Watch, WatchStarved, Drain
  <2> QED BY <1>1, <2>1
<1>11. CASE NoOp \/ OpBlocks \/ NoPull \/ Pull \/ PullFails \/ PullDone \/ PullHangs
  <2>1. UNCHANGED radio
    BY <1>11 DEF NoOp, OpBlocks, NoPull, Pull, PullFails, PullDone, PullHangs
  <2> QED BY <1>1, <2>1
<1>12. CASE LadderBlocks \/ Judge \/ Advert \/ UNCHANGED vars
  <2>1. UNCHANGED radio
    BY <1>12 DEF LadderBlocks, Judge, Advert, vars
  <2> QED BY <1>1, <2>1
<1> QED
  BY <1>2, <1>3, <1>4, <1>5, <1>6, <1>7, <1>8, <1>9, <1>10, <1>11, <1>12
  DEF Next, Setup, Diag, Pass, Ladder, HostTask

LEMMA FlagsStep == FlagsOK /\ [Next]_vars => FlagsOK'
BY StoreStep, BootFlagsStep, AdvertFlagsStep, RadioFlagsStep DEF FlagsOK

(* One step keeps the other types; the counters stay in range because of   *)
(* what they count.                                                         *)
LEMMA ValuesStep ==
    ASSUME ValuesOK, BootInv, [Next]_vars
    PROVE  ValuesOK'
<1> USE MaxQuietAssumption DEF ValuesOK
<1>1. CASE Setup
  BY <1>1 DEF Setup, StartSafe, Start, BleUp, BleInitHangs, retained, flags,
       counters, radio
<1>2. CASE Diag
  BY <1>2 DEF Diag, DiagScan, DiagConnect, DiagHang, DiagBlocks, GapHangs, DiagReboot,
       DiagScanfix, retained, flags, counters, radio
<1>3. CASE Announce \/ NoDiag \/ Watch \/ WatchStarved \/ Drain
  BY <1>3 DEF Announce, NoDiag, Watch, WatchStarved, Drain, retained, flags, counters,
       radio
<1>4. CASE NoOp \/ OpConnects \/ OpScans \/ OpBlocks
  BY <1>4 DEF NoOp, OpConnects, OpScans, OpBlocks, GapHangs, retained, flags, counters,
       radio
<1>5. CASE NoPull \/ Pull \/ PullFails \/ PullDone \/ PullHangs
  BY <1>5 DEF NoPull, Pull, PullFails, PullDone, PullHangs, retained, flags, counters,
       radio
<1>6. CASE Ladder
  <2>1. CASE LadderBegin \/ LadderBlocks \/ Restart
    BY <2>1 DEF LadderBegin, LadderBlocks, GapHangs, Restart, retained, counters,
       radio
  <2>2. CASE Judge
    <3>1. /\ UNCHANGED <<bootReg, failures, host>>
          /\ sfx' \in {sfx, "rung1", "rung2", "failed"}
          /\ pc' \in {"watch", "drain", "restart2", "reset"}
      BY <2>2 DEF Judge, radio
    <3>2. quiet' \in {quiet, 0}
      BY <2>2 DEF Judge
    <3> QED BY <3>1, <3>2
  <2> QED BY <1>6, <2>1, <2>2 DEF Ladder
<1>7. CASE Reset
  BY <1>7 DEF Reset, RamLost, retained, BootInv
<1>8. CASE PowerLoss
  BY <1>8 DEF PowerLoss, RamLost
<1>9. CASE HostTask
  BY <1>9 DEF HostTask, Advert, LinkLost, HostStalls, retained, flags, counters, radio
<1>10. CASE UNCHANGED vars
  BY <1>10 DEF vars, retained, flags, counters, radio
<1> QED
  BY <1>1, <1>2, <1>3, <1>4, <1>5, <1>6, <1>7, <1>8, <1>9, <1>10 DEF Next, Pass

LEMMA TypeStep ==
    ASSUME TypeOK, BootInv, [Next]_vars
    PROVE  TypeOK'
<1>1. env' \in Envs /\ FlagsOK' /\ ValuesOK'
  BY TypeParts, EnvKept, FlagsStep, ValuesStep DEF TypeOK
<1> QED BY <1>1 DEF TypeOK, FlagsOK, StoreFlags, BootFlags, AdvertFlags, RadioFlags,
                   ValuesOK

(* One step keeps the register equal to what it counts.                     *)
LEMMA BootStep ==
    ASSUME TypeOK, BootInv, [Next]_vars
    PROVE  BootInv'
<1> USE DEF BootInv
<1>1. ASSUME UNCHANGED <<bootReg, failures, safeMode, bleUp>>,
             pc \notin {"setup", "bleInit"}, pc' \notin {"setup", "bleInit"},
             pc = "hung" => pc' = "hung"
      PROVE  BootInv'
  BY <1>1
<1>2. CASE Setup
  BY <1>2 DEF Setup, StartSafe, Start, BleUp, BleInitHangs, retained, flags, TypeOK
<1>3. CASE Diag
  BY <1>1, <1>3 DEF Diag, DiagScan, DiagConnect, DiagHang, DiagBlocks, GapHangs,
     DiagReboot, DiagScanfix, retained, flags
<1>4. CASE Pass
  BY <1>1, <1>4 DEF Pass, Announce, NoDiag, Watch, WatchStarved, Drain, NoOp,
     OpConnects, OpScans, OpBlocks, GapHangs, NoPull, Pull, PullFails, PullDone,
     PullHangs, retained, flags
<1>5. CASE LadderBegin \/ LadderBlocks \/ Restart
  BY <1>1, <1>5 DEF LadderBegin, LadderBlocks, GapHangs, Restart, retained, flags
<1>6. CASE Judge
  <2>1. /\ UNCHANGED <<bootReg, failures, safeMode, bleUp>>
        /\ pc \in {"wait1", "wait2"}
        /\ pc' \in {"restart2", "watch", "drain", "reset"}
    BY <1>6 DEF Judge, flags
  <2> QED BY <1>1, <2>1
<1>7. CASE Reset
  BY <1>7 DEF Reset, RamLost, retained, TypeOK
<1>8. CASE PowerLoss
  BY <1>8 DEF PowerLoss, RamLost
<1>9. ASSUME UNCHANGED <<bootReg, failures, safeMode, bleUp, pc>> PROVE BootInv'
  BY <1>9
<1>10. CASE HostTask \/ UNCHANGED vars
  BY <1>9, <1>10 DEF HostTask, Advert, LinkLost, HostStalls, vars, retained, flags
<1> QED
  BY <1>2, <1>3, <1>4, <1>5, <1>6, <1>7, <1>8, <1>10 DEF Next, Ladder

(* Type correctness and the meaning of the boot counter.                    *)
THEOREM BootCounter == Spec => [](TypeOK /\ BootInv)
<1>1. ASSUME Init PROVE TypeOK /\ BootInv
  <2>1. env \in Envs /\ FlagsOK
    BY <1>1 DEF Init, FlagsOK, StoreFlags, BootFlags, AdvertFlags, RadioFlags
  <2>2. ValuesOK
    BY <1>1, MaxQuietAssumption DEF Init, ValuesOK
  <2>3. BootInv
    BY <1>1, SMT DEF Init, BootInv
  <2> QED BY <2>1, <2>2, <2>3, TypeParts
<1>2. TypeOK /\ BootInv /\ [Next]_vars => TypeOK' /\ BootInv'
  BY TypeStep, BootStep
<1> QED BY <1>1, <1>2, PTL DEF Spec

(* Type correctness.                                                        *)
THEOREM TypeCorrect == Spec => []TypeOK
BY BootCounter, PTL

(* BLE is skipped exactly after two failures of BT init in a row.           *)
THEOREM SafeModeIsEarned == Spec => SafeAfterTwoFailures
<1> DEFINE Act == pc = "setup" /\ pc' # "setup" => (safeMode' <=> failures = 2)
<1>1. TypeOK /\ BootInv /\ [Next]_vars => Act
  <2> SUFFICES ASSUME TypeOK, BootInv, Next, pc = "setup", pc' # "setup"
               PROVE  safeMode' <=> failures = 2
    BY DEF vars
  <2>1. StartSafe \/ Start
    BY DEF Next, Setup, BleUp, BleInitHangs, Diag, DiagScan, DiagConnect, DiagHang,
       DiagBlocks, DiagReboot, DiagScanfix, Pass, Announce, NoDiag, Watch,
       WatchStarved, Drain, NoOp, OpConnects, OpScans, OpBlocks, NoPull, Pull,
       PullFails, PullDone, PullHangs, Ladder, LadderBegin, LadderBlocks, Restart,
       Judge, Reset, PowerLoss, RamLost, HostTask, Advert, LinkLost, HostStalls
  <2> QED BY <2>1 DEF StartSafe, Start, BootInv, TypeOK, flags
<1> HIDE DEF Act
<1>2. Spec => [][Act]_vars
  BY <1>1, BootCounter, PTL DEF Spec
<1> QED BY <1>2 DEF Act, SafeAfterTwoFailures

-----------------------------------------------------------------------------
(* Whatever the scanner does, the ladder never says that a rung revived it. *)
THEOREM LadderAlwaysFails == Spec => []NoRungReported
<1>1. Init => LadderInv
  BY DEF Init, LadderInv, NoRungReported
<1>2. LadderInv /\ [Next]_vars => LadderInv'
  <2> SUFFICES ASSUME LadderInv, [Next]_vars PROVE LadderInv'
    OBVIOUS
  <2> USE DEF LadderInv, NoRungReported
  <2>1. ASSUME sfx' \in {sfx, "none", "begun", "failed"},
               pc' \notin {"wait1", "wait2"}
        PROVE  LadderInv'
    BY <2>1
  <2>2. CASE Setup \/ Diag
    BY <2>1, <2>2 DEF Setup, StartSafe, Start, BleUp, BleInitHangs, Diag, DiagScan,
       DiagConnect, DiagHang, DiagBlocks, GapHangs, DiagReboot, DiagScanfix, retained
  <2>3. CASE Pass
    BY <2>1, <2>3 DEF Pass, Announce, NoDiag, Watch, WatchStarved, Drain, NoOp,
       OpConnects, OpScans, OpBlocks, GapHangs, NoPull, Pull, PullFails, PullDone,
       PullHangs, retained
  <2>4. CASE LadderBegin \/ LadderBlocks
    BY <2>1, <2>4 DEF LadderBegin, LadderBlocks, GapHangs
  <2>5. CASE Restart
    BY <2>5 DEF Restart, retained
  <2>6. CASE Judge
    BY <2>1, <2>6 DEF Judge, Moved
  <2>7. CASE Reset \/ PowerLoss
    BY <2>1, <2>7 DEF Reset, PowerLoss, RamLost, retained
  <2>8. CASE HostTask \/ UNCHANGED vars
    BY <2>8 DEF HostTask, Advert, LinkLost, HostStalls, vars, retained, counters
  <2> QED
    BY <2>2, <2>3, <2>4, <2>5, <2>6, <2>7, <2>8 DEF Next, Ladder
<1>3. LadderInv => NoRungReported
  BY DEF LadderInv
<1> QED BY <1>1, <1>2, <1>3, PTL DEF Spec
=============================================================================
