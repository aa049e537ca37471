------------------------------ MODULE Supervisor -----------------------------
(***************************************************************************)
(* What keeps the board alive (wbrg1_ble_proxy/wbrg1_ble_proxy.ino): setup() *)
(* and its boot counter, the passes of loop(), the scan watchdog and its    *)
(* recovery ladder, the hardware watchdog, and what outlives a reset: the   *)
(* counter in a backup register and three records in retained SRAM.         *)
(*                                                                          *)
(* External: the BT host task, which hands adverts to scanCallback and may  *)
(* stall; a GAP call made while it is stalled never returns (HANDOFF.md:10).*)
(* A pass that blocks for ever is at "hung", where the hardware watchdog,   *)
(* if it runs, resets the board.                                            *)
(*                                                                          *)
(* In each behaviour, env is the set of what may go wrong in it:            *)
(*   "initHang"    BLE.init() and what follows it in setup() may hang;      *)
(*   "powerLoss"   the board loses power;                                   *)
(*   "stallLinked" the host task stalls while a link is up, and not only    *)
(*                 while there is none;                                     *)
(*   "pullHang"    http_update_ota() may never return.                      *)
(***************************************************************************)
EXTENDS Naturals

CONSTANTS MaxQuiet,     \* passes without an advert that stand for 120 s
          Envs          \* the sets of events considered, see above

Events == {"initHang", "powerLoss", "stallLinked", "pullHang"}

ASSUME MaxQuietAssumption == MaxQuiet \in Nat
ASSUME EnvsAssumption == Envs \subseteq SUBSET Events

VARIABLES
    env,            \* what may go wrong in this behaviour
    bootReg,        \* BKUP register 5, the count under BOOT_MAGIC
    sfx,            \* SFX_BASE: the verdict of the last ladder
    rec,            \* REC_BASE holds REC_MAGIC
    pc,             \* where setup() or loop() is
    wdtOn,          \* the hardware watchdog runs
    safeMode, bleUp, announced,
    byHand,         \* the ladder was started by `scanfix`
    laddered,       \* history: a ladder ran since the board started
    fresh,          \* seenTotal # scanWdLastSeen
    moved,          \* seenTotal # s0, of advertsMoving()
    heard,          \* history: an advert came in since s0 was read
    quiet,          \* passes since scanWdLastChange, up to MaxQuiet
    queued,         \* the ring `queue` holds adverts
    scanning,       \* the observer is on
    pending,        \* a create-connection that blocks it
    host,           \* the BT host task: "ok" or "stalled"
    linked,         \* BLE.connected(i) for some i
    failures        \* history: starts in a row that ended in BT init

retained == <<bootReg, sfx, rec>>
flags    == <<safeMode, bleUp, announced, byHand, laddered>>
counters == <<fresh, moved, heard, quiet, queued>>
radio    == <<scanning, pending, host, linked>>
vars == <<env, retained, pc, wdtOn, flags, counters, radio, failures>>

Hearing == scanning /\ ~pending /\ host = "ok"

Init ==
    /\ env \in Envs
    /\ bootReg = 0 /\ sfx = "none" /\ rec = FALSE
    /\ pc = "setup" /\ wdtOn = FALSE
    /\ safeMode = FALSE /\ bleUp = FALSE /\ announced = FALSE
    /\ byHand = FALSE /\ laddered = FALSE
    /\ fresh = FALSE /\ moved = FALSE /\ heard = FALSE /\ quiet = 0 /\ queued = FALSE
    /\ scanning = FALSE /\ pending = FALSE /\ host = "ok" /\ linked = FALSE
    /\ failures = 0

-----------------------------------------------------------------------------
(* setup()                                                                  *)

\* Two failures in a row: no BLE this time, and the next start tries again.
StartSafe ==
    /\ pc = "setup" /\ bootReg >= 2
    /\ wdtOn' = TRUE
    /\ safeMode' = TRUE
    /\ bootReg' = 0
    /\ failures' = 0
    /\ pc' = "top"
    /\ UNCHANGED <<env, sfx, rec, bleUp, announced, byHand, laddered, counters,
                   radio>>

\* Seeded fault: BT is tried whatever the counter says.
StartAlways ==
    /\ pc = "setup"
    /\ wdtOn' = TRUE
    /\ bootReg' = bootReg + 1
    /\ pc' = "bleInit"
    /\ UNCHANGED <<env, sfx, rec, flags, counters, radio, failures>>

\* Seeded fault: the watchdog is not started before BT init.
StartUnwatched ==
    /\ pc = "setup" /\ bootReg < 2
    /\ bootReg' = bootReg + 1
    /\ pc' = "bleInit"
    /\ UNCHANGED <<env, sfx, rec, wdtOn, flags, counters, radio, failures>>

Start ==
    /\ pc = "setup" /\ bootReg < 2
    /\ wdtOn' = TRUE
    /\ bootReg' = bootReg + 1
    /\ pc' = "bleInit"
    /\ UNCHANGED <<env, sfx, rec, flags, counters, radio, failures>>

\* Seeded fault: the counter is not cleared when BT is up.
BleUpUncleared ==
    /\ pc = "bleInit"
    /\ bleUp' = TRUE /\ scanning' = TRUE
    /\ failures' = 0
    /\ pc' = "top"
    /\ UNCHANGED <<env, retained, wdtOn, safeMode, announced, byHand, laddered,
                   counters, pending, host, linked>>

BleUp ==
    /\ pc = "bleInit"
    /\ bleUp' = TRUE /\ scanning' = TRUE
    /\ bootReg' = 0
    /\ failures' = 0
    /\ pc' = "top"
    /\ UNCHANGED <<env, sfx, rec, wdtOn, safeMode, announced, byHand, laddered,
                   counters, pending, host, linked>>

BleInitHangs ==
    /\ pc = "bleInit" /\ "initHang" \in env
    /\ pc' = "hung"
    /\ UNCHANGED <<env, retained, wdtOn, flags, counters, radio, failures>>

-----------------------------------------------------------------------------
(* loop(): the announcement and runDiag.                                    *)

\* The boot marker, once WiFi is up, and recDump(): without a flight record it
\* returns before it comes to the verdict.
Announce ==
    /\ pc = "top" /\ ~announced
    /\ announced' = TRUE
    /\ rec' = FALSE
    /\ sfx' = IF rec THEN "none" ELSE sfx
    /\ UNCHANGED <<env, bootReg, pc, wdtOn, safeMode, bleUp, byHand, laddered,
                   counters, radio, failures>>

NoDiag ==
    /\ pc = "top"
    /\ pc' = "watch"
    /\ UNCHANGED <<env, retained, wdtOn, flags, counters, radio, failures>>

\* A GAP call of this step blocks: the BT host task does not answer.
GapHangs == bleUp /\ host = "stalled" /\ pc' = "hung"

DiagScan(on) ==
    /\ pc = "top" /\ announced /\ bleUp /\ host = "ok"
    /\ scanning' = on
    /\ pc' = "watch"
    /\ UNCHANGED <<env, retained, wdtOn, flags, counters, pending, host,
                   linked, failures>>

\* `conn`: arms the flight recorder; a failed connect is cancelled and the
\* scanner started.
DiagConnect ==
    /\ pc = "top" /\ announced /\ bleUp /\ host = "ok"
    /\ rec' = TRUE
    /\ \/ /\ linked' = TRUE
          /\ pending' \in {pending, linked}     \* a link that was there is taken
          /\ UNCHANGED scanning
       \/ /\ scanning' = TRUE /\ pending' = FALSE
          /\ UNCHANGED linked
    /\ pc' = "watch"
    /\ UNCHANGED <<env, bootReg, sfx, wdtOn, flags, counters, host, failures>>

\* `hang`: spins for the watchdog to bite.
DiagHang ==
    /\ pc = "top" /\ announced /\ bleUp
    /\ rec' = TRUE
    /\ pc' = "hung"
    /\ UNCHANGED <<env, bootReg, sfx, wdtOn, flags, counters, radio, failures>>

\* Any of the commands that call GAP, with the host task stalled.
DiagBlocks ==
    /\ pc = "top" /\ announced
    /\ GapHangs
    /\ rec' \in {rec, TRUE}
    /\ UNCHANGED <<env, bootReg, sfx, wdtOn, flags, counters, radio, failures>>

DiagReboot ==
    /\ pc = "top" /\ announced
    /\ pc' = "reset"
    /\ UNCHANGED <<env, retained, wdtOn, flags, counters, radio, failures>>

DiagScanfix ==
    /\ pc = "top" /\ announced /\ bleUp
    /\ byHand' = TRUE
    /\ pc' = "ladder"
    /\ UNCHANGED <<env, retained, wdtOn, safeMode, bleUp, announced, laddered,
                   counters, radio, failures>>

-----------------------------------------------------------------------------
(* loop(): the scan watchdog, the ring, the operations, the pull.           *)

\* Seeded fault: a quiet pass is not counted.
WatchPatient ==
    /\ pc = "watch"
    /\ IF bleUp /\ (fresh \/ linked)
       THEN fresh' = FALSE /\ quiet' = 0
       ELSE UNCHANGED <<fresh, quiet>>
    /\ pc' = "drain"
    /\ UNCHANGED <<env, retained, wdtOn, flags, moved, heard, queued, radio,
                   failures>>

Watch ==
    /\ pc = "watch"
    /\ ~(bleUp /\ ~fresh /\ ~linked /\ quiet = MaxQuiet)
    /\ IF bleUp /\ (fresh \/ linked)
       THEN fresh' = FALSE /\ quiet' = 0
       ELSE /\ quiet' = IF bleUp THEN quiet + 1 ELSE quiet
            /\ UNCHANGED fresh
    /\ pc' = "drain"
    /\ UNCHANGED <<env, retained, wdtOn, flags, moved, heard, queued, radio,
                   failures>>

WatchStarved ==
    /\ pc = "watch"
    /\ bleUp /\ ~fresh /\ ~linked /\ quiet = MaxQuiet
    /\ byHand' = FALSE
    /\ pc' = "ladder"
    /\ UNCHANGED <<env, retained, wdtOn, safeMode, bleUp, announced, laddered,
                   counters, radio, failures>>

\* The only place where seenTotal changes.
Drain ==
    /\ pc = "drain"
    /\ queued' = FALSE
    /\ fresh' = (fresh \/ queued) /\ moved' = (moved \/ queued)
    /\ pc' = "ops"
    /\ UNCHANGED <<env, retained, wdtOn, flags, heard, quiet, radio, failures>>

\* serviceBleOp (module ConnectOps): nothing to do, or ...
NoOp ==
    /\ pc = "ops"
    /\ pc' = "ota"
    /\ UNCHANGED <<env, retained, wdtOn, flags, counters, radio, failures>>

OpConnects ==
    /\ pc = "ops" /\ bleUp /\ host = "ok"
    /\ scanning' = FALSE
    /\ linked' = TRUE
    /\ pending' \in {FALSE, pending, linked}    \* a link that was there is taken
    /\ pc' = "ota"
    /\ UNCHANGED <<env, retained, wdtOn, flags, counters, host, failures>>

\* A connect that failed, a disconnect, or a scan to resume.
OpScans ==
    /\ pc = "ops" /\ bleUp /\ host = "ok"
    /\ scanning' = TRUE
    /\ pending' \in {FALSE, pending}
    /\ linked' \in {FALSE, linked}
    /\ pc' = "ota"
    /\ UNCHANGED <<env, retained, wdtOn, flags, counters, host, failures>>

OpBlocks ==
    /\ pc = "ops"
    /\ GapHangs
    /\ UNCHANGED <<env, retained, wdtOn, flags, counters, radio, failures>>

NoPull ==
    /\ pc = "ota"
    /\ pc' = "top"
    /\ UNCHANGED <<env, retained, wdtOn, flags, counters, radio, failures>>

Pull ==
    /\ pc = "ota" /\ announced
    /\ wdtOn' = FALSE
    /\ pc' = "pull"
    /\ UNCHANGED <<env, retained, flags, counters, radio, failures>>

PullFails ==
    /\ pc = "pull"
    /\ wdtOn' = TRUE
    /\ pc' = "top"
    /\ UNCHANGED <<env, retained, flags, counters, radio, failures>>

PullDone ==
    /\ pc = "pull"
    /\ wdtOn' = TRUE
    /\ pc' = "reset"
    /\ UNCHANGED <<env, retained, flags, counters, radio, failures>>

PullHangs ==
    /\ pc = "pull" /\ "pullHang" \in env
    /\ pc' = "hung"
    /\ UNCHANGED <<env, retained, wdtOn, flags, counters, radio, failures>>

-----------------------------------------------------------------------------
(* scanRecoveryLadder()                                                     *)

LadderBegin ==
    /\ pc = "ladder" /\ host = "ok"
    /\ sfx' = "begun"
    /\ laddered' = TRUE
    /\ pending' = FALSE
    /\ pc' = "restart1"
    /\ UNCHANGED <<env, bootReg, rec, wdtOn, safeMode, bleUp, announced,
                   byHand, counters, scanning, host, linked, failures>>

\* The state dump comes before the record is begun, the first stop after it.
LadderBlocks ==
    /\ pc \in {"ladder", "restart1", "restart2"}
    /\ GapHangs
    /\ \/ /\ pc = "ladder"
          /\ sfx' = "begun" /\ laddered' = TRUE
       \/ UNCHANGED <<sfx, laddered>>
    /\ UNCHANGED <<env, bootReg, rec, wdtOn, safeMode, bleUp, announced,
                   byHand, counters, radio, failures>>

\* le_scan_stop(), le_scan_start(), and for the second rung the parameters in
\* between; advertsMoving() then reads seenTotal and waits 4 s.
Restart ==
    /\ pc \in {"restart1", "restart2"} /\ host = "ok"
    /\ scanning' = TRUE
    /\ moved' = FALSE /\ heard' = FALSE
    /\ pc' = IF pc = "restart1" THEN "wait1" ELSE "wait2"
    /\ UNCHANGED <<env, retained, wdtOn, flags, fresh, quiet, queued, pending,
                   host, linked, failures>>

\* What advertsMoving() returns when it has waited.
Moved == moved

Judge ==
    /\ pc \in {"wait1", "wait2"}
    /\ IF Moved
       THEN /\ sfx' = IF pc = "wait1" THEN "rung1" ELSE "rung2"
            /\ pc' = IF byHand THEN "watch" ELSE "drain"
            /\ fresh' = IF byHand THEN fresh ELSE FALSE
            /\ quiet' = IF byHand THEN quiet ELSE 0
       ELSE /\ sfx' = IF pc = "wait1" THEN sfx ELSE "failed"
            /\ pc' = IF pc = "wait1" THEN "restart2"
                     ELSE IF byHand THEN "watch" ELSE "reset"
            /\ UNCHANGED <<fresh, quiet>>
    /\ UNCHANGED <<env, bootReg, rec, wdtOn, flags, moved, heard, queued,
                   radio, failures>>

-----------------------------------------------------------------------------
(* The board is reset, or loses power: RAM is gone, and with the power the  *)
(* retained records too.                                                    *)

RamLost ==
    /\ pc' = "setup" /\ wdtOn' = FALSE
    /\ safeMode' = FALSE /\ bleUp' = FALSE /\ announced' = FALSE
    /\ byHand' = FALSE /\ laddered' = FALSE
    /\ fresh' = FALSE /\ moved' = FALSE /\ heard' = FALSE /\ quiet' = 0
    /\ queued' = FALSE
    /\ scanning' = FALSE /\ pending' = FALSE /\ host' = "ok" /\ linked' = FALSE

Reset ==
    /\ pc = "reset" \/ (pc = "hung" /\ wdtOn)
    /\ failures' = IF bleUp \/ safeMode THEN 0 ELSE failures + 1
    /\ RamLost
    /\ UNCHANGED <<env, retained>>

PowerLoss ==
    /\ "powerLoss" \in env
    /\ bootReg' = 0 /\ sfx' = "none" /\ rec' = FALSE
    /\ failures' = 0
    /\ RamLost
    /\ UNCHANGED env

-----------------------------------------------------------------------------
(* The BT host task (external).                                             *)

\* scanCallback puts an advert in the ring.
Advert ==
    /\ Hearing /\ bleUp
    /\ queued' = TRUE /\ heard' = TRUE
    /\ UNCHANGED <<env, retained, pc, wdtOn, flags, fresh, moved, quiet, radio,
                   failures>>

LinkLost ==
    /\ linked /\ host = "ok"
    /\ linked' = FALSE
    /\ UNCHANGED <<env, retained, pc, wdtOn, flags, counters, scanning,
                   pending, host, failures>>

HostStalls ==
    /\ bleUp /\ host = "ok"
    /\ ~linked \/ "stallLinked" \in env
    /\ host' = "stalled"
    /\ UNCHANGED <<env, retained, pc, wdtOn, flags, counters, scanning,
                   pending, linked, failures>>

-----------------------------------------------------------------------------
Setup == StartSafe \/ Start \/ BleUp \/ BleInitHangs

Diag ==
    \/ \E on \in BOOLEAN : DiagScan(on)
    \/ DiagConnect \/ DiagHang \/ DiagBlocks \/ DiagReboot \/ DiagScanfix

Pass ==
    \/ Announce \/ NoDiag
    \/ Watch \/ WatchStarved
    \/ Drain
    \/ NoOp \/ OpConnects \/ OpScans \/ OpBlocks
    \/ NoPull \/ Pull \/ PullFails \/ PullDone \/ PullHangs

Ladder == LadderBegin \/ LadderBlocks \/ Restart \/ Judge

HostTask == Advert \/ LinkLost \/ HostStalls

Next == Setup \/ Diag \/ Pass \/ Ladder \/ Reset \/ PowerLoss \/ HostTask

Spec == Init /\ [][Next]_vars

(* The loop task is scheduled, its waits end (they are delays, and a pull   *)
(* that does not hang), and the hardware watchdog bites.                    *)
FairSpec ==
    /\ Spec
    /\ WF_vars(Setup \/ Pass \/ Ladder)
    /\ WF_vars(Reset)

-----------------------------------------------------------------------------
(* Properties.                                                              *)

TypeOK ==
    /\ env \in Envs
    /\ bootReg \in 0 .. 2 /\ rec \in BOOLEAN
    /\ sfx \in {"none", "begun", "rung1", "rung2", "failed"}
    /\ pc \in {"setup", "bleInit", "top", "watch", "drain", "ops", "ota", "pull",
               "ladder", "restart1", "wait1", "restart2", "wait2", "hung", "reset"}
    /\ wdtOn \in BOOLEAN
    /\ safeMode \in BOOLEAN /\ bleUp \in BOOLEAN /\ announced \in BOOLEAN
    /\ byHand \in BOOLEAN /\ laddered \in BOOLEAN
    /\ fresh \in BOOLEAN /\ moved \in BOOLEAN /\ heard \in BOOLEAN
    /\ quiet \in 0 .. MaxQuiet /\ queued \in BOOLEAN
    /\ scanning \in BOOLEAN /\ pending \in BOOLEAN
    /\ host \in {"ok", "stalled"} /\ linked \in BOOLEAN
    /\ failures \in 0 .. 2

(* "Two consecutive failures -> boot WITHOUT BLE" (.ino:264), and only two: *)
(* BLE is skipped exactly when the last two starts ended in BT init, however*)
(* resets at run time, safe starts and power losses are mixed in.           *)
SafeAfterTwoFailures ==
    [][pc = "setup" /\ pc' # "setup" => (safeMode' <=> failures = 2)]_vars

(* Why: the register counts the starts that have not got through BT init,   *)
(* the one under way included, and none has when loop() runs.               *)
BootInv ==
    /\ pc = "setup" => ~bleUp /\ ~safeMode /\ bootReg = failures
    /\ pc = "bleInit" => ~bleUp /\ ~safeMode
    /\ pc \notin {"setup", "bleInit", "hung"} => bleUp \/ safeMode
    /\ IF bleUp \/ safeMode
       THEN bootReg = 0 /\ failures = 0
       ELSE bootReg = failures + (IF pc = "setup" THEN 0 ELSE 1)

(* The ladder never reports a rung that revived scanning: seenTotal, which  *)
(* advertsMoving() watches, changes in drainQueue() only, and loop() does   *)
(* not get there while it is in the ladder.                                 *)
NoRungReported == sfx \notin {"rung1", "rung2"}

(* Why: nothing that sets `moved` comes between the read of s0 and Judge.   *)
LadderInv ==
    /\ NoRungReported
    /\ pc \in {"wait1", "wait2"} => ~moved

(* advertsMoving() "reports whether adverts moved" (.ino:584): when adverts *)
(* came in during the wait, the rung is said to have revived scanning.      *)
RungJudgedRight ==
    [][Judge => (heard => sfx' \in {"rung1", "rung2"})]_vars

(* The verdict of a ladder that ended in a reset is "printed as             *)
(* `scanfix-prev:` next boot" (HANDOFF.md:12): after the boot marker none   *)
(* is left from before.  The code does not keep it, since Announce prints   *)
(* the verdict of a boot with a flight record only, and no run checks it.   *)
VerdictPrinted ==
    announced /\ ~laddered => sfx = "none"

(* A start gets to loop(), with BLE or without, so that the board can be    *)
(* updated: BT init cannot keep it from that for ever.                      *)
StartReachesLoop == pc = "setup" /\ "powerLoss" \notin env ~> pc = "top"

(* "a deaf proxy forever is far worse" (.ino:640): with no link up, a       *)
(* scanner that is off, blocked by a pending connect, or stalled, comes     *)
(* back, for all that a reset may be needed (after which BT init and power  *)
(* must not fail, nor a pull hang).                                         *)
DeafComesBack ==
    bleUp /\ ~linked /\ ~Hearing /\ env \subseteq {"stallLinked"} ~> linked \/ Hearing
=============================================================================
