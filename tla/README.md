# A verification project for the WBRG1 BLE proxy firmware

The firmware turns a Realtek RTL8721DM board into a Bluetooth proxy for Home
Assistant: it scans for BLE advertisements, streams them to one client over the
ESPHome native API, and lets that client connect to devices and use their GATT
attributes. It also has to look after itself, because nobody can reach the
board but over WiFi. This directory holds TLA+ models of that code, the TLC
configurations that check them, and theorems about them checked by TLAPS.

Paths below are relative to the repository; `cpp` is
`wbrg1_ble_proxy/esphome_api.cpp`, `h` is `wbrg1_ble_proxy/esphome_api.h`, `ino`
is `wbrg1_ble_proxy/wbrg1_ble_proxy.ino`, and `advert.h` is next to them.

Contents: 1 the system, 2 what is hard about it, 3 the modules, 4 the runs, 5
what may go wrong in a behaviour, 6 fairness, 7 what is assumed of the outside,
8 the proofs, 9 where code and documents disagree, 10 what is not modelled, 11
the plan.

## 1. The system

### Contexts

| Context | Code | What it does |
|---|---|---|
| loop task | `setup`, `loop` (ino:486-847) | boots, drains the advert ring, runs the BLE operations others ask for, watches the scanner, pulls firmware, pets the watchdog |
| API task | `taskRun` (cpp:196-218) | serves one TCP client: frames, subscriptions, requests, adverts, notifications |
| BLE stack | vendor tasks | calls `scanCallback`, `onDisconnect`, `onNotifyInd`, `onReadResult`, `onWriteResult`, `onDiscResult`, `onDiscState` |
| control task | `ctrlTaskFn` (ino:362-417) | a TCP port for logs, diagnostics and the start of an OTA pull; leaves what loop() is to do in global variables |
| hardware | watchdog, BKUP registers, retained SRAM | resets, and what outlives a reset |

There are no mutexes. The contexts meet in single-producer, single-consumer
rings, in flags and one-place mailboxes that are `volatile` fields, and at
binary semaphores (`_opSem`, `_rwSem`, `_discSem`). The stack's tasks have a
higher priority than the other two, so that a callback runs through while they
stand still; loop task and API task interleave.

### Components

| Component | State | Operations | Meets | Correct when |
|---|---|---|---|---|
| Advert ring (`AdvertQueue`) | slots, head, tail, `_dropped` | push, pop | BLE stack, loop task; loop task, API task | first in first out, no advert torn, lost only when full, each loss counted |
| BLE connections and slots | `_conns`, the mailbox `_pendOp _pendAddr _pendOk _pendConnId`, `_opSem`, `_discMask`, `_resumeScan` | connect, disconnect, `serviceBleOp`, `serviceDisconnects`, `onDisconnect`, connections-free reports | client, API task, loop task, BLE stack | a slot says which device a conn id reaches, a request gets its own answer, a lost link is noticed, no link is left over, scanning comes back |
| GATT requests | `_rw…`, `_disc…`, `_svc _chr _dsc`, two semaphores | read, write, notify, get services, four callbacks | client, API task, BLE stack | a request is answered in turn, once, with its own result |
| Notification ring | `_ntf`, `_ntfH`, `_ntfT` | `onNotifyInd`, `drainNotifies` | BLE stack, API task, the slot table | a notification is reported as one of the device that sent it, in order, once |
| API session and framing | `_cliFd`, `_rx`, `_rxLen`, `_btSub`, `_stateSub` | accept, receive, parse, idle timeout, close | client, TCP | frames are found again however TCP cuts them; nothing of a client outlives it |
| Advert path | two rings, `flushAdverts`' buffer, `_btSub` | `scanCallback`, `drainQueue`, `pushAdvert`, `flushAdverts` | all of the above | in order, once, every loss counted |
| Startup, watchdogs, recovery | the boot counter in BKUP register 5, `SFX_BASE` and `REC_BASE` in retained SRAM, the scan watchdog's fields | `setup`, the pass of `loop`, `scanRecoveryLadder`, `runDiag`, `recDump`, OTA pull, reset | loop task, the hardware, the BT host task | safe mode exactly when BT init failed twice, nothing blocks for ever, a deaf scanner is revived |
| Protobuf codec | none | varints, `pbField`, `pbFieldBytes`, builders | all messages | decoding undoes encoding, and malformed input ends the parse |
| Control socket, OTA fields | `diagOp diagAddr diagType diagWifiOff`, `otaHost otaPort otaRes otaFlag`, `diagConnId` | `handleCommand`, `runDiag`, the pull | control task, loop task, BLE stack | a command is run once, in order, with its own arguments; a silent client does not keep the port |
| Log ring | `logRing`, `logSeq` | `logLine`, the `log` command | every task | what is read are the last lines, whole and in order |
| Discovery tables | `_svc _chr _dsc`, `ch[160]`, `svc[512]` | `onDiscResult`, services message, CCCD lookup | BLE stack, API task | the client sees the device as it is; what is cut moves nothing; a CCCD is the characteristic's own |
| Telemetry, LEDs, WiFi keep-alive | counters and times | periodic | – | – |
| Instrumentation | flight recorder, lock, interrupt and flash spies, `flash_diag.cpp` | – | vendor kernel | – |
| Host tools | `tools/` | flashing, test clients | – | – |

## 2. What is hard about it

- **A mailbox with timeouts.** The API task posts an operation, waits 12 s or
  5 s for a semaphore, and goes on without withdrawing what it posted. loop()
  may run it later, give a token nobody waits for, and clear a mailbox that
  holds the next request.
- **Slots chosen before a wait and filled after it**, while another task and
  the stack change the table's world.
- **A mask of lost links that names conn ids**, read and cleared in two steps,
  handled later, when the conn id may belong to another link.
- **Answers matched by connection only**, so that the late answer to one GATT
  request can be taken for the answer to the next; and one discovery table for
  all connections.
- **A recovery ladder that runs in the task it has to watch**, and calls that
  never return when the BT host has stalled.
- **Records that must survive a reset**, written on one side of a crash and
  read on the other.
- **Commands left in several variables**, one store at a time, and read one at
  a time by another task that has told the writer nothing.
- **Tables and buffers that are too short** for a large device: what they cut
  off decides by absence where the rest seems to belong.
- **Rings at their limit**, in four places, with different producers; the ring
  of log lines has several producers and a reader that it may lap.
- **TCP**, which cuts frames anywhere, and clients that vanish.

The list `hazards` of PROJECT.json has each of them at its line, with the
properties that would notice it going wrong.

## 3. The modules

| Module | Models | State, and how actions correspond |
|---|---|---|
| `LossyFifo` | what a ring promises | the abstract specification: `Accept`, `Refuse` (only when full), `Take` |
| `AdvertRing` | `AdvertQueue`, advert.h:28-62 | `head`, `tail`, `buf` as in the code. push is `PushFull` or `PushAdmit`, `PushCopyBegin`, `PushCopyEnd`, `PushPublish`; pop likewise: one action per store, with the copy of an advert in two steps, `Torn` in between |
| `ConnectOps` | handleDeviceRequest, serviceBleOp and both operations, serviceDisconnects, onDisconnect, cpp:475-626, 795-834; the parts of loop() that touch the scanner | the fields under their names; `apiPc` and `loopPc` are places between two accesses to shared state. API task: `Svc…`, `Request…`, `ResetAnswer`, `Arm`, `Take`/`TimeOut`, `Answer…`. loop(): `ResumeScan`, `TakeOp`, `ConnectBegin`, `LinkFound`/`GiveUp`/`Cancel`, `Disconnect`, `Clear`, `Give`. Stack: `LinkUp`, `LinkDrop` |
| `GattOps` | the four GATT handlers and their callbacks, cpp:628-793, 836-1012 | the stores that say what is waited for one by one (`Expect…`), `Drain`, `Start`, `Take`/`TimeOut`, the check of the result and the copy of the value apart, `Answer…` for the API task; one action per callback; the stack keeps a queue of operations per link. `issued` has, for each request, the address the client named and the device that was at the other end of the slot's conn id |
| `NotifyRing` | onNotifyInd, drainNotifies, cpp:655-683, with the rounds of serveClient | the ring is a `LossyFifo` whose entries carry the sender as history; slots and links as in `ConnectOps`, in fewer steps: a connect takes its own new link or any that no slot has (cpp:597-600, 544-549); a link that is lost, or was told to end, goes down and sets its bit of `_discMask` in one step, when the stack gets to it. `filled` is the device whose link filled a slot |
| `GattTable` | onDiscResult's tables, the services message of handleGetServices, the lookup of handleGattNotify, cpp:755-793, 836-1012 | a device is a row of attributes whose places are their handles; `svc`, `chr`, `dsc` as in the code. One `OnResult` (onDiscResult) per attribute and phase; `Report` builds the messages of a discovery from `OwnChrs` and `OwnDscs`, what the code's comparisons of handles let through; `Notify` finds the CCCD. Its specification is `TableSpec`. `DiscoveryFails` is an error or the timeout |
| `Varint` | putVarint, getVarint, cpp:24-50 | operators; the rounds of the two loops are recursive functions, `Shifted` of the number that is left and `Number` of the digits read |
| `Codec` (extends `Varint`) | pbField, pbFieldBytes, pbUint, pbBytes, pbFixed32, cpp:52-131 | operators on messages as byte sequences, the indices at which the reader stops as a recursive function |
| `ApiSession` (extends `Codec`) | taskRun, serveClient, closeClient, the subscriptions of handleFrame, cpp:196-274, 383-474 | the buffer and the bytes on the way are sequences; `Recv` takes any number of bytes that fit; payloads are messages of `Codec` |
| `LogRing` | logLine and the `log` command, ino:243-251, 387-395 | `logRing`, `logSeq`. A writer: `Call`, `PrintBegin`, `PrintEnd`, `LoadSeq`, `StoreSeq`; the reader: `LogBegin`, `Measure`, `SendLine`, `LogEnd`: one action per access to what is shared |
| `Control` (extends `LogRing`) | ctrlTaskFn, handleCommand, runDiag's reads, its connect and disconnect, the end of loop(), ino:257-417, 644-732, 814-830 | `mem` is the group of globals, `todo` the stores a command has left, `reads` the loads loop() has left; `Store` and `Read` are one access each. `diagConnId` and `links` are the diagnostics' link and the stack's; the wait of a conn ends with `ConnUp`, or with `ConnGiveUp` and then `ConnCancel`, and a link may come up between the two |
| `AdvertPath` | scanCallback to message 93, ino:420-462, h:34, cpp:276-316 | two instances of `LossyFifo`, the batch buffer, the client |
| `Supervisor` | setup, loop, scanRecoveryLadder, the parts of runDiag that touch the radio, recDump, the watchdogs, ino:196-271, 486-847 | `pc` walks through setup() and a pass of loop(); `hung` is a call that does not return; `bootReg`, `sfx`, `rec` survive `Reset` |
| `MC…` | – | definitions for TLC: symmetry, the frames a client sends, the CCCD handles |
| `…_proofs` | – | theorems; what a proof needs besides the properties (its inductive invariant) is defined there |

How they fit together: `AdvertRing` implements `LossyFifo` (property
`RefinesLossyFifo`, theorem `Refinement`), and `AdvertPath` and `NotifyRing`
use `LossyFifo` where the code has such a ring. `ConnectOps` gives the slot
table and the links to `GattOps` and `NotifyRing`, which model them in fewer
steps. `Supervisor` sees an operation of `ConnectOps` as one step of loop() that
may block, and explains why `ConnectOps`' ladder always ends in a reboot. The
commands of `Control` that touch the radio are the `Diag…` actions of
`Supervisor`, which says what they do to the device; `Control` says whether they
are run at all, and with what. `GattTable` is what `GattOps` leaves out of a
discovery: the contents of the tables, for one request at a time.

Definitions under a comment "Seeded fault" are not part of a model: each is a
definition with a plausible bug, to show that a property notices it.

History variables (`asked`, `running`, `done` of `ConnectOps`, `failures`,
`heard`, `laddered` of `Supervisor`, `heard` of the rings, `sent` and `handled`
of `ApiSession`, `filled` and `streamed` of `NotifyRing`, `asked`, `issued`,
`written` of `GattOps`, `asked`, `done`, `oks`, `cmds` of `Control`, `lines`,
`logged`, `told`, `had` of `LogRing`) record what happened. A guard reads them
only as a bound, or to tell which event of section 5 a step is (`Settled` and
`ConnDue` of `Control`).

## 4. The runs

| Run | Bounds | What it shows |
|---|---|---|
| `MCAdvertRing` | capacity 3, 5 adverts of 2 values | The ring is a bounded FIFO at every intermediate store, and counts what it refuses |
| `MCConnect` | 2 slots, 3 addresses, 3 requests, six environments | uniqueness of slots; what the client was told; mailbox, mask, and that slots and links agree |
| `MCConnectLive` | 2 slots, 2 addresses, 2 requests, two environments | a request is answered; the scanner comes back |
| `MCSupervisor` | 2 quiet passes, six environments | boot counter, ladder, and that the board gets up again |
| `DeafLadder` | – | (disagreement) a rung that worked is judged a failure |
| `MCGatt` | 2 devices, 2 conn ids, 2 requests, three environments | a value is of the handle asked for and the device the request went to; each request gets its own answer, and ends |
| `OtherCccd` | 2 requests | (disagreement) a CCCD of another device is written |
| `MCApiSession` | buffer of 14 bytes, 2 frames a client, any number of clients | framing, the fields of payloads, subscriptions, and that no client blocks the next |
| `MCAdvertPath` | rings of 3, batches of 2, 6 adverts | every advert is delivered once or counted as lost; a subscriber is served |
| `MCNotifyRing` | ring of 2, 3 notifications, 2 devices, 2 conn ids, five environments | attribution, accounting, and that what a connected device says is reported |
| `MCControl` | 2 commands a boot, 2 conn ids, a log of 2 slots, numbers modulo 5, 6 lines, four environments | a command is run once, as stored, and each one that parses is acted on; the link of the diagnostics beside those of API clients; what the log says; no client blocks the next |
| `MCGattTable` | every device of up to 10 attributes; tables of 2, 2 and 5, buffers of 2 and 4 | the services the client sees are the device's, cutting moves nothing, the CCCD is the right one |

Why these bounds are enough. Two slots make every confusion of "this one" with
"the other one" possible, and a third address finds the table full; one slot
more only repeats them. A request that meets what an earlier one left behind
needs two requests; a third is there in `MCConnect` for the request that
overwrites the mailbox while the first one's operation runs. The rings are small
enough to be full and to wrap around. Varints have few
values a byte, so that a type, a length and a number of the longest frame need
two, as those from 128 on do in the code, and that frame fills the buffer to the last
byte. In `MCApiSession` the base is 9 and `WireMod` 3, so that a tag of one byte
holds fields up to 2 as it holds those up to 15 in the code, and the one request
has a field of each wire type, one of them behind a tag of two bytes. Two
commands are what it takes for the second to meet the first one's variables;
six lines go three times round a log of two slots and once past the end of its
numbers. In `MCGattTable` each table and buffer is too short for some of the
devices and long enough for others, and ten attributes hold two services with
two characteristics of which one has a descriptor besides its CCCD, or one
characteristic more than the table. In `MCGatt`
writes are asked of one handle (`WriteAt`): a result of a write is matched by conn
id alone (cpp:649), reads are asked of both. `MaxQuiet` counts passes instead of the 120 s; from one on, only the
number of passes changes. The counters that a bound caps (`MaxReq`, `MaxHeard`,
`MaxNtf`, `MaxOffered`, `MaxFrames`, `MaxCmds`, `MaxLines`) appear in the guards of the action that
brings something new and nowhere else, but in `GattOps`, where slots and links
change as long as a request may still find them. `MCAdvertRing`, `MCSupervisor`,
`MCControl`, `MCGatt` and `OtherCccd` do not check deadlock: the first ends when the last advert was
offered, a pull that hangs with the watchdog off really stops the board, a
behaviour of `Control` ends with a reset, after which the device is in a state of
`Init`, and a client of `GattOps` may stop asking while no link comes up any
more. In every other
passing run something can always happen, and TLC checks that it can.

Each property of a passing run has a mutant in PROJECT.json: a seeded fault of
the code, under which TLC finds that property violated.

`TypeOK` of a module states the types of its variables. The runs of
`AdvertRing`, `ConnectOps` and `Supervisor` check it; in `AdvertPath` and
`NotifyRing` it is proved; in the others it is documentation, and held when the
run was made with it.

## 5. What may go wrong in a behaviour

Most of these contexts work well together as long as nothing odd happens, and
the interesting question is how odd it may get. `ConnectOps`, `GattOps`,
`NotifyRing`, `Control` and `Supervisor` have a variable `env`, a set of events that may
happen in the behaviour, which is chosen from the constant `Envs` at the start
and never changes. The ordinary events (links that come up, fail or are lost,
adverts, resets by the watchdog, clients that leave) are always possible. A
property says in its own text which events it cannot stand, and TLC has shown
each of these conditions to be needed by a counterexample without it.

`ConnectOps`:

| Event | Means | Breaks |
|---|---|---|
| `stall` | loop() is away (ladder, diagnostics, OTA pull) longer than the API task waits | `WakeMeansDone`, `MailboxInv`, `ToldIsTrue` (the number of free slots), `SlotsAreTheLinks` |
| `late` | a link comes up after the last poll and before the cancel (cpp:610) | `SlotsAreTheLinks` |
| `reuse` | a conn id is given to a new link before the loss of the old one was handled | `OnlyLostLinksFreed`, `SlotsAreTheLinks` |
| `preempt` | a link is lost between the read and the clear of `_discMask` | `LossRemembered`, `LossInv`, `SlotsAreTheLinks` (a slot of a lost link; with `repeat`, also a link without a slot) |
| `repeat` | the client connects an address that has a slot | nothing |
| `reset` | the board restarts at any moment | nothing |

`MailboxInv`, `LossInv`, `ViewInv`, `FreeToldInv`, `OperationInv` and `LinkInv`
are not in a run: they are invariants of the proofs (section 8). Whatever happens: `SlotInv`,
that an address the client believes in has a slot (`ToldIsTrue`),
`EveryRequestAnswered`, `ScanComesBack`. `MCConnect` has each combination that
leaves out one breaking event, and `stall`, which multiplies the states, with
few others. A link without a slot after `preempt` and `repeat` takes four
requests, one more than the run has: two links are lost, the loss of the second
falls between the read and the clear of the mask, its conn id is given to a
device whose connect then fails, because a slot seems to hold that link already,
and the next connect of the first device takes that slot away. It came out of
the proof of `SlotsAreTheLinks`, and TLC finds it with `MaxReq` 4.

`Supervisor`: `initHang`, `powerLoss`, `stallLinked` (the BT host stalls while a
link is up, which counts as a sign of life for the scan watchdog), `pullHang`.
The boot counter's and the ladder's properties (`SafeAfterTwoFailures`,
and `NoRungReported`, which is proved) stand all of them. `StartReachesLoop` needs the power to last.
`DeafComesBack` stands `stallLinked` only, because it may need a restart, which
must succeed, and a pull that returns.

`GattOps`:

| Event | Means | Breaks |
|---|---|---|
| `late` | an answer comes after the wait; a GATT transaction may take 30 s, the wait is 5 s or 15 s | `AwaitedAnswersAreOwn`, `ServicesWhole` |
| `command` | a write without response is reported too | `AwaitedAnswersAreOwn` |
| `reuse` | a new link gets the conn id of a lost one that still has a slot, or whose loss the API task has yet to deal with | that the device is the one asked for (`WentWhereAsked`, in `ReadValueIsTheAttributes` and `ServicesWhole`) |
| `missed` | a link comes up when its request no longer waits for it; a connect takes it for its own (cpp:597-600) | the same |
| `noSlot` | the client asks for the services of a device without a slot | `AnsweredInTurn` |

A request names an address, the code goes to the conn id of that address's slot
(cpp:698-700) and a result is matched by conn id and handle. So
`ReadValueIsTheAttributes` has two parts. Whatever happens, a value is of the
handle asked for and of the device the request went to, however late the answer
that brought it. That this device is the one the client named is true when a
slot's link is its own, without `reuse` and `missed`; with them a read asked of
one device is answered with another's value, and the second part says nothing.
`ServicesWhole` is the same of a discovery. `RequestEnds` stands everything.
`late` and `reuse` together multiply the states and are not in the run; the
theorems of section 8 cover them, and their invariants were checked by TLC with
both on smaller bounds.

`NotifyRing`:

| Event | Means | Breaks |
|---|---|---|
| `pipelined` | one round sees two requests | `ConnectedIsHeard`, the second part of `OwnDevice` |
| `late` | a link comes up when its request no longer waits; a link told to end ends after the round | the same |
| `reuse` | a new link gets the conn id of a lost one whose slot has not been freed | the same |

With each of them a link without a slot may be there, and the next connect takes
it for its own (cpp:597-600, 544-549): its notifications are then reported under
the address of that connect. What `OwnDevice` says whatever happens is that what
is reported under an address came over the link that filled its slot, although
conn ids change hands while an entry is in the ring. Its second part says that
this is the address's own link, with one request a round and a stack that keeps
up (`env = {}`). A loss between the read and the clear of `_discMask` (`preempt`
of `ConnectOps`) is not in this module.

`Control`:

| Event | Means | Breaks |
|---|---|---|
| `hurry` | a command for loop() comes before it is done with the last one of that kind | `RunAsAsked`, `AskedIsRun`, `DiagLinkIsAsked` |
| `bad` | a `conn` or an `ota` that does not parse | `RunAsAsked` (a `connw` leaves `diagWifiOff` to the next `conn`); the part of `AskedIsRun` about "ok" |
| `api` | API clients get links | nothing |
| `again`, `beside` | a `conn` while a link is up; an API link that comes up between a `conn` and the end of its wait | `DiagLinkIsAsked` (the wait takes any link, ino:713) |
| `stale` | an API link gets the conn id of a diagnostic link that was lost | `DiagLinkIsAsked` (`disc` takes it down, ino:726) |
| `trickle` | a client sends bytes that never end a line | `NextClientServed` |
| `chat` | lines are written; to keep the model small clients then ask for the log only | nothing |
| `race` | two tasks are in `logLine` at once | `LogIsRecent` |
| `lap` | a line is written into a slot the reader has still to send | `LogIsRecent` |

`race` and `lap` are in no environment of the run: `LogIsRecent` is the only
property about the log and says nothing of them, because in the code nothing is
kept then (a line of two callers, one number for two lines, the middle of a newer
line among older ones). What the run shows is that the log is right between
these two, which with a ring that is never empty is less than it looks: once the
ring is full, the line written next always laps a reader that has not yet sent
the first line.

`GattTable` has no environments. It leaves the two ways a stack may report the
last phase open (`all`), lets a discovery fail at any point, and takes devices
that fit the tables and devices that do not; the conditions are in the
properties (`Fits`, `AtCut`).

## 6. Fairness

`MCConnect`, `MCAdvertRing` and `MCNotifyRing` check safety under `Spec`; the
other runs check safety and liveness together under `FairSpec`. All fairness is
weak.

- The tasks are scheduled (FreeRTOS runs a task that is ready, and each of them
  sleeps between rounds): `ApiStep`, `LoopStep`, `Flush`, `Setup`, `Pass`,
  `Ladder`. What a client asks for, what a user types and what the radio brings
  is not under fairness.
- `xSemaphoreTake` and `recv` have timeouts, so that a wait ends; the steps are
  part of `ApiStep`.
- The hardware watchdog, where it runs, bites (`Reset`).
- `ConnectOps`: the scan watchdog looks at every pass, and the ladder ends in a
  restart (module `Supervisor`); the stack ends a disconnect it was told to
  make; a client comes back, as Home Assistant does.
- `GattOps`: the stack ends an operation of a link or loses the link.
- `Control`: the control task and loop() run, a silent round of `recv_data` ends
  after 200 ms, a wait for a link after 6 s, and a pull ends. (`ConnGiveUp` and
  `ConnCancel` are steps of loop().) Clients, the stack
  and the callers of `logLine` owe nothing.
- `ApiSession`: 60 s of silence pass once a client is gone, and a FIN is seen.
  A client that is there pings every 20 s, so it is not under this fairness.
- `AdvertPath`: the rounds of serveClient go on, because each request ends
  (`EveryRequestAnswered`, `RequestEnds`).

## 7. What is assumed of the outside

Vendor code and the client are not in the repository; the map marks their
actions external.

- `BLE.connected(i)` is false from the moment a disconnect was issued.
- Callbacks preempt the API task and are not preempted by it, so each is one
  step; stores of one task become visible in program order (one core).
- A GAP call made while the BT host task is stalled does not return
  (HANDOFF.md:10).
- The stack answers the GATT operations of a link in order, at most 30 s late,
  or loses the link.
- New links come up between GATT requests, not during one: the API task that
  serves a GATT request is the one that would ask for a link.
- A device notifies on a link on which a client has asked it to, through the
  slot that has the conn id of that link.
- A pull reads the port when it is called, the host when it connects and the path
  when it asks (`Control`).
- A device keeps to the order of a GATT table: a service before its
  characteristics, a value after its declaration, at most one CCCD a
  characteristic (`GattTable`).
- The client sends frames that fit in RXCAP, lengths that are those of what
  it sends, message types that fit in 32 bits (the cast of cpp:252), and messages whose tags, numbers and lengths are numbers the code has
  (`IsMessage`). What a send to it returns is not
  looked at by the code and not modelled.

## 8. The proofs

Eight modules hold theorems, for every value of the constants. None of them
assumes more than the named assumptions of the modules, which TLC evaluates in
the runs; the code meets each of them:

- `VarintAssumption`, `CodecAssumption`, `TagsAssumption`: the base is 128, a
  number has at most 10 digits, the wire modulus is 8, and the tags of an answer,
  8 and 18, are below 128.
- `FramesAssumption`: what the client sends is made of numbers the code has
  (section 7); `RxCapAssumption`: it fits; `TypesAssumption`: the types of the
  messages differ (5, 20, 66, 87).
- `CmdsAssumption`: what a command of the control socket carries, as
  handleCommand takes it apart; `IdsAssumption`: conn ids are numbers.
- `LogAssumption`: the number of a line has more values than the ring has slots
  (65536 and 10).
- `TableAssumption`: the tables and the buffers have room for one entry at least.
- `HandleAssumption`, `CccdAssumption`: handles are positive numbers, and a CCCD has
  one.
- `None…`, `Envs…`, `Max…`, `Bounds…`: a value that stands for nothing is nothing
  else, and the bounds of the models are numbers.

The inductive invariants of `GattOps`, `GattTable`, `Control` and `ApiSession` are
not in a run. TLC checked them on the runs' constants before they were proved, all but
`StreamInv`, which speaks of any bytes; `FramesInOrder` is the form of it that
TLC evaluates.

**`AdvertRing_proofs`.** `TypeOK` and `RingInv` are inductive together. What a
side has checked stays true until it publishes, because only that side moves
its own index: `RingInv` says so for each place of the two. Lemmas give the
arithmetic of the indices (`SuccWraps`, `SlotRange`, `SizeAfterPop` and others).
From it follow `NoDataRace`, `WholeAdverts`, `Accounted` (each advert offered is
taken, stored, counted as lost or on its way in: theorem `Accounting`, for which
`TypeOK` and `Accounted` are inductive together with the arithmetic of `Size`),
and `Refinement`: each step maps to
a step of `LossyFifo` or a stutter, with `Contents`, the slots from tail to head,
for the queue.

**`ConnectOps_proofs`.** `TypeOK` is proved part by part, per group of
variables. `SlotAddrUnique` and `SlotConnIdUnique` are not inductive: a slot is
chosen before the wait and filled after it. `SlotInv` adds `ConnectPending`:
while a connect is under way, no other slot can get its address, and the conn id
in the mailbox, once it is there, is in no slot. `WakeMeansDone` follows from
`MailboxInv`, which says who has the mailbox at each pair of places of the two
tasks. `OnlyLostLinksFreed` and `LossRemembered` follow from `MaskedIsDown` (a
bit in the mask is of a link that is down) and `LossInv`. `EnvKept` (no step
changes `env`) lets a condition on `env` pass through a step.

In the same module, `ToldIsTrue` follows from `ViewInv`,
which says why a slot whose address the client believes in is not freed behind
its back, even by a disconnect that outlived its request: loop() disconnects
`_pendAddr`, which is by then the address of the request under way, whose answer
is still to come; and from `FreeToldInv`. `SlotsAreTheLinks` follows from
`LinkInv`, which adds that no two links reach one device, and that a link
without a slot is that of the connect under way, first in loop()'s hands and then
in the mailbox (`Made`); it needs `OperationInv`, which says for whom loop()
works, and `MailboxInv`, `LossInv` and `MaskedIsDown`.

**`Supervisor_proofs`.** `BootInv` says what the register counts at each place
of setup(), and with the types it is inductive; the action property
`SafeAfterTwoFailures` follows (theorem `SafeModeIsEarned`). `LadderInv` adds to
`NoRungReported` that `moved` is false while the ladder waits, because nothing
that sets it can come in between.

**`AdvertPath_proofs`.** A sequence number is given to each advert that is heard.
`OrderInv` says that the numbers grow along the way, from what the client got
over the batch, `_adv` and `queue` back to the radio. With the types it is
inductive (theorem `OrderInvariant`). `EachAdvertAccounted` follows with a count
of the places (theorem `Accounting`): what leaves one place comes into the next
or is counted as lost, and an advert cannot be in two places because numbers
grow.

**`NotifyRing_proofs`.** `OwnDevice` is not inductive: an entry keeps the conn id
while the link may change hands. `LinkInv` says that the link with a slot's conn
id is the one that filled the slot, or the loss of that one is in `_discMask`;
`RingInv` that an entry whose conn id is in the slot of another link is of one
whose loss is in `_discMask`, and that this cannot be while the API task drains,
because serviceDisconnects comes first in a round. Together they give the first
part of theorem `Attribution`, for every `env`; the second, with `env = {}`, is in
`SlotInv`. `OrderInv` (what is in the ring
is younger than all that has left it) gives `Accounting`. `SlotInv` says that
with one request in a round a link that is up has its slot, and that a loss
still in the mask at the time of a request has the slot it will free, so that no
new link can take its conn id, and no link is without a slot for a connect
to take; from it follows `ConnectedIsHeard` (theorem
`Hearing`).

**`Gatt_proofs`.** For `GattOps`: a result says nothing of the request it belongs to, so each
property needs to know whose operations are still with the stack. `OpInv` says
that an operation is that of one request and that its device is at the other end
of its link; `ReadInv` that what is in the buffer of a read is of the device its
conn id reaches: from it follows the first part of `ReadValueIsTheAttributes`, with late answers
and conn ids that change hands. `AskedInv` says that, when no link is missed and
no conn id reused, a link that is up has its slot, a slot's link is its own
device's, and so every operation went where it was asked for (`WentWhereAsked`):
the second part, and that of `ServicesWhole`. `OwnInv` says that without late answers and
reports of commands an operation in the stack is that of the request under way,
and that the semaphore and the cause are set by it or not at all
(`AwaitedAnswersAreOwn`). `DiscoveryInv` says that the table is filled phase by
phase by the discovery under way (`ServicesWhole`). `AnsweredInTurn` needs no more
than `RequestInv`, which says what a request under way has set.

For `GattTable`, in the same module, the proof first says what a device is:
`RowOK`, that a value comes right after its declaration, a descriptor after a
value or another one, and that between two CCCDs there is a value or a service.
It holds of every row there is because there is no least length at which it
would not (`RowsOK`). `TableInv` is inductive: each table has the first entries
of the device's attributes of its kind, in their order, as many as it has room
for (`Listed`), and during a phase those up to the handle the stack is at; and
what was sent and what was written is what the tables say (`SentInv`), because
they do not change until the next discovery empties them. Of the tables, four
lemmas say what the code's comparisons of handles let through. `OwnChr`: what
lies within a service's bounds are its values. `NextDecl`: beyond a
characteristic that is not at the cut, no declaration is missing from `_chr`
unless another one comes before it; so (`OwnDscsAre`) what lies up to its bound
are its own descriptors, and (`Candidates`) a CCCD up to the next declaration is
its own. From them follow `ReportedIsReal` and the first part of `NotifyIsOwn`;
the second, which holds at the cut too, because the CCCD that was reported is the
first one found, and the message has the first ones (`WritesTheReported`).
`ReportIsTheDevice` needs that no table lacks an entry (`Complete`: else it would
have more than there are), that what is listed in increasing order is the set in
order (`OrderIsSorted`, `InOrder`), and that the buffer of a service has room for
as many descriptors as its characteristics have (`SizeIsTrue`).

**`Control_proofs`.** A command is stored in up to five steps and read in up to
four by another task. `StoreInv` and `LoopInv` say what is left of either
(`StoresLeft`, and the lists of reads). `MailInv`, without `hurry`: a place holds
one command at most, filled by the last store, emptied when loop() takes it and
open until loop() is done. `ValuesInv` says where the values of a command are at
each pair of places of the two tasks: in the line, in the variables, or read; a
`connw` whose address does not parse would leave one behind, hence `bad`. From
them follows `RunAsAsked`. `LinksInv` says that, when no link is there
before a `conn` and none comes up beside it, there is none from its line to its
wait, the wait finds only its own, and the connect is no longer pending when the
wait is over; and that a link an API client gets at any other time is not the one
`diagConnId` names, lost or not (`DiagLinkIsAsked`). For the log, `OneWriter`
says who is in `logLine`; `RingInv` that a slot holds the last line with its
number, though numbers wrap; `ReaderInv` that what the reader has taken is a run
that ends before the line it is at. That nobody laps it bounds the lines that can
be written meanwhile by a count of places (lemma `Fits`).

**`ApiSession_proofs`.** `SessionInv` is inductive: the types; `HandledInv`, that
the frames handled are the first ones sent; `StreamInv`, that the bytes ahead of
the parser, in the buffer and on the way, are those of the frames that follow, or
a beginning of them when the client is gone; and `BufferInv`, that a buffer in
which the parser has stopped holds no whole frame, and so is never full. A lemma
(`Parse`) says that a buffer that agrees with a frame as far as it goes has a
frame for the parser exactly when it is all there. From it follows
`FramesInOrder`. `SubsInv` adds to `SubscriptionIsItsOwn` at which places of the
API task the socket is open.

The codec is proved in the same module. `VarintReadsBack`: what putVarint writes
getVarint reads back, for every number of at most `MaxDigits` digits. `FieldAt`: a
field that stands somewhere in a buffer is read there as it was written, and
`Skip` goes to its end; `StartsAre`: the reader comes to the places of a
message's fields and to no other; `FieldsRead`: so it finds the first field of a
number and a wire type, or none. `FieldsReadBack` follows with `FramesInOrder`.
These are inductions over the length of a sequence. The library's induction
theorems, which take an operator as a parameter, cannot be used here; instead,
lemma `Smallest` gives a least counterexample, and the recursive functions are
shown to exist by naming one.

Only model-checked:

- liveness under fairness and everything about `ENABLED`, which is out of the
  provers' reach: `StartReachesLoop`, `DeafComesBack`, `EveryRequestAnswered`,
  `ScanComesBack`, `RequestEnds`, `SubscriberGets`, `AskedIsRun`,
  `NextClientServed` (of `Control` and of `ApiSession`), `FrameIsHandled`;
- the two properties that a run shows to be violated (section 9).

Every invariant and every action property that holds in the runs is a theorem.

## 9. Where code and documents disagree

Two runs show it, each with a counterexample: `DeafLadder` (ino:588) and
`OtherCccd` (cpp:771). PROJECT.json quotes the documents.

Others were met while the modules were written, and show in the conditions of
section 5 rather than in a run of their own:

- ino:215: `recDump` returns before it comes to the verdict of the ladder when
  there is no flight record, which only a diagnostic connect or `hang` writes:
  the verdict of a ladder that ended in a reboot is not "printed as
  `scanfix-prev:` next boot" (HANDOFF.md:12). `VerdictPrinted` of `Supervisor`
  says what it should; no run checks it.
- cpp:649: the late answer to one write acknowledges the next
  (`AckMeansWritten`, which is part of `AwaitedAnswersAreOwn`, without its
  condition).
- ino:268: a `connw` whose address does not parse has stored its flag before, and
  the next `conn` drops WiFi (`RunAsAsked`).
- ino:713: the wait of a diagnostic connect takes any link there is, also one of
  an API client, and `disc` then takes that down (`DiagLinkIsAsked`).
- ino:726: `diagConnId` is kept when the diagnostic link is lost. An API client's
  link may get that conn id, and `disc` then takes it down (`DiagLinkIsAsked`).
- "ok" (ino:405-407) is said to every command, whatever handleCommand made of it:
  also to a `conn` whose address does not parse (ino:322-327), an `ota` with a
  word missing (ino:332) and a word it does not know, none of which is acted on.
  Of those that were stored, a second one of its kind in the next moments
  replaces the first, and in safe mode most are ignored (`AskedIsRun`).
- "The first `ota` trigger after boot is ignored" (GATT-FLEET.md:60,
  HANDOFF.md:131-133). In the code of the repository nothing tells the first from
  the second: each `ota` that parses sets `otaPending`, and loop() takes the flag
  and calls http_update_ota (ino:814-820), which `AskedIsRun` says and the run
  confirms. `AskedIsRun` ends at that call. What the quirk comes from, if it is
  not in the vendor's http_update_ota, is outside the model.
- cpp:597-600, 544-549: execConnectLoop takes any link that is up and that no
  slot has, and the slot is filled under the address of the request. GATT
  operations on that address then go to another device, and that device's
  notifications are reported under it (`WentWhereAsked`, `OwnDevice`).
- cpp:698-700: a read is sent to the conn id of a slot and its result is matched
  by conn id and handle. Between the loss of a link and serviceDisconnects a new
  link may have that conn id; the value is then another device's
  (`WentWhereAsked`).
- cpp:984: the last characteristic of a `_chr` that was too short has no next
  declaration: in the message it is given the descriptors of the one cut off,
  and notifications of it are turned on at that one's CCCD
  (`ReportedIsReal`, `NotifyIsOwn`, their `AtCut`).
- cpp:767: a lookup for a characteristic goes on beyond the end of its service
  where the message stops. With a table that is not cut the next declaration
  comes first, so that it makes no difference.

- cpp:543: the token of an operation that timed out is taken for the next
  one's (`WakeMeansDone` without its condition).
- cpp:812: a bit set between the read and the clear of `_discMask` is erased
  and that slot stays taken (`LossRemembered`).
- cpp:815: the loss of an old link frees the slot of a new one that has its
  conn id (`OnlyLostLinksFreed`).
- cpp:650: the late answer to a write ends a read with no data
  (`AwaitedAnswersAreOwn`).
- cpp:711: a late success leaves cause 0, which a timeout then reports
  (`AwaitedAnswersAreOwn`).
- cpp:944: a request for the services of a device without a slot is not
  answered (`AnsweredInTurn`).
- cpp:967: a discovery that failed half way is sent as if whole.
- cpp:226: adverts left in `_adv` at the end of a subscription are streamed to
  the next subscriber.
- cpp:235: what a device said just before its link was lost is skipped, because
  the slot is freed before the ring is drained.

## 10. What is not modelled

- Telemetry, LEDs, WiFi keep-alive: outputs no control depends on.
- The flight recorder and the lock, interrupt and flash spies, `flash_diag.cpp`,
  `trace_stub.cpp`: instrumentation of the vendor's kernel, whose records are
  read by a person after a reset. What `recDump` prints when is in `Supervisor`.
- The remnants of an MQTT path, which are compiled out or never called.
- The stateless answers of the API (hello, device info, ping, entities): they
  change no state.
- The result of sends, which the code does not look at. A model of it would need
  the socket's buffer and its blocking, which are not in the repository.
- The cut of a write to 244 bytes and UUIDs (`GattOps`, `GattTable`): data that no
  guard reads.
- Frames longer than RXCAP (`RxCapAssumption`).
- `GattOps` and `NotifyRing` see the slot table in fewer steps than `ConnectOps`
  and are not composed with it: in `GattOps` new links come up between GATT
  requests only, though losses come at any time; in `NotifyRing` the read and the
  clear of `_discMask` are one step.
- A copy of the value of a read that a callback interrupts half way (cpp:717): the
  check of the cause and the copy are two steps, the copy itself is one. The same
  goes for the checks of one poll in execConnectLoop (cpp:598-605), one step of
  `ConnectOps`, with a window before and after.
- The words of the control socket's commands, and the XMODEM tool and the test
  clients under `tools/`, which run on a host.

## 11. The plan

Built so far: the modules of section 3, in the order `AdvertRing`,
`ConnectOps`, `Supervisor`, `GattOps`, `ApiSession`, `AdvertPath`, `NotifyRing`,
`LogRing`, `Control`, `GattTable`, `Codec`.

What is left of the system is the composition of `ConnectOps` and `GattOps`, so
that a link may change hands during a GATT request; its states are the product of
two modules that already take a minute each, so it would have to be a
coarser `ConnectOps` that is shown to be implemented by this one.

Proofs are left to that composition: each invariant and action property of the
modules there are is proved, and liveness is out of the provers' reach.
