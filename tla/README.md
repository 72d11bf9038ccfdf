# Formal models of the Ubertooth Windows host

TLA+ specifications of the parts of this repository whose correctness depends on
order, failure or concurrency: the firmware update path from the CLI down to the
bootloader, the transmission guard, the capture session, the reset command, the
receive path of libubertooth, and on the device the main program with its USB packet
queue and the receiver that follows Bluetooth LE connections. TLC checks them on
small instances, TLAPS proves what is proved for every instance. `PROJECT.json`
lists runs, mutants, the source lines behind each definition, findings, hazards and
theorems.

## The system

| Component | State it keeps | Operations | Interacts with |
|---|---|---|---|
| USB DFU bootloader (`firmware/bootloader`) | DFU state and status, `virginity`, flash, a RAM word surviving resets | DFU requests, flash write, boot decision, timeout | host over USB, application through the RAM word, IAP ROM |
| `ubertooth-dfu` (`host/ubertooth-tools`) | one sequential process: device handle, block number | find, claim, enter DFU mode, download, upload, detach, stop | bootloader by control transfers, exit code and text to its caller |
| Flash command (`core-usb/flashDevice.js`, `cli/index.js`) | the step of one async function | preflight, spawn, classify, poll for reconnect, recovery check | `ubertooth-dfu` as a child with a time limit, Windows device queries |
| Transmission runner (`cli/ubertoothExeRunner.js`) | `duty-cycle.json`, a running child | check, spawn, record | other CLI processes through the file |
| Capture session (`capture-export/liveBleInspector.js`) | `captureActive`, retry count, timers, children | start, retry, time limit, file and spawn errors, close | `ubertooth-btle` as a child, an output stream |
| libubertooth streaming (`ubertooth.c`, `ubertooth_fifo.c`) | ring, one bulk transfer, two flags, a poll thread | init, callback, pop, wait, stop | libusb, signals, device |
| libubertooth callbacks and control | AFH map, statistics; none | decode and print; one control transfer each | libbtbb; device |
| Guarded reset (`core-usb/resetDevice.js`) | the step of one async function | guards, dispatch, wait, probe, report | firmware by one control transfer, Windows device queries |
| Driver repair (`core-usb/driverRepair.js`) | none | remove and rescan | `pnputil` |
| Device discovery, read-only protocol, parsers | none | query and normalise | PowerShell |
| Error classification, CLI commands, rendering | none | ordered message patterns, text | all of the above |
| BLE scanner | listeners and timers around one promise | scan, follow | noble |
| Firmware modes and vendor requests (`bluetooth_rxtx.c`) | `mode`, `requested_mode`, `rx_tc`, the overflow status, radio settings | request handler, main loop, one routine per mode | USB queue, DMA and USB interrupts |
| Firmware USB queue (`ubertooth_usb.c`) | ring of 128 packets, two endpoint buffers | enqueue, dequeue, poll, keep alive | mode routines, host |
| LE connection following (`le_phy.c`, `queue.c`) | connection, connection event, buffer pool, packet queue, match registers of timer 1 | end of packet, lock, event open and timeout, packet handlers, connection update | DMA and timer interrupts against the main loop; the USB queue |
| Radio drivers, btbr firmware, common firmware | registers, schedules | - | hardware |
| libbtbb, libwdi, setup scripts, driver package | - | - | vendored or file staging |

What is hard about it, and what makes the parts correct:

* **Update path.** Answers get lost, handlers stall, IAP calls fail, power goes,
  the device leaves and re-enters the bus with another product id, a time limit
  kills the tool. The bootloader must survive everything, the tool must not
  report a partial image as a success, the command must always report.
* **Transmission guard.** A history file is read before and written after a
  child runs, by processes that know nothing of each other and may be killed.
  The guard must bound the air time of a window and must not lock the user out.
* **Capture session.** A busy flag, retries, per-attempt timers, and children
  that end after the call they belong to has settled.
* **Receive path.** Two threads share a ring, a pointer to a transfer and two
  flags without a lock; the callback runs in whichever thread handles events.

* **Firmware modes.** Requests are served by a poll inside the routine of the
  mode, or by an interrupt between any two of its steps, and are remembered in
  one variable that routines overwrite. Packets go through a ring whose slots
  are counted in before they are filled. Losses must show, STOP and RESET must
  take effect.
* **LE following.** Two interrupts and the main loop share four packet buffers,
  the enable register of a timer and the connection. Buffers must have one owner
  and none may be lost, the channel and the counters must keep in step with the
  events, and the receiver must come back to listening.

`PROJECT.json` lists the hazards at their lines, covered or not.

## Modules

| Module | Models | State and actions |
|---|---|---|
| `DfuBootloader` | dfu.cpp, dfu.h, flash.h, iap.cpp, bootloader.cpp | DFU states keep their numbers; one operator per request handler, `Request` is a transfer with its handler, `Main` the boot decision, `DfuTimeout` and `LeaveDfuMode` the loop of `run_bootloader`, `AppFlash`/`AppReset` the application's side. Flash content is kept per 256-byte block; `Writes` gives the outcomes of `Flash::write` including failed erases and torn writes. |
| `DfuTool` | ubertooth-dfu.c, composed with `DfuBootloader` (EXTENDS) | one action per control transfer; `Transfer` lets a transfer succeed, stall, or fail with or without having been handled; one device is on the bus |
| `DfuUpdate` | what ubertooth-dfu promises its user | the image, whether it is complete, a run that reads, downloads or has ended, and its warning; `DfuTool` implements it |
| `FlashCommand` | flashDevice.js and the flash block of index.js, composed with `DfuTool` (EXTENDS) | `Preflight`, `Spawn`, `Kill`, `Classify`, `Reconnect`, `Recovery`; a second Ubertooth comes and goes (`PlugOther`), and the tool may open it in place of ours (`OpenOther`), switch it to DFU mode (`SwitchOther`) or refuse to choose (`RefuseTwo`); of its work on that one only the outcome is modelled (`ClassifyAstray`) |
| `DutyCycle` | ubertoothExeRunner.js | one CLI process per member of `Process`; `Truncate` and `Fill` are the two visible steps of a file write; `Tick` is time; `aired` is a history variable holding the real air time |
| `CaptureSession` | liveBleInspector.js | one call per member of `Call`; each JavaScript turn is one action |
| `OneAtATime` | what `captureActive` is for | the calls with a session and the calls answered; `CaptureSession` implements it |
| `BulkStream` | ubertooth.c (streams, poll thread, stop), ubertooth_fifo.c | main thread `main`, event handler `event`, transfers `xfer`; a shared read or write that another thread can interleave with is a step of its own |
| `UbertoothFirmware` | bluetooth_rxtx.c (main loop, mode routines, request handler), ubertooth_usb.c | `at` is where the main program is, one action per routine step between two polls or interrupts; `handle_usb`, `UsbInterrupt`, `DmaInterrupt` as in the code; `count`, `missed` and `last` are history |
| `ResetCommand` | resetDevice.js, composed with `UbertoothFirmware` (EXTENDS) | the reset command as one more host tool: dispatch, wait, probe, report |
| `LeFollow` | le_phy.c, queue.c | one action per interrupt handler, since they have one priority; the main loop can be interrupted anywhere, and its read-modify-write of T1MCR is two actions unless `Atomic`; `seen` is history |
| `MCDfuBootloader`, `MCDfuTool`, `MCFlashCommand`, `MCDutyCycle` | TLC instances | the sets of blocks, lengths and option sets; the symmetry of the processes |
| `DfuBootloader_proofs`, `CaptureSession_proofs`, `UbertoothFirmware_proofs`, `FirmwareOrder_proofs`, `LeFollow_proofs`, `BulkStream_proofs`, `FirmwareUpdate_proofs`, `DutyCycle_proofs` | theorems | see below |

Operators named as bug variants in a comment are mutated forms of the operator
next to them; no specification uses them. They are what each property is tested
against: putting one in the place of the original violates the property that
`PROJECT.json` pairs with it.

## Runs

Runs that hold:

* `bootloader` (`MCDfuBootloader.cfg`): any host, any request and length. The
  blocks are both ends of the protected region, two blocks of one application
  sector, the first large sector and one past the end of flash; the lengths are
  the ones handlers tell apart. `BootloaderIntact`, `ErrorConsistent`,
  `FlashChangesOpenSession`; `DetachRunsApplication` and
  `TimeoutRunsApplication` under fairness.
* `dfu_tool` (`MCDfuTool.cfg`): an image of 17 blocks, one more than a sector,
  so a second erase happens in mid-download; lost transfers, power losses and a
  second run, each bounded by a constant. `QuietSuccessIsComplete`,
  `WritesErasedBlocks`, `ToolEnds`, and `ImplementsUpdate`: the tool over the
  bootloader implements `DfuUpdate`. An IAP copy that reports failure is left
  out here and in the flash run: flash.h ignores the result of the copy, so
  "complete" assumes that copies that run also write. The `bootloader` run
  and the proofs include it.
* `flash` (`MCFlashCommand.cfg`): the same instance, one run, under the command,
  with a second Ubertooth that is plugged in, out, or changes its mode at any
  time. `SuccessMeansUpdated`, `CommandReports`. The tool opens the first DFU
  device it meets (ubertooth-dfu.c:141), so `SuccessMeansUpdated` promises the
  whole image in our flash only when that was ours, and an untouched flash when it
  was the other one.
* `duty` (`MCDutyCycle.cfg`): two processes interleave every file access, and
  one may be killed anywhere; an output file may fail before the tool has ended,
  or after. Limit 2, window 3, transmissions of one unit, three runs, four units
  of time: enough for two transmissions to use up the limit, for the oldest to
  leave the window and a third to be admitted. `RollingBound` and
  `RefusedOverLimit` hold as long as no invocations overlapped and none was
  killed; `NoRefusalAfterRest` holds in any case. The processes are symmetric;
  only safety is checked, and no property names one.
* `capture` (`MCCaptureSession.cfg`): three calls, two retries. `OneCapture`,
  `TimedCaptureSettles`, and `ImplementsSessions`: calls implement `OneAtATime`.
* `stream` (`MCBulkStream.cfg`): a ring of 3 slots (two packets fill it, the
  pointers wrap), three packets, two streams, so the second begins with or
  without the transfer of the first. `ProcessesAccepted`,
  `AcceptedIsProcessed`, `SignalEnds`.
* `firmware` (`MCFirmware.cfg`, module `ResetCommand`): a ring of two slots,
  which one packet fills, two requests of the host's tools and the RESET of the
  reset command, at any point of the modes these requests reach: the stream, AFH,
  sniffing, promiscuous, slave, sweep and generic modes. START_HOPPING, TX_SYMBOLS
  and LED_SPECAN are modelled, and in the proofs, but not among the requests of the
  run. `InOrder`, `LossFlagged`, `WholePackets`; `StopObeyed` and `ResetObeyed`
  under fairness, both without the two places that hear no request (`Deaf`), and
  `ResetObeyed` without the LE routines, where `reset_swallowed` shows it fail. With
  one packet in the ring the run checks the order across ring and endpoint buffers;
  the order inside a longer ring is what `PacketsInOrder` and
  `InOrderWithResetCommand` prove.
* `le_follow` (`MCLeFollow.cfg`): two buffers and a queue of three slots, so a
  pool that runs dry and a queue that is as full as it gets; counters modulo two,
  one silent event permitted, the host stops and restarts the mode. `OneOwner`,
  `NoneLost`, `InStep`, `UpdateAtInstant`; `ComesToListen` and `GivesUp` under
  fairness. An update may name any instant, the one that has just passed included.
  T1MCR is written atomically here; `follow_race` and the proofs drop that.
  `ComesToListen` counts a crashed processor as the end: the second packet of an
  event leaves no current buffer when the pool is empty, and `change_channel`
  writes through it (le_phy.c:374-376, :514).

Runs that exhibit a disagreement between the code and what is said about it:

* `capture_busy`: one invalid option leaves `captureActive` set for good.
* `follow_race`: the main loop's `T1MCR |= TMCR_MR1I` can lose the enable bit an
  interrupt sets in between, and "restarts RX" (le_phy.c:298) then fails: nobody
  starts the receiver again.
* `promisc`: "once we see an AA 5 times, start following it": bt_generic_le ends
  with `cc2400_idle`, which resets the requested mode too, and the promiscuous
  mode ends where it should follow.
* `reset_swallowed`: a RESET that the interrupt serves while an LE routine ends is
  overwritten in the same way, and the reset command takes the device it sees at
  its probe, which never left, for the one that has reappeared.

Known from the models and not kept as runs:

* Update: a stalled DNLOAD prints a warning and goes on, and the command reports
  a completed transfer (ubertooth-dfu.c:356); with the DFU jumper left closed the
  bootloader's timeout resets into DFU mode again, where its README speaks of the
  application; a second Ubertooth plugged in during the reconnect answers for the
  flashed one; one plugged in after the preflight may itself be the one the tool
  flashes, and success is then reported although ours still has its old image; a
  FLASH request that a later one overwrites leaves its marker in RAM, and the next
  reset enters the bootloader.
* Transmission guard: "60 seconds per rolling hour" (README.md:29) limits what
  has been recorded before a transmission, not what the transmission adds
  (ubertoothExeRunner.js:78); a killed process leaves no record (:151).
* Capture: after an output file error the next capture's child may start before
  the killed one has ended.
* libubertooth: `rx_afh` starts its second stream with the first one's transfer in
  flight (ubertooth.c:357), and a signal between the two streams is lost, since
  the stop flag is cleared (:404).
* Firmware: `rx_tc` is cleared after a poll (bluetooth_rxtx.c:1418), so transfers
  completed during it are lost without a flag; two promiscuous callbacks enqueue
  with the USB interrupt enabled (:2115, :2313); `cc2400_idle` overwrites the
  FLASH request as it does RESET; MODE_AFH leaves `bt_stream_rx` at once; in
  `rx_generic` the test `&& 0x0400` is always true for a register that is not
  zero, and the packet mode it leads to looks at the mode no more; `msleep`
  compares a 24-bit clock with a sum that can exceed 24 bits; `specan` leaves
  `mode` as it was; the announcement of an address is dropped by the
  `usb_queue_init` of the routine that follows it; packets of an earlier mode stay
  in the endpoint buffers.
* LE following: the match of the wait for a buffer is never disabled and takes a
  second buffer when the counter wraps or restarts, or leaves NULL in place of the
  current one when the pool is empty (le_phy.c:692); the second packet of an event
  without a buffer writes through NULL (`TODO handle NULL`, le_phy.c:375); a
  restart of the mode and a lost connection leave a pending update and a hop
  behind; an update whose instant was missed waits for the counter to wrap.

Deadlock is checked in `bootloader`. It is switched off elsewhere, where the
system really stops: the tool and the command exit, calls settle, a stream
closes, the clock of `DutyCycle` ends at its bound, a firmware has overslept with
no request left, a crashed processor stands.

Bounds: `MaxFaults`, `MaxRuns`, `MaxLosses` (DfuTool), `MaxTx`, `MaxTime`,
`MaxRuns`, `MaxKills` (DutyCycle), `maxRetries` (a constant of the code,
CaptureSession), `FIFO_SIZE` (1000000 in the code), `Streams`, `MaxSent`
(BulkStream), `MaxRequests`, `Slots` (128 in the code) and, derived from it,
`Window`, the numbers a packet can have (UbertoothFirmware),
`LE_BUFFER_POOL_SIZE` (4), `FIFOSIZE` (10), `Wrap` (2^16 and 37) and `MaxQuiet`
(LeFollow). Sizes, moduli and the supervision timeout are as in the code but
smaller; the theorems below drop the smallness. All bounds are in guards or in
the data, none is a state constraint.

## Refinements

* `ImplementsUpdate`: `DfuTool` implements `DfuUpdate`. The image is the content
  of its blocks in the flash of the bootloader, whatever wrote them. What it adds
  to `QuietSuccessIsComplete`: only a run told to download touches the image, a
  warning stands to the end of its run, and a run ends once.
* `ImplementsSessions`: `CaptureSession` implements `OneAtATime`, a session being
  a call that runs. `OneSession` proves the same for every number of calls.

## Fairness

* `DfuBootloader!FairSpec`: the CPU goes on executing (boot, main loop, its
  timeout, the application's reset). Nothing is assumed of host or power.
* `FairToolSpec`: the tool's process and the device run. Transfers fail at most
  `MaxFaults` times. The user and the power supply are not fair.
* `FlashSpec`: node's event loop, the `execFile` timer, the tool on whichever device
  it works, and our device. The second Ubertooth is not fair.
* `CaptureSession!Spec`: timers fire, and a child that has been told to end
  ends. A child that has not may run for ever. An output file that is being ended
  is written or fails.
* `UbertoothFirmware!Fairness`: the processor runs, a sweep ends, the radio clocks
  symbols for as long as it is on, an enabled interrupt is taken. Nothing is
  assumed of the host, its reads included. `ResetSpec` adds that the reset
  command's own timers fire.
* `LeFollow!Fairness`: a packet that has begun ends (the receiver counts bytes),
  interrupts are served, the counter of the timer goes round, the main loop runs.
  Nothing is assumed of the air or of the host.
* `BulkStream!Spec`: both threads run. Strong fairness of `CmdStop` stands for
  libusb's time limits: the control transfer has one second, the bulk transfer
  it shares the event loop with times out after twenty.

## Proofs

`DfuBootloader_proofs`, for every set of blocks, payloads, lengths and IAP
failures satisfying the module's assumptions: `TypeCorrect` (`TypeOK`),
`BootloaderProtected` (`BootloaderIntact`), `ErrorsConsistent`
(`ErrorConsistent`), `FlashOnlyInSession` (`FlashChangesOpenSession`). The
inductive invariant is the conjunction of the three invariants; none of them is
inductive alone, since what a handler writes depends on the state being one the
machine can be in. The arithmetic of the protection is the lemma
`ProtectedSector`: no sector holds both a permitted block and one of the image, so
the erase of a permitted write spares the bootloader. `WritesSpare` lifts it to
every outcome of `Flash::write`, `HandlerInv` to every request.

`CaptureSession_proofs`, for any number of calls and retries: `TypeCorrect`
(`CaptureTypeOK`), `CapturesApart` (`OneCapture`) and `OneSession` (the
refinement of `OneAtATime`). `OneCapture` is strengthened by `Apart`: the flag
guards every running call, at most one runs, a child outlives its call only after
a file error, a call that ends its file has no child any more, and a call has no
outcome before it settles.

`UbertoothFirmware_proofs`, for every size of the ring and any requests:
`TypeCorrect` (`FwTypeOK`), `PacketsWhole` (`WholePackets`), `LossesFlagged`
(`LossFlagged`), and `WithResetCommand`, the three with the reset command among
the host's tools, which is the specification the `firmware` run checks. The
arithmetic of the ring (`IndexSum`, `InQueue`) gives what `usb_enqueue` and the
taking out of packets do to the slots in use (`Enqueued`, `Dequeued`). None of the
three is inductive. `PacketsWhole` needs that the only blank packet is in the slot
that is open (`Blanks(queue) \subseteq {slot}`) and that a slot is open only
where a routine fills it (`Open`); `LossesFlagged` needs that a loss is
remembered, in the status or in a second completed transfer, until a packet
carries it (`Remembered`).

`FirmwareOrder_proofs`, on top of it: `PacketsInOrder` (`InOrder`) and
`InOrderWithResetCommand`, the same under the reset command. The numbers along
`Unread` are no sum over the ring but a relation between neighbours (`Chained`),
and the argument follows the sequence `ep \o Contents(queue)` through the steps:
`enqueue` appends to it, a poll moves its parts about and leaves it as it is
(`ContentsDequeued`), the host takes its head, `usb_queue_init` cuts its end off,
POLL takes out a packet from the middle and starts a run behind it
(`TakeOutContents`). The strengthening is `Counting`: where packets are numbered,
`count` is the number after the last packet, or the run has enqueued none and the
ring is empty; so a full ring never begins a run (`FullUsed`).

`LeFollow_proofs`, for every pool smaller than the queue, every modulus and
supervision timeout, with atomic writes of T1MCR or not: `TypeCorrect` (`LeTypeOK`),
`BuffersApart` (`OneOwner`), `BuffersKept` (`NoneLost`), `EventsInStep` (`InStep`)
and `UpdatesAtInstant` (`UpdateAtInstant`). The ownership of buffers is not
inductive by itself: `Places`, `Held` and `Waiting` say that a packet is in hand
while it is handled and only then, that a packet on its way has a buffer unless the
processor has crashed, and that the wait for a buffer is on only when there is no
current one. That `queue_insert` never drops a packet is the pigeonhole lemma
`QueueRoom`: the queue holds distinct buffers other than the current one. `InStep`
is strengthened by `Phase`, which relates the counter, the channel and the match
register to the phase of the event (tuned, opened, waiting for an update's window).
`UpdatesAtInstant` follows step by step: no step but the two that tune an event ends
a pending update (`UpdateStays`), and these apply it at its instant and at no other
(`UpdateTuned`), since the counter that `Updating` compares with the instant is the
number of the event.

`BulkStream_proofs`, for every size of the ring, any streams and packets:
`TypeCorrect` (`StreamTypeOK`) and `PacketsProcessed` (`ProcessesAccepted`); and
`PacketsProcessedByOneStream`, which drops the exception of a stream that begins
with a transfer out, for the tools that stream once (`Streams = 1`). The property
says nothing of where the threads are, so the invariant must: while there is a
device, at most one transfer is out or in its callback, it is `rx_xfer`, and the
bus fills the slot at `write_ptr` (`Lone`, `Plugged`); that slot keeps what
arrived until `fifo_inc_write_ptr` has counted it in (`Arrived`); the slots from
`read_ptr` up to it hold what was accepted and not yet taken out, and the main
thread copies from the slot just behind `read_ptr`, which the writer cannot reach
in a ring that has not been full (`InRing`, `Apart`). The arithmetic of the ring is
`SlotFacts`.

`FirmwareUpdate_proofs`, its first part about `DfuTool`, for every image, option set
and number of faults, runs and power losses: `ToolTypeCorrect` (`ToolTypeOK`),
`ToolSparesBootloader` (`BootloaderIntact`), `ErasedBlocksWritten`
(`WritesErasedBlocks`), `QuietSuccess` (`QuietSuccessIsComplete`) and
`UpdateImplemented` (the refinement of `DfuUpdate`). It builds on the device's
invariant, which every transfer keeps (`TransferInv`), and assumes what `DfuTool`
assumes, `RequestAssumption` among it: the blocks and lengths the tool sends are
among those the device is modelled with. The invariant follows a download block by
block. `Progress`: the rest of the sector the current block continues is erased, as
long as the device accepts blocks; it speaks of the device's state alone, since an
error there stops every further block, whether or not the tool has noticed. `Image`:
without a warning, the blocks before the current one are the file's, and all of them
once the download is `Over`. `Position` ties the place of the tool to the block, the
handle and the options. The arithmetic of sectors of two sizes is `FirstOfSector`
and `NextOfSector`. `Image`, and with it `QuietSuccess` and `UpdateImplemented`,
assumes that no IAP copy fails (`CopiesSucceed`): flash.h drops the copy's result,
so a failed copy looks like a written block.

Its second part, about `FlashCommand`: `FlashTypeCorrect` (`FlashTypeOK`),
`FlashSparesBootloader` and `ReportedSuccess` (`SuccessMeansUpdated`, again with
`CopiesSucceed`). The tool's invariant survives the end of the tool at any
point and the searches that find another device or none (`EndInv`), and the steps of
device and power (`BelowKeeps`). `Phase` says what each step of the command may rely
on: our flash is as it was until the child has opened our device (`ToolKeeps`) and
stays so once it has opened the other one; otherwise the command waits for the
device only after a tool has ended with the image complete, and while no tool runs
nothing writes it.

`DutyCycle_proofs`, for any number of terminals, runs and kills, every limit, window
and length of a transmission: `DutyTypesHold` (`DutyTypeOK`), `LimitHoldsAtStart`
(`RefusedOverLimit`), `HourIsBounded` (`RollingBound`) and `RestIsEnough`
(`NoRefusalAfterRest`). Nothing relates the limit to the window. The inductive
invariant has two parts. `Ground` holds whatever happens: no entry, in the file or
in hand, is younger than the latest start, which gives `RestIsEnough`. `Undisturbed`
holds until invocations overlap or one is killed: every recent unit on the air is
covered by the list, where the list is in the file, in the hands of the process that
has emptied the file, or about to be extended by the transmission under way
(`Account`); so what the check adds up is at least the air time, and it stays so
until the tool starts (`Cleared`). `HourIsBounded` goes one step on: `Latest(s)`
says that when the latest transmission started, at s, those still in the window kept
the limit. The units that the window holds besides those are mapped one to one into
the units the latest transmission may last: its own as they are, those of an entry
that has left the list a window later (`Overshoot`). What the filter and the sum
over the list give is proved by induction on its length, by way of the least
counterexample (`LeastNumber`, `AllSubsets`, `FoldExists`, `UsageIs`, `KeptIs`): a
list uses at least as many units as it covers (`UsageBounds`), and the filter drops
no entry that covers a recent unit (`KeptCovers`).

Only model-checked: liveness, which rests on fairness and ENABLED and is out of the
prover's reach. These are `DetachRunsApplication`,
`TimeoutRunsApplication`, `ToolEnds`, `CommandReports`,
`TimedCaptureSettles`, `AcceptedIsProcessed`, `SignalEnds`, `StopObeyed`,
`ResetObeyed`, `ComesToListen` and `GivesUp`. The runs that find a violation
have no theorem.

## Not modelled

Discovery, read-only information, parsers, error classification, rendering and
scripts are stateless: one query or one file and a translation of it. The driver
repair is two `pnputil` calls in a row. The BLE scanner is listeners and timers
around the events of the noble library, whose order is not in this repository;
no other package uses it. Radio drivers program registers. btbr is another
firmware this repository's tools do not flash. libbtbb, libwdi and LPCUSB are
third-party, and make up most of the lines of the repository.

Within modelled components:

* Update: signing and verifying DFU files (`-s`, `-w`).
* libubertooth: streaming from a file, device selection, the text of messages,
  and torn copies in `fifo_pop` (a copy yields the old or the new packet, never a
  mixture).
* Reset: the guards before the dispatch, which read Windows and change nothing.
* Firmware: the keep-alive packet, the modes for tests and other radios (TX_TEST,
  RANGE_TEST, REPEATER, EGO, XMAS), the requests FLASH and SET_ISP (the
  bootloader's side of FLASH is in `DfuBootloader`), requests that set or read a
  value, hopping, jamming, and the data of packets.
* LE following: the channel map and its update, whitening, signal strengths, the
  registers of the radio; `usb_enqueue_le`, which drops a packet silently when
  the USB queue is full.

## Plan

Done, in this order: `DfuBootloader` with proofs; `DfuTool`; `FlashCommand`;
`DutyCycle`; `CaptureSession` with proofs; `BulkStream`; `UbertoothFirmware`,
`ResetCommand`; `LeFollow` with proofs; the abstract `DfuUpdate` and `OneAtATime`;
the proofs about `UbertoothFirmware`, the order of the packets last; about
`BulkStream`; about `DfuTool`; about `FlashCommand`;
about `DutyCycle`.

Next: `LeFollow` under the main program of `UbertoothFirmware`, in place of its mode
BT_FOLLOW_LE, with the drop of `usb_enqueue_le`.
