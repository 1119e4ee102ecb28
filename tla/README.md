# Verification of the usb-proxy appliance

TLA+ models of meta-usbproxy: the boot chain of an Orange Pi Zero appliance, the
kernel patches its USB data path and clocks depend on, the scripts that run on
it, and the host-side tools that flash and test it. TLC checks every module on
small instances; TLAPS proves the main safety results for all values of the
constants. Line numbers below refer to this repository.

## 1. The system

| Part | Source | State it keeps | Operations |
|---|---|---|---|
| SPL and reboot protocol | u-boot patches 0003, 0004, `usbproxy-boot.cmd` | RTC registers GP0 (flash request) and GP1 (Falcon attempt, FEL request), watchdog | choose FEL, U-Boot proper or Falcon; mark the attempt; arm the watchdog; clear the request; DFU |
| Userspace end of it | `power-tune boot`, `usb-flash-mode`, inittab | the same registers | confirm the boot, ask for DFU |
| DRAM detection | u-boot patch 0001 | rank parameters, controller configuration, sixteen saved words | three passes: configure, write a pattern, look for its alias, restore |
| MUSB gadget RX | kernel patch 0001 | RXPKTRDY, the interrupt, the request queue | requeue a read and service a packet that is already there |
| EHCI handoff | kernel patch 0012 | retry, reclaim and episode counters, PORT_OWNER | retry the reset, hand the port to the companion, take it back later |
| Bus clocks | kernel patch 0006 | mode, three clock rates, a mutex | mode_store, per-clock change, rollback |
| power-tune | `power-tune` | spare core, frequency ceiling, bus mode | wind_up, wind_down, from the boot run and from usb-proxy's hook |
| Launcher | `usb-proxy-run`, inittab | two stamp files | wait for a controller, debounce, hand over by exec, respawn |
| Upload | `ub_loady` in `applib.py` | port rate, block number, retries | Y-modem with a rate switched up and back, crc32 of the RAM |
| Card flashing | `appliance.py flash`, `flash --usb`, `bm flash-usb`; `uboot-flash.py` | nothing but the card itself | compare, write, read back, reset |
| Console sessions | `lx_run`, `serial-upload.py`, `swap`, `check` | sentinel numbers, chunk count, rows of a report | ask, wait, grade |
| Boots that are watched | `check --reboot`, `flash`, `boot-ram`, `uboot-flash.py --boot` | the text of the boot, rows of a report | catch the prompt, reset or bootm, grade the text, then the rows of `check` |
| Boot soak | `boot-soak.py` | results so far, crash records | kick, watch, grade, save the records |
| Bare-metal tools | `bm-soak.py`, `cycle-bench.py`, `bm check`, `bm run`, `mac-usb-unwedge.py` | rounds passed, files on the watch and on the Mac, verdict of each phase | reboot, push and pull at once, fastboot cycle, idle, grade `status`, look for adb, reset a wedged port |

They meet in few places. The boot stages talk to the *next* boot through GP0, GP1
and the card. The hosts' tools talk to the board through one serial line or DFU
and know it only by text. power-tune and the bus-clock driver share sysfs files.
The launcher and usb-proxy share two stamps and the gadget.

What makes it hard: a reset between any two steps; registers that survive a warm
reset but not a cold one; a packet arriving between a register read and the
decision taken on it; a device that goes between the read and the write of its port
register; power cut in the middle of a card write; an answer that comes after its question was given up;
a boot judged from text that may belong to another boot. `PROJECT.json` lists
each such hazard at its line with the property aimed at it.

What correctness means for each part:

* boot chain: no loop on a dying kernel, no loop in DFU, a hang ends in a reset from
  where the watchdog is armed, a good kernel copy is found again, a request is served;
* DRAM: the size is the chip's, and what was in the memory stays there;
* MUSB: no acknowledged packet is lost, doubled or stranded;
* EHCI: no port without a controller, no device torn to and fro for ever, high
  speed for a watch that is ready in time;
* clocks and power-tune: the reported mode is the real one, no write hangs, the
  board follows the traffic, whatever else writes in between;
* launcher: the gadget is off long enough, a device that stays is served;
* upload and flashing: success means the bytes are there; in between a kernel and a
  device tree to boot are always left, and an SPL to start them except while that
  is written itself;
* sessions and soak: a PASS is true of the board;
* bare-metal tools: transfers and fastboot cycles that passed took place, in that round.

## 2. Modules

| Module | What it is |
|---|---|
| `BootPromise` | abstract: a fast boot leaves a debt that only a confirmed userspace, a slow boot or a loss of power settles |
| `BootChain` | the stages of a boot, both registers, the watchdog, kernel copies, resets, catches; implements `BootPromise` |
| `BootChainProofs` | its theorems |
| `ReliableChannel` | abstract: what is delivered is a prefix of what was sent, in order |
| `MusbRx` | `musb_ep_restart` against the FIFO, with the RXCSR read and what follows it as two steps; implements `ReliableChannel` |
| `DramDetect`, `DramDetectProofs` | the three detection passes and their theorems |
| `EhciHandoff` | patched EHCI hub control and the delayed reclaim work |
| `KernelUsbProofs` | theorems of both kernel USB drivers, `MusbRx` (whose specification is therefore called `RxSpec`) and `EhciHandoff` |
| `BusClocks` | the bus-clock driver, one step per clock, with a specification of its own (`ClockSpec`) |
| `PowerTune` | extends `BusClocks` with power-tune's runs and usb-proxy's hooks; implements `ClockSpec` |
| `PowerTuneProofs` | theorems of both |
| `CardFlash` | the scripts that write the card |
| `CardFlashProofs` | its theorems |
| `Launcher` | `usb-proxy-run` and the life of the gadget |
| `LauncherProofs` | its theorems |
| `Loady` | the upload, with U-Boot's receiver as environment |
| `LoadyProofs` | its theorems |
| `Console` | a shell behind a serial line, and the two ways scripts ask it |
| `Sessions` | extends `Console` with swap, check, the watched boots and the boot soak |
| `RigSoak` | the tools for the bare-metal firmware, over a board, a Mac port and a watch that may fail |
| `HostTools` | composes `Sessions` and `RigSoak`: the Mac runs one tool at a time |
| `HostToolsProofs` | theorems of both |
| `MC...` | instances for TLC; each says in a comment why its bounds reach the interesting cases |

Conventions: an action is named for the function or the branch it translates;
history variables are marked `history` where they are declared and no guard reads
them, but for two that bound something as well: `mishap` in `Loady` (at most one cancel,
and an early ESC only after a mishap) and `missed` in `DramDetect` (at most `MaxMisses`);
budgets (`MaxFaults`, `MaxNoise`, ...) bound faults and operator
actions. An operator after the comment "Mutant" is a plausible bug that the
property it is paired with (`PROJECT.json`, "mutants") must expose.

### State and code

**BootChain.** `stage` is what the CPU runs, from `spl` to `up` (userspace has
confirmed). `gp0`, `gp1` are the registers of patch 0003's comment table; `wdt` the
watchdog; `card` what each of the two kernel copies does when started: boots,
panics, has no init, or is no image. `SplFel` is `board_init_f` of patch 0004,
`SplToUBoot` and `SplMark` with `SplArm` the two returns of `spl_start_uboot`,
`FalconFallThrough` the SPL's own fallback when the raw region is no kernel.
`ClearRequest` precedes DFU as in `usbproxy-boot.cmd`. `FalconBootOk` is power-tune's
`falcon_boot_ok`. `AskReboot`, `CatchOverUsb` and `PromptReset` are the ways
`ub_catch_prompt` reboots. `Hang`, `Panic` and `PowerCycle` may come at any stage.

**DramDetect.** `rank` is `struct rank_para`, `cfg` what `mctl_set_cr` last
configured. Offsets are powers of two, so a probe is the number of an address
bit; the external part says which field such a bit falls in under the current
configuration and that the chip drops bits it does not have. `ProbeMissed` is an
alias that goes unseen, the failure the patch was written for.

**MusbRx.** `acked` is what the host has seen acknowledged and `stream` what reads
were given; the host forgets a packet once it is acknowledged. `Restart` reads
RXPKTRDY, `EndRestart` acts on it, and a packet or an interrupt may come in
between.

**EhciHandoff.** The fields of `struct ehci_hcd` the patch adds. `ReclaimRead` and
`ReclaimWrite` are the read and the write of the port register in the reclaim. The
driver's lock is held across both and keeps its own code out; the cable is not kept
out, so unplugs fall between them. The stock hub driver is external and answers a connect change
with at most `HubTries` resets.

**BusClocks and PowerTune.** `step` walks the clocks in the driver's order, forward
in `SetIdle` and backward in `Undo`. A clock change succeeds, fails, or reports
success on a rounded rate. `todo[w]` is what a power-tune run has still to write.

**CardFlash.** `card` holds a build, `old` or `torn` for each of five copies; a copy
is torn from the first byte written to the last. `ram` is what lies at READBACK:
U-Boot's raw reads are not checked, so a failed one leaves the crc of what was
there. `link` is the script: `uart`, `usb`, the one-file `tool` and `fw`
(`bm flash-usb`); the last two write at once without comparing. `mixed` records
how a run departed from the one that was interrupted before it (another build or
no comparison, the other link, a file to leave DFU with that was not
written, or a rerun without `--uboot` and `--auto-uboot` over a torn SPL); the properties
name which of these they allow. Both ways up, `Falcon` and `Fallback`, start from the one
SPL on the card, which `ub_spl_write` and DFU write in place: `SplWindow` is the time it is
torn, `KernelLeft` what has to be there also then. A bad SPL is a torn one in the model: one
that was written as it is meant to be and does not work is another matter. For `bm
flash-usb` `Answers` takes it that a firmware written badly never shows its prompt.

**Launcher.** Time moves in ticks; `date +%s` and `stat -c %Y` are the tick divided
by `TicksPerSecond`. `pc` is the line of the script, and a kill may come at any.

**Loady.** `down` and `up` are the line in each direction; noise damages what is on
it. The script's timeouts exceed U-Boot's, so they fire only when nothing is left
to come, unless the Mac stalls, which is counted in `mishap`.

**Console and Sessions.** `typed` and `wire` are the lines the shell has still to run
and the answers nobody has read. A timeout leaves its line there. In a soak
`Watched` relates what the text shows to what the board did: a reboot typed at a
login prompt brings only the prompt, a hung boot and its successor share one text.
`BootText` does the same for the boots that are watched once: from a reset the SPL's lines are
part of the text, from a bootm only if the board hung and was reset, and then
the kernel that runs is the card's.

**RigSoak.** `todo` is the list of phases, `at` the step of the tool, `seen` what the
answers of this round said, `xfer` the two transfers of `soak_concurrent`, which
begin and end in any order, and `files` what they leave on the watch and on the Mac.
`rig` and `watch` are the board, the Mac's port and the watch. They move on their
own: the firmware dies and comes back, the watch resets, and whatever enumerates may
wedge the port until `Unwedge`. `deed` records what really took place in a round;
`hollow` what a round that was counted as passed did not do. A command fails when
nothing answers, and at the price of a trouble when something does (`Fails`).

## 3. Runs

| Run | Question | Bounds |
|---|---|---|
| `boot_chain` | does the chain never loop, stay watched, recover, serve requests and keep `BootPromise`? | 3 faults and 3 operator actions: a request, a bad write and a catch, each meeting a fault |
| `boot_shell_catch` | does a catch from a shell end at the prompt? (violated) | the same |
| `dram` | is the size right for every chip? | the code's own ranges; 3 unseen aliases |
| `musb_rx` | is the endpoint a reliable channel, and does it keep moving? | 5 packets, requests of 2: each phase of a request is met twice |
| `ehci_handoff` | does every port end up with the right controller, with bounded reclaims? | the driver's 4, 4 and the hub's 5; 3 cable actions, so a replug falls into an episode |
| `power_tune` | honest mode, returning writes, hooks that follow the traffic and undo what runs mixed into theirs | 3 writers, 2 clock errors (a change and its rollback), 1 run by hand |
| `flash` | a way up at every instant but the SPL's own; success means flashed | 2 builds, 3 runs, 2 power cuts, 1 bad write, 1 failed read: an interrupted run, its interrupted rerun and one more |
| `flash_stale` | is a raw region verified even when a read fails? (violated) | the same |
| `launcher` | debounce, first instance, service | 4 ticks a second, 3 kills |
| `loady` | does returning mean loaded? | 4 blocks numbered modulo 3 so numbers wrap, 3 attempts, 3 hits |
| `sessions` | are answers, swaps, rows, boots, soaks, transfers and fastboot cycles true, whichever tool runs? | 2 chunks, 2 late answers, 2 runs, 2 records, 2 boots; for the bare-metal tools 3 rounds and 3 troubles, so that what one round left meets a failure in each half of a later one |
| `soak_lost` | is a record saved before it is cleared? (violated) | the same |

The bounds cap budgets only; no protocol decision depends on one. They are chosen
so that a fault can hit both a step and the recovery from it. A mutant of each
checked property confirms that the case arises within them.

Symmetry is used for interchangeable builds (`flash`) and sentinel numbers
(`sessions`), in runs without liveness. Deadlock is not checked where the system
may rest: an idle board, a settled port, no run left. `power_tune`, `sessions`
and `launcher` check it.

### Fairness

Boot stages, the watchdog and a script that is spamming for the prompt are weakly
fair: they are straight-line code on their own CPU, or hardware. The operator, the
faults and power are not. In `MusbRx` the interrupt, the restart path and the
reader thread (which queues its next read when the last one completes) are fair, the
host is not. In `EhciHandoff` the hub thread and the work queue are fair, cable and
watch are not. In `PowerTune` the runs and hooks are weakly fair, and taking
the driver's mutex is strongly fair: kernel mutexes hand over to waiters. In
`Launcher` time, init, the script and the controller's probe are fair; kills are
not. No liveness is stated for `CardFlash`, `Loady`, `Sessions` or `DramDetect`:
their scripts may be given up at any time, or simply end.

### What the violated runs show

* `boot_shell_catch`: `ub_catch_prompt` types `reset` or `reboot -f` without setting
  GP1, and since Falcon the SPL looks at GP0 and GP1 only. The board boots the raw
  kernel and the key is never read. Over USB the script does set GP1.
* `flash_stale`: `ub_raw_crc` and `ub_raw_write` ignore the answer to `mmc read`. When it
  fails, READBACK still holds the FAT copy of the same file, and the crc of that
  is taken for the raw region's.
* `soak_lost`: `save_pstore` turns a `cat` without an answer into an empty text and then
  removes every record.

### Further counterexamples

These are stated in the modules and have no run of their own; naming one in the
cfg of the module's passing run (as INVARIANT, or PROPERTY for the action
properties) reproduces it.

* `BootChain!HangIsCovered`: a hang between the SPL's choice of U-Boot proper and
  U-Boot's own watchdog start is not reset. `Parked` excludes it from `Recovers`, and with
  it a hang between the mark of a Falcon attempt and the arming one line later, from
  which only a loss of power helps.
* `BootChain!EarlyCatchWorks`: a USB catch that begins before power-tune's boot step has run
  loses its request when the step clears GP1 (`applib.py:214`).
* `EhciHandoff!ReplugEndsEpisode`: the mark for "our own connect change" can be used up by
  a replug, so the replug does not end the episode.
* `BusClocks!ActiveIsExact`: writing `active` returns success without touching clocks
  that an earlier failed rollback left elsewhere.
* `CardFlash!AnyLinkRepairs`: a flash over the UART that tore the raw kernel is repaired by
  a rerun over the UART. A rerun over USB writes the FAT device tree before it
  comes to the raw kernel, and a power cut there leaves no way up.
* `CardFlash!AlwaysAWayUp`: the SPL is written in place; "the one write that can brick the
  card's boot path" (`applib.py:548-549`).
* `CardFlash!UsbRepairsSpl`: after a bad write of the SPL, `flash --usb` stops and asks for
  a rerun with `--uboot` and no loss of power (`appliance.py:626`). A rerun without it prints a
  note that the SPL differs, flashes the rest, ends well and resets the board into nothing.
* `CardFlash!VehicleIsHarmless`: the write of `boot.scr` that ends DFU is not read back
  (`appliance.py:677`, `689`). If it went wrong `flash --usb` still ends well, and the
  next build starts with a board whose fallback is already broken.
* `Launcher!StaysDetached`: both times are cut to whole seconds (`usb-proxy-run:89-91`), so
  the hold can be one tick when a second boundary falls into it.
* `Loady!RerunReachesPrompt`: after a failed upload the console may be at a rate the next
  run does not try.
* `Sessions!PstoreRowIsTrue`: silence counts as no crash record.
* `Sessions!HangsAreCounted`: a boot that hangs and is reset by the watchdog is graded, with
  its successor, as one good boot.
* `Sessions!FalconRowIsTrue`: for the same reason the row "SPL booted the kernel directly" may
  be of a boot that hung, while the board came up by U-Boot proper. `PassedMeansBooted`
  therefore claims the path and the size only of boots without a hang.
* `Sessions!RamBootRan`: `uboot-flash.py --boot` says "RAM boot reached login" when the kernel in
  RAM hung and the card's came up. `boot-ram` is told apart by its rows on the image
  (`PassedMeansBooted`).
* `RigSoak!RebootsTookPlace`: `soak_reboots` does not look at the answer to `reboot`; one that
  was not heard is followed by a check of a board that never went down.
* `RigSoak!BackFromImage`: with `--boot-image`, adb may be answered by the system that is just
  going down (`bm-soak.py:243`, `247`).
* `RigSoak!RowIsWritten`: `fetch_trace` ends in an exception if the log does not come
  (`cycle-bench.py:91-92`), before the row of the finished runs is written.

Observed while reading and visible in the models without a property: the
`respawned` row passes when the count before the kill did not come; K0 carries no
number, so a late K0 confirms the next chunk (the md5 in `Install` catches it); `bm flash-usb` and `flash --usb` write the file they
leave DFU with once more and do not read it back (`appliance.py:846`, `675`).

`FollowsTraffic` asks that the hook has the last word: a run by hand after the last hook
leaves the board as the hand asked.

`PowerTune!SpareCoreIsFast` and the type invariants of `EhciHandoff`, `Launcher` and
`PowerTune` hold and have no run because they are proved (section 4).

## 4. Proofs

All theorems are about the safety specification and hold for every value of the
constants under the named assumptions of the modules, which only say that bounds
are naturals, ranges are ordered, a request takes at least one packet, an upload has a
chunk and a soak a boot, block numbers wrap at three or more (at 256 in the code), and
the patched driver counts fewer tries than the hub driver makes.

**BootChainProofs.** `Typing` first. `AttemptIsOnRecord` (an unproven Falcon attempt is
in GP1) is not inductive: at `up` a FEL request overwrites GP1 (`RequestFel`), which is
harmless only because `up` implies that no attempt is unproven. `MarkInv` adds
exactly that, and `AttemptOnRecord`, `FalconDoesNotLoop` (`NoFalconLoop`: no second attempt on
top of an unconfirmed one) and the refinement follow from it. `RequestInv` ties the
history of a flash request to GP0 as an equivalence, which makes `DfuDoesNotLoop` a
one-step argument. `WatchdogCovers` is inductive together with typing. `KeepsThePromise`
maps `stage` to a phase and `unproven` to the debt: every step is a step of
`BootPromise` or a stutter. A Falcon start needs `~debt`, which is
`AttemptIsOnRecord` read backwards: with an attempt on record the SPL does not
choose Falcon. `UsbCatchEndsAtPrompt` needs where a catch is on its way (`CatchOnItsWay`):
as long as nothing broke, the board is rebooting, in the SPL or in U-Boot, and until
the SPL has looked GP1 still holds the word the catch wrote, because power-tune's boot
step, the only other writer, is over by then.

**KernelUsbProofs: the RX path.** The invariant joins typing with `NothingLost`: reads were given all
that was acknowledged, but for the packet in the FIFO. `NothingIsForgotten` adds
that a pending packet with room for it has an interrupt or a restart on its way, and
`ImplementsChannel` maps acknowledged and delivered packets to `ReliableChannel`.

**KernelUsbProofs: the handoff.** `NoDeadPort` needs the two counters of a reset related: the hub
driver has reset the port at most once more than the driver has counted (`InStep`),
so with fewer tries than the hub driver has resets, the handoff comes before the
hub driver gives up. `Served` carries this through the time between the reclaim's read
and its write of the register. `ReclaimsPerVisit` counts what the code does not: `VisitInv` says that the driver's
own count may fall behind the visit's only when no further handoff can come in that
visit, which is why an expired episode grants a device no further reclaims.

**LauncherProofs.** `OffAcrossASecond` has to survive a kill at any line, so the
invariant `IInv` ties the stamp to the clock at every one of them: while the gadget is
off, the seconds the clock has moved on since (`crossed`) are at least those the
stamp is old, and the stamp is gone by the time of exec. The
sleep is the difficult step: `wake` counts ticks and the stamps count seconds, so
`OffLongEnough` rests on lemmas about ticks cut to seconds. `SettledOrFirst` follows from
the conjunct that whoever is past the debounce is first since boot or waits the
full settle time. Both hold for any tick rate, `MIN_OFF_S` and `SETTLE_MS`, where the run
has the script's own.

**PowerTuneProofs.** `UsesTheDriver` is a refinement without a mapping: every step of
power-tune is a step of `ClockSpec` or leaves the driver alone, so what is proved of
the driver holds under power-tune. `ModeIsHonest` is not inductive: the mode is shown
long after the clocks began to move. `ClockInv` adds who holds the mutex (`Holder`),
that the rates it found are those of the mode shown (`FoundRates`), and which clocks a
rollback has brought back (`RolledBack`). `SpareCore` needs, for a run that is under
way, what it has already written (`Reached`), and that the hook starts one run at a
time (`OneRun`).

**DramDetectProofs.** `IInv` says, for the pass under way, that the controller has
the field under test at its most bits and the others at what was found (or at
their least, still untested), and that the field's count so far is at most the
chip's, plus the aliases missed. The lemma `ProbeTests` is the arithmetic: under
that configuration, the bit the code probes is the next bit of the field under
test. That is what the order row, bank, column buys. `DetectsTheChip` then
follows: an alias is there exactly when the chip has no such bit, so each field
is exact, plus one for every alias missed. `KeepsTheMemory` follows from the words
being saved before the pattern is written in every pass.

**CardFlashProofs.** `IInv` follows a run through its plan: what lies behind it holds
the target (`Flashed`), what it is about to write does not (`Needed`). A run therefore
leaves at most one copy torn, with the target in all the copies its script comes to
before (`AtMostOneTorn`), and a rerun reaches that copy before it writes another: that is
why the kernel and device tree of one way up are left (`AWayUpIsLeft`), for any builds, runs,
power cuts and bad writes. Their SPL is there too, but while it is torn itself:
`SplInHand` says that a torn SPL is one the script at work has still to write, or one the
last script ended at. After a run over the other link only a part survives, that a raw copy is torn
only beside a FAT copy that holds the target (`RawAfterFat`), and `OneGoodPath` promises no
more there. `Flashed` at the end of the plan is `DoneIsFlashed`; both need that no read
fails, as the run does. `SplIsProvenFirst` does not: `SplWorks` says that over the UART the
script leaves its first group only with a whole SPL.

**HostToolsProofs.** For the console scripts, `IInv` starts from the line: a number that is
waited for is on no other command's echo or answer (`Own`), although K0, which carries
none, may be there several times. `AnswerIsOwn` follows. What the shell has said may be old
when it is read, so the rows need that it is still so (`Truths`). A swap asks again while an
answer to the kill may be outstanding; `KillFirst` says that the kill then stands before
every later question in the shell's queue, so an answer to one of them means that the old
proxy is gone. `Clean`, `Asked`, `BootSeen` and `SoakSeen` tie what a script counted and graded
to the boots that were made. At least one chunk and one boot are assumed, without which a
script would end before it did anything. For the bare-metal tools, `RigInv` says
that a file found whole after its transfer ended well was moved in this round (`Moved`), and
that variables read over fastboot, with adb there later, mean that the watch has come up
again since (`CameBack`). The second half of that fails with an image: that is
`BackFromImage` above, and `RigPassesAreTrue` claims then only that the watch was in fastboot.

**LoadyProofs.** The invariant has three layers, because three kinds of trouble reach
different parts of the protocol. `Base` holds through all of them: what can be on the way
to U-Boot in each state of the script (`Line`, and in the order of the blocks, `Sorted`),
and what the bytes that move the script on say of U-Boot (`Telling`: a prompt that is
read means that U-Boot is at the prompt, at the script's rate, and a good sum that the
whole file is in RAM). `ReturnsLoaded` follows from it alone. That is why it
holds even when the Mac stalls and takes an ACK for another block's: the sum is over what
is in the RAM, and an older sum is off the line before the command is typed. `Exchange` holds
while the Mac keeps up: every answer on the line belongs to the block being sent, so few
that they can be listed, and a C left over from the header is the only one that may
follow an ACK. `AcksAreTrue` is read off it; a modulus of at least three keeps the expected
block, the repeated one and any other apart. `NoMishap` holds as long as only
noise has gone wrong: U-Boot is where the script takes it to be, at the rate it uses, and
each repeated block has been paid for by a hit (`hits >= tries - 1`). A script that
has no attempt left has therefore seen as many hits as it had attempts, which is
`FailureHasAReason`. The proof corrected the model in two places: a byte CAN is skipped
like any other where `_wait_byte` and `_send_block` are not reading, and what is left on
the line when a run fails is dropped when the next run opens the port.

Every safety invariant, action property and refinement that a run expects to hold is
proved. Only model-checked is liveness, which is beyond the prover: `Recovers`,
`RequestIsServed`, `EveryPacketIsRead`, `FullSpeedSettles`, `ReadyInTimeIsHighSpeed`,
`WritesReturn`, `FollowsTraffic`, `RaceHeals` and `DeviceServed`. The stated properties
that do not hold (section 3) have counterexamples and nothing to prove.

## 5. Not modelled

* usb-proxy itself and the bare-metal firmware: other repositories. What the code
  here relies on is an external action.
* The login dialogue of `lx_login` before its proof of a shell: whether it gets there
  turns on what getty and login print and after which delay, which this repository
  does not say. Its outcome, a shell or none, is a step of `Sessions`.
* Interactive terminals (`pi-serial.py`, `usb-console.py`, `uboot-console.py`), `bm cmd` and
  `bm log`: they pass text on. `boot-ab.py` and `power-probe.py`: one measurement, no
  verdict. The shell loop beside the transfers of the soak: it counts.
* Device-tree patches, kernel configuration, recipes, the wic layout: data. The
  layout appears as the copies of `CardFlash`.
* In the boot chain: cache set-up before the jump, and the time stamps in GP2, GP3.
  In power-tune: the one-off writes of the boot run that nothing else reads.

## 6. Plan

Done, in this order: boot chain with its refinement and proofs, MUSB with its own,
EHCI, clocks and power-tune, flashing, launcher, upload, sessions and soak, DRAM
detection with its proofs; then the watched boots, the bare-metal tools and their
composition with the console scripts, the way up that flashing leaves, and the
proofs of the launcher, of the clocks and of power-tune over them, of EHCI, of
flashing, of the tools on the Mac and of the upload.

Next to model: `CardFlash` and `BootChain` in one specification, in which a torn copy
is what the SPL then boots, so that the way up that flashing leaves and `Recovers` meet
in one run.

Next to prove: of that composition, that what flashing leaves is a card the boot chain
comes up from.
