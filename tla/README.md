# Verification of the CS8409 driver for Apple machines

TLA+ models of the sound driver in this repository, checked with TLC on small
instances and, where it matters most, proved with TLAPS for every value of the
constants. The driver makes speakers, headphones and microphones work on Macs
whose HDA codec is a Cirrus Logic CS8409 with a cs42l83 headset chip behind it.

## 1. Inventory of the system

| component | code (`patch_cirrus/`) | state | operations | status |
|---|---|---|---|---|
| Deferred unsolicited responses | `patch_cirrus_new84.h` 1266-1380, hooks 1531-1938; `_real` functions of `patch_cirrus_real84.h` | `block_unsol`, `unsol_list`, ten item slots and their `used` flags | bus worker's handler, drains, block and unblock in four `_real` functions and two PCM hooks | modelled, proved |
| Headset jack | `patch_cirrus_real84.h` 41-71, 3437-3772, 4636-5707; `patch_cirrus_real84_i2c.h`; `cirrus_apple.h` 1593-1647, 2525-2577 | `jack_present`, `have_mike`, `headset_type`, interrupt causes and masks of the chip, its detection registers, selected input, the jack table | reading the causes, plug-in, type and button detection, unplug, report to user space | causes and order modelled and proved; registers modelled; GPIO handlers of machines without the chip left out |
| PCM operations, audio routing | `cirrus_apple.h` 735-849; `patch_cirrus_new84.h` 1110-1263, 1394-1938; `patch_cirrus_real84.h` | init counts, `playing`, `capturing`, `format_setup_needed` flags, amplifiers and headset on or off, the registers on the way of the sound | open, prepare, cleanup of playback and capture; plug and unplug while playing | modelled, the routes proved |
| Vendor coefficients and i2c (Apple) | `patch_cirrus_new84.h` 152-461 | coefficient index of node 0x47, i2c clock bit, transfer status | coefficient read/write, polled i2c transfers | single steps of `CodecPath`; verbs and polling left out |
| Stream format store | `patch_cirrus_new84.h` 706-956 | stored and applied tag, channel and format per converter | store, set up, force, save and restore around a change | modelled |
| Upstream CS8409 driver: i2c | `cs8409.c` 55-364, 640-673, 874-966, 1021-1087, 1438-1461 | mutex, i2c clock flag, delayed clock-off work, device address and page caches, `suspended` | single and bulk transfers, clock work, suspend, resume, remove, probe | modelled, proved, shown to implement atomic registers |
| Upstream CS8409 driver: jacks, volumes | `cs8409.c` 366-637, 675-872, 874-1018, 1124-1430 | `hp_jack_in`, `mic_jack_in`, `suspended`, `vol`, `playback_started` | unsolicited events, the three detections, initialisation, suspend, resume, volume control, PCM hook | modelled for the jack and the headphone volume of one chip; mostly proved |
| Boot and probe | `cirrus_apple.h` 1210-1470, 2607-3180; `patch_cirrus_real84.h` 2072-3150 | `headset_phase`, everything above at its first value | allocation, configuration, boot with or without a headset | what it leaves in the registers is the first state of `StreamPath`; its polling left out |
| Auto-configuration, input controls | `cirrus_apple.h` 1800-2213 | ADC lists, input multiplexer | build and shrink lists | not modelled |
| Verb dispatch | `cirrus_apple.h` 2434-2577 | none | answer a pin sense from `jack_present` | one variant, inside the jack |
| Programming tables | `patch_cirrus_boot84.h`, amplifier sequences of `patch_cirrus_real84.h` | none | fixed register writes | the fields that enable something are in `CodecPath`; the values are left out |
| Copies for older kernels | `patch_cirrus_apple.h`, `patch_cs8409.c` | as above | as above | not modelled: the copies in use from 6.17 on are |
| Installation | `install.cirrus.driver*.sh`, `dkms.sh`, makefiles, patches | the build tree | choose sources and patches by kernel version | not modelled |
| Host set-up scripts | `scripts/` | host configuration files | idempotent edits, diagnosis | not modelled |

How the parts interact. The cs42l83 pulls a GPIO line of the CS8409 low while it
has an unread interrupt cause. The CS8409 sends an *unsolicited response* on
every edge of that line, and the HDA bus delivers responses one by one on its
work queue. The handler (`cs_8409_cs42l83_unsolicited_response`) either stores
the response, if `block_unsol` is set, or runs it: it reads the causes by i2c
and acts on one of them, which takes between a few milliseconds and some
seconds. At the same time applications open, prepare and clean up PCM streams
from other threads; the kernel serialises prepare and cleanup with a mutex that
the bus worker does not take. The PCM side sets `block_unsol` around its verbs
and drains the list of stored responses when it is done. Jack state
(`jack_present`, `have_mike`) is written by the worker and read by the PCM
side. User space learns of the jack through `snd_hda_jack_report_sync`, which
reads a pin sense that the driver answers from `jack_present`.

What is hard. (1) The flag, the list and the slots are shared by two threads
without a lock. (2) A drain runs for seconds inside a list traversal while the
list changes. (3) Reading a status register clears it, so causes that come at
the wrong moment are lost. (4) The user can move the plug between any two
accesses of the driver, in particular during a sleep of 1.8 s. (5) A response
comes on edges only, so a line left low is silent. (6) Flags that are read at
set-up and again at tear-down can differ. There is no persisted state, so
nothing recovers from a crash.

What makes each component correct. Queue: no response is forgotten, the flag is
always cleared again, each item is handled once, responses do not overlap.
Jack: a low line is attended to, the driver listens for the next change, the
known state converges to the real one, what a lost headset changed is undone.
Routes: what was set up is what is torn down. Streams: the converter in use has
the tag and the format of the stream that plays, and its clock. i2c: a transfer
reads and writes the register it names on the chip it names, with the clock on.
Upstream jack: the plug stays watched and its last move is shown; the volume is
the control's.

## 2. Structure

| module | of what | rests on |
|---|---|---|
| `UnsolQueue` | the queue of deferred responses | |
| `HeadsetJack` | the causes, masks and events of the jack (Apple) | |
| `AudioRoute` | which units a stream and a jack event turn on and off | |
| `HeadsetChip` | what each function does to the headset chip's registers | |
| `CodecPath` | what each function does to the CS8409's registers, the stream store and the kernel's cache | `HeadsetChip` |
| `StreamPath` | the steps of `AudioRoute`, each with the registers it writes | `AudioRoute`, `CodecPath` |
| `RegisterFile` | abstract: registers read and written atomically | |
| `Cs8409I2c` | the upstream i2c transfers, which implement it | `RegisterFile` |
| `Cs42l42` | the upstream jack handler, power management and volume | a step is one access, as `RegisterFile` allows |

`MC...` modules instantiate a module for TLC, `...Proofs` modules hold its
theorems. Each run asks one question; section 4 lists them.

What could come next: a module for the index and data pair of the coefficients,
whose two verbs two threads may interleave.

## 3. Modules

### UnsolQueue, MCUnsolQueue, UnsolQueueProofs

Two threads: `Worker` is the bus work, `Pcm` the serialised PCM operations. A
step is one access to shared state: a test of the flag, an assignment of it,
the scan for a slot, `list_add_tail`, one piece of the drain's loop body. The
list is the sequence `unsol_list`; an item's links are abstracted to "on the
list", "linked to itself" (`list_del_init`) or "NULL" (`zeroed`), which is what
decides whether a cursor may be followed. `oopsed` is set when a NULL link is
followed or a listed item is wiped; nothing is promised after that. `pos` and
`nxt` are the two cursors of `list_for_each_entry_safe`.

| code | definition |
|---|---|
| `cs_8409_cs42l83_unsolicited_response` | `UnsolDeliver`, `UnsolTest`, `UnsolIgnore`, `UnsolStore`, `UnsolAdd`, `UnsolBlock`, `UnsolCheckList`, `UnsolUnblock` |
| `cs_8409_perform_external_device_unsolicited_responses` | `PerformStart`, `PerformDel`, `PerformFree`, `PerformWipe` |
| `cs_8409_external_device_unsolicited_response` | `ResponseGpio`, `ResponseStatus`, `ResponseAction` |
| `cs_8409_{play,playstop,capture,capturestop}_real` | `RealBlock`, the drain, `RealUnblock` |
| pre-prepare and PCM hooks | `PlaybackPrepare`, `CapturePrepare`, `PlaybackCleanup`, `CaptureCleanup`, `PcmOpen`, `HookBlock`, `HookUnblock`, `HookCheckList`, `HookDone` |
| chip, bus (not in this repository) | `RaiseIrq`, `UnsolDeliver` |

What an interrupt means is left to HeadsetJack: here a response only finds a
cause and clears it, or finds none. `jack_present`, which chooses between the
hook's own blocking and that of a `_real` function, is an arbitrary input of
the operation, since the worker changes it at any time. Responses before
`headset_phase` leaves 0 are not modelled: no stream is prepared before.

### HeadsetJack, MCHeadsetJack, HeadsetJackProofs

The chip is `status` (latched causes) and `masked`; the line is low while an
unmasked cause is latched, and each falling edge puts a response on the bus.
The worker's `pc` names where it is between two points where the chip can have
changed: a read of the causes, a sensing of the tip, a change of a mask. Reads
that clear are separate steps from the write of a mask that follows them.

| code | definition |
|---|---|
| `cs_8409_external_device_unsolicited_response` | `GpioCheck`, `InterruptAction` |
| `cs_8409_read_status_and_clear_interrupt` | `ReadStatus`, `LoopCheck` |
| `cs_8409_interrupt_action` | `ActionOf` |
| `cs_8409_headset_plugin_event` | `PluginHandleDetect`, `PluginCompleteDetect`, `EnableAutoInt`, `UnplugSetupRead`, `UnplugSetupMask`, `HeadsetDetectOn` |
| `cs_8409_headset_type_detect_event`, `..._button_detect_event` | `TypeDetectEvent`, `ButtonDetectEvent` |
| `cs_8409_plugin_event_continued`, jack report | `PluginEventContinued`, `ReportSync` |
| `cs_8409_headset_unplug_event`, `cs_8409_unplug_handle_disconnect` | `UnplugEvent`, `PluginSetupRead`, `PluginSetupMask`, `UnplugHandleDisconnect`, `UnplugResetup`, `UnplugReset` |
| user and chip (not in this repository) | `MovePlug`, `PressButton`, `AutoDone`, `ButtonsFound` |

Left out: the amplifier and headset verbs of an event while playing or
capturing, and the boot with a headset plugged in. Responses that report a
rising edge are left out because `GpioCheck` ignores them.

`LineAttended` is why this is sound as a model of an edge-triggered interrupt:
the line is never low with nobody going to look.

### AudioRoute, MCAudioRoute, AudioRouteProofs

What the two modules before leave out: which units of the hardware a stream
turns on and off. `on` is the set of units that are on; the rest of the state is
the driver's flags. The driver never looks at the hardware to decide: a prepare
goes by `jack_present`, `have_mike` and the two `format_setup_needed` flags, a
cleanup by the values these have later, and a jack event by `playing`.

| code | definition |
|---|---|
| `cs_8409_cs42l83_unsolicited_response`, drains | `UnsolStore`, `UnsolHandle`, `UnsolList`, `UnsolUnblock`, `Drain` |
| `cs_8409_headset_plugin_event`, type and button detection | `PluginHandleDetect`, `PluginCompleteDetect`, `TypeDetectEvent`, `ButtonDetectEvent` |
| `cs_8409_plugin_event_continued` | `PluginWhilePlaying`, `PluginInputs` |
| `cs_8409_headset_unplug_event`, `cs_8409_unplug_handle_disconnect` | `UnplugEvent`, `UnplugHeadsetOff`, `UnplugAmpsOn`, `UnplugReset` |
| pre-prepare hooks: the test of `jack_present`, and `block_unsol = 1` | `Prepare`, `BlockUnsol` |
| `cs_8409_{headplay,headcapture}_setup` and `_real` | `HeadsetOutputOn`, `HeadsetInputOn` |
| the write of a `format_setup_needed` flag after them | `HeadsetMark` |
| `cs_8409_{play,capture}_real`, `cs_8409_{playstop,capturestop}_real` | `InternalSetUp`, `InternalCleanUp`, `RealDrain`, `RealUnblock` |
| cleanup branches of the PCM hooks | `Cleanup`, `BlockUnsol`, `HeadsetInputOff`, `HeadsetOutputOff`, `HeadsetMark` |
| ends of the PCM hooks | `HookUnblock`, `HookDrain`, `HookDone` |

Abstracted: a unit is on or off; the PLL and oscillator of the headset chip,
shared by its output and its input, are the unit `clock`. A jack event is cut
where it reads or writes what the PCM side writes or reads, and where it sleeps,
so the two interleave there. An operation is cut between its test of
`jack_present` and the block, and between the transfers that turn a unit on or
off and the write of the flag that says so: a worker that passed its own test of
`block_unsol` before may do its event in between. There is at most one response at a time, because
the user moves the plug only when the last jack event has been handled: what
happens otherwise is in HeadsetJack, and what two responses do to the list in
UnsolQueue, which also has the steps between a test of `block_unsol` and what
follows it. So the branches for a plug that is sensed differently half way are
HeadsetJack's.

Four history variables say what overlapped, and each property names in its
premise the overlaps that TLC shows it cannot do without:

| variable | the overlap | needed by |
|---|---|---|
| `crossed` | an operation was called during a jack event (`NOTES.md` line 8 admits it) | all |
| `during` | the plug was moved during an operation | all |
| `swapped` | the plug was moved while a capture was prepared ("PLUGIN WHILE CAPTURING UNIMPLEMENTED") | all but `MikeMarked` |
| `starved` | playback was cleaned up while a capture was prepared | `CaptureFollowsJack` |

Without `starved`, the cleanup of a playback takes the internal microphone, or
the clock of that of the headset, away from a running capture. Without `crossed`
or without `during` an unplug is handled while a prepare has the microphone of
the headset on and its flag not yet written, and `MikeMarked` fails both ways:
the microphone is off and the flag says that it is set up, or, when the flags are
reset last, it is on and the flag says that it is not.

### HeadsetChip, CodecPath, StreamPath, MCStreamPath, StreamPathProofs, StreamRegistersProofs

`AudioRoute` says that a unit is on; these say what that is in the registers. An
operator of `HeadsetChip` or `CodecPath` has the name of a function of
`patch_cirrus_real84_i2c.h` or `patch_cirrus_real84.h` and maps the hardware
before its call to the hardware after it, so that a function that calls others
is their composition in the code's order. The hardware is a record: `bits`, the
register fields in their enabling value; `hw`, the tag, first channel and format
in the converters' registers; `cvt`, what the kernel remembers of them; `papl`,
what the driver has stored; `chip`, the registers of the headset chip that
decide anything.

| code | definition |
|---|---|
| `cs42l83_...` functions | the operators of `HeadsetChip` of the same name |
| `cs_8409_store_stream_format`, `..._really_update_stream_format`, save and update | the same names in `CodecPath` |
| `snd_hda_codec_setup_stream` (not in this repository) | `setup_stream`: writes what differs from its cache |
| `cs_8409_{setup,disable}_TDM_amps{12,34}`, `..._amps{12,34}`, `sync_converters_{on,off}`, `play`, `amps_disable_streaming`, `capture`, `capturestop` | the same names in `CodecPath` |
| `cs_8409_boot_setup_real` | `boot_setup`, the initial state of `StreamPath` |
| prepare and cleanup, jack events | the action of `AudioRoute` of that name with `Path` before it: it adds the registers |

Each action of `StreamPath` is the action of `AudioRoute` with the assignment of
`path`, so `StreamPath` implements `AudioRoute` by its shape. What is not so by
its shape is `UnitsMatchRegisters`: that "a unit is on" in the one is
"all its registers are" in the other, through every sequence of operations and events.
That is the link which lets the properties of `AudioRoute` speak of the hardware,
and it is proved (theorem `UnitsAreRegisters`).

Abstracted: registers that are always written with the same value are left out or
share one field; a function is one step, so the verbs of two functions that
overlap do not interleave. The history `reprepared` says that a playback was
prepared a second time with another format, `joined` that it was prepared while a
capture had already set up the headset; `StreamCarried` needs both premises (see
findings).

### Cs42l42, MCCs42l42, Cs42l42Proofs, Cs42l42PlugProofs

The jack of the machines with the upstream driver, and its headphone volume.
There are four threads: `handler` (unsolicited responses, one at a time), `pm`
(initialisation, suspend, resume), `ctl` (the volume control) and `hook` (the
PCM hook), and beside them the user and the chip, which detects the type of a
headset by itself. A step is one i2c access or one access to a field that the
threads share: the two flags and `suspended` are bits of one word, so an
assignment of one of them is a load and a store of all three (`local`).

| code | definition |
|---|---|
| `cs8409_cs42l42_jack_unsol_event` | `Event`, `Report` |
| `cs42l42_jack_unsol_event` | `ReadCodecStatus`, `ReadHsStatus`, `ReadPlugStatus`, `AutoDone`, `StopDetection`, `LoadFlags`, `StoreFlags`, `TipInterruptOn` |
| `cs42l42_handle_tip_sense`, `cs42l42_manual_hs_det` | `TipSense`, `TipFlags`; `ManualDetection` |
| `cs42l42_run_jack_detect`, `cs42l42_enable_jack_detect` | `RunJackDetect`, of either thread; `EnableJackDetect` |
| `cs42l42_resume`, `cs8409_cs42l42_fixups` | `Release`, `LoadWord`, `StoreWord`, `ClearStatuses`, `ReadHpCtl`, `WriteHpCtl`, `AllowEvents`, `EnableUr`, `FirstDetect`, `Build` |
| `cs42l42_suspend`, `cs8409_cs42l42_suspend` | `Suspend`, `PowerDown`, `LoadWord`, `StoreWord`, `Reset` |
| `cs42l42_volume_put`, `cs42l42_playback_pcm_hook`, `cs42l42_mute` | `VolumePut`, `VolumeWrite`, `PcmHook`, `HookWrite`, `Attenuation` |
| kernel, chip and user (not in this repository) | `Sync`, the drop of responses while asleep in `Event`, `DetectionDone`, `MovePlug` |

A read may fail, and a failed read of a status may have cleared it all the same.
`hp_ctl` is a byte: a negative code that is read from it is written back modified,
and `AmplifierOn` shows what that leaves of it. History variables are the
premises of the properties, each with its counterexample when it is dropped:
`late` (the last move of the plug was not made at rest), `stale` (a finished
detection was still latched then), `faulted` (a read failed since the last
reset), `raced` (a volume change overlapped the last PCM operation), `asleep` (no
PCM operation since the last suspend), `overlapped` (`pm` was at work during an
event) and `torn` (`pm` last stored the word between the handler's load of it and
its store).

`SuspendedMarked` and `VolumeFollows` exclude by their premises the races that
break them. With `torn` the handler puts back the `suspended` that it has loaded
and undoes pm's; everywhere else it may run on into a suspend or a resume and the
mark is right. With `raced` the control unmutes what a cleanup has just muted.
No comment or test of the code says what should hold then, so neither is a
finding.

Left out: a second chip, which the driver treats as it does the first; the
capture volume, which is the headphones' with other registers; writes that fail
(their errors are not looked at; `Cs8409I2c` has them); runtime power management
of the codec while a stream plays.

### RegisterFile, Cs8409I2c, MCCs8409I2c, Cs8409I2cProofs

`RegisterFile` is what a caller of the transfer functions of `cs8409.c` may
count on: a headset chip is a set of registers; a request names some of them and
is served one register at a time, each access atomic, or fails; a chip in reset
forgets. `Cs8409I2c` is how the driver does it. Its threads are `Users` (the
jack handler, volume controls and PCM hooks, which may call at any time while
the codec is there), `Pm` (resume, suspend and removal, which the core does not
run at the same time) and `Worker` (the delayed work). A step is one access to
what they share; a whole thread is at most at one place `pc`, and `pm` says how
far `Pm` has come between its calls. What the driver believes and what is so are
separate variables: `i2c_clck_enabled` and `clock`, `dev_addr` and `hw_addr`,
`last_page` and `chip_page`.

| code | definition |
|---|---|
| `cs8409_i2c_{read,write,bulk_read,bulk_write}` | `TestSuspended`, `Lock`, `Transfer`, `TransferTimeout`, `Unlock`; the order of clock and address differs for bulk requests |
| `cs8409_enable_i2c_clock` | `CancelWork`, `EnableClock` |
| `cs8409_set_i2c_dev_addr` | `SetDevAddr` |
| `cs8409_i2c_set_page` | `SkipPage`, `SetPage`, `PageSet`, `PageTimeout`, `PageLate` |
| `cs8409_disable_i2c_clock_worker`, `cs8409_disable_i2c_clock` | `WorkFires`, `WorkLock`, `WorkDone`; `ClockOffLock`, `ClockOff` |
| `cs8409_cs42l42_hw_init`, `cs42l42_resume`, the two jack detect set-ups | `PmResume`, `ReleaseReset`, `ClearSuspended`, `PmInitSeq`, `PmIrqRegs`, `PmConfig`, `PmConfigDone` |
| `cs8409_cs42l42_suspend`, `cs42l42_suspend` | `PmSuspend`, `PmPowerDownSeq`, `PmPoll`, `PmPowerDown`, `SuspendMark`, `AssertReset`, `CancelSync`, `CancelSyncDone` |
| `cs8409_remove`, `cs8409_probe` | `PmRemove`, `Probe` |
| `cancel_delayed_work_sync` (not in this repository) | takes the work off, refuses to queue it while it waits (`canceling`), returns when the worker is idle |
| chip (not in this repository) | `Addressed`, `WritePage`, `WriteData`, `ReadData`, `reset` |

Abstracted: the register sequences are any sequences of accesses to any pages,
of which the driver's are some; one register stands for each page, which is
what telling a right page from a wrong one takes, and page 0, where a reset
leaves the chip, has none, as the driver's addresses all lie on higher pages
(`patch_cs8409.c` 604-624 has some as numbers); the coefficient index and data
verbs are one step because the mutex is held around them; delays are steps of
others in between. Left out: chips that are not paged, and the coefficient
tables that `hw_init` writes, which are not in this repository.

`QuietSpec` leaves out three things, and under it the caches are right and
`RegisterFile` is implemented: a transfer that has passed the test of
`suspended` when its chip is marked suspended; a page write that the chip took
although the wait for it timed out (`last_page` then keeps the old page); and a
removal without suspend that is followed by a new probe. `StraddleSpec` and
`ReprobeSpec` put the first and the last back, one at a time. `Spec` has all of
them, and its properties hold nevertheless.

## 4. Runs

| run | specification | bounds | shows |
|---|---|---|---|
| `unsol` | `FairSpec` | 2 slots, 3 causes | types, `BlockHasOwner`, `InterruptAccounted`, `Unblocks`, `ServicedByNextOp` |
| `unsol_drain_safe` | `Spec` | 2, 3 | finding: two drains meet |
| `jack` | `FairSpec` | 4 moves, 3 presses, 2 rounds | types, `LineAttended`, `ListensForChange`, `EmptyJackForgotten`, `JackSettles`, `UserSettles`, `InputSettles` |
| `jack_unplug_handled` | `FairSpec` | 4, 2, 2 | finding: an unplug is discarded |
| `i2c` | `FairSpec` | 1 user, 1 chip, 1 page, 1 value | types, `ClockHasStopper`, `RemovedIsQuiet`, `CallReturns`, `ClockRests` |
| `i2c_refines` | `QuietSpec` | 1 user, 2 chips, 1 page, 2 values | `TransferReady`, `RightPage`, `Refines` |
| `route` | `Spec` | 4 moves, 2 prepares | types, `OutputFollowsJack`, `QuietWhenClosed`, `CaptureFollowsJack`, `MikeMarked` |
| `route_drain` | `Spec` | 4, 2 | finding: a headset plugged in during a prepare is drained before `playing` is set |
| `path` | `PathSpec` | 2 moves, 2 prepares, `Patient` | types, `UnitsMatchRegisters`, `StreamCarried`, `CaptureCarried`, `TdmClocked`, `ClosedIsQuiet`, `JackArmed` |
| `path_capture_first` | `PathSpec` | 2, 2, `Patient` | finding: a playback beside a capture gets no converter |
| `l42` | `FairSpec` | budget 2 | types, `Watched`, `JackFollows`, `ToldAgrees`, `AmplifierOn`, `SuspendedMarked`, `VolumeFollows`, `ComesToRest` |
| `l42_stale_detection` | `Spec` | budget 3 | finding: an unplug is taken for the end of a detection that was started over another |

Bounds. `NumItems` is 10 in the driver; with 2 a full queue needs three causes,
and two listed items are enough for two drains to meet. `MaxIrq` bounds the
causes raised. `LoopMax` is 11 in the driver; with 2 both exits of the loop are
reached. `MaxMoves` = 4 gives two complete rounds of plug and unplug, so what
the first leaves behind meets the second; `MaxPress` bounds button presses,
which matter only as causes read together with others. Of the transfers one
user beside `Pm` and `Worker` is enough to interrupt each at every place; two
chips are there for the address cache, one page beside the one after a reset for
the page cache, two values to tell a
register that was written from one that was not; bulk requests have two
accesses, so one is between the other and the end. `TransferReady` is checked
under `QuietSpec`, where two chips are affordable, and proved of `Spec`. Because the user's moves
are bounded the jack comes to rest, so its runs do not check deadlock; the
queue's do. `i2c_refines` may stop for good when the codec is gone and not probed
again, and does not check deadlock either; `i2c` does, and so does `route`. In `route`, `MaxMoves` = 4 is
again two rounds of plug and unplug, so a flag left behind by the first meets
the second, and `MaxInit` = 2 is one prepare that sets up and one that does not.

`path` has the registers too, so its bounds are smaller: `MaxMoves` = 2 is a plug
and an unplug in either order, as the boot may find any jack, and with `Patient` no PCM
operation overlaps a jack event, which the premises of most of its properties
exclude anyway. By hand it was run with three moves (5.2 million states, all
properties) and without `Patient` with one move and one prepare (12.3 million
states, `UnitsMatchRegisters` and the types); all its properties are proved
without any bound (section 6). `Amplifier` is the only type whose
amplifiers start by a parameter; for the others they always start.

`Budget` in `l42` is one bound for everything that comes from outside: moves of
the plug, failed reads, suspends, volume changes and PCM operations. Two of them
at any moment of any sequence of the threads' steps are a move during what
another move, a suspend or a failure has begun; the properties whose premises
need more (a volume change after an operation after another) were run by hand
with three, without the liveness property (32 million states). `l42` does not
check deadlock, because the user and the system may stop.

Fairness. Weak fairness of the bus worker (a work item that is queued runs), of
the PCM thread inside an operation (a caller in the kernel is scheduled) and of
the chip's detections. Nothing is assumed of the user or of applications: that
PCM operations go on is a premise of `ServicedByNextOp`, that the plug comes to
rest one of the jack's liveness properties. For the transfers: weak fairness of
the timer, and strong fairness of each client inside a transfer, of the worker
and of `Pm` inside a suspend or resume. Strong, because the kernel's mutexes hand
over to a waiter that has waited, and because the accesses of a resume and the
polls of a suspend are finite sequences; the timer's is weak because a new
transfer can put it off for ever. That a caller makes
calls, or ever stops making them, is not assumed (`ClockRests` has it as its
premise). For `l42`: weak fairness of the handler, of `pm` but not of the decision
to suspend, of the writes that end a volume change or a PCM operation, and of the
end of a detection that runs; nothing of the user.

The user of the jack. The reads that clear causes make short windows in which an
event is lost (the finding `jack_unplug_handled` is one). `InWindow` names them,
and `missed` records that the user moved the plug in one; `JackSettles` has as
its premise that he never did and fails without it, which shows that these
windows are all there are for `jack_present`. `UserSettles` and `InputSettles`
also fail when a headset is swapped while the driver is still busy with the
first one; `hasty` records that, and their premise is a user who never does, as
`NOTES.md` line 10 says its author does. Both are history variables that the
driver does not see.

Each property of a passing run has a mutation of the code's model (the
definitions named `Bug...`) under which TLC finds it violated.

## 5. Findings

Each has a run of its own, whose counterexample shows it.

1. `DrainSafe` (question in the comment, `patch_cirrus_new84.h` 1346): two
   drains, or a drain and a store, touch one item; a NULL link is followed.
2. `UnplugHandled` (comment, `patch_cirrus_real84.h` 4877): an unplug right after
   the tip was sensed is cleared before it is unmasked.
3. `PlugWhilePlaying` (`NOTES.md` line 11; `patch_cirrus_new84.h` 1710): headphones
   are plugged in during the first prepare of a playback on the speakers. Their
   response is stored, and that to the type detection too; the drains of the
   prepare handle both before `playing` is set, so the sound stays on the
   speakers. (An unplug during a prepare on the headphones is the mirror image:
   the sound stays on headphones that are gone.)
4. `AlwaysSetUp` (comment, `patch_cirrus_new84.h` 1597): a capture from a headset
   that is prepared first clears the flag by which a playback knows that its own
   set-up is needed; the headphones are on and their converter has no stream.
5. `StatusNotified` (comments, `cs8409.c` 658 and 975): a plug moved while the
   handler deals with the first response puts a second response behind the one
   that starts a detection, and the detection is started again; the first one
   ends between the clearing of its status (659) and its stop (668), and calls
   the handler a third time while the second detection runs. If that ends in the
   branch of a finished detection, between the mask of its interrupt (825) and
   its stop (830), its status stays latched and nobody reads it. The plug that is
   pulled out later, with everything at rest, is read together with it: the
   handler takes the old type, and the kernel's jack goes on to show a headset.
   The run's bound is three moves, as the trace needs: in, changed, out.

These definitions are statements that the code does not keep either. No run
checks them; an `INVARIANT` or `PROPERTY` line of one's own, with the
specification named, gives the counterexample.

| statement | under | what happens |
|---|---|---|
| `UnsolQueue!JackServiced` (`NOTES.md`: plugging while playing "is known to work") | `FairSpec` | a response stored just after the last drain waits for the next PCM operation |
| `HeadsetJack!InputReturned` (comment, `patch_cirrus_new84.h` 964) | `Spec` | the toggle of the inputs runs on unplug without having run on plug-in |
| `Cs8409I2c!RightPage` (`cs8409.c` 204, 946-947) | `StraddleSpec` | `suspended` is tested before the mutex is taken, and set, with the page cache cleared, without it |
| `Cs8409I2c!RightPage` (`cs8409.c` 957) | `ReprobeSpec` | `last_page` is in a static variable that outlives the removal of the driver and the reset of the chip |
| `StreamPath!ParametersEveryTime` (comment, `patch_cirrus_new84.h` 1552) | `PathSpec` | a second prepare with another format stores it; the converters keep the first |

And three observations from the runs of `Cs42l42`, each of which is excluded by a
premise there: a plug pulled during a detection is lost, because the branch of a
finished detection ignores the plug's status, which it has cleared; a response
queued behind the event that starts a detection starts it again, which can go on
for as long as each detection ends just after the status was read; and the
handler's store of its flags undoes the `suspended` that pm has stored since the
handler loaded the word (`torn`).

## 6. Proofs

Assumptions: `NumItems` is a positive natural number, `MaxIrq`, `LoopMax`,
`MaxMoves`, `MaxPress` and `Budget` are natural numbers, `MaxInit` is a positive
one, `Patient` is a Boolean. Those of the transfers are given with their proofs.

`UnsolQueueProofs` proves `TypeOK`, `BlockHasOwner` and `InterruptAccounted` of
`Spec`. `TypeOK` alone is not inductive: that a drain frees the slot of an item
and not of the list head depends on where the thread is. `Control` adds which
values each thread's cursor can hold at each `pc` and where its drain returns
to; `Inv` is the two together. `BlockHasOwner` and `InterruptAccounted` are then
inductive relative to `Inv`: every assignment that sets the flag puts its thread
inside an owning region and each way out of the region clears it; a cause comes
with a response, and every step that takes a response from the bus or the list
moves its thread to where it must read the causes. The lemmas before it say what
the list operators and the slot scan return.

`HeadsetJackProofs` proves `TypeOK`, `LineAttended`, `ListensForChange` and
`EmptyJackForgotten` of `Spec`. `Mode` is the strengthening: at every `pc` it
says which causes are masked and what `jack_present` and `have_mike` can be.
The two properties speak of rest only, where `Mode` implies them; they are not
inductive by themselves because in the middle of an event the masks and the
flags disagree on purpose. `LineAttended` is inductive with `TypeOK`.

`Cs8409I2cProofs` assumes that the threads are distinct, that there are a chip,
a page and a bulk length of at least one, that `Blank` is a value and that
`Nothing` and `Failed` are not; the set of users may be any. It proves, of
`Spec`, `TypeOK`, `TransferReady`, `ClockHasStopper` and `RemovedIsQuiet`. The
strengthening `Inv` has named parts: `Pending` (what is left of a request fits
the place of its thread), `Exclusive` (who is past the mutex holds it, so at most
one is), `Ready` (the clock flag and the cached address agree with the hardware
whenever the mutex is free or its holder relies on them), `Stopper`
(`ClockHasStopper` with what a waiting cancel needs) and `Removal` (what has
come to rest at each place of a suspend or removal). Of `QuietSpec` it proves
`RightPage` and `Refines`, with two more parts: `Powered` (which chips are in
reset at each place of `Pm`) and `Paged` (cache and chip agree wherever a
transfer may rely on it). The refinement maps `Transfer` to `Perform`, giving up
to `Fail`, the reset steps to `Reset` and `Release`, `Begin` to `Call` and every
other step to a stutter; `StoreRefines` and `AnswerRefines` are where `RightPage`
and `TransferReady` are needed: they say that the register the chip touches is
the one the request names.

`AudioRouteProofs` proves `TypeOK` and `MikeMarked` of `Spec`. `Inv` has six parts
beside `TypeOK`. Without a premise: `Single` (there is one response at a time),
`Sensed` (`headset_enable` is set once a type can be known, so that a set-up with
`have_mike` does turn the microphone on) and `Known` (what `jack_present`,
`have_mike` and `headset_enable` are at each place of a jack event, and that
between two of them they describe the jack). With the premise of `MikeMarked`,
that no operation was called during an event and no plug moved during one:
`Apart` (no event runs while an operation does), `Chosen` (an operation goes by
the jack as it is) and `MikeKept` (what the microphone and its flag are at every
place: they differ between the transfers and the write of the flag, and at the
last place of an unplug). `Apart` is what makes `MikeKept` inductive: nothing
comes between the transfers and the write.

It also proves `OutputFollowsJack`, `QuietWhenClosed` and `CaptureFollowsJack` of
`Spec`. The three speak of rest, so `UnitsInv` says what is
so on the way there. Beside `Inv` it has `Counted` (a stream is active when and
only when it has been prepared) and `Marked` (an output is called set up only for
a headset with a microphone, and its clock is on). `InputsOwned` and `InputKept`
(the plug at rest while a capture is prepared) say which microphone is on and
whose it is, and `OutputOwned` and `OutputKept` (the three premises of
`OutputFollowsJack`) which output: `Output` gives it for every place of an
operation and of a jack event.
`OutputOwned` is what makes `Output` inductive: no operation runs during an event,
a plug finds nothing set up, and an output that is called set up belongs to a
stream that has been prepared, so that the last cleanup stops it.

`StreamPathProofs` proves `UnitsMatchRegisters` and `JackArmed`, for every
amplifier and for operations that overlap jack events, which the run leaves out.
A lemma says that `PathSpec` implements `Spec`, so that what is proved of the
routes holds with the registers.
`Lit` is the set of units whose registers are all on. `Matched` is inductive: the
hardware record has the fields that decide it, and `on` is `Lit` of it. Every
function of the path changes `Lit` as `AudioRoute` changes `on`; to show it for a
composition of functions, lemmas say which bits a function leaves (`HasBits`,
`VerbsWire`) and which registers of the chip (`SameSound`). `RegistersFollowJack`
combines it with `OutputIsOfTheJack`: at rest, while playback runs and under the
premises of `OutputFollowsJack`, the registers of an output are all on if and only
if it is the output of the jack. `Armed` says what the four
jack registers are at every place of a jack event. Before it come the lemmas about
the functions of `CodecPath` and `HeadsetChip`, from the single verbs to the boot:
which of them leave the chip alone, which leave its jack registers alone, and what
the others set.

`StreamRegistersProofs` proves the rest of what `path` checks: `PathTypeOK`,
`ClosedIsQuiet`, `TdmClocked`, `StreamCarried` and `CaptureCarried` of `PathSpec`,
for every amplifier, any number of moves and prepares, and without the run's
`Patient`. All but the types speak of rest; `RegistersInv` says what is so on the way there.
It is `UnitsInv` and `Matched` with

- `Typed`: the registers, the stored formats and the capture device have their types;
- `Remembered`: what the driver has stored for each stream that is open;
- `Fresh`: the first prepare of a capture, the plug at rest under it, finds its
  flag set, so that the capture is set up;
- `Sounding`, which has four parts: `Dark` (whatever overlaps, the registers of a
  unit that is off are quiet, and the microphone of the headset is not powered
  either if the plug rests while a capture is prepared), `Clocked` (a unit that is
  on has its clock, while operations and moves take turns and no cleanup of a
  playback has starved a capture), `OutputCarried` and `InputCarried` (the
  converters of the units that are on have the tag, channel and format that are
  stored, for a playback from its set-up on).

None of the parts of `Sounding` is inductive without the others and `UnitsInv`: a
cleanup leaves nothing on only because an output that is called set up belongs to
a stream, and a plug during a playback sends to the headset what `Remembered` says
is stored. Each function of the path is summed up by one fact about what it writes
(`Writes`); `Quiet`, `Still`, `Ticking`, `Carried` and `Recorded` are predicates of
the hardware and a set of units, and a lemma for each function says for which set
it makes them true. A step of `StreamPath` is then a composition of these lemmas.

`Cs42l42Proofs` proves `TypeOK`, `ToldAgrees`, `AmplifierOn`, `SuspendedMarked` and
`VolumeFollows` of `Spec`. The strengthening `Inv` is `TypeOK` with `Alone` (unless
`overlapped`, the handler is idle while `pm` is not up, syncing or building),
`Powered` and `Marked` (the chip's reset and the word at each place of `pm`, unless
`overlapped`), `Kept` (unless `torn`, the mark at each place of `pm`, and the
handler's copy of it),
`Amplified` (what `HP_CTL` holds and what `pm` has read of it), `Mixed` (whose volume the mixer has while a change or a
PCM operation is on its way) and `Agreed` (what the kernel's jacks show at each
place of the handler). `Cs42l42PlugProofs` adds what `Watched` needs: `Unflagged`
(`pm` wakes with no headphone flag), `Undisturbed` (nothing disturbs the detection
that `pm` starts), `Ordered` (responses are enabled and allowed where `pm` is past
doing so; where the handler acts on a detection it has read a finished one) and
`Heard` (before responses are enabled the interrupts are masked; afterwards at most one of them is
enabled, one is unless a detection runs, and a line that is low is attended to by
the handler or awaited by the first detection).

The same module proves `JackFollows`, from `TruthInv`, which is that invariant with three
parts more. Under the premises of the property, `Genuine` says that a detection,
running or still latched, is of the plug as it is now; `Measured`, at each place of the handler,
that what it has read, is about to store or has stored is true of the plug; `Followed`,
where the handler is idle, that it will run again, or that the flags and the speaker's pin show
the plug, or that the first detection of `pm` is still to come. `Watched` is what makes
`Followed` inductive: with it a move of a plug at rest, and the end of a
detection, put a response in the queue; `ToldAgrees` takes the flags to the
kernel's jacks.

The inductive invariants were checked with TLC before they were proved.

Only model-checked: the liveness properties (`Unblocks`, `ServicedByNextOp`,
`JackSettles`, `UserSettles`, `InputSettles`, `CallReturns`, `ClockRests` and
`ComesToRest`), which need fairness and enabledness that the provers do not
handle. Every other property of a passing run is proved.

## 7. Not modelled

- The two verbs, index and data, of a coefficient access of the Apple driver, and
  the polling of its i2c transfers. Two threads can interleave them; no comment or
  test says what should then happen. `CodecPath` takes a function as one step.
- The boot's own polling, during which responses are skipped: `AudioRoute` and
  `StreamPath` begin when it is over, with any jack.
- Auto-configuration and the input controls, which build lists once at probe.
- The verb dispatch of models without the headset chip, and their GPIO handlers.
- The values of the programming tables and the amplifiers' sequences: no control
  flow.
- The copies for kernels before 6.17 (the same code), the choice of sources by
  kernel version and the host scripts (the configuration of one machine; no state
  of the driver).
