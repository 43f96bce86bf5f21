# Verification of the RealSense D4xx MIPI/GMSL driver

TLA+ models, TLC runs and TLAPS proofs for the RealSense MIPI platform driver
(`src/`): the V4L2 sub-device driver of the D4xx cameras,
`src/kernel/realsense/d4xx.c`, and the parts of the SerDes drivers
(`src/nvidia-oot/*/*.patch`) it shares state with.

File and line references without a path are to `src/kernel/realsense/d4xx.c`.

| module | what it is |
|---|---|
| `D4xxFirmware` | the camera, as the driver sees it through I2C (external) |
| `D4xxReset` | HW reset with recovery, against any stream calls |
| `SerdesPipes` | video pipes of the max9296 and max96712 deserializers (operators) |
| `D4xxStream` | `ds5_mux_s_stream` and `ds5_configure`, with camera, reset and pipes |
| `D4xxProbe` | probing, slot tables, link set-up with its power cycle, deferral, removal |
| `HwmcService` | abstract: what a caller of a firmware command may expect |
| `D4xxControls` | the controls that use the HWMC mailbox, their two locks, the mailbox |
| `D4xxDfu` | firmware update: the gate with the video nodes, the download, the loader |
| `D4xxFormats` | format tables, `set_fmt`, frame intervals, what a start programs of them |
| `MCReset`, `MCStream`, `MCProbe`, `MCControls`, `MCFormats` | small instances for TLC (`D4xxDfu` needs none) |
| `D4xxReset_proofs`, `D4xxStream_proofs`, `D4xxPipes_proofs`, `D4xxBooks_proofs`, `D4xxProbe_proofs`, `D4xxControls_proofs`, `D4xxDfu_proofs`, `D4xxFormats_proofs` | theorems and proofs |

`D4xxStream` composes: it EXTENDS `D4xxReset` (which EXTENDS `D4xxFirmware`) and
`SerdesPipes`, and is shown to implement `D4xxReset!Spec`, where a call on a
stream is only the abstract `StreamCall`. `D4xxControls` is shown to implement
`HwmcService!Spec` under a refinement mapping. The others stand alone.

## 1. Inventory

### 1.1 One driver instance per stream

A camera appears as up to four I2C devices (depth, rgb, ir, imu), each bound to
an instance `struct ds5` (472-510). The instances of one camera share one serializer,
one camera firmware and one slot `struct ds5_dev` of `ds5_inited[]` (512-553);
cameras behind one deserializer share a slot of `dser_inited[]` (556-593).
The locks are `serdes_lock__` (global: slot tables, link set-up, pipes),
`ds5_dev->lock` (a slot's fields), `state->lock` (one instance: sets of controls, opening
and closing of its nodes, `set_fmt`/`get_fmt`, the update device), the lock of the V4L2
framework around the control handler (one instance: sets and gets) and the pipe mutex inside
the deserializer driver.
**No lock covers a call of `s_stream` and a reset of the same camera, and
none covers two instances' use of the camera's shared registers and its mailbox.** That
is where the hard behaviours come from.

### 1.2 HW reset with recovery (2377-2691)

*State.* In `ds5_dev`: `reset_gen`, `{depth,rgb,ir,imu}_streaming`,
`cached_device_type`, `last_reset_jiffies`. In the instance: `dfu_state_flag`.
*Operation.* `ds5_hw_reset_with_recovery`: wait for the cooldown; read the
flags and send a STOP to every active stream; advance the generation, forget the
device type, clear the flags; scratch a control-status register; send the reset
command through the HWMC mailbox; poll until the register has its default
value again (or the DFU magic reads); wait for a valid DEVICE_TYPE; read version
and build; remember the time.
*Callers.* A V4L2 control of any instance.
*Hard.* Two instances may reset one camera at a time; stream calls go on
meanwhile; the camera may not go down at once, may not come back, or may come
back in recovery; each I2C access can fail.
*Correct when.* Success means the camera is back and whole; the next command
waits for the cooldown; no wait is unbounded; a stream the reset undid is not
taken for a running one.

### 1.3 Stream start and stop (1820-2048, 4877-5148)

*State.* Per sensor (416-439): the selected configuration, `streaming`, `pipe_id`,
`pipe_data_type*`, `cached_*_value`; per instance `reset_ref_ds5`; locals of the
call: `reset_invalidated`, `status`, `ds5_config_retries`, ...
*Operations.* `ds5_mux_s_stream`: compare generations and forget lazily what a
reset undid (`ds5_invalidate_sensor`), spare duplicates, poll CONFIG_STATUS for the
starting state (force a stop, or return a no-op), mark the stream, configure
(`ds5_configure`: pipe, set-up, changed registers), command, poll both
statuses, retry a rejected configuration; on failure toggle back, give the
pipe back and restore the marks. The video node serialises the calls of one
instance; nothing orders them against others'.
*Hard.* A call takes seconds, and a reset may fall anywhere in it; two records of
what streams (sensor's and slot's) must agree; the register cache must survive
neither failed writes nor resets; pipes are taken and given back across retries
and failures, and `serdes_lock__` is dropped in between.
*Correct when.* No pipe is lost, shared, or refused while there are enough;
a start that succeeds delivers the selected configuration; the next call is
spared only if it really is a duplicate; every call returns.

### 1.4 Deserializer pipes (`nvidia-oot/6.0` patches 0001 and 0006)

*State.* `video_pipe_alloc[]` or `st_count`. *Operations.* `get_available_pipe_id`,
`release_pipe`, each under the deserializer's mutex. The max96712 hands out its first
free pipe of eight, the max9296 the one pipe of the virtual channel asked for.
*Hard.* The max96712 frees a pipe before it touches the hardware, and then may
report a failure for a pipe that is free.

### 1.5 Probe, slots and removal (3580-4187, 6290-6571)

*State.* `ds5_inited[]`, `dser_inited[]`, and per instance `ds5_dev`, `serdes_primary`.
*Operations.* `ds5_board_setup`, `ds5_setup_and_link`, `ds5_serdes_setup`,
`ds5_release_slot`, `ds5_probe`, `ds5_remove`. The first instance of a camera is its
primary and sets up the link; the others are deferred (`-EPROBE_DEFER`) until it is
complete and then become peers. The set-up power-cycles the deserializer
(`ds5_gmsl_serdes_setup`), the removal of a primary powers it off; `max9296_power_off` counts
users, but as the set-up takes its own count away first, the count never exceeds 1, and
`max96712_power_off` does not count.
*Hard.* Instances probe in any order and overlap; a probe may fail at any of many
steps; the tables are small; the primary may be removed first; its removal gives the slot up
under the lock (6517) and the power of the deserializer later, under none (6538).
*Correct when.* One camera, one slot; one deserializer, one slot, for as long as a
camera uses it; every bound instance works on its camera's slot and on a link that was
set up.

### 1.6 Controls and the HWMC mailbox (2222-2375, 2695-3400)

*State.* In the camera, shared by its instances: the data buffer, EXEC, the status and the
length of the answer. In an instance: `state->lock`, the lock of its control handler.
*Operations.* `ds5_hwmc_send` writes a command and EXEC; `ds5_hwmc_wait` polls the status
and reads an error code; `ds5_get_hwmc` and `ds5_get_calibration_data` read length and
answer. The controls are combinations of these: sets of tables and exposure regions, ERB, EWB,
HWMC, HWMC_RW (the command in a set, its answer in a later get), gets of tables, version
and log.
*Hard.* A set holds both locks, a get only the handler's, and neither orders two instances.
Transfers fail in the middle, with a different way out in each control; a command may still be
in progress when its caller gives up.
*Correct when.* Who is told success had its own command carried out and got its own
answer; every lock is given back; every call returns.

### 1.7 Firmware update (3545-3573, 5602-5911)

*State.* `dfu_state_flag`, `device_open_count`, `bus_clk_rate` (the rate to restore),
`msg_write_once`; the rate itself belongs to the parent I2C adapter, which the cameras of a
board share; the loader's own protocol state.
*Operations.* Open, read, write and release of the character device; open and close of the video
nodes, which share the gate; a HW reset that finds the loader.
*Hard.* An image arrives in writes of any size, each of which holds `state->lock` over
hundreds of transfers while the loader works and may reject, stall or lose power; a failed
write changes the state with the device still open; two cameras' devices save, set and restore the
rate of one adapter, each under its own lock.
*Correct when.* No video node is open during a download; the gate comes to rest with the last
handle, and the bus with the last device; what is reported as installed is what the writes handed
over; every write returns.

### 1.8 Formats (832-1822, 2050-2093, 4480-4868, 5411-5550)

*State.* Per sensor `config.{format,resolution,framerate}` and `format` (what `get_fmt`
reports); `mux.last_set`.
*Operations.* Enumeration of codes, sizes and intervals; `set_fmt`, `get_fmt` and
`s_frame_interval` through the mux or a sensor's own node; what `ds5_configure` reads.
*Hard.* The search for the nearest size works on the configuration itself; intervals and
starts take no lock; a sensor set through its own node is not the one that streams.
*Correct when.* What was enumerated is granted to the letter, anything else to the nearest; a
start programs what was reported, at a rate that is offered for it.

### 1.9 Not modelled

| component | why |
|---|---|
| Controls that read or write one register, sync mode (2096-2220, 2749-2870, 3100-3166) | one access per call, but for the exposure, which is written and read in halves (2181, 3150): depth and infrared instances use the same pair of registers under different locks, so that a get of one between the writes of the other mixes two values. |
| Media graph and V4L2 registration | calls into the kernel's framework, no state of their own |
| Sysfs register access | debug I/O of single registers |
| Serializer and deserializer register set-up | register tables written once per link; their failure is `SetupPipe`'s and `LinkFails` |
| Tegra camera stack patches (`src/nvidia-oot`, `src/kernel/nvidia`) | fragments of third-party drivers for each JetPack |
| Device trees, build and deployment scripts | no run-time state |
| Test programs (`src/test`) | clients of the driver; read for what they expect of it |
| Utilities (`src/utilities`) | stand-alone streaming, metadata and log tools on the public V4L2 interface. Of their lines, 24293 are the generated register list `JsonToBin/Input/Registers_B0.h`: a table without behaviour, which is also why the share of all source lines that the models stand for is small while most of the driver's control flow is in them. |

## 2. Plan

Done, in this order, because the first is what the others build on and all
consequences of a reset run through it: `D4xxFirmware`, `D4xxReset`, `SerdesPipes`,
`D4xxStream`, `D4xxProbe`; then `HwmcService` and `D4xxControls`, `D4xxDfu`,
`D4xxFormats`, and the power of a shared deserializer in `D4xxProbe`. The proofs of section 5
cover the safety properties and action properties of all of them.

Left:

1. A composition of `D4xxProbe` with `D4xxStream`: what the streams of a camera do
   while a neighbour's set-up cuts their link. The deserializer's reset generation,
   which nothing increments today, belongs there.
2. The exposure, which two instances write and read in halves.

## 3. The models

### 3.1 `D4xxFirmware` (external)

`power` is up, dying, down, booting or dfu. `fwst[i]` is what the firmware does with
stream `i` (idle, starting, streaming, stopping, rejected), `fwreg[i]` its configuration
registers, `ready` the control-status registers that still hold the scratch value.
Modelled from what `d4xx.c` writes, reads and waits for:

- `Acked`: the camera answers I2C when up, dying or booting, not when down. In
  recovery only the DFU magic has a valid value; whether other reads are acknowledged there is
  left open (`ResetFoundDfu`, which the code reaches only after such a read was, does not
  ask). `Nacked`: an access may fail if the camera does not answer, and at any time if `Faults`.
- One register access is one step, after the driver's own five retries. A failed write
  has not reached the firmware.
- START of an unacceptable configuration gives `rejected`: STREAM_STATUS reads
  streaming, CONFIG_STATUS has an INVALID bit and no STREAMING bit. The firmware looks at
  a rejected configuration again when a register is written (the driver retries
  by rewriting the registers).
- A reset loses all streams and registers (`FwGoDown`), some time after the command:
  until then, old values can be read.

### 3.2 `D4xxReset`

One action per access of `ds5_hw_reset_with_recovery` to shared state or the camera;
`rpc[i]` is the place of the reset called through instance `i`.

| code | model |
|---|---|
| `reset_gen`, `{..}_streaming` | `gen`, `flag` |
| `cached_device_type` valid | `devType` |
| `last_reset_jiffies` and the clock | `done` successful resets, `elapsed` of which are a whole cooldown ago; `snap[i]` is what a waiting reset read |
| steps 0-8 of the comments | `ResetEnter`, `ResetCooldownOver`; `ResetReadFlags`, `ResetStop`; `ResetBump`, `ResetClearFlags`; `ResetScratch`; `ResetSend`; `ResetReady`, `ResetFoundDfu`, `ResetReadyTimeout`; `ResetType`, `ResetTypeTimeout`; `ResetVersion` |

Abstractions: the STOPs of step 1 go out in any order; the increment of the generation and
the clearing of `cached_device_type` next to it are one step; version and build are read
in one step; re-applying the ESYNC setting at the end, whose result is ignored, is left out.
A camera that got the command goes down within the reset's timeout
(`ResetReadyTimeout` needs `power # "dying"`). `MaxReset` bounds how many resets are
asked for. The deserializer's own generation is never incremented in the
code and therefore not a variable. The liveness of a reset is checked with the driver's real calls
around it (`ResetReturns`, run `StreamLive`).

`StreamCall(i)` is what any call on stream `i` may do meanwhile: its own flag, its own
state and registers in the camera, nothing else.

### 3.3 `SerdesPipes`

`Available(alloc, vc)` and `Released(alloc, p)` for both deserializers. With `ReleaseFaults`
a max96712 release may report a failure after it has freed the pipe.

### 3.4 `D4xxStream`

`pc[i]` is the place of the call on instance `i`; `on`, `inval`, `status`, `reached`,
`conf`, `left`, `ret` are locals of `ds5_mux_s_stream` that matter later in the call,
reset when it returns.

| code | model |
|---|---|
| `sensor->{config,streaming,pipe_id,pipe_data_type*,cached_*}` | `want`, `streaming`, `pipe`, `pipeType`, `cached` |
| `reset_ref_ds5` against the generation | `ref`, `Stale` |
| 4892-4915 | `Synchronise`, `CallDuplicate`, `Call` |
| 4951-5013 | `Check`, `CheckUnread`, `CheckForce`, `CheckNoop` |
| 5015-5027 | `Mark` |
| `ds5_configure` | `ConfRelease`, `ConfNothingToRelease`, `TakePipe`, `OutOfPipes`, `SetupPipe`, `WriteConfig`, `Configured` |
| the command loop, 5027-5099 | `Command`, `ReadStream`, `ReadStatus*`, `ReadRejected`, `Again`, `LoopTimeout` |
| after the loop, 5102-5147 | `StartSucceeds`, `StopSucceeds`, `ToggleBack`, `DropPipe`, `Restore` |

Abstractions: calls of one instance do not overlap and formats change between calls (the
video node serialises both); the configuration registers hold whole configurations, so
that a stream is configured exactly if all its registers agree; the write of the forced STOP and
the clearing of the flag after it are one step; the first round of the loop always
runs. Without `Faults` a deadline passes only while the camera is away, or, in the
pre-check, when the state is steady and not the expected one. `restore_val` is always
the opposite of `on`, since a call for the state the sensor is in has
returned as a duplicate.

`Overlap = FALSE` keeps a client from asking for a reset while a call is in
progress and the other way round; with `TRUE` they interleave freely.

### 3.5 `D4xxProbe`

Constants give each instance its serializer (which stands for its camera) and deserializer.
`ds5_setup_and_link` and `ds5_release_slot` are one step each, under `serdes_lock__`, and so is
the power cycle with the link set-up, `PowerCycle`; the settings after it (`SetupDone`), the
rest of the probe, and removal are steps of their own, so that probes overlap. The removal of a primary
is two: `RemoveRelease` under `serdes_lock__`, and `RemovePowerOff`, before which anybody may
claim the slot, set the link up and become a peer. `link[c]` is what
became of the link of camera `c`: down, up since it was set up, cut, when the deserializer
lost its power for a neighbour (`PowerOff`), or lost, when a removed primary of the camera itself
powered it off after its successor had set it up again (`Renewed`). Whether the neighbour's set-up happens to bring
it back is up to the deserializer's driver and not modelled. `Freed` stands
for a pointer to an instance whose memory is gone: reading a serializer through it
gives either answer (`MayMatch`). `mishaps` is a history variable that names what has happened
among four things the slots do not survive:

- `early`: a probe before the SerDes *drivers* are bound (finding in 4);
- `nospc`: a slot claimed by a probe that then finds no deserializer slot;
- `late`: a primary whose probe fails after the link is complete, which never releases its slot;
- `orphans`: a primary removed before its peers.

Left out: the variant of `ds5_board_setup` for kernels without device trees, and the
slot's generation.

### 3.6 `D4xxControls` and `HwmcService`

A thread is a client with one node open. `op[t]` is its call, grouped by the shape of the
handler, since many controls differ only in what they send:

| code | model |
|---|---|
| `hdl->lock` (V4L2 framework), `state->lock` | `hlock`, `slock`; `LockHandler`, `LockState` |
| `ds5_hwmc_send` 2345, 2347 | `WriteCommand`, `Execute`, `SendFails` |
| `ds5_hwmc_wait` 2254-2287 | `StatusOk`, `StatusErr`, `TimesOut`, `ReadCode`, `ReadCodeFails` |
| `ds5_get_hwmc`, `ds5_get_calibration_data` | `Refused`; `ReadLen`, `LenRefused`, `ReadLenFails`, `ReadAnswer`, `ReadAnswerFails` |
| ends of the cases and of `ds5_s_ctrl` | `Return`, `KeepsLock` |
| `ds5_mux_open`, the other user of `state->lock` | the call `open` |

The mailbox is the content of the buffer and who wrote it, whose answer the length is about, the status, and the
command in progress; the firmware (external, `Firmware`) answers or rejects it at any time. Retries
of the polls are one step; the delays are not modelled. A length that does not fit is refused
(`LenRefused`), but an empty log is a success without an answer (3180).

`HwmcService` is what callers rely on: `own` is returned only by a caller whose command was
the last carried out, `wrong` only by one that was interfered with. The mapping takes `accepted`
from the author of the length register and `busy` from the places of the calls. `mishap` is
the history variable both speak of. It is filled exactly where the code lets a caller down:

- another thread's command goes through the mailbox between a command and the end of its call (2335), for
  HWMC_RW between its set and its get (3255);
- an earlier command is still in progress when the buffer is written (2268);
- `HWMC` reads an answer after a failed send (2953);
- a failed read of the error code is not noticed and the code is uninitialised (2274);
- `ds5_get_calibration_data` goes on after a failed read of the length (3049).

`leaked` holds the instances whose `state->lock` was left locked by ERB or EWB (2881, 2940).

### 3.7 `D4xxDfu`

`flag`, `count`, `once` are the gate, shared with the video nodes whose open and close call
`ds5_sensor_internal_ops` (whether `/dev/video*` does is up to the VI driver, which is not
in the tree); `pc`, `len`, `todo` the write in progress, which
holds `state->lock`, so that every other call waits (`Free`); `size`, `sent` the image the
client has in mind and how much of it was accepted; `cam`, `recv` the loader (external): the DFU states
the driver compares with, and the moves between them. Sizes count half blocks of 512 bytes: a
transfer ends in a short block exactly if its size is odd, and the short last block is what makes the
driver send "download complete".

`ds5_dfu_device_write` is `WriteBegin`, `Switch`, `Booted`, `WriteDetach`, `Detached`,
`WriteBlock`, `BlockStored`, `WriteEnd`, `Manifested`, `NothingLeft`, with the error paths
`WrongState`, `TransferFails` and `Abort`. `failed` and `lost` are histories (a write
failed on this handle; an open that failed after it was counted). `PowerLoss` and
`Settle` to an error come with `Faults`.

`rate` is the rate of the parent adapter, `saved` what this device will restore. With `Shared`, another
camera's depth instance is behind the same adapter, as on the boards of
`hardware/realsense/tegra234-camera-d4xx-overlay-dual.dts` (both behind one mux of `i2c@3180000`). Of
its device only what it does to the bus is modelled (`other`, `otherSaved`); its lock is not ours, so an
open reads the rate (`DfuOpen`, `OtherOpen`) and sets it (`DfuOpened`, `OtherOpened`) in two steps.
`crossed` is the history of the order in which the rate is not restored: a device is closed while the
other one holds the rate of an update as the one to restore.

Left out: what reads return besides their parity, and the version strings.
`ds5_dfu_wait_for_status` (5602) returns 0 even when its polls run out; the read of the device
information that follows (5698) is part of `Detached` and may fail as `TransferFails`.

### 3.8 `D4xxFormats`

The tables of `ds5_fixed_configuration` in full, for every device type and sensor (`Res`, `Fmt`,
`FormatsOf`), and the four configurations of one instance. `set_fmt` is `SetFmtBegin`, one `Improve` per size
the search writes to `config.resolution`, and `SetFmtEnd`; `s_frame_interval` reads the
resolution (`IntervalBegin`) and stores the rate (`IntervalEnd`); a start reads format, rate, width and
height one after the other. Other calls may come between these steps (`Overlapping`).
The enumerations and `get_fmt` change nothing and are operators the properties compare with.
`Distance` and `ProbeRate` are the code's arithmetic, the latter with the cut of the quotient to 16
bits. `tried`, `stale` and `stray` are histories: the last format of a sensor was a TRY; its rate is
older than its format, or was set while another call changed it; the last `set_fmt` was for another sensor.

Left out: the branch of `ds5_fixed_configuration` for cameras that were configured beforehand (5530-5564,
`cfg0 & 0xff00 == 0x1800`), a development aid that sets `streaming` and the format and leaves the rate at
0 until it is set; requests whose area exceeds 31 bits (`FormatsAssumption` excludes them: the code's `abs` works
on an `int`), and the metadata format of the video node.

## 4. The runs

| run | specification | bounds | checks | states |
|---|---|---|---|---|
| `StreamReliable` | `DriverSpec` | 2 streams, 2 data types, 2 resets, no faults, no overlap of resets and calls | `DriverTypeOK`, `BooksMatchCamera`, `StartDelivers` | 325 k |
| `StreamFaults` | `DriverSpec` | 2 instances, one of which streams and resets, a good and a rejected configuration, 2 registers, 1 retry, 2 resets, 2 pipes, all faults, no overlap | `FlagAgrees`, `CacheCoherent`, `NoPipeLeak`, `PipeForEveryone`, `ResetPromise`, `CooldownAfterSuccess` | 882 k |
| `StreamLive` | `DriverFairSpec` | 2 instances, one of which streams, rejected configurations, 2 overlapping resets, no faults | `ImplementsReset`, `NoPipeLeak`, `ResetReturns`, `CallReturns` | 156 k |
| `PipesFew` | `DriverSpec` | 2 streams, 2 data types, 1 pipe, no reset | `PipeExclusive` | 10 k |
| `ProbeSlots` | `Spec` | 4 instances, 3 cameras, 2 deserializers; 2 camera slots, 1 deserializer slot | `TypeOK`, `OneSlotPerCamera`, `DserShared`, `PeersAgree`, `LinksStay` | 308 k |
| `Controls` | `FairSpec` | 2 clients on one node or on two nodes of a camera, one with every call, the other with five of the nine, all faults | `TypeOK`, `LockReleased`, `ImplementsService`, `ControlReturns` | 232 k |
| `Dfu` | `FairSpec` | 2 video handles, images of up to 3 half blocks, another camera behind the adapter, all faults | `TypeOK`, `GateRests`, `BusRests`, `UpdateExclusive`, `SentIsInstalled`, `WriteEnds` | 547 k |
| `Formats` | `Spec` | every device type and sensor with every size of its tables and five others, one call at a time; overlapping calls through two nodes on one, over three codes on another | `TypeOK`, `StartMatchesReport`, `StartRateOffered`, `FormatHonoured`, `RateHonoured` | 340 k |
| `ResetSiblings` | `Spec` | 2 instances, both reset, 2 resets, no faults | violates `ResetPromise` | |
| `StreamTimeout` | `DriverSpec` | 1 stream, 1 reset, faults, no overlap | violates `TimedOutStartFails` | |
| `StreamSkipped` | `DriverSpec` | 1 stream, 1 overlapping reset, no faults | violates `NoStartSkipped` | |
| `ProbeNotReady` | `Spec` | as `ProbeSlots` | violates `NotReadyDefers` | |

*Why the bounds are enough to be interesting.* Two resets let a sensor be stale by
more than one generation and let a cooldown be waited for. Two registers are the least for which a
configuration can be half written; two data types make a start replace its pipe; one retry separates
the two branches of a rejected configuration. One pipe for two sensors is exhaustion with hand-over. Two
camera slots for three cameras and one deserializer slot for two deserializers make both tables
run out; one camera with two instances is the least that has a peer, and two cameras behind one
deserializer the least with a neighbour. Two clients are enough to interfere, since each action of a call concerns
one other command at most; on one node they compete for both locks, on two for the mailbox alone. The second client makes one
call of each kind that matters to a neighbour (a set that may leave its lock locked, a command in two parts, a
get without `state->lock`, an open). Three
half blocks are the least image with a full and a short block, and it can be cut in all ways, even in the
middle of a block; two video handles tell a count from a flag. An adapter with two
devices is the least that is shared.

*Deadlock.* `ProbeSlots` switches the check off because the system may stop: after
`ProbeUnready` the kernel follows a NULL pointer and that probe ends there. In `Controls` both clients
may wait for a lock that ERB or EWB left locked; in `Dfu` an open that failed after it was
counted (5886) closes a camera in recovery for good, and nothing need happen then.

*Symmetry.* `PipesFew` makes its two sensors and two configurations
interchangeable (same virtual channel and register for both); `ProbeSlots` the two
instances of one camera. Neither checks liveness.

*What holds.*

- A reset that reports success has a working camera behind it, if resets of one
  camera do not overlap, and the cooldown is kept after each successful one (`ResetPromise`,
  `CooldownAfterSuccess`). Every wait ends (`ResetReturns`), and so does every start and
  stop (`CallReturns`), with resets through one instance in the middle of it.
- On a working bus without overlap the driver's books match the camera after every call,
  and a start that succeeds delivers what was selected, through resets and format changes.
- With faults anywhere, both records of what streams still agree between calls, and the
  cache hides no write that is needed. `BooksMatchCamera` is *not* claimed there: a STOP that
  fails, and the toggle back that fails after it, leave a stream running.
- With resets in the middle of calls, the pipes stay accounted for, and the driver
  implements the reset's specification.
- Slots: `OneSlotPerCamera` and `DserShared` hold always, even through freed
  pointers; `PeersAgree` and `LinksStay` hold as long as none of the four mishaps occurred. An instance in use
  can lose its link in two ways that the model names, and only in these: to the set-up or removal of a
  neighbour ("cut"), and to an older primary of its own camera whose removal has given up the slot and not yet
  the power ("lost").
- Controls: every answer is the caller's own but for the five kinds of interference of 3.6; both
  locks are released but for the two paths of ERB and EWB, and every other call returns.
- Update: the gate comes to rest and excludes video nodes from a download that has not failed. An image that
  ends in a short block, all of which the driver took, is installed as a whole, whatever lost power; what the
  driver reports as done is what the writes handed over so far. That is *not* the whole image if a write ended
  within a block: the client has to cut it between blocks. Once all update devices are closed the bus has its old
  rate, unless one was closed under the other that had saved the rate of its update (see below).
- Formats: all tables are searched as they should be, for exact sizes and for others, with a code that is
  offered (for one that is not, see below); a start programs what
  `get_fmt` reports and a rate that is offered for it, under the conditions that
  the properties name.

*What does not hold, and what the code or its documents say.*

1. `ResetSiblings`. 2472-2479 says the reset waits for the camera to come back
   before it "Returns 0 on success". With two instances resetting, one polls the register and
   the cached type that the other changes, and returns 0 just after the other has
   sent the camera down.
2. `StreamTimeout`. `src/probe_flow_sequence_diagram.md:1057`: "Streaming timeout → Send stop
   command, return -EAGAIN". After the forced stop (4981-4996) `status` still has the
   bit read before it; if the loop's deadline passes before CONFIG_STATUS is read again, the start
   returns 0 with the camera idle.
3. `StreamSkipped`. 2545-2548: the generation is advanced "so that
   ds5_mux_s_stream() won't silently skip the next stream-start". A start between the
   increment (2560) and the reset command, through whichever instance of the camera (in the run, the
   one that resets: only the video node's calls are serialised, not its controls), is up to date with the generation, is undone by the
   reset, and the next start is spared as a duplicate. The same window has a mirror
   image, not a run of its own: a start that read the old generation and
   completes when the camera is back is forgotten by the next call's
   invalidation, and the STOP that follows returns 0 without stopping anything.
4. `ProbeNotReady`. `src/probe_flow_sequence_diagram.md:1053`: "SerDes devices not ready → Return
   `-EPROBE_DEFER`". A device without a driver leaves `ds5_board_setup` with `err` at 0
   (3783, 3805), and the probe goes on as a peer with `ds5_dev` NULL.

Two more disagreements have no run of their own; the properties leave them out by name:

- `src/probe_flow_sequence_diagram.md:1058` (and `probe_flow_sequence_diagram_single_bus.md:945`): "Invalid format
  requested → Return `-EINVAL`". `ds5_sensor_find_format` takes the first format of the table for a
  code that is not offered (1701-1707, "Not found, use default"), and the call succeeds. The code does what
  V4L2 asks of `set_fmt`, which adjusts a request and does not refuse it; the document is wrong about it.
  `Formats` contains such requests, and `FormatHonoured` claims nothing of them.
- 6045: "get i2c controller and restore bus clock rate". Each depth instance saves the rate of the
  adapter for itself (5906), but two of them share the adapter. With open A, open B, release A, release B, the
  first release changes the rate under B, and the second restores the rate of A's update: the bus
  keeps it, with no update device open. `crossed` names the case; without it TLC
  refutes `BusRests` on `Dfu` within seven states.

Further behaviours met while modelling, of which no comment or document says otherwise; the properties leave
them out by name:

- A start that finds no pipe leaves a negative errno in `pipe_id` (1953), which is not
  `PIPE_NOT_CONFIGURED`; a later one with the same data type streams without a pipe and returns 0.
- `max96712_release_pipe` frees the pipe and may then fail, so that `pipe_id` is kept and two sensors can hold one
  pipe (`PipeExclusive` needs releases that do not fail).
- A reset that fails after its command was sent does not arm the cooldown (2688), although
  2377-2379 asks for an interval between any two.
- The mishaps of `D4xxProbe`: `nospc`, `late`, `orphans`; the power cycle (4064) and power-off
  (6538) of a deserializer that other cameras stream through; and the same power-off after the slot was
  released (6517, the lock dropped at 3641), which ends the link of a new primary of the same camera.
- ERB and EWB leave `state->lock` locked when the mailbox fails (2881, 2940); the next set, open, format or
  update of that instance waits for ever. The five kinds of interference of 3.6.
- The answer of `HWMC_RW` to a rejected command has the length 65532: `dataLen` is 0 then, and 4 is
  taken away from it (3263).
- An update device whose open ran out of memory (5886) can never be opened again. A failed write
  sets the state to IDLE while the device is open (5863), and video nodes may be opened. An image whose length is a
  multiple of 1024 is downloaded and never completed (5831), and a write that ends within a block
  completes it early. The loops that look for the parent I2C adapter at 5893 and 6046 test a
  pointer they do not advance.
- `set_fmt` keeps the rate of the format before (FIXME at 1771); with TRY it changes the active
  configuration (1767). `s_frame_interval` of the mux sets the rate of the sensor last set (4864), and
  `ds5_mux_s_stream` keeps its books on that sensor, too (4887), while `ds5_configure` programs
  the instance's own. `D4xxStream` assumes that they are the same.

*Fairness.* No client has to ask for anything. `DriverFairSpec` assumes that the kernel runs a thread that
can go on (weak fairness of each thread's next step), that the camera finishes what it started
(each stream settles; a reset camera reboots), that deadlines arrive (strong fairness of
`LoopTimeout`, because the loop tests the clock once a round, and weak fairness of the ways out of
the pre-check) and that the cooldown elapses: the jiffies counter gives this in the code. In
`D4xxControls` `FairSpec` has weak fairness of each thread's accesses and of the firmware, which ends
every command, and strong fairness of taking a lock: a kernel mutex that is free again and again is
granted, as its waiters queue. In `D4xxDfu` the thread in a write runs, the loader boots
and ends what it does; `WriteEnds` needs the latter, as the polls for the status of a block (5680) have
no limit.

## 5. The proofs

TLAPS checks every theorem for all values of the constants that satisfy the named
assumptions of the modules (`FirmwareAssumption`, `ResetAssumption`, `PipesAssumption`,
`StreamAssumption`, `ProbeAssumption`, `ControlsAssumption`, `DfuAssumption`: sizes are naturals,
tables are functions on the instances, pointers and threads are told apart; `FormatsAssumption`
types what clients ask for and keeps its area within an `int`). TLC evaluates these on every run.

`D4xxReset_proofs`

- `ResetTypes`: `Spec => []TypeOK`, inductive as it stands.
- `AloneResetPromise`: `ResetPromise` if a single instance resets (`Resetters = {r}`). The property is not
  inductive: that the camera is whole at the end follows from where the reset was before.
  `Handshake(r)` says so for each place of `r`: the scratch value is there when
  the command is sent and until the camera goes down; when the register reads its default
  again the camera has been down; a device type read then is that of a camera whose link is up.
  Other instances' calls on streams do not touch it. `ResetSiblings` shows that the
  assumption cannot be dropped.
- `AloneCooldownAfterSuccess`: by `Cooled(r)`, between the end of the wait and the
  command no reset has set the time anew. It needs a single resetter, as two
  could both wait for an older one.

`D4xxStream_proofs`

- `DriverTypes`: `DriverSpec => []DriverTypeOK`.
- `DriverImplementsReset`: `DriverSpec => Spec` of `D4xxReset`, with the identity as
  refinement mapping (`D4xxStream` extends its variables). Every step of a
  call is a `StreamCall` of its instance or a stutter, case by case (`StreamStepRefines`).
- `DriverKeepsResetPromise`: with the former, what was proved of the abstract reset
  is true of the driver with its real calls.

`D4xxPipes_proofs`

- A call has 24 kinds of steps, and few concern a pipe: `CallPipeStep` tells them
  apart once, and the invariants look at these only.
- `NoPipeLeaks`: `NoPipeLeak` in general; nothing is assumed of faults, number of pipes or resets.
- `PipesExclusive`: `PipeExclusive` if releases do not fail. It needs the invariant that a pipe
  somebody holds is marked as taken (`Owned`), so that the allocation cannot return it.
- `PipesSuffice`: `PipeForEveryone` for either deserializer: a max96712 with at least as many pipes as
  (finitely many) sensors (`PipeEach`), where the taken pipes are known to sensors other than the one
  that allocates (`NoPipeLeak`), so that one is free by the pigeonhole principle; and a max9296 with
  a virtual channel for each sensor (`ChannelEach`), where nobody else ever holds a sensor's pipe
  (`OwnChannel`). It does not need exclusiveness, so releases may fail.

`D4xxBooks_proofs`

- `FlagsAgree`: `FlagAgrees`, if calls and resets do not overlap. The books of a sensor are only claimed if it
  has seen the latest generation (`Flags`), and it can be behind only between calls, or while
  a reset is past its increment (`Turns`).
- `CachesAreCoherent`: `CacheCoherent`, if moreover a single instance resets. A register can lose its
  value only when the camera goes down, and by `Handshake` (above, through
  `DriverImplementsReset`) that happens after the generation was advanced.
- `BooksMatch`: `BooksMatchCamera`, and `StartsDeliver`: `StartDelivers`, on a working bus (`Working(r)`: no
  faults, one instance that resets, no reset during a call, and `PipeEach` or `ChannelEach`), the latter if
  releases do not fail. Rejected configurations, resets between calls, format changes
  and retries remain. Both
  properties speak of the idle driver; what makes them true is said place by place: `CallKnows(i)` relates
  the locals of a call (`on`, `status`, `reached`, `conf`) to what the firmware does with the stream when the
  call is there (before the command it is idle or, on a retry, rejected; after the loop it is what
  `status` says), `CallHas(i)` adds pipe and registers (past `ds5_configure`
  the pipe is one of the deserializer's with the right data type, and each cached register value is the
  one wanted; that the camera holds it is `Caches`). `Back(r)` says the same of a reset: it leaves no
  stream, and the camera up. Resets and other sensors' calls leave all this alone
  (`KnowsReset`, `KnowsClient`, `KnowsCamera`). No hypothesis can go. On the instance of `StreamReliable.cfg`
  TLC refutes `BooksMatchCamera` once faults, a second resetting instance or too few pipes are allowed, and
  `StartDelivers` once resets may overlap calls or releases may fail: a failed access or
  an early deadline ends a call whose command the camera still carries out, and after a failed release
  a pipe may be shared.

`D4xxProbe_proofs`

- `ProbeTypes`, `OneSlot`, `DserSlotsShared`, `PeersOfOneCamera`, `LinksOfPeersStay`: the five properties of
  `ProbeSlots`, for any number of instances, cameras and slots. They rest on
  `Owned`: from its claim until it lets go, a primary's slot names it and nobody else
  claims or frees it; while it sets the link up the slot is not complete, so nobody
  is a peer yet; one that is being removed owns none. `TableStep` names the only ways in which the tables change. `LinkInv` (a
  complete slot's camera has a link that was set up) needs `OneSlotPerCamera`: a
  primary that gives up takes its camera's link down, and no other slot may depend on it. A removed
  primary may still power a link off that its successor has set up (`LinkInvPowerOff`); it is lost
  then, not down: that `LinksStay` admits this is what makes it true of the code.

`D4xxControls_proofs`

- `ControlsTypes`, `StateLockReleased`: inductive, for any number of threads and instances.
- `ControlsImplementService`: `Spec => ImplementsService`, under the mapping of 3.6. `Undisturbed(t)` says,
  for each place of a thread nobody interfered with, where its command is: in the
  buffer before EXEC, in progress, carried out with its answer in the buffer, or rejected. Every access of
  another thread marks it as interfered with before it can change this.

`D4xxDfu_proofs`

- `DfuTypes`, `GateIsRestored`, `DownloadIsExclusive`, `SentImageIsInstalled`, `BusIsRestored`: the safety
  properties of `Dfu`, for any number
  of handles and images of any size. `GateInv` relates flag, count and handles. `BusInv` says who has saved what:
  a device that is open alone has saved the old rate, and of two at least one has; which of them is closed
  first decides, and `crossed` names the wrong one. `Downloading` says how much
  the loader has at each step of a write (what earlier writes returned and what this one has transferred,
  unless it lost all of it) and in which states it can then be: if it lost the image, it is in
  none from which the download goes on.

`D4xxFormats_proofs`

- The tables (`FormatsTyped`): for every device type, firmware and sensor there are formats, each has sizes,
  each size has rates; the rates ascend and no two sizes of a format have the same area. The
  latter is more than that no size is listed twice, and the search needs it: it compares
  areas only, so that a client would not get the size it enumerated if an earlier one had the same area. A
  new table has to keep this. The proof composes the tables from runs of sizes as the definitions
  do (`EachSize`, `Joined`).
- The operators: `FirstLeast`, `FindIs`, `ProbeRateIs`. That rates ascend is what makes the first that
  is enough the least.
- `FormatsTypeCorrect`: `TypeOK`, by `Typed`, which types the calls in progress, too.
- `FormatsGranted`: `FormatHonoured`, for codes that are offered. `Searched` is the loop invariant of the search: the configured size
  is the nearest of those seen. `SearchStep` and `SearchEnd` are its two halves.
- `RatesGranted`: `RateHonoured`, from `ProbeRateIs`.
- `StartAsReported`: `StartMatchesReport`, and `StartRateEnumerated`: `StartRateOffered`. Between two
  `set_fmt` of a sensor its format, size and report belong together (`Current`); a rate that is not `stale`
  belongs to the size (`Fresh`), because an interval call nobody disturbed worked on the size in
  force and on the sensor its node stands for (`Clean`, `Unstrayed`); and what a start that nobody disturbed has
  read is still in force (`Whole`). They hold for any set of instances, requests and overlaps.

*Only model-checked*: liveness (`ResetReturns`, `CallReturns`, `ControlReturns`, `WriteEnds`), which is out
of the prover's reach, and the four violations, which are counterexamples. TLC checked
the invariants of `D4xxBooks_proofs` and `D4xxFormats_proofs` on the instances of `StreamReliable` and `Formats`
before they were proved.
