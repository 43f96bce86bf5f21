------------------------------- MODULE D4xxDfu -------------------------------
(***************************************************************************)
(* Firmware update through /dev/d4xx-dfu (ds5_dfu_device_* of d4xx.c), the *)
(* gate it shares with the video nodes (ds5_mux_open, ds5_mux_close), and  *)
(* the camera's DFU loader as the driver drives it.                        *)
(*                                                                         *)
(* The character device belongs to the depth instance.  Its operations and *)
(* the opening of that instance's video nodes, those whose open and close  *)
(* call ds5_sensor_internal_ops, exclude each other through a state flag   *)
(* and a count under state->lock.  A write holds the lock over many        *)
(* transfers: its steps interleave with the camera's, and calls come       *)
(* between writes.  Sizes count half blocks, so that a transfer ends in a  *)
(* short block if it is odd.                                               *)
(*                                                                         *)
(* An open device runs the I2C bus at a rate of its own, which is a        *)
(* property of the parent adapter: another camera's depth instance behind  *)
(* that adapter saves, sets and restores it too, under its own lock.       *)
(***************************************************************************)
EXTENDS Integers, FiniteSets

CONSTANTS
  MaxVideo,    \* bound: video handles open at a time
  MaxImage,    \* bound: half blocks of a firmware image
  Shared,      \* another camera is behind the same I2C adapter
  Faults       \* TRUE: transfers fail, the camera loses power, memory is short

ASSUME DfuAssumption ==
  /\ MaxVideo \in Nat
  /\ MaxImage \in Nat
  /\ Shared \in BOOLEAN
  /\ Faults \in BOOLEAN

VARIABLES
  flag,        \* dfu_dev.dfu_state_flag
  count,       \* dfu_dev.device_open_count
  rate,        \* the clock rate of the parent adapter
  saved,       \* dfu_dev.bus_clk_rate
  other,       \* the update device of the other camera
  otherSaved,  \* its bus_clk_rate
  crossed,     \* history: a device was closed under the other one, which had
               \* saved the rate of an update
  once,        \* dfu_dev.msg_write_once
  pc,          \* where the write that holds state->lock is
  len,         \* its length
  todo,        \* half blocks it has yet to transfer
  nodes,       \* the video nodes were registered
  video,       \* open handles of video nodes
  dfu,         \* a client has the character device open
  lost,        \* history: opens that failed after they were counted
  size,        \* the image the client wants to install
  sent,        \* how much of it was accepted by writes
  failed,      \* history: a write on this handle failed
  cam,         \* what the camera does
  recv,        \* how much the loader received
  installed    \* history: how much it had received at the last manifestation

gate == <<flag, count>>
writeVars == <<pc, len, todo>>
client == <<nodes, video, dfu, lost>>
image == <<size, sent, failed>>
camera == <<cam, recv, installed>>
ours == <<rate, saved>>
others == <<other, otherSaved>>
bus == <<ours, others, crossed>>
vars == <<gate, bus, once, writeVars, client, image, camera>>

Flag == {"IDLE", "RECOVERY", "OPEN", "IN_PROGRESS", "DONE", "ERROR"}
Pc == {"idle", "opening", "switch", "boot", "detach", "detached", "block", "wrote",
       "wroteLast", "end", "ended", "fail"}
Rate == {"normal", "dfu"}

\* app, and the states of the DFU protocol with the moves between them:
\* reboot (to the loader), busy (storing a block), closing (checking the image).
Camera == {"app", "reboot", "loader", "dfuIDLE", "busy", "dfuDNLOAD_IDLE",
           "closing", "dfuMANIFEST", "dfuERROR"}

TypeOK ==
  /\ flag \in Flag
  /\ count \in Nat
  /\ rate \in Rate /\ saved \in Rate /\ otherSaved \in Rate
  /\ other \in {"closed", "opening", "open"}
  /\ crossed \in BOOLEAN
  /\ once \in BOOLEAN
  /\ pc \in Pc
  /\ len \in Nat
  /\ todo \in Nat
  /\ nodes \in BOOLEAN
  /\ video \in Nat
  /\ dfu \in BOOLEAN
  /\ lost \in Nat
  /\ size \in Nat
  /\ sent \in Nat
  /\ failed \in BOOLEAN
  /\ cam \in Camera
  /\ recv \in Nat
  /\ installed \in Nat

\* ds5_probe: a camera that shows the DFU magic gets no video nodes.
Init ==
  /\ \/ flag = "IDLE" /\ nodes = TRUE /\ cam = "app"
     \/ flag = "RECOVERY" /\ nodes = FALSE /\ cam = "loader"
  /\ count = 0 /\ once = FALSE
  /\ rate = "normal" /\ saved = "normal"
  /\ other = "closed" /\ otherSaved = "normal" /\ crossed = FALSE
  /\ pc = "idle" /\ len = 0 /\ todo = 0
  /\ video = 0 /\ dfu = FALSE /\ lost = 0
  /\ size = 0 /\ sent = 0 /\ failed = FALSE
  /\ recv = 0 /\ installed = 0

Free == pc = "idle"         \* state->lock
Step(from, to) == pc = from /\ pc' = to
Acked == cam # "reboot"

-----------------------------------------------------------------------------
(* The gate.                                                               *)

VideoOpen ==
  /\ Free /\ nodes /\ video < MaxVideo
  /\ flag = "IDLE"
  /\ count' = count + 1
  /\ video' = video + 1
  /\ UNCHANGED <<flag, bus, once, writeVars, nodes, dfu, lost, image, camera>>

\* Mutant: the file may be closed twice.
VideoCloseTwice ==
  /\ Free /\ nodes
  /\ count' = count - 1
  /\ video' = IF video > 0 THEN video - 1 ELSE 0
  /\ UNCHANGED <<flag, bus, once, writeVars, nodes, dfu, lost, image, camera>>

VideoClose ==
  /\ Free /\ video > 0
  /\ count' = count - 1
  /\ video' = video - 1
  /\ UNCHANGED <<flag, bus, once, writeVars, nodes, dfu, lost, image, camera>>

Opened == IF flag = "RECOVERY" THEN flag ELSE "OPEN"

\* Mutant: the open video nodes are not looked at.
DfuOpenAlways(n) ==
  /\ Step("idle", "opening") /\ ~dfu
  /\ flag' = Opened
  /\ count' = count + 1
  /\ saved' = rate
  /\ dfu' = TRUE
  /\ size' = n /\ sent' = 0 /\ failed' = FALSE
  /\ UNCHANGED <<rate, others, crossed, once, len, todo, nodes, video, lost, camera>>

\* The rate of the bus is read ...
DfuOpen(n) ==
  /\ Step("idle", "opening") /\ count = 0
  /\ flag' = Opened
  /\ count' = count + 1
  /\ saved' = rate
  /\ dfu' = TRUE
  /\ size' = n /\ sent' = 0 /\ failed' = FALSE
  /\ UNCHANGED <<rate, others, crossed, once, len, todo, nodes, video, lost, camera>>

\* ... and then set, with state->lock held but nothing that others would take.
DfuOpened ==
  /\ Step("opening", "idle")
  /\ rate' = "dfu"
  /\ UNCHANGED <<gate, saved, others, crossed, once, len, todo, client, image, camera>>

\* -ENOMEM comes after the device was counted and marked as open.
DfuOpenFails ==
  /\ Faults /\ Free /\ count = 0
  /\ flag' = Opened
  /\ count' = count + 1
  /\ lost' = lost + 1
  /\ UNCHANGED <<bus, once, writeVars, nodes, video, dfu, image, camera>>

\* Mutant: the rate is restored last, and not if the camera does not answer.
RestoreRateLast ==
  /\ rate' \in {rate, saved}
  /\ crossed' = (crossed \/ (other # "closed" /\ otherSaved = "dfu"))

RestoreRate ==
  /\ rate' = saved
  /\ crossed' = (crossed \/ (other # "closed" /\ otherSaved = "dfu"))

\* Mutant: the state stays what the last write made it.
DfuReleaseKeepsFlag ==
  /\ Free /\ dfu
  /\ count' = count - 1
  /\ dfu' = FALSE
  /\ RestoreRate
  /\ UNCHANGED <<flag, saved, others, once, writeVars, nodes, video, lost, image, camera>>

\* The reads that verify the communication only change what is printed.
DfuRelease ==
  /\ Free /\ dfu
  /\ count' = count - 1
  /\ flag' = IF flag = "RECOVERY" THEN flag ELSE "IDLE"
  /\ dfu' = FALSE
  /\ RestoreRate
  /\ UNCHANGED <<saved, others, once, writeVars, nodes, video, lost, image, camera>>

\* The other camera's device does the same to the bus under its own lock.
OtherOpen ==
  /\ Shared /\ other = "closed"
  /\ other' = "opening" /\ otherSaved' = rate
  /\ UNCHANGED <<gate, ours, crossed, once, writeVars, client, image, camera>>

OtherOpened ==
  /\ other = "opening"
  /\ other' = "open" /\ rate' = "dfu"
  /\ UNCHANGED <<gate, saved, otherSaved, crossed, once, writeVars, client, image, camera>>

OtherRelease ==
  /\ other = "open"
  /\ other' = "closed" /\ rate' = otherSaved
  /\ crossed' = (crossed \/ (dfu /\ saved = "dfu"))
  /\ UNCHANGED <<gate, saved, otherSaved, once, writeVars, client, image, camera>>

\* A HW reset, which needs a video handle, finds the DFU magic: the camera is
\* in its loader or comes back in it.
ResetFindsRecovery ==
  /\ Free /\ video > 0
  /\ cam # "app" \/ Faults
  /\ flag' = "RECOVERY"
  /\ cam' = "loader" /\ recv' = 0
  /\ UNCHANGED <<count, bus, once, writeVars, client, image, installed>>

-----------------------------------------------------------------------------
(* ds5_dfu_device_read: every other read reports the end of the file.  In   *)
(* recovery it detaches the loader first.                                  *)

Loader == Camera \ {"app", "reboot"}

Detach ==
  /\ cam' = IF cam \in Loader THEN "dfuIDLE" ELSE cam
  /\ recv' = IF cam \in Loader THEN 0 ELSE recv

DfuRead ==
  /\ Free /\ dfu /\ Acked
  /\ once' = ~once
  /\ IF flag = "RECOVERY" THEN Detach ELSE UNCHANGED <<cam, recv>>
  /\ UNCHANGED <<gate, bus, writeVars, client, image, installed>>

-----------------------------------------------------------------------------
(* ds5_dfu_device_write, step by step.                                     *)

Entry == CASE flag = "OPEN" -> "switch"
           [] flag = "RECOVERY" -> "detach"
           [] flag = "IN_PROGRESS" -> "block"
           [] OTHER -> "fail"

\* The next part of the image, however the client cuts it.
WriteBegin(n) ==
  /\ dfu /\ Step("idle", Entry)
  /\ sent + n <= size
  /\ len' = n /\ todo' = n
  /\ UNCHANGED <<gate, bus, once, client, image, camera>>

\* ds5_dfu_switch_to_dfu: the command, then wait until the loader answers.
Switch ==
  /\ Step("switch", "boot")
  /\ cam' = IF cam = "app" THEN "reboot" ELSE cam
  /\ UNCHANGED <<gate, bus, once, len, todo, client, image, recv, installed>>

Booted ==
  /\ Acked
  /\ Step("boot", "detach")
  /\ UNCHANGED <<gate, bus, once, len, todo, client, image, camera>>

WriteDetach ==
  /\ Step("detach", "detached")
  /\ Detach
  /\ UNCHANGED <<gate, bus, once, len, todo, client, image, installed>>

\* Detached and its device information read.
Detached ==
  /\ cam = "dfuIDLE"
  /\ Step("detached", "block")
  /\ flag' = "IN_PROGRESS"
  /\ UNCHANGED <<count, bus, once, len, todo, client, image, camera>>

Unit == IF todo > 1 THEN 2 ELSE 1     \* a full block, or the short one

\* The loader takes a block while it is idle.
WriteBlock ==
  /\ todo > 0
  /\ Step("block", IF todo > 1 THEN "wrote" ELSE "wroteLast")
  /\ todo' = todo - Unit
  /\ IF cam \in {"dfuIDLE", "dfuDNLOAD_IDLE"}
       THEN cam' = "busy" /\ recv' = recv + Unit
       ELSE UNCHANGED <<cam, recv>>
  /\ UNCHANGED <<gate, bus, once, len, client, image, installed>>

BlockStored ==
  /\ cam = "dfuDNLOAD_IDLE"
  /\ \/ Step("wrote", "block")
     \/ Step("wroteLast", "end")
  /\ UNCHANGED <<gate, bus, once, len, todo, client, image, camera>>

\* "Download complete", only after a short block.
WriteEnd ==
  /\ Step("end", "ended")
  /\ cam' = IF cam = "dfuDNLOAD_IDLE" THEN "closing" ELSE cam
  /\ UNCHANGED <<gate, bus, once, len, todo, client, image, recv, installed>>

WriteReturns ==
  /\ sent' = sent + len
  /\ len' = 0
  /\ UNCHANGED <<count, bus, once, todo, client, size, failed, camera>>

\* Mutant: the state at the end is not compared.
ManifestedAny ==
  /\ cam # "closing"
  /\ Step("ended", "idle")
  /\ flag' = "DONE"
  /\ WriteReturns

Manifested ==
  /\ cam = "dfuMANIFEST"
  /\ Step("ended", "idle")
  /\ flag' = "DONE"
  /\ WriteReturns

NothingLeft ==
  /\ todo = 0
  /\ Step("block", "idle")
  /\ WriteReturns
  /\ UNCHANGED flag

\* ds5_dfu_wait_for_get_dfu_status: the camera has settled in another state
\* than the one waited for.
Awaited == CASE pc = "detached" -> "dfuIDLE"
             [] pc = "ended" -> "dfuMANIFEST"
             [] OTHER -> "dfuDNLOAD_IDLE"

\* Mutant: only the first wait notices.
WrongStateDetach ==
  /\ pc = "detached"
  /\ cam \notin {"busy", "closing", Awaited}
  /\ pc' = "fail"
  /\ UNCHANGED <<gate, bus, once, len, todo, client, image, camera>>

WrongState ==
  /\ pc \in {"detached", "wrote", "wroteLast", "ended"}
  /\ cam \notin {"busy", "closing", Awaited}
  /\ pc' = "fail"
  /\ UNCHANGED <<gate, bus, once, len, todo, client, image, camera>>

\* A transfer fails or the loader does not come up; in the wait for the status
\* of a block there is no limit to the polls, but each may fail.
TransferFails ==
  /\ Faults
  /\ pc \notin {"idle", "opening", "fail"}
  /\ pc' = "fail"
  /\ UNCHANGED <<gate, bus, once, len, todo, client, image, camera>>

\* dfu_write_error: tell the loader to abort.
Abort ==
  /\ Step("fail", "idle")
  /\ \/ flag' = "IDLE" /\ Detach
     \/ (Faults \/ ~Acked) /\ flag' = "ERROR" /\ UNCHANGED <<cam, recv>>
  /\ failed' = TRUE
  /\ len' = 0 /\ todo' = 0
  /\ UNCHANGED <<count, bus, once, client, size, sent, installed>>

-----------------------------------------------------------------------------
(* The camera.                                                             *)

Boot ==
  /\ cam = "reboot"
  /\ cam' = "loader" /\ recv' = 0
  /\ UNCHANGED <<gate, bus, once, writeVars, client, image, installed>>

\* A block is stored, an image accepted or not.
Settle ==
  /\ \/ cam = "busy" /\ cam' = "dfuDNLOAD_IDLE" /\ UNCHANGED installed
     \/ cam = "closing" /\ cam' = "dfuMANIFEST" /\ installed' = recv
     \/ Faults /\ cam \in {"busy", "closing"} /\ cam' = "dfuERROR"
        /\ UNCHANGED installed
  /\ UNCHANGED <<gate, bus, once, writeVars, client, image, recv>>

\* The new firmware starts, once the driver has seen that it was accepted.
Restart ==
  /\ Free /\ cam = "dfuMANIFEST"
  /\ cam' = "app" /\ recv' = 0
  /\ UNCHANGED <<gate, bus, once, writeVars, client, image, installed>>

\* What interrupts an update leaves the camera in its loader.
PowerLoss ==
  /\ Faults /\ cam \in Loader
  /\ cam' = "loader" /\ recv' = 0
  /\ UNCHANGED <<gate, bus, once, writeVars, client, image, installed>>

WriteStep ==
  \/ DfuOpened \/ Switch \/ Booted \/ WriteDetach \/ Detached
  \/ WriteBlock \/ BlockStored \/ WriteEnd \/ Manifested \/ NothingLeft
  \/ WrongState \/ Abort

Next ==
  \/ VideoOpen \/ VideoClose
  \/ (\E n \in 1..MaxImage : DfuOpen(n)) \/ DfuOpenFails \/ DfuRelease \/ DfuRead
  \/ OtherOpen \/ OtherOpened \/ OtherRelease
  \/ (\E n \in 1..MaxImage : WriteBegin(n))
  \/ ResetFindsRecovery
  \/ WriteStep \/ TransferFails
  \/ Boot \/ Settle \/ Restart \/ PowerLoss

Spec == Init /\ [][Next]_vars

\* The thread in an open or a write runs, and the loader ends what it does.
Fairness == WF_vars(WriteStep) /\ WF_vars(Boot \/ Settle)

FairSpec == Spec /\ Fairness

-----------------------------------------------------------------------------
(* Properties                                                              *)

Handles == video + lost + IF dfu THEN 1 ELSE 0

\* device_open_count counts the open handles, and when the last one is closed
\* the nodes can be opened again.  An open that ran out of memory counts as a
\* handle for good.
GateRests ==
  /\ count = Handles
  /\ Handles = 0 => flag \in {"IDLE", "RECOVERY"}

\* "get i2c controller and restore bus clock rate" (d4xx.c:6045): the update
\* devices behind one adapter leave the bus at its old rate, also
\* when one opens between the other's read and write of the rate, unless one
\* was closed under another that had saved the rate of an update: then the code
\* restores that one.
BusRests == ~dfu /\ other = "closed" /\ ~crossed => rate = "normal"

\* No video node of the instance is open while an image is downloaded, unless
\* a write on the same handle failed before: that reopens the gate.
UpdateExclusive == flag = "IN_PROGRESS" /\ video > 0 => failed

\* An image that ends in a short block, every part of which the driver took,
\* is installed as a whole, whatever failed or lost power in between.  The
\* driver reports as done what the writes handed over so far, no more and no
\* less, once one of them ended within a block.  That may be the middle of the
\* image: the client has to cut it between blocks.
SentIsInstalled ==
  /\ Free /\ dfu /\ sent = size /\ ~failed /\ size % 2 = 1
       => flag = "DONE" /\ installed = size
  /\ flag = "DONE" /\ ~failed => installed = sent /\ sent % 2 = 1

\* Every open and every write returns.
WriteEnds == pc # "idle" ~> pc = "idle"
=============================================================================
