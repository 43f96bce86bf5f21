---------------------------- MODULE D4xxFirmware ----------------------------
(***************************************************************************)
(* The D4xx camera as the driver sees it through its I2C registers.  This  *)
(* is not code of the repository: it is the external partner of d4xx.c,    *)
(* reduced to what the driver writes, reads back and waits for.            *)
(*                                                                         *)
(*   up       booted, GMSL link recovered, DEVICE_TYPE valid               *)
(*   dying    accepted a HW reset command but has not gone down yet; the   *)
(*            registers still answer with their old values                 *)
(*   down     rebooting: no I2C transaction is acknowledged                *)
(*   booting  answers I2C, registers hold their defaults, DEVICE_TYPE is   *)
(*            not valid yet                                                *)
(*   dfu      came back in recovery: only the DFU magic has a valid value  *)
(***************************************************************************)
EXTENDS Integers, FiniteSets

CONSTANTS
  Inst,       \* driver instances (one per stream: depth, rgb, ir, imu)
  NReg,       \* number of configuration registers of a stream (DT, MD, ...)
  Cfg,        \* stream configurations a client can select
  BadCfg,     \* those the firmware rejects with INVALID_DT/RES/FPS
  NoCfg,      \* default content of a configuration register
  ReadyReg,   \* ReadyReg[i]: the control-status register instance i uses
  Faults      \* TRUE: I2C transactions may fail, deadlines may be missed

ASSUME FirmwareAssumption ==
  /\ NReg \in Nat \ {0}
  /\ BadCfg \subseteq Cfg
  /\ NoCfg \notin Cfg
  /\ Faults \in BOOLEAN
  /\ DOMAIN ReadyReg = Inst

VARIABLES
  power,      \* see above
  ready,      \* control-status registers that hold the scratch value
  fwst,       \* fwst[i]: what the firmware does with stream i
  fwreg       \* fwreg[i][k]: configuration register k of stream i

fwVars == <<power, ready, fwst, fwreg>>

Reg == 1..NReg
StreamState == {"idle", "starting", "streaming", "stopping", "rejected"}

FwTypeOK ==
  /\ power \in {"up", "dying", "down", "booting", "dfu"}
  /\ ready \subseteq {ReadyReg[i] : i \in Inst}
  /\ fwst \in [Inst -> StreamState]
  /\ fwreg \in [Inst -> [Reg -> Cfg \cup {NoCfg}]]

FwInit ==
  /\ power = "up"
  /\ ready = {}
  /\ fwst = [i \in Inst |-> "idle"]
  /\ fwreg = [i \in Inst |-> [k \in Reg |-> NoCfg]]

-----------------------------------------------------------------------------
(* One register access, after the driver's own retries.                    *)

Acked  == power \in {"up", "dying", "booting"}
Nacked == Faults \/ ~Acked

\* STREAM_STATUS reads STREAMING, CONFIG_STATUS has STREAMING, has INVALID_*.
StreamStatus(i)  == fwst[i] \in {"starting", "streaming", "rejected"}
ConfigStatus(i)  == fwst[i] \in {"streaming", "stopping"}
ConfigInvalid(i) == fwst[i] = "rejected"

Accepted(i) == \A k \in Reg : fwreg[i][k] \in Cfg \ BadCfg

AfterStart(i) ==
  IF ~Accepted(i) THEN "rejected"
  ELSE IF fwst[i] = "streaming" THEN "streaming" ELSE "starting"

AfterStop(i) == IF fwst[i] \in {"idle", "rejected"} THEN "idle" ELSE "stopping"

\* A write of DS5_START_STOP_STREAM for stream i that reached the firmware.
Toggle(i, start) ==
  fwst' = [fwst EXCEPT ![i] = IF start THEN AfterStart(i) ELSE AfterStop(i)]

\* A write of configuration register k that reached the firmware.  The driver
\* rewrites a rejected configuration without a new START, so the firmware
\* looks at the configuration again on every write.
WriteReg(i, k, c) ==
  /\ fwreg' = [fwreg EXCEPT ![i][k] = c]
  /\ fwst' = [fwst EXCEPT ![i] =
       IF @ = "rejected" /\ c \notin BadCfg
             /\ \A q \in Reg \ {k} : fwreg[i][q] \in Cfg \ BadCfg
       THEN "starting" ELSE @]

-----------------------------------------------------------------------------
(* Steps the firmware takes on its own.                                    *)

\* A stream that was told to start or stop gets there.
FwSettle(i) ==
  /\ power \in {"up", "dying", "booting"}
  /\ fwst[i] \in {"starting", "stopping"}
  /\ fwst' = [fwst EXCEPT ![i] = IF @ = "starting" THEN "streaming" ELSE "idle"]
  /\ UNCHANGED <<power, ready, fwreg>>

\* The reset takes effect: every stream and every register is lost.
FwGoDown ==
  /\ power = "dying"
  /\ power' = "down"
  /\ ready' = {}
  /\ fwst' = [i \in Inst |-> "idle"]
  /\ fwreg' = [i \in Inst |-> [k \in Reg |-> NoCfg]]

FwBoot ==
  /\ power = "down"
  /\ power' = "booting"
  /\ UNCHANGED <<ready, fwst, fwreg>>

FwLinkUp ==
  /\ power = "booting"
  /\ power' = "up"
  /\ UNCHANGED <<ready, fwst, fwreg>>

\* A reboot that ends in the recovery image is one of the faults.
FwRecovery ==
  /\ Faults
  /\ power = "down"
  /\ power' = "dfu"
  /\ UNCHANGED <<ready, fwst, fwreg>>
=============================================================================
