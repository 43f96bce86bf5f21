----------------------------- MODULE D4xxReset ------------------------------
(***************************************************************************)
(* HW reset with recovery (ds5_hw_reset_with_recovery of d4xx.c).          *)
(*                                                                         *)
(* The instances of one camera share a struct ds5_dev: the reset           *)
(* generation, the streaming flags, the cached device type and the time of *)
(* the last successful reset.  A reset runs in the control handler of one  *)
(* instance, which holds only that instance's state->lock, so resets of    *)
(* two instances may overlap; each action below is one access to shared    *)
(* state or to the camera.                                                 *)
(***************************************************************************)
EXTENDS D4xxFirmware

CONSTANTS
  Resetters,  \* instances whose controls a client uses to ask for a reset
  MaxReset    \* bound: no reset is asked for once the generation is MaxReset

ASSUME ResetAssumption == Resetters \subseteq Inst /\ MaxReset \in Nat

VARIABLES
  gen,        \* ds5_dev->reset_gen
  flag,       \* ds5_dev->{depth,rgb,ir,imu}_streaming
  devType,    \* ds5_dev->cached_device_type holds a valid type
  done,       \* number of resets that set last_reset_jiffies
  elapsed,    \* how many of these are a whole cooldown ago
  rpc,        \* where the reset called through instance i is
  snap,       \* the last_reset_jiffies it read on entry, while it waits
  toStop,     \* streams it found flagged and has not stopped yet
  rres,       \* what the last reset called through i returned
  recovery    \* instances whose dfu_state_flag a reset set to RECOVERY

resetVars == <<gen, flag, devType, done, elapsed, rpc, snap, toStop, rres,
               recovery>>

\* The bookkeeping of the calls themselves, apart from ds5_dev.
callVars == <<snap, toStop, rres, recovery>>

ResetPc == {"idle", "cooldown", "flags", "stop", "clear", "scratch", "send",
            "ready", "type", "version"}

ResetTypeOK ==
  /\ gen \in Nat
  /\ flag \in [Inst -> BOOLEAN]
  /\ devType \in BOOLEAN
  /\ done \in Nat /\ elapsed \in 0..done
  /\ rpc \in [Inst -> ResetPc]
  /\ snap \in [Inst -> Nat]
  /\ toStop \in [Inst -> SUBSET Inst]
  /\ rres \in [Inst -> {"none", "ok", "dfu", "err"}]
  /\ recovery \subseteq Inst

\* As ds5_probe leaves it: the device type was read while probing.
ResetInit ==
  /\ gen = 0
  /\ flag = [i \in Inst |-> FALSE]
  /\ devType = TRUE
  /\ done = 0 /\ elapsed = 0
  /\ rpc = [i \in Inst |-> "idle"]
  /\ snap = [i \in Inst |-> 0]
  /\ toStop = [i \in Inst |-> {}]
  /\ rres = [i \in Inst |-> "none"]
  /\ recovery = {}

Goto(i, from, to) == rpc[i] = from /\ rpc' = [rpc EXCEPT ![i] = to]

ResetReturn(i, from, result) ==
  /\ Goto(i, from, "idle")
  /\ rres' = [rres EXCEPT ![i] = result]

-----------------------------------------------------------------------------
\* DS5_HW_RESET_COOLDOWN_MS have passed since some of the resets remembered.
CooldownElapses ==
  /\ elapsed < done
  /\ elapsed' \in elapsed + 1..done
  /\ UNCHANGED <<gen, flag, devType, done, rpc>>
  /\ UNCHANGED callVars /\ UNCHANGED fwVars

\* Mutant: the cooldown is not looked at.
ResetEnterAtOnce(i) ==
  /\ gen < MaxReset
  /\ Goto(i, "idle", "flags")
  /\ UNCHANGED <<gen, flag, devType, done, elapsed>>
  /\ UNCHANGED callVars /\ UNCHANGED fwVars

\* A client asks for a reset: wait if the last one is too recent.
ResetEnter(i) ==
  /\ gen < MaxReset
  /\ \/ /\ elapsed < done
        /\ Goto(i, "idle", "cooldown")
        /\ snap' = [snap EXCEPT ![i] = done]
     \/ /\ elapsed = done
        /\ Goto(i, "idle", "flags")
        /\ UNCHANGED snap
  /\ UNCHANGED <<gen, flag, devType, done, elapsed, toStop, rres, recovery>>
  /\ UNCHANGED fwVars

\* Mutant: off by one, the sleep ends only when a later reset has cooled down.
ResetCooldownLate(i) ==
  /\ elapsed > snap[i]
  /\ Goto(i, "cooldown", "flags")
  /\ snap' = [snap EXCEPT ![i] = 0]
  /\ UNCHANGED <<gen, flag, devType, done, elapsed, toStop, rres, recovery>>
  /\ UNCHANGED fwVars

ResetCooldownOver(i) ==
  /\ elapsed >= snap[i]
  /\ Goto(i, "cooldown", "flags")
  /\ snap' = [snap EXCEPT ![i] = 0]
  /\ UNCHANGED <<gen, flag, devType, done, elapsed, toStop, rres, recovery>>
  /\ UNCHANGED fwVars

\* 1. Which streams are active, read under ds5_dev->lock ...
ResetReadFlags(i) ==
  /\ Goto(i, "flags", "stop")
  /\ toStop' = [toStop EXCEPT ![i] = {j \in Inst : flag[j]}]
  /\ UNCHANGED <<gen, flag, devType, done, elapsed, snap, rres, recovery>>
  /\ UNCHANGED fwVars

\* ... and a STOP for each of them; a failed write is ignored.
ResetStop(i, j) ==
  /\ rpc[i] = "stop"
  /\ j \in toStop[i]
  /\ toStop' = [toStop EXCEPT ![i] = @ \ {j}]
  /\ \/ Acked /\ Toggle(j, FALSE)
     \/ Nacked /\ UNCHANGED fwst
  /\ UNCHANGED <<power, ready, fwreg>>
  /\ UNCHANGED <<gen, flag, devType, done, elapsed, rpc, snap, rres, recovery>>

\* Mutant: the generation is not advanced.
ResetBumpSameGen(i) ==
  /\ toStop[i] = {}
  /\ Goto(i, "stop", "clear")
  /\ devType' = FALSE
  /\ UNCHANGED <<gen, flag, done, elapsed>>
  /\ UNCHANGED callVars /\ UNCHANGED fwVars

\* 2. New generation, forget the device type ...
ResetBump(i) ==
  /\ toStop[i] = {}
  /\ Goto(i, "stop", "clear")
  /\ gen' = gen + 1
  /\ devType' = FALSE
  /\ UNCHANGED <<flag, done, elapsed>>
  /\ UNCHANGED callVars /\ UNCHANGED fwVars

\* ... and, under ds5_dev->lock, the flags of all instances.
ResetClearFlags(i) ==
  /\ Goto(i, "clear", "scratch")
  /\ flag' = [j \in Inst |-> FALSE]
  /\ UNCHANGED <<gen, devType, done, elapsed>>
  /\ UNCHANGED callVars /\ UNCHANGED fwVars

\* Mutant: no scratch value is written, so nothing shows that the camera went.
ResetScratchSkipped(i) ==
  /\ Goto(i, "scratch", "send")
  /\ UNCHANGED <<gen, flag, devType, done, elapsed>>
  /\ UNCHANGED callVars /\ UNCHANGED fwVars

\* 3. Scratch a control-status register.
ResetScratch(i) ==
  /\ \/ /\ Acked
        /\ Goto(i, "scratch", "send")
        /\ ready' = ready \cup {ReadyReg[i]}
        /\ UNCHANGED rres
     \/ /\ Nacked
        /\ ResetReturn(i, "scratch", "err")
        /\ UNCHANGED ready
  /\ UNCHANGED <<power, fwst, fwreg>>
  /\ UNCHANGED <<gen, flag, devType, done, elapsed, snap, toStop, recovery>>

\* 4. The reset command goes through the HWMC mailbox.
ResetSend(i) ==
  /\ \/ /\ Acked
        /\ Goto(i, "send", "ready")
        /\ power' = "dying"
        /\ UNCHANGED rres
     \/ /\ Nacked
        /\ ResetReturn(i, "send", "err")
        /\ UNCHANGED power
  /\ UNCHANGED <<ready, fwst, fwreg>>
  /\ UNCHANGED <<gen, flag, devType, done, elapsed, snap, toStop, recovery>>

\* 6. Poll until the control-status register reads its default again; an
\* access that fails, or still reads the scratch value, polls on.
ResetReady(i) ==
  /\ Acked /\ ReadyReg[i] \notin ready
  /\ Goto(i, "ready", "type")
  /\ UNCHANGED <<gen, flag, devType, done, elapsed>>
  /\ UNCHANGED callVars /\ UNCHANGED fwVars

\* The loader acknowledges the control-status read that comes before that of
\* the magic; if it does not, the poll goes on until it times out.
ResetFoundDfu(i) ==
  /\ power = "dfu"
  /\ ResetReturn(i, "ready", "dfu")
  /\ recovery' = recovery \cup {i}
  /\ UNCHANGED <<gen, flag, devType, done, elapsed, snap, toStop>>
  /\ UNCHANGED fwVars

\* The camera goes down well within DS5_HW_RESET_TIMEOUT_MS; without faults it
\* is also back by then, unless another reset got in the way.
ResetReadyTimeout(i) ==
  /\ power # "dying"
  /\ Faults \/ ReadyReg[i] \in ready
  /\ ResetReturn(i, "ready", "err")
  /\ UNCHANGED <<gen, flag, devType, done, elapsed, snap, toStop, recovery>>
  /\ UNCHANGED fwVars

\* 7. ds5_wait_device_type: a cached type will do, else the register is read.
ResetType(i) ==
  /\ devType \/ (Acked /\ power # "booting")
  /\ Goto(i, "type", "version")
  /\ devType' = TRUE
  /\ UNCHANGED <<gen, flag, done, elapsed>>
  /\ UNCHANGED callVars /\ UNCHANGED fwVars

ResetTypeTimeout(i) ==
  /\ ~devType
  /\ Nacked
  /\ ResetReturn(i, "type", "err")
  /\ UNCHANGED <<gen, flag, devType, done, elapsed, snap, toStop, recovery>>
  /\ UNCHANGED fwVars

\* 8. Firmware version and build; success is what starts the cooldown.
ResetVersion(i) ==
  /\ \/ /\ Acked
        /\ ResetReturn(i, "version", "ok")
        /\ done' = done + 1
     \/ /\ Nacked
        /\ ResetReturn(i, "version", "err")
        /\ UNCHANGED done
  /\ UNCHANGED <<gen, flag, devType, elapsed, snap, toStop, recovery>>
  /\ UNCHANGED fwVars

\* What the thread in a reset does; Enter is the client's choice.
ResetStep(i) ==
  \/ ResetCooldownOver(i) \/ ResetReadFlags(i)
  \/ \E j \in Inst : ResetStop(i, j)
  \/ ResetBump(i) \/ ResetClearFlags(i) \/ ResetScratch(i) \/ ResetSend(i)
  \/ ResetReady(i) \/ ResetFoundDfu(i) \/ ResetReadyTimeout(i)
  \/ ResetType(i) \/ ResetTypeTimeout(i) \/ ResetVersion(i)

FwReboot == FwGoDown \/ FwBoot \/ FwLinkUp \/ FwRecovery

FwStep == (\E i \in Inst : FwSettle(i)) \/ FwReboot

-----------------------------------------------------------------------------
(* The reset with everything else the driver may do meanwhile: a call on a  *)
(* stream sets that stream's flag, its state in the camera and its          *)
(* registers, and nothing else a reset depends on.  Module D4xxStream has   *)
(* the real calls and implements this specification.                        *)

StreamCall(i) ==
  /\ \E b \in BOOLEAN : flag' = [flag EXCEPT ![i] = b]
  /\ \E s \in StreamState : fwst' = [fwst EXCEPT ![i] = s]
  /\ \/ UNCHANGED fwreg
     \/ \E k \in Reg, c \in Cfg : fwreg' = [fwreg EXCEPT ![i][k] = c]
  /\ UNCHANGED <<power, ready>>
  /\ UNCHANGED <<gen, devType, done, elapsed, rpc>> /\ UNCHANGED callVars

vars == <<fwVars, resetVars>>

Init == FwInit /\ ResetInit

Next ==
  \/ \E i \in Inst : ResetStep(i) \/ StreamCall(i)
  \/ \E i \in Resetters : ResetEnter(i)
  \/ (FwStep /\ UNCHANGED resetVars)
  \/ CooldownElapses

Spec == Init /\ [][Next]_vars

-----------------------------------------------------------------------------
(* Properties                                                              *)

\* Every variable keeps its type.
TypeOK == FwTypeOK /\ ResetTypeOK

\* A reset reports success only when the camera is back: it went down and
\* came up after the command, its link and type are valid and no scratch
\* value is left behind (ds5_hw_reset_with_recovery, steps 3 to 8).
ResetPromise ==
  [][\A i \in Inst :
       rpc[i] = "version" /\ rpc'[i] = "idle" /\ rres'[i] = "ok"
         => power = "up" /\ ready = {}]_vars

\* A reset command leaves the driver for the camera.
Sends(i) == rpc[i] = "send" /\ rpc'[i] = "ready"

\* After a successful reset no command is sent before the cooldown is over.
CooldownAfterSuccess == [][\A i \in Inst : Sends(i) => elapsed = done]_vars

\* The handler always returns: no wait of a reset is unbounded.
ResetReturns == \A i \in Inst : rpc[i] # "idle" ~> rpc[i] = "idle"
=============================================================================
