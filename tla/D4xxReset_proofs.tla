--------------------------- MODULE D4xxReset_proofs ---------------------------
(***************************************************************************)
(* Proofs about the HW reset, for any number of instances, any assignment  *)
(* of control-status registers and any bound on the generation.            *)
(*                                                                         *)
(* The types are inductive.  What a reset promises is not true when two    *)
(* instances may reset at once (see the run ResetSiblings); with a single  *)
(* resetter it follows from the invariant Handshake below.                 *)
(***************************************************************************)
EXTENDS D4xxReset, TLAPS

(* Storing a value deep inside a function of functions keeps its type.     *)
LEMMA NestedType ==
  ASSUME NEW D, NEW R, NEW S, NEW f \in [D -> [R -> S]], NEW i, NEW k,
         NEW v \in S
  PROVE  [f EXCEPT ![i][k] = v] \in [D -> [R -> S]]
OBVIOUS

(* Every step of the camera keeps the types of its variables.              *)
LEMMA FwStepType ==
  ASSUME FwTypeOK, FwStep
  PROVE  FwTypeOK'
<1> USE FirmwareAssumption DEF FwTypeOK, StreamState
<1>1. ASSUME NEW i \in Inst, FwSettle(i)  PROVE FwTypeOK'
  BY <1>1 DEF FwSettle
<1>2. CASE FwGoDown
  BY <1>2 DEF FwGoDown
<1>3. CASE FwBoot
  BY <1>3 DEF FwBoot
<1>4. CASE FwLinkUp
  BY <1>4 DEF FwLinkUp
<1>5. CASE FwRecovery
  BY <1>5 DEF FwRecovery
<1> QED BY <1>1, <1>2, <1>3, <1>4, <1>5 DEF FwStep, FwReboot

(* Every step of a reset keeps the types.                                  *)
LEMMA ResetStepType ==
  ASSUME TypeOK, NEW i \in Inst, ResetStep(i)
  PROVE  TypeOK'
<1> USE FirmwareAssumption, ResetAssumption
<1> USE DEF TypeOK, FwTypeOK, ResetTypeOK, ResetPc, StreamState, Goto,
            ResetReturn, fwVars, callVars, Toggle, AfterStop
<1>1. CASE ResetCooldownOver(i)
  BY <1>1 DEF ResetCooldownOver
<1>2. CASE ResetReadFlags(i)
  BY <1>2 DEF ResetReadFlags
<1>3. ASSUME NEW j \in Inst, ResetStop(i, j)  PROVE TypeOK'
  BY <1>3 DEF ResetStop
<1>4. CASE ResetBump(i)
  <2>1. gen' \in Nat
    BY <1>4 DEF ResetBump
  <2> QED BY <1>4, <2>1 DEF ResetBump
<1>5. CASE ResetClearFlags(i)
  BY <1>5 DEF ResetClearFlags
<1>6. CASE ResetScratch(i)
  <2>1. rpc' \in [Inst -> ResetPc]
    <3>1. rpc' = [rpc EXCEPT ![i] = "send"] \/ rpc' = [rpc EXCEPT ![i] = "idle"]
      BY <1>6 DEF ResetScratch
    <3> QED BY <3>1
  <2>2. rres' \in [Inst -> {"none", "ok", "dfu", "err"}]
    BY <1>6 DEF ResetScratch
  <2>3. ready' \subseteq {ReadyReg[j] : j \in Inst}
    BY <1>6 DEF ResetScratch
  <2> QED BY <1>6, <2>1, <2>2, <2>3 DEF ResetScratch
<1>7. CASE ResetSend(i)
  BY <1>7 DEF ResetSend
<1>8. CASE ResetReady(i)
  BY <1>8 DEF ResetReady
<1>9. CASE ResetFoundDfu(i)
  BY <1>9 DEF ResetFoundDfu
<1>10. CASE ResetReadyTimeout(i)
  BY <1>10 DEF ResetReadyTimeout
<1>11. CASE ResetType(i)
  BY <1>11 DEF ResetType
<1>12. CASE ResetTypeTimeout(i)
  BY <1>12 DEF ResetTypeTimeout
<1>13. CASE ResetVersion(i)
  <2>1. done' \in Nat /\ elapsed' \in 0..done'
    BY <1>13 DEF ResetVersion
  <2>2. rpc' \in [Inst -> ResetPc]
    BY <1>13 DEF ResetVersion
  <2>3. rres' \in [Inst -> {"none", "ok", "dfu", "err"}]
    BY <1>13 DEF ResetVersion
  <2> QED BY <1>13, <2>1, <2>2, <2>3 DEF ResetVersion
<1> QED BY <1>1, <1>2, <1>3, <1>4, <1>5, <1>6, <1>7, <1>8, <1>9, <1>10, <1>11,
           <1>12, <1>13 DEF ResetStep

(* The other steps of the reset keep the types.                            *)
LEMMA OtherStepType ==
  ASSUME TypeOK
  PROVE  /\ \A i \in Inst : ResetEnter(i) => TypeOK'
         /\ \A i \in Inst : StreamCall(i) => TypeOK'
         /\ CooldownElapses => TypeOK'
         /\ FwStep /\ UNCHANGED resetVars => TypeOK'
<1> USE FirmwareAssumption, ResetAssumption
<1>1. ASSUME NEW i \in Inst, ResetEnter(i)  PROVE TypeOK'
  <2> USE DEF TypeOK, ResetTypeOK
  <2>1. rpc' \in [Inst -> ResetPc]
    <3>1. \/ rpc' = [rpc EXCEPT ![i] = "cooldown"]
          \/ rpc' = [rpc EXCEPT ![i] = "flags"]
      BY <1>1 DEF ResetEnter, Goto
    <3> QED BY <3>1 DEF ResetPc
  <2>2. snap' \in [Inst -> Nat]
    BY <1>1 DEF ResetEnter
  <2> QED BY <1>1, <2>1, <2>2 DEF ResetEnter, FwTypeOK, fwVars
<1>2. ASSUME NEW i \in Inst, StreamCall(i)  PROVE TypeOK'
  <2> USE DEF TypeOK, FwTypeOK, ResetTypeOK
  <2>1. flag' \in [Inst -> BOOLEAN] /\ fwst' \in [Inst -> StreamState]
    BY <1>2 DEF StreamCall
  <2>2. ASSUME NEW k \in Reg, NEW c \in Cfg
        PROVE  [fwreg EXCEPT ![i][k] = c] \in [Inst -> [Reg -> Cfg \cup {NoCfg}]]
    BY NestedType
  <2>3. fwreg' \in [Inst -> [Reg -> Cfg \cup {NoCfg}]]
    BY <1>2, <2>2 DEF StreamCall
  <2> QED BY <1>2, <2>1, <2>3 DEF StreamCall, callVars
<1>3. ASSUME CooldownElapses  PROVE TypeOK'
  BY <1>3 DEF CooldownElapses, TypeOK, FwTypeOK, ResetTypeOK, callVars, fwVars
<1>4. ASSUME FwStep, UNCHANGED resetVars  PROVE TypeOK'
  BY <1>4, FwStepType DEF TypeOK, ResetTypeOK, resetVars
<1> QED BY <1>1, <1>2, <1>3, <1>4

(* The types hold initially.                                               *)
LEMMA InitType == Init => TypeOK
<1> SUFFICES ASSUME Init  PROVE TypeOK
  OBVIOUS
<1>1. FwTypeOK
  <2>1. fwst \in [Inst -> StreamState]
    BY DEF Init, FwInit, StreamState
  <2>2. [k \in Reg |-> NoCfg] \in [Reg -> Cfg \cup {NoCfg}]
    OBVIOUS
  <2>3. fwreg \in [Inst -> [Reg -> Cfg \cup {NoCfg}]]
    BY <2>2 DEF Init, FwInit
  <2> QED BY <2>1, <2>3 DEF Init, FwInit, FwTypeOK
<1>2. ResetTypeOK
  BY DEF Init, ResetInit, ResetTypeOK, ResetPc
<1> QED BY <1>1, <1>2 DEF TypeOK

(* Every variable of the reset and of the camera keeps its type.           *)
THEOREM ResetTypes == Spec => []TypeOK
<1>1. Init => TypeOK
  BY InitType
<1>2. TypeOK /\ [Next]_vars => TypeOK'
  <2> SUFFICES ASSUME TypeOK, [Next]_vars  PROVE TypeOK'
    OBVIOUS
  <2>1. CASE UNCHANGED vars
    BY <2>1 DEF vars, fwVars, resetVars, TypeOK, FwTypeOK, ResetTypeOK
  <2>2. CASE Next
    BY <2>2, ResetStepType, OtherStepType, ResetAssumption DEF Next
  <2> QED BY <2>1, <2>2
<1> QED BY <1>1, <1>2, PTL DEF Spec

-----------------------------------------------------------------------------
(* A single resetter.                                                      *)

(* What the handshake through the scratch value rests on: from the scratch *)
(* to the end of the reset the camera is where the driver believes it is.  *)
Handshake(r) ==
  /\ \A i \in Inst \ {r} : rpc[i] = "idle"
  /\ power = "dying" => rpc[r] = "ready" /\ ReadyReg[r] \in ready
  /\ rpc[r] \in {"clear", "scratch", "send", "ready", "type"} => ~devType
  /\ rpc[r] = "send" => Acked /\ ReadyReg[r] \in ready
  /\ rpc[r] = "ready" /\ power # "dying" => ready = {}
  /\ rpc[r] = "type" => ready = {} /\ power \in {"booting", "up"}
  /\ rpc[r] = "version" => ready = {} /\ power = "up"

(* A step of a reset is taken by an instance that is in one.               *)
LEMMA ResetStepBusy ==
  ASSUME NEW i \in Inst, ResetStep(i)
  PROVE  rpc[i] # "idle"
BY DEF ResetStep, ResetCooldownOver, ResetReadFlags, ResetStop, ResetBump,
   ResetClearFlags, ResetScratch, ResetSend, ResetReady, ResetFoundDfu,
   ResetReadyTimeout, ResetType, ResetTypeTimeout, ResetVersion, Goto,
   ResetReturn

(* The reset of the only resetter keeps the handshake.                     *)
LEMMA HandshakeResetStep ==
  ASSUME NEW r \in Inst, Handshake(r), TypeOK, ResetStep(r)
  PROVE  Handshake(r)'
<1> USE DEF Handshake, TypeOK, FwTypeOK, ResetTypeOK, Goto, ResetReturn,
            fwVars, callVars, Acked, Nacked
<1>1. CASE ResetCooldownOver(r)
  BY <1>1 DEF ResetCooldownOver
<1>2. CASE ResetReadFlags(r)
  BY <1>2 DEF ResetReadFlags
<1>3. ASSUME NEW j \in Inst, ResetStop(r, j)  PROVE Handshake(r)'
  BY <1>3 DEF ResetStop
<1>4. CASE ResetBump(r)
  BY <1>4 DEF ResetBump
<1>5. CASE ResetClearFlags(r)
  BY <1>5 DEF ResetClearFlags
<1>6. CASE ResetScratch(r)
  BY <1>6 DEF ResetScratch
<1>7. CASE ResetSend(r)
  BY <1>7 DEF ResetSend
<1>8. CASE ResetReady(r)
  BY <1>8 DEF ResetReady
<1>9. CASE ResetFoundDfu(r)
  BY <1>9 DEF ResetFoundDfu
<1>10. CASE ResetReadyTimeout(r)
  BY <1>10 DEF ResetReadyTimeout
<1>11. CASE ResetType(r)
  BY <1>11 DEF ResetType
<1>12. CASE ResetTypeTimeout(r)
  BY <1>12 DEF ResetTypeTimeout
<1>13. CASE ResetVersion(r)
  BY <1>13 DEF ResetVersion
<1> QED BY <1>1, <1>2, <1>3, <1>4, <1>5, <1>6, <1>7, <1>8, <1>9, <1>10, <1>11,
           <1>12, <1>13 DEF ResetStep

(* With one resetter the handshake always holds.                           *)
LEMMA HandshakeHolds ==
  ASSUME NEW r \in Inst, Resetters = {r}
  PROVE  Spec => []Handshake(r)
<1>1. Init => Handshake(r)
  BY DEF Init, FwInit, ResetInit, Handshake
<1>2. TypeOK /\ Handshake(r) /\ [Next]_vars => Handshake(r)'
  <2> SUFFICES ASSUME TypeOK, Handshake(r), [Next]_vars  PROVE Handshake(r)'
    OBVIOUS
  <2>1. CASE UNCHANGED vars
    BY <2>1 DEF vars, fwVars, resetVars, Handshake, Acked
  <2>2. ASSUME NEW i \in Inst, ResetStep(i)  PROVE Handshake(r)'
    <3>1. rpc[i] # "idle"
      BY <2>2, ResetStepBusy
    <3>2. i = r
      BY <3>1 DEF Handshake
    <3> QED BY <2>2, <3>2, HandshakeResetStep
  <2>3. ASSUME NEW i \in Inst, StreamCall(i)  PROVE Handshake(r)'
    BY <2>3 DEF StreamCall, callVars, Handshake, Acked
  <2>4. CASE ResetEnter(r)
    BY <2>4 DEF ResetEnter, Goto, fwVars, Handshake, Acked, TypeOK, ResetTypeOK
  <2>5. CASE FwStep /\ UNCHANGED resetVars
    BY <2>5 DEF FwStep, FwReboot, FwSettle, FwGoDown, FwBoot, FwLinkUp, FwRecovery,
       resetVars, Handshake, Acked
  <2>6. CASE CooldownElapses
    BY <2>6 DEF CooldownElapses, callVars, fwVars, Handshake, Acked
  <2> QED BY <2>1, <2>2, <2>3, <2>4, <2>5, <2>6 DEF Next
<1> QED BY <1>1, <1>2, ResetTypes, PTL DEF Spec

(* A reset reports success only when the camera went down after the        *)
(* command and is back, whatever faults the bus has (steps 3 to 8 of       *)
(* ds5_hw_reset_with_recovery), if no two instances of a camera reset.     *)
THEOREM AloneResetPromise ==
  ASSUME NEW r \in Inst, Resetters = {r}
  PROVE  Spec => ResetPromise
<1>1. Handshake(r) /\ [Next]_vars =>
        [\A i \in Inst : rpc[i] = "version" /\ rpc'[i] = "idle" /\ rres'[i] = "ok"
           => power = "up" /\ ready = {}]_vars
  BY DEF Handshake
<1> QED BY <1>1, HandshakeHolds, PTL DEF Spec, ResetPromise

-----------------------------------------------------------------------------
(* What the cooldown rests on: while the only resetter is on its way to    *)
(* the command, no reset completes, so the last one stays in the past.     *)
Cooled(r) ==
  /\ \A i \in Inst \ {r} : rpc[i] = "idle"
  /\ rpc[r] = "cooldown" => snap[r] = done
  /\ rpc[r] \in {"flags", "stop", "clear", "scratch", "send"} => elapsed = done

(* With one resetter it always holds.                                      *)
LEMMA CooledHolds ==
  ASSUME NEW r \in Inst, Resetters = {r}
  PROVE  Spec => []Cooled(r)
<1>1. Init => Cooled(r)
  BY DEF Init, ResetInit, Cooled
<1>2. TypeOK /\ Cooled(r) /\ [Next]_vars => Cooled(r)'
  <2> SUFFICES ASSUME TypeOK, Cooled(r), [Next]_vars  PROVE Cooled(r)'
    OBVIOUS
  <2> USE DEF Cooled, TypeOK, ResetTypeOK
  <2>1. CASE UNCHANGED vars
    BY <2>1 DEF vars, resetVars
  <2>2. ASSUME NEW i \in Inst, ResetStep(i)  PROVE Cooled(r)'
    <3> USE DEF Goto, ResetReturn, callVars
    <3>1. i = r
      BY <2>2, ResetStepBusy
    <3>2. CASE ResetCooldownOver(r)
      BY <3>2 DEF ResetCooldownOver
    <3>3. CASE ResetReadFlags(r) \/ \E j \in Inst : ResetStop(r, j)
      BY <3>3 DEF ResetReadFlags, ResetStop
    <3>4. CASE ResetBump(r) \/ ResetClearFlags(r)
      BY <3>4 DEF ResetBump, ResetClearFlags
    <3>5. CASE ResetScratch(r) \/ ResetSend(r)
      BY <3>5 DEF ResetScratch, ResetSend
    <3>6. CASE ResetReady(r) \/ ResetFoundDfu(r) \/ ResetReadyTimeout(r)
      BY <3>6 DEF ResetReady, ResetFoundDfu, ResetReadyTimeout
    <3>7. CASE ResetType(r) \/ ResetTypeTimeout(r)
      BY <3>7 DEF ResetType, ResetTypeTimeout
    <3>8. CASE ResetVersion(r)
      BY <3>8 DEF ResetVersion
    <3> QED BY <2>2, <3>1, <3>2, <3>3, <3>4, <3>5, <3>6, <3>7, <3>8 DEF ResetStep
  <2>3. ASSUME NEW i \in Inst, StreamCall(i)  PROVE Cooled(r)'
    BY <2>3 DEF StreamCall, callVars
  <2>4. CASE ResetEnter(r)
    BY <2>4 DEF ResetEnter, Goto
  <2>5. CASE FwStep /\ UNCHANGED resetVars
    BY <2>5 DEF resetVars
  <2>6. CASE CooldownElapses
    BY <2>6 DEF CooldownElapses, callVars
  <2> QED BY <2>1, <2>2, <2>3, <2>4, <2>5, <2>6 DEF Next
<1> QED BY <1>1, <1>2, ResetTypes, PTL DEF Spec

(* No reset command is sent within the cooldown of a reset that succeeded  *)
(* (the wait at the top of ds5_hw_reset_with_recovery), if no two          *)
(* instances of a camera reset.                                            *)
THEOREM AloneCooldownAfterSuccess ==
  ASSUME NEW r \in Inst, Resetters = {r}
  PROVE  Spec => CooldownAfterSuccess
<1>1. Cooled(r) /\ [Next]_vars =>
        [\A i \in Inst : Sends(i) => elapsed = done]_vars
  BY DEF Cooled, Sends
<1> QED BY <1>1, CooledHolds, PTL DEF Spec, CooldownAfterSuccess
=============================================================================
