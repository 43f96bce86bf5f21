-------------------------- MODULE D4xxStream_proofs --------------------------
(***************************************************************************)
(* Proofs about starting and stopping streams, for any number of           *)
(* instances, configurations, registers and pipes, with or without faults. *)
(*                                                                         *)
(* First the types, one lemma per action that has alternatives, then that  *)
(* the driver implements D4xxReset, which carries over to the driver what  *)
(* D4xxReset_proofs shows of the reset.                                    *)
(***************************************************************************)
EXTENDS D4xxStream, D4xxReset_proofs

(* SetupPipe: the pipe is set up or the attempt ends.                      *)
LEMMA SetupPipeType ==
  ASSUME StreamTypeOK, NEW i \in Inst, SetupPipe(i)
  PROVE  StreamTypeOK'
<1>1. pc' \in [Inst -> StreamPc] /\ ret' \in [Inst -> Result]
  <2>1. \/ pc' = [pc EXCEPT ![i] = "regs"] /\ ret' = ret
        \/ pc' = [pc EXCEPT ![i] = "again"] /\ ret' = [ret EXCEPT ![i] = "err"]
    BY DEF SetupPipe, Step, Put
  <2> QED BY <2>1 DEF StreamTypeOK, StreamPc, Result
<1>2. pipeType' \in [Inst -> {DataType[c] : c \in Cfg} \cup {NoType}]
  <2>1. DataType[want[i]] \in {DataType[c] : c \in Cfg}
    BY DEF StreamTypeOK
  <2> QED BY <2>1 DEF SetupPipe, StreamTypeOK, Put
<1> QED BY <1>1, <1>2 DEF SetupPipe, StreamTypeOK, callState

(* ReadStream: the state is read or the old one stays.                     *)
LEMMA ReadStreamType ==
  ASSUME StreamTypeOK, NEW i \in Inst, ReadStream(i)
  PROVE  StreamTypeOK'
<1>1. pc' \in [Inst -> StreamPc]
  <2>1. \E v \in {"status", "again"} : pc' = [pc EXCEPT ![i] = v]
    BY DEF ReadStream, Step
  <2> QED BY <2>1 DEF StreamTypeOK, StreamPc
<1>2. reached' \in [Inst -> BOOLEAN] /\ ret' \in [Inst -> Result]
  <2>1. \/ /\ \E b \in BOOLEAN : reached' = [reached EXCEPT ![i] = b]
           /\ ret' = [ret EXCEPT ![i] = "ok"]
        \/ reached' = reached /\ ret' = [ret EXCEPT ![i] = "err"]
    BY DEF ReadStream, Put
  <2> QED BY <2>1 DEF StreamTypeOK, Result
<1> QED BY <1>1, <1>2 DEF ReadStream, StreamTypeOK, sensorVars

(* ReadRejected: another retry or the end of the loop.                     *)
LEMMA ReadRejectedType ==
  ASSUME StreamTypeOK, NEW i \in Inst, ReadRejected(i)
  PROVE  StreamTypeOK'
<1>1. pc' \in [Inst -> StreamPc]
  <2>1. pc' = [pc EXCEPT ![i] = "again"] \/ pc' = [pc EXCEPT ![i] = "end"]
    BY DEF ReadRejected, Step
  <2> QED BY <2>1 DEF StreamTypeOK, StreamPc
<1>2. left' \in [Inst -> 0..Retries]
  <2>1. left' = left \/ (left[i] > 0 /\ left' = [left EXCEPT ![i] = left[i] - 1])
    BY DEF ReadRejected, Put
  <2>2. left \in [Inst -> 0..Retries]
    BY DEF StreamTypeOK
  <2>3. CASE left[i] > 0 /\ left' = [left EXCEPT ![i] = left[i] - 1]
    <3>1. left[i] - 1 \in 0..Retries
      BY <2>2, <2>3, StreamAssumption
    <3> QED BY <2>2, <2>3, <3>1
  <2> QED BY <2>1, <2>2, <2>3
<1>3. cached' \in [Inst -> [Reg -> Cfg \cup {NoCfg}]]
  <2>1. cached' = cached \/ cached' = [cached EXCEPT ![i] = Empty]
    BY DEF ReadRejected, Put
  <2>2. cached \in [Inst -> [Reg -> Cfg \cup {NoCfg}]]
    BY DEF StreamTypeOK
  <2>3. Empty \in [Reg -> Cfg \cup {NoCfg}]
    BY DEF Empty
  <2> QED BY <2>1, <2>2, <2>3
<1>4. conf' \in [Inst -> BOOLEAN]
  <2>1. conf' = conf \/ conf' = [conf EXCEPT ![i] = FALSE]
    BY DEF ReadRejected, Put
  <2> QED BY <2>1 DEF StreamTypeOK
<1>5. status' \in [Inst -> BOOLEAN] /\ ret' \in [Inst -> Result]
  BY DEF ReadRejected, StreamTypeOK, Put, ConfigStatus, Result
<1> QED BY <1>1, <1>2, <1>3, <1>4, <1>5 DEF ReadRejected, StreamTypeOK

(* GivePipeBack: the pipe is free, its number kept or forgotten.           *)
LEMMA GivePipeBackType ==
  ASSUME StreamTypeOK, NEW i \in Inst, GivePipeBack(i)
  PROVE  /\ alloc' \in [Pipe -> BOOLEAN]
         /\ pipe' \in [Inst -> Pipe \cup {NotConfigured, NoPipe}]
<1>1. alloc' = alloc \/ alloc' = [alloc EXCEPT ![pipe[i]] = FALSE]
  BY DEF GivePipeBack, Released
<1>2. pipe' = pipe \/ pipe' = [pipe EXCEPT ![i] = NotConfigured]
  BY DEF GivePipeBack, Put
<1> QED BY <1>1, <1>2 DEF StreamTypeOK

(* StopSucceeds: the call returns with its pipe given back.                *)
LEMMA StopSucceedsType ==
  ASSUME StreamTypeOK, NEW i \in Inst, StopSucceeds(i)
  PROVE  StreamTypeOK'
<1>1. /\ alloc' \in [Pipe -> BOOLEAN]
      /\ pipe' \in [Inst -> Pipe \cup {NotConfigured, NoPipe}]
  BY GivePipeBackType DEF StopSucceeds
<1>2. left' \in [Inst -> 0..Retries]
  BY StreamAssumption DEF StopSucceeds, Return, Put, StreamTypeOK
<1> QED BY <1>1, <1>2
           DEF StopSucceeds, Return, Step, Put, sensorVars, StreamTypeOK,
               StreamPc, Result

(* WriteConfig: a register of the camera and its cached copy.              *)
LEMMA WriteConfigType ==
  ASSUME FwTypeOK, StreamTypeOK, NEW i \in Inst, NEW k \in Reg, WriteConfig(i, k)
  PROVE  FwTypeOK' /\ StreamTypeOK'
<1>1. want[i] \in Cfg \cup {NoCfg}
  BY DEF StreamTypeOK
<1>2. fwst' \in [Inst -> StreamState]
  <2>1. \/ fwst' = fwst
        \/ \E v \in {"starting", fwst[i]} : fwst' = [fwst EXCEPT ![i] = v]
    BY DEF WriteConfig, WriteReg
  <2> QED BY <2>1 DEF FwTypeOK, StreamState
<1>3. fwreg' \in [Inst -> [Reg -> Cfg \cup {NoCfg}]]
  <2>1. fwreg' = fwreg \/ fwreg' = [fwreg EXCEPT ![i][k] = want[i]]
    BY DEF WriteConfig, WriteReg
  <2>2. fwreg \in [Inst -> [Reg -> Cfg \cup {NoCfg}]]
    BY DEF FwTypeOK
  <2>3. [fwreg EXCEPT ![i][k] = want[i]] \in [Inst -> [Reg -> Cfg \cup {NoCfg}]]
    BY <1>1, <2>2, NestedType
  <2> QED BY <2>1, <2>2, <2>3
<1>4. cached' \in [Inst -> [Reg -> Cfg \cup {NoCfg}]]
  <2>1. cached' = cached \/ cached' = [cached EXCEPT ![i][k] = want[i]]
    BY DEF WriteConfig
  <2>2. cached \in [Inst -> [Reg -> Cfg \cup {NoCfg}]]
    BY DEF StreamTypeOK
  <2>3. [cached EXCEPT ![i][k] = want[i]] \in [Inst -> [Reg -> Cfg \cup {NoCfg}]]
    BY <1>1, <2>2, NestedType
  <2> QED BY <2>1, <2>2, <2>3
<1>5. pc' \in [Inst -> StreamPc] /\ ret' \in [Inst -> Result]
  <2>1. \/ pc' = pc /\ ret' = ret
        \/ pc' = [pc EXCEPT ![i] = "again"] /\ ret' = [ret EXCEPT ![i] = "err"]
    BY DEF WriteConfig, Step, Put
  <2> QED BY <2>1 DEF StreamTypeOK, StreamPc, Result
<1>6. FwTypeOK'
  BY <1>2, <1>3 DEF WriteConfig, FwTypeOK
<1> QED BY <1>4, <1>5, <1>6 DEF WriteConfig, StreamTypeOK, callState

(* Every step of a client or of a call keeps the types.                    *)
LEMMA StreamStepType ==
  ASSUME DriverTypeOK, NEW i \in Streams, CallStep(i) \/ Client(i)
  PROVE  DriverTypeOK'
<1> USE FirmwareAssumption, ResetAssumption, PipesAssumption, StreamAssumption
<1> i \in Inst
  OBVIOUS
<1> USE DEF DriverTypeOK
<1>0. StreamTypeOK /\ ResetTypeOK /\ FwTypeOK
  OBVIOUS
<1>1. CASE SetupPipe(i)
  BY <1>1, <1>0, SetupPipeType
     DEF SetupPipe, callState, fwVars, resetVars, callVars, FwTypeOK, ResetTypeOK
<1>2. CASE ReadStream(i)
  BY <1>2, <1>0, ReadStreamType
     DEF ReadStream, fwVars, resetVars, callVars, FwTypeOK, ResetTypeOK
<1>3. CASE ReadRejected(i)
  BY <1>3, <1>0, ReadRejectedType
     DEF ReadRejected, fwVars, resetVars, callVars, FwTypeOK, ResetTypeOK
<1>4. CASE StopSucceeds(i)
  BY <1>4, <1>0, StopSucceedsType
     DEF StopSucceeds, fwVars, resetVars, callVars, FwTypeOK, ResetTypeOK
<1>5. CASE \E k \in Reg : WriteConfig(i, k)
  BY <1>5, <1>0, WriteConfigType
     DEF WriteConfig, resetVars, callVars, ResetTypeOK
<1> USE DEF FwTypeOK, ResetTypeOK, StreamTypeOK, StreamPc, Result, StreamState,
            Put, Step, Return, fwVars, resetVars, callVars, callState, sensorVars,
            Empty, Toggle, AfterStart, AfterStop, Released, GivePipeBack,
            Synchronise, ConfigStatus, StreamStatus, Active, Stale
<1>6. CASE Check(i)
  BY <1>6 DEF Check
<1>7. CASE CheckUnread(i)
  BY <1>7 DEF CheckUnread
<1>8. CASE CheckForce(i)
  BY <1>8 DEF CheckForce
<1>9. CASE CheckNoop(i)
  BY <1>9 DEF CheckNoop
<1>10. CASE Mark(i)
  BY <1>10 DEF Mark
<1>11. CASE ConfRelease(i)
  BY <1>11 DEF ConfRelease
<1>12. CASE ConfNothingToRelease(i)
  BY <1>12 DEF ConfNothingToRelease
<1>13. CASE OutOfPipes(i)
  BY <1>13 DEF OutOfPipes
<1>14. CASE Configured(i)
  BY <1>14 DEF Configured
<1>15. CASE Command(i)
  BY <1>15 DEF Command
<1>16. CASE ReadStatusFails(i)
  BY <1>16 DEF ReadStatusFails
<1>17. CASE ReadStatus(i)
  BY <1>17 DEF ReadStatus
<1>18. CASE Again(i)
  BY <1>18 DEF Again
<1>19. CASE LoopTimeout(i)
  BY <1>19 DEF LoopTimeout
<1>20. CASE StartSucceeds(i)
  BY <1>20 DEF StartSucceeds
<1>21. CASE ToggleBack(i)
  BY <1>21 DEF ToggleBack
<1>22. CASE DropPipe(i)
  BY <1>22 DEF DropPipe
<1>23. CASE Restore(i)
  BY <1>23 DEF Restore
<1>24. CASE \E p \in Pipe : TakePipe(i, p)
  BY <1>24 DEF TakePipe
<1>25. CASE \E o \in BOOLEAN : Call(i, o)
  BY <1>25 DEF Call
<1>26. CASE \E o \in BOOLEAN : CallDuplicate(i, o)
  BY <1>26 DEF CallDuplicate
<1>27. CASE \E c \in Cfg : SelectFormat(i, c)
  BY <1>27 DEF SelectFormat
<1> QED BY <1>1, <1>2, <1>3, <1>4, <1>5, <1>6, <1>7, <1>8, <1>9, <1>10,
           <1>11, <1>12, <1>13, <1>14, <1>15, <1>16, <1>17, <1>18, <1>19, <1>20,
           <1>21, <1>22, <1>23, <1>24, <1>25, <1>26, <1>27
        DEF CallStep, Client

(* Every variable of the driver, its camera and its pipes keeps its type.  *)
THEOREM DriverTypes == DriverSpec => []DriverTypeOK
<1>1. DriverInit => DriverTypeOK
  <2> SUFFICES ASSUME DriverInit  PROVE DriverTypeOK
    OBVIOUS
  <2>1. FwTypeOK /\ ResetTypeOK
    BY InitType DEF DriverInit, Init, TypeOK
  <2>2. left \in [Inst -> 0..Retries]
    BY StreamAssumption DEF DriverInit, StreamInit
  <2>3. cached \in [Inst -> [Reg -> Cfg \cup {NoCfg}]]
    <3>1. [k \in Reg |-> NoCfg] \in [Reg -> Cfg \cup {NoCfg}]
      OBVIOUS
    <3> QED BY <3>1 DEF DriverInit, StreamInit
  <2>4. StreamTypeOK
    BY <2>2, <2>3 DEF DriverInit, StreamInit, StreamTypeOK, StreamPc, Result
  <2> QED BY <2>1, <2>4 DEF DriverTypeOK
<1>2. DriverTypeOK /\ [DriverNext]_svars => DriverTypeOK'
  <2> SUFFICES ASSUME DriverTypeOK, [DriverNext]_svars  PROVE DriverTypeOK'
    OBVIOUS
  <2>0. TypeOK /\ StreamTypeOK
    BY DEF DriverTypeOK, TypeOK
  <2>1. CASE UNCHANGED svars
    BY <2>1 DEF svars, fwVars, resetVars, streamVars, DriverTypeOK, FwTypeOK,
       ResetTypeOK, StreamTypeOK
  <2>2. ASSUME NEW i \in Streams, CallStep(i) \/ Client(i)  PROVE DriverTypeOK'
    BY <2>2, StreamStepType
  <2>3. ASSUME TypeOK', UNCHANGED streamVars  PROVE DriverTypeOK'
    BY <2>0, <2>3 DEF DriverTypeOK, TypeOK, StreamTypeOK, streamVars
  <2>4. CASE ResetNext
    BY <2>0, <2>3, <2>4, ResetStepType, OtherStepType, ResetAssumption
       DEF ResetNext
  <2>5. CASE CameraNext
    BY <2>0, <2>3, <2>5, OtherStepType DEF CameraNext
  <2> QED BY <2>1, <2>2, <2>4, <2>5 DEF DriverNext
<1> QED BY <1>1, <1>2, PTL DEF DriverSpec

-----------------------------------------------------------------------------
(* The driver implements D4xxReset.                                        *)

(* A step of a client or of a call is a StreamCall of its instance, or is  *)
(* invisible to the reset and the camera.                                  *)
LEMMA StreamStepRefines ==
  ASSUME DriverTypeOK, NEW i \in Streams, CallStep(i) \/ Client(i)
  PROVE  StreamCall(i) \/ UNCHANGED vars
<1> USE StreamAssumption
<1> i \in Inst
  OBVIOUS
<1>0. /\ flag \in [Inst -> BOOLEAN] /\ fwst \in [Inst -> StreamState]
      /\ want \in [Inst -> Cfg] /\ on \in [Inst -> BOOLEAN]
  BY DEF DriverTypeOK, FwTypeOK, ResetTypeOK, StreamTypeOK
<1>1. ASSUME /\ flag' = flag \/ \E b \in BOOLEAN : flag' = [flag EXCEPT ![i] = b]
             /\ fwst' = fwst \/ \E s \in StreamState : fwst' = [fwst EXCEPT ![i] = s]
             /\ fwreg' = fwreg \/ \E k \in Reg, c \in Cfg : fwreg' = [fwreg EXCEPT ![i][k] = c]
             /\ UNCHANGED <<power, ready, gen, devType, done, elapsed, rpc>>
             /\ UNCHANGED callVars
      PROVE  StreamCall(i)
  <2>1. \E b \in BOOLEAN : flag' = [flag EXCEPT ![i] = b]
    <3>1. flag = [flag EXCEPT ![i] = flag[i]] /\ flag[i] \in BOOLEAN
      BY <1>0
    <3> QED BY <1>1, <3>1
  <2>2. \E s \in StreamState : fwst' = [fwst EXCEPT ![i] = s]
    <3>1. fwst = [fwst EXCEPT ![i] = fwst[i]] /\ fwst[i] \in StreamState
      BY <1>0
    <3> QED BY <1>1, <3>1
  <2> QED BY <1>1, <2>1, <2>2 DEF StreamCall
<1>2. ASSUME NEW b \in BOOLEAN, Toggle(i, b)
      PROVE  \E s \in StreamState : fwst' = [fwst EXCEPT ![i] = s]
  <2>1. AfterStart(i) \in StreamState /\ AfterStop(i) \in StreamState
    BY DEF AfterStart, AfterStop, StreamState
  <2> QED BY <1>2, <2>1 DEF Toggle
<1>3. CASE UNCHANGED fwVars /\ UNCHANGED resetVars
  BY <1>3 DEF vars, fwVars, resetVars
<1>4. CASE CheckForce(i)
  <2>1. flag' = [flag EXCEPT ![i] = FALSE]
    BY <1>4 DEF CheckForce, Put
  <2>2. fwst' = fwst \/ \E s \in StreamState : fwst' = [fwst EXCEPT ![i] = s]
    BY <1>4, <1>2 DEF CheckForce
  <2> QED BY <1>4, <1>1, <2>1, <2>2 DEF CheckForce
<1>5. CASE CheckNoop(i)
  <2>1. \E b \in BOOLEAN : flag' = [flag EXCEPT ![i] = b]
    BY <1>5, <1>0 DEF CheckNoop, Put
  <2> QED BY <1>5, <1>1, <2>1 DEF CheckNoop, fwVars
<1>6. CASE Mark(i)
  <2>1. \E b \in BOOLEAN : flag' = [flag EXCEPT ![i] = b]
    BY <1>6, <1>0 DEF Mark, Put
  <2> QED BY <1>6, <1>1, <2>1 DEF Mark, fwVars
<1>7. CASE Restore(i)
  <2>1. \E b \in BOOLEAN : flag' = [flag EXCEPT ![i] = b]
    BY <1>7, <1>0 DEF Restore, Put
  <2> QED BY <1>7, <1>1, <2>1 DEF Restore, fwVars
<1>8. CASE Command(i)
  <2>1. fwst' = fwst \/ \E s \in StreamState : fwst' = [fwst EXCEPT ![i] = s]
    BY <1>8, <1>0, <1>2 DEF Command
  <2> QED BY <1>8, <1>1, <2>1 DEF Command, resetVars, callVars
<1>9. CASE ToggleBack(i)
  <2>1. fwst' = fwst \/ \E s \in StreamState : fwst' = [fwst EXCEPT ![i] = s]
    BY <1>9, <1>0, <1>2 DEF ToggleBack
  <2> QED BY <1>9, <1>1, <2>1 DEF ToggleBack, resetVars, callVars
<1>10. ASSUME NEW k \in Reg, WriteConfig(i, k)  PROVE StreamCall(i)
  <2>1. fwst' = fwst \/ \E s \in StreamState : fwst' = [fwst EXCEPT ![i] = s]
    <3>1. \/ fwst' = fwst
          \/ \E s \in {"starting", fwst[i]} : fwst' = [fwst EXCEPT ![i] = s]
      BY <1>10 DEF WriteConfig, WriteReg
    <3> QED BY <1>0, <3>1 DEF StreamState
  <2>2. fwreg' = fwreg \/ \E c \in Cfg : fwreg' = [fwreg EXCEPT ![i][k] = c]
    BY <1>10, <1>0 DEF WriteConfig, WriteReg
  <2> QED BY <1>10, <1>1, <2>1, <2>2 DEF WriteConfig, resetVars, callVars
<1>11. \/ Check(i) \/ CheckUnread(i) \/ ConfRelease(i) \/ ConfNothingToRelease(i)
      \/ OutOfPipes(i) \/ SetupPipe(i) \/ Configured(i) \/ ReadStream(i)
      \/ ReadStatusFails(i) \/ ReadStatus(i) \/ ReadRejected(i) \/ Again(i)
      \/ LoopTimeout(i) \/ StartSucceeds(i) \/ StopSucceeds(i) \/ DropPipe(i)
      \/ (\E p \in Pipe : TakePipe(i, p)) \/ Client(i)
      => UNCHANGED fwVars /\ UNCHANGED resetVars
  BY DEF Check, CheckUnread, ConfRelease, ConfNothingToRelease, OutOfPipes,
     SetupPipe, Configured, ReadStream, ReadStatusFails, ReadStatus,
     ReadRejected, Again, LoopTimeout, StartSucceeds, StopSucceeds,
     DropPipe, TakePipe, Call, CallDuplicate, SelectFormat, Client
<1> QED BY <1>3, <1>4, <1>5, <1>6, <1>7, <1>8, <1>9, <1>10, <1>11 DEF CallStep

(* Whatever is called on streams, and with whatever faults, the reset and  *)
(* the camera behave as D4xxReset says: ds5_mux_s_stream changes nothing   *)
(* of ds5_dev but its own streaming flag.                                  *)
THEOREM DriverImplementsReset == DriverSpec => ImplementsReset
<1>1. DriverInit => Init
  BY DEF DriverInit, Init
<1>2. DriverTypeOK /\ [DriverNext]_svars => [Next]_vars
  <2> SUFFICES ASSUME DriverTypeOK, [DriverNext]_svars  PROVE [Next]_vars
    OBVIOUS
  <2>1. CASE UNCHANGED svars
    BY <2>1 DEF svars, vars
  <2>2. ASSUME NEW i \in Streams, CallStep(i) \/ Client(i)  PROVE [Next]_vars
    BY <2>2, StreamStepRefines, StreamAssumption DEF Next
  <2>3. CASE ResetNext
    BY <2>3 DEF ResetNext, Next
  <2>4. CASE CameraNext
    BY <2>4 DEF CameraNext, Next
  <2> QED BY <2>1, <2>2, <2>3, <2>4 DEF DriverNext
<1> QED BY <1>1, <1>2, DriverTypes, PTL DEF DriverSpec, Spec, ImplementsReset

(* So, in the driver too, a reset from the only resetter reports success   *)
(* only when the camera is back, and never cuts a cooldown short: no call  *)
(* on a stream, at whatever moment of the reset, can spoil either.         *)
THEOREM DriverKeepsResetPromise ==
  ASSUME NEW r \in Inst, Resetters = {r}
  PROVE  DriverSpec => ResetPromise /\ CooldownAfterSuccess
BY DriverImplementsReset, AloneResetPromise, AloneCooldownAfterSuccess, PTL
   DEF ImplementsReset
=============================================================================
