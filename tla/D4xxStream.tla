----------------------------- MODULE D4xxStream -----------------------------
(***************************************************************************)
(* Starting and stopping streams (ds5_mux_s_stream and ds5_configure of    *)
(* d4xx.c), against the camera, its HW reset and the deserializer's pipes. *)
(*                                                                         *)
(* ds5_mux_s_stream takes no lock of its own: the video node serialises    *)
(* the calls on one instance, nothing orders them against the calls on     *)
(* other instances or against a reset, which runs in a control handler.    *)
(* Each action is one access to state others see: a register of the        *)
(* camera, the pipes under serdes_lock__, the flags under ds5_dev->lock.   *)
(* What only this instance sees is updated along with it.                  *)
(***************************************************************************)
EXTENDS D4xxReset, SerdesPipes

CONSTANTS
  Streams,     \* instances a client starts and stops
  DataType,    \* DataType[c]: the CSI data type of configuration c
  Vc,          \* Vc[i]: g_ctx.dst_vc of instance i
  Retries,     \* MAX_DS5_CONFIG_RETRIES
  Overlap      \* FALSE: a client never resets while a call is in progress

ASSUME StreamAssumption ==
  /\ Streams \subseteq Inst
  /\ DOMAIN DataType = Cfg
  /\ Vc \in [Inst -> Nat]
  /\ Retries \in Nat
  /\ Overlap \in BOOLEAN

NotConfigured == -1     \* PIPE_NOT_CONFIGURED
NoPipe == -12           \* the negative errno of get_available_pipe_id
NoType == "none"        \* pipe_data_type after an invalidation

VARIABLES
  want,        \* sensor->config: what the client selected
  streaming,   \* sensor->streaming
  ref,         \* state->reset_ref_ds5
  pipe,        \* sensor->pipe_id
  pipeType,    \* sensor->pipe_data_type1/2 and pipe_vc_id
  cached,      \* sensor->cached_*_value
  alloc,       \* pipes of the deserializer that are taken
  pc,          \* where the call on instance i is
  on,          \* its argument
  inval,       \* reset_invalidated
  status,      \* DS5_STATUS_STREAMING bit of its status variable
  reached,     \* streaming == expected_streaming_state
  conf,        \* ds5_config_done
  left,        \* ds5_config_retries
  ret          \* its ret, and after the return what it returned

sensorVars == <<want, ref, pipeType, cached>>
callState == <<on, inval, status, reached, conf, left>>
streamVars == <<want, streaming, ref, pipe, pipeType, cached, alloc, pc, on,
                inval, status, reached, conf, left, ret>>
svars == <<fwVars, resetVars, streamVars>>

StreamPc == {"idle", "check", "mark", "conf", "alloc", "setup", "regs", "cmd",
             "stream", "status", "again", "end", "drop", "restore", "release"}
Result == {"ok", "err", "ENOSR", "EAGAIN"}

StreamTypeOK ==
  /\ want \in [Inst -> Cfg]
  /\ streaming \in [Inst -> BOOLEAN]
  /\ ref \in [Inst -> Nat]
  /\ pipe \in [Inst -> Pipe \cup {NotConfigured, NoPipe}]
  /\ pipeType \in [Inst -> {DataType[c] : c \in Cfg} \cup {NoType}]
  /\ cached \in [Inst -> [Reg -> Cfg \cup {NoCfg}]]
  /\ alloc \in [Pipe -> BOOLEAN]
  /\ pc \in [Inst -> StreamPc]
  /\ on \in [Inst -> BOOLEAN]
  /\ inval \in [Inst -> BOOLEAN]
  /\ status \in [Inst -> BOOLEAN]
  /\ reached \in [Inst -> BOOLEAN]
  /\ conf \in [Inst -> BOOLEAN]
  /\ left \in [Inst -> 0..Retries]
  /\ ret \in [Inst -> Result]

StreamInit ==
  /\ want \in [Inst -> Cfg]
  /\ streaming = [i \in Inst |-> FALSE]
  /\ ref = [i \in Inst |-> 0]
  /\ pipe = [i \in Inst |-> NotConfigured]
  /\ pipeType = [i \in Inst |-> NoType]
  /\ cached = [i \in Inst |-> [k \in Reg |-> NoCfg]]
  /\ alloc = [p \in Pipe |-> FALSE]
  /\ pc = [i \in Inst |-> "idle"]
  /\ on = [i \in Inst |-> FALSE]
  /\ inval = [i \in Inst |-> FALSE]
  /\ status = [i \in Inst |-> FALSE]
  /\ reached = [i \in Inst |-> FALSE]
  /\ conf = [i \in Inst |-> FALSE]
  /\ left = [i \in Inst |-> 0]
  /\ ret = [i \in Inst |-> "ok"]

Step(i, from, to) == pc[i] = from /\ pc' = [pc EXCEPT ![i] = to]
Put(f, i, v) == [f EXCEPT ![i] = v]

Empty == [k \in Reg |-> NoCfg]      \* ds5_config_cache_clear

\* The call returns r; its locals are gone.
Return(i, from, r) ==
  /\ Step(i, from, "idle")
  /\ ret' = Put(ret, i, r)
  /\ on' = Put(on, i, FALSE)
  /\ inval' = Put(inval, i, FALSE)
  /\ status' = Put(status, i, FALSE)
  /\ reached' = Put(reached, i, FALSE)
  /\ conf' = Put(conf, i, FALSE)
  /\ left' = Put(left, i, 0)

-----------------------------------------------------------------------------
(* The client selects a configuration, between calls.                      *)

SelectFormat(i, c) ==
  /\ pc[i] = "idle" /\ want[i] # c
  /\ want' = Put(want, i, c)
  /\ UNCHANGED <<streaming, ref, pipe, pipeType, cached, alloc, pc, ret>>
  /\ UNCHANGED callState /\ UNCHANGED fwVars /\ UNCHANGED resetVars

-----------------------------------------------------------------------------
(* ds5_mux_s_stream up to its command.                                     *)

MayCall == Overlap \/ \A r \in Inst : rpc[r] = "idle"

Stale(i) == ref[i] # gen
Active(i) == streaming[i] /\ ~Stale(i)

\* Lazy invalidation: a new generation makes the sensor forget that it
\* streams, what it wrote and how its pipe is set up, but not the pipe.
Synchronise(i) ==
  /\ ref' = Put(ref, i, gen)
  /\ streaming' = Put(streaming, i, Active(i))
  /\ pipeType' = IF Stale(i) THEN Put(pipeType, i, NoType) ELSE pipeType
  /\ cached' = IF Stale(i) THEN Put(cached, i, Empty) ELSE cached

\* "spare duplicate calls"
CallDuplicate(i, o) ==
  /\ MayCall /\ pc[i] = "idle"
  /\ Active(i) = o
  /\ Synchronise(i)
  /\ ret' = Put(ret, i, "ok")
  /\ UNCHANGED <<want, pipe, alloc, pc>> /\ UNCHANGED callState
  /\ UNCHANGED fwVars /\ UNCHANGED resetVars

\* Mutant: the invalidation clears pipe_id, which its comment warns of.
CallClearsPipe(i, o) ==
  /\ MayCall /\ Step(i, "idle", "check")
  /\ Active(i) # o
  /\ Synchronise(i)
  /\ pipe' = IF Stale(i) THEN Put(pipe, i, NotConfigured) ELSE pipe
  /\ on' = Put(on, i, o)
  /\ inval' = Put(inval, i, Stale(i))
  /\ status' = Put(status, i, ~o)
  /\ conf' = Put(conf, i, ~o)
  /\ left' = Put(left, i, Retries)
  /\ UNCHANGED <<want, alloc, reached, ret>>
  /\ UNCHANGED fwVars /\ UNCHANGED resetVars

Call(i, o) ==
  /\ MayCall /\ Step(i, "idle", "check")
  /\ Active(i) # o
  /\ Synchronise(i)
  /\ on' = Put(on, i, o)
  /\ inval' = Put(inval, i, Stale(i))
  /\ status' = Put(status, i, ~o)
  /\ conf' = Put(conf, i, ~o)
  /\ left' = Put(left, i, Retries)
  /\ UNCHANGED <<want, pipe, alloc, reached, ret>>
  /\ UNCHANGED fwVars /\ UNCHANGED resetVars

\* Poll CONFIG_STATUS for the state the command starts from.
Check(i) ==
  /\ pc[i] = "check" /\ Acked
  /\ status' = Put(status, i, ConfigStatus(i))
  /\ pc' = IF on[i] # ConfigStatus(i) THEN Put(pc, i, "mark") ELSE pc
  /\ UNCHANGED <<streaming, pipe, alloc, on, inval, reached, conf, left, ret>>
  /\ UNCHANGED sensorVars /\ UNCHANGED fwVars /\ UNCHANGED resetVars

\* DS5_START_MAX_TIME is over.  Without faults the camera has answered by then
\* if it is up, and a stream that was starting or stopping has settled.
CheckTimeout(i) ==
  \/ Faults \/ ~Acked
  \/ /\ status[i] = on[i] /\ ConfigStatus(i) = on[i]
     /\ fwst[i] \notin {"starting", "stopping"}

\* No read succeeded: status still has its initial, expected value.
CheckUnread(i) ==
  /\ CheckTimeout(i)
  /\ Step(i, "check", "mark") /\ on[i] # status[i]
  /\ UNCHANGED <<streaming, pipe, alloc, ret>> /\ UNCHANGED callState
  /\ UNCHANGED sensorVars /\ UNCHANGED fwVars /\ UNCHANGED resetVars

\* Streaming although a reset invalidated it: force a stop.  The flag is
\* cleared right after the write; only a reset could look in between, and it
\* would send the same STOP.
CheckForce(i) ==
  /\ CheckTimeout(i)
  /\ Step(i, "check", "mark") /\ on[i] /\ status[i] /\ inval[i]
  /\ \/ Acked /\ Toggle(i, FALSE)
     \/ Nacked /\ UNCHANGED fwst
  /\ flag' = Put(flag, i, FALSE)
  /\ streaming' = Put(streaming, i, FALSE)
  /\ UNCHANGED <<pipe, alloc, ret>> /\ UNCHANGED callState
  /\ UNCHANGED sensorVars /\ UNCHANGED <<power, ready, fwreg>>
  /\ UNCHANGED <<gen, devType, done, elapsed, rpc>> /\ UNCHANGED callVars

\* Already in the state asked for: nothing to do.
CheckNoop(i) ==
  /\ CheckTimeout(i)
  /\ on[i] = status[i] /\ ~(on[i] /\ inval[i])
  /\ Return(i, "check", "ok")
  /\ flag' = Put(flag, i, on[i])
  /\ streaming' = Put(streaming, i, on[i])
  /\ UNCHANGED <<pipe, alloc>>
  /\ UNCHANGED sensorVars /\ UNCHANGED fwVars
  /\ UNCHANGED <<gen, devType, done, elapsed, rpc>> /\ UNCHANGED callVars

\* Mutant: the flags of all streams are marked.
MarkAllFlags(i) ==
  /\ Step(i, "mark", IF conf[i] THEN "cmd" ELSE "conf")
  /\ flag' = [j \in Inst |-> on[i]]
  /\ streaming' = Put(streaming, i, on[i])
  /\ UNCHANGED <<pipe, alloc, ret>> /\ UNCHANGED callState
  /\ UNCHANGED sensorVars /\ UNCHANGED fwVars
  /\ UNCHANGED <<gen, devType, done, elapsed, rpc>> /\ UNCHANGED callVars

Mark(i) ==
  /\ Step(i, "mark", IF conf[i] THEN "cmd" ELSE "conf")
  /\ flag' = Put(flag, i, on[i])
  /\ streaming' = Put(streaming, i, on[i])
  /\ UNCHANGED <<pipe, alloc, ret>> /\ UNCHANGED callState
  /\ UNCHANGED sensorVars /\ UNCHANGED fwVars
  /\ UNCHANGED <<gen, devType, done, elapsed, rpc>> /\ UNCHANGED callVars

-----------------------------------------------------------------------------
(* ds5_configure.                                                          *)

\* Mutant: a pipe that is there is taken to be set up for this start.
NeedsPipeOnce(i) == pipe[i] = NotConfigured

NeedsPipe(i) ==
  pipe[i] = NotConfigured \/ pipeType[i] # DataType[want[i]]

\* Give the old pipe back; serdes_lock__ is dropped before a new one is taken.
ConfRelease(i) ==
  /\ Step(i, "conf", "alloc")
  /\ NeedsPipe(i) /\ pipe[i] \in Pipe
  /\ alloc' = Released(alloc, pipe[i])
  /\ UNCHANGED <<streaming, pipe, ret>> /\ UNCHANGED callState
  /\ UNCHANGED sensorVars /\ UNCHANGED fwVars /\ UNCHANGED resetVars

ConfNothingToRelease(i) ==
  /\ Step(i, "conf", IF NeedsPipe(i) THEN "alloc" ELSE "regs")
  /\ NeedsPipe(i) => pipe[i] \notin Pipe
  /\ UNCHANGED <<streaming, pipe, alloc, ret>> /\ UNCHANGED callState
  /\ UNCHANGED sensorVars /\ UNCHANGED fwVars /\ UNCHANGED resetVars

TakePipe(i, p) ==
  /\ Step(i, "alloc", "setup")
  /\ p \in Available(alloc, Vc[i])
  /\ alloc' = Put(alloc, p, TRUE)
  /\ pipe' = Put(pipe, i, p)
  /\ UNCHANGED <<streaming, ret>> /\ UNCHANGED callState
  /\ UNCHANGED sensorVars /\ UNCHANGED fwVars /\ UNCHANGED resetVars

\* -ENOSR leaves ds5_mux_s_stream at once, with the stream marked as on.
OutOfPipes(i) ==
  /\ Available(alloc, Vc[i]) = {}
  /\ Return(i, "alloc", "ENOSR")
  /\ pipe' = Put(pipe, i, NoPipe)
  /\ UNCHANGED <<streaming, alloc>>
  /\ UNCHANGED sensorVars /\ UNCHANGED fwVars /\ UNCHANGED resetVars

\* Serializer and deserializer are told what the pipe carries.
SetupPipe(i) ==
  /\ \/ /\ Step(i, "setup", "regs")
        /\ pipeType' = Put(pipeType, i, DataType[want[i]])
        /\ UNCHANGED ret
     \/ /\ Faults
        /\ Step(i, "setup", "again")
        /\ ret' = Put(ret, i, "err")
        /\ UNCHANGED pipeType
  /\ UNCHANGED <<want, streaming, ref, pipe, cached, alloc>>
  /\ UNCHANGED callState /\ UNCHANGED fwVars /\ UNCHANGED resetVars

Differs(i) == {k \in Reg : cached[i][k] # want[i]}

\* Mutant: a value is cached although its write failed.
WriteConfigCachesFailure(i, k) ==
  /\ pc[i] = "regs"
  /\ k \in Differs(i) /\ \A q \in Differs(i) : k <= q
  /\ \/ Acked /\ WriteReg(i, k, want[i]) /\ UNCHANGED <<pc, ret>>
     \/ /\ Nacked
        /\ Step(i, "regs", "again")
        /\ ret' = Put(ret, i, "err")
        /\ UNCHANGED <<fwreg, fwst>>
  /\ cached' = [cached EXCEPT ![i][k] = want[i]]
  /\ UNCHANGED <<want, streaming, ref, pipe, pipeType, alloc>>
  /\ UNCHANGED callState /\ UNCHANGED <<power, ready>>
  /\ UNCHANGED resetVars

\* The registers in order, each only if its cached value differs; the first
\* failing write ends the attempt.
WriteConfig(i, k) ==
  /\ pc[i] = "regs"
  /\ k \in Differs(i) /\ \A q \in Differs(i) : k <= q
  /\ \/ /\ Acked
        /\ WriteReg(i, k, want[i])
        /\ cached' = [cached EXCEPT ![i][k] = want[i]]
        /\ UNCHANGED <<pc, ret>>
     \/ /\ Nacked
        /\ Step(i, "regs", "again")
        /\ ret' = Put(ret, i, "err")
        /\ UNCHANGED <<fwreg, fwst, cached>>
  /\ UNCHANGED <<want, streaming, ref, pipe, pipeType, alloc>>
  /\ UNCHANGED callState /\ UNCHANGED <<power, ready>>
  /\ UNCHANGED resetVars

Configured(i) ==
  /\ Step(i, "regs", "cmd")
  /\ Differs(i) = {}
  /\ conf' = Put(conf, i, TRUE)
  /\ UNCHANGED <<streaming, pipe, alloc, on, inval, status, reached, left, ret>>
  /\ UNCHANGED sensorVars /\ UNCHANGED fwVars /\ UNCHANGED resetVars

-----------------------------------------------------------------------------
(* The command loop of ds5_mux_s_stream.                                   *)

\* Write the command unless the stream already reached the state asked for.
Command(i) ==
  /\ Step(i, "cmd", "stream")
  /\ \/ reached[i] /\ UNCHANGED fwst
     \/ ~reached[i] /\ Acked /\ Toggle(i, on[i])
     \/ ~reached[i] /\ Nacked /\ UNCHANGED fwst
  /\ UNCHANGED <<power, ready, fwreg>>
  /\ UNCHANGED <<streaming, pipe, alloc, ret>> /\ UNCHANGED callState
  /\ UNCHANGED sensorVars /\ UNCHANGED resetVars

\* STREAM_STATUS; a failed read leaves the value of an earlier round.
ReadStream(i) ==
  /\ \/ /\ Acked
        /\ reached' = Put(reached, i, StreamStatus(i) = on[i])
        /\ ret' = Put(ret, i, "ok")
     \/ /\ Nacked
        /\ ret' = Put(ret, i, "err")
        /\ UNCHANGED reached
  /\ Step(i, "stream", IF reached'[i] THEN "status" ELSE "again")
  /\ UNCHANGED <<streaming, pipe, alloc, on, inval, status, conf, left>>
  /\ UNCHANGED sensorVars /\ UNCHANGED fwVars /\ UNCHANGED resetVars

ReadStatusFails(i) ==
  /\ Nacked
  /\ Step(i, "status", "again")
  /\ ret' = Put(ret, i, "err")
  /\ UNCHANGED <<streaming, pipe, alloc>> /\ UNCHANGED callState
  /\ UNCHANGED sensorVars /\ UNCHANGED fwVars /\ UNCHANGED resetVars

\* Mutant: every round of the loop counts as a retry.
ReadStatusCounts(i) ==
  /\ Acked /\ ~(on[i] /\ ConfigInvalid(i))
  /\ Step(i, "status", IF ConfigStatus(i) = on[i] THEN "end" ELSE "again")
  /\ status' = Put(status, i, ConfigStatus(i))
  /\ ret' = Put(ret, i, "ok")
  /\ left' = Put(left, i, left[i] - 1)
  /\ UNCHANGED <<streaming, pipe, alloc, on, inval, reached, conf>>
  /\ UNCHANGED sensorVars /\ UNCHANGED fwVars /\ UNCHANGED resetVars

\* CONFIG_STATUS shows that the toggle is complete, or not yet.
ReadStatus(i) ==
  /\ Acked /\ ~(on[i] /\ ConfigInvalid(i))
  /\ Step(i, "status", IF ConfigStatus(i) = on[i] THEN "end" ELSE "again")
  /\ status' = Put(status, i, ConfigStatus(i))
  /\ ret' = Put(ret, i, "ok")
  /\ UNCHANGED <<streaming, pipe, alloc, on, inval, reached, conf, left>>
  /\ UNCHANGED sensorVars /\ UNCHANGED fwVars /\ UNCHANGED resetVars

\* Mutant: the retries are not counted.
ReadRejectedForever(i) ==
  /\ Acked /\ on[i] /\ ConfigInvalid(i)
  /\ status' = Put(status, i, ConfigStatus(i))
  /\ ret' = Put(ret, i, "ok")
  /\ Step(i, "status", "again")
  /\ conf' = Put(conf, i, FALSE)
  /\ cached' = Put(cached, i, Empty)
  /\ UNCHANGED <<want, streaming, ref, pipe, pipeType, alloc>>
  /\ UNCHANGED <<on, inval, reached, left>>
  /\ UNCHANGED fwVars /\ UNCHANGED resetVars

\* CONFIG_STATUS rejects the configuration: write all of it once more, until
\* the retries are used up.
ReadRejected(i) ==
  /\ Acked /\ on[i] /\ ConfigInvalid(i)
  /\ status' = Put(status, i, ConfigStatus(i))
  /\ ret' = Put(ret, i, "ok")
  /\ \/ /\ left[i] > 0
        /\ Step(i, "status", "again")
        /\ left' = Put(left, i, left[i] - 1)
        /\ conf' = Put(conf, i, FALSE)
        /\ cached' = Put(cached, i, Empty)
     \/ /\ left[i] = 0
        /\ Step(i, "status", "end")
        /\ UNCHANGED <<left, conf, cached>>
  /\ UNCHANGED <<want, streaming, ref, pipe, pipeType, alloc>>
  /\ UNCHANGED <<on, inval, reached>> /\ UNCHANGED fwVars /\ UNCHANGED resetVars

Again(i) ==
  /\ Step(i, "again", IF conf[i] THEN "cmd" ELSE "conf")
  /\ UNCHANGED <<streaming, pipe, alloc, ret>> /\ UNCHANGED callState
  /\ UNCHANGED sensorVars /\ UNCHANGED fwVars /\ UNCHANGED resetVars

\* DS5_START_MAX_TIME is over: without faults only a camera that is away
\* takes that long.
LoopTimeout(i) ==
  /\ Faults \/ ~Acked
  /\ Step(i, "again", "end")
  /\ UNCHANGED <<streaming, pipe, alloc, ret>> /\ UNCHANGED callState
  /\ UNCHANGED sensorVars /\ UNCHANGED fwVars /\ UNCHANGED resetVars

-----------------------------------------------------------------------------
(* After the loop.  The stream counts as failed if status, as it was last   *)
(* read, is not the state asked for.                                        *)

StartSucceeds(i) ==
  /\ on[i] /\ status[i]
  /\ Return(i, "end", ret[i])
  /\ UNCHANGED <<streaming, pipe, alloc>>
  /\ UNCHANGED sensorVars /\ UNCHANGED fwVars /\ UNCHANGED resetVars

\* Mutant: pipe_id survives the release.
GivePipeBackKeepsId(i) ==
  /\ alloc' = IF pipe[i] \in Pipe THEN Released(alloc, pipe[i]) ELSE alloc
  /\ pipe' = pipe

\* release_pipe, which keeps pipe_id if it reports a failure.
GivePipeBack(i) ==
  /\ alloc' = IF pipe[i] \in Pipe THEN Released(alloc, pipe[i]) ELSE alloc
  /\ \/ ReleaseMaySucceed(pipe[i]) /\ pipe' = Put(pipe, i, NotConfigured)
     \/ ReleaseMayFail(pipe[i]) /\ pipe' = pipe

StopSucceeds(i) ==
  /\ ~on[i] /\ ~status[i]
  /\ Return(i, "end", ret[i])
  /\ GivePipeBack(i)
  /\ UNCHANGED streaming
  /\ UNCHANGED sensorVars /\ UNCHANGED fwVars /\ UNCHANGED resetVars

\* Try to toggle the stream back, ...
ToggleBack(i) ==
  /\ Step(i, "end", "drop") /\ on[i] # status[i]
  /\ \/ ~reached[i] /\ UNCHANGED fwst
     \/ reached[i] /\ Acked /\ Toggle(i, ~on[i])
     \/ reached[i] /\ Nacked /\ UNCHANGED fwst
  /\ UNCHANGED <<power, ready, fwreg>>
  /\ UNCHANGED <<streaming, pipe, alloc, ret>> /\ UNCHANGED callState
  /\ UNCHANGED sensorVars /\ UNCHANGED resetVars

\* Mutant: a failed start forgets its pipe instead of giving it back.
DropPipeForgets(i) ==
  /\ Step(i, "drop", "restore")
  /\ pipe' = IF on[i] /\ pipe[i] \in Pipe THEN Put(pipe, i, NotConfigured) ELSE pipe
  /\ UNCHANGED <<streaming, alloc, ret>> /\ UNCHANGED callState
  /\ UNCHANGED sensorVars /\ UNCHANGED fwVars /\ UNCHANGED resetVars

\* ... give the pipe of a failed start back ...
DropPipe(i) ==
  /\ Step(i, "drop", "restore")
  /\ IF on[i] /\ pipe[i] \in Pipe THEN GivePipeBack(i)
                                   ELSE UNCHANGED <<alloc, pipe>>
  /\ UNCHANGED <<streaming, ret>> /\ UNCHANGED callState
  /\ UNCHANGED sensorVars /\ UNCHANGED fwVars /\ UNCHANGED resetVars

\* Mutant: only the sensor's own mark is restored.
RestoreSensorOnly(i) ==
  /\ Return(i, "restore", "EAGAIN")
  /\ streaming' = Put(streaming, i, ~on[i])
  /\ UNCHANGED <<pipe, alloc>>
  /\ UNCHANGED sensorVars /\ UNCHANGED fwVars /\ UNCHANGED resetVars

\* ... and restore the marks; restore_val is the opposite of on, because a
\* call for the state the sensor is in has returned long ago.
Restore(i) ==
  /\ Return(i, "restore", "EAGAIN")
  /\ flag' = Put(flag, i, ~on[i])
  /\ streaming' = Put(streaming, i, ~on[i])
  /\ UNCHANGED <<pipe, alloc>>
  /\ UNCHANGED sensorVars /\ UNCHANGED fwVars
  /\ UNCHANGED <<gen, devType, done, elapsed, rpc>> /\ UNCHANGED callVars

-----------------------------------------------------------------------------
(* The driver with its camera.                                             *)

\* What the thread in a call does.
CallStep(i) ==
  \/ Check(i) \/ CheckUnread(i) \/ CheckForce(i) \/ CheckNoop(i) \/ Mark(i)
  \/ ConfRelease(i) \/ ConfNothingToRelease(i)
  \/ (\E p \in Pipe : TakePipe(i, p)) \/ OutOfPipes(i)
  \/ SetupPipe(i) \/ (\E k \in Reg : WriteConfig(i, k)) \/ Configured(i)
  \/ Command(i) \/ ReadStream(i)
  \/ ReadStatusFails(i) \/ ReadStatus(i) \/ ReadRejected(i)
  \/ Again(i) \/ LoopTimeout(i)
  \/ StartSucceeds(i) \/ StopSucceeds(i)
  \/ ToggleBack(i) \/ DropPipe(i) \/ Restore(i)

Client(i) ==
  \/ \E o \in BOOLEAN : Call(i, o) \/ CallDuplicate(i, o)
  \/ \E c \in Cfg : SelectFormat(i, c)

MayReset == Overlap \/ \A i \in Inst : pc[i] = "idle"

ResetNext ==
  /\ \/ \E i \in Inst : ResetStep(i)
     \/ MayReset /\ \E i \in Resetters : ResetEnter(i)
     \/ CooldownElapses
  /\ UNCHANGED streamVars

CameraNext == FwStep /\ UNCHANGED resetVars /\ UNCHANGED streamVars

DriverInit == FwInit /\ ResetInit /\ StreamInit

DriverNext ==
  \/ \E i \in Streams : CallStep(i) \/ Client(i)
  \/ ResetNext
  \/ CameraNext

DriverSpec == DriverInit /\ [][DriverNext]_svars

\* Threads run, the camera settles, and the deadline of the loop, which is
\* tested once per round, passes after finitely many rounds.  Clients need
\* not do anything.
DriverFairness ==
  /\ \A i \in Streams : WF_svars(CallStep(i)) /\ SF_svars(LoopTimeout(i))
                       /\ WF_svars(CheckUnread(i) \/ CheckForce(i) \/ CheckNoop(i))
  /\ \A i \in Inst : WF_svars(ResetStep(i) /\ UNCHANGED streamVars)
  /\ \A i \in Inst : WF_svars(FwSettle(i) /\ UNCHANGED <<resetVars, streamVars>>)
  /\ WF_svars(FwReboot /\ UNCHANGED <<resetVars, streamVars>>)
  /\ WF_svars(CooldownElapses /\ UNCHANGED streamVars)

DriverFairSpec == DriverSpec /\ DriverFairness

-----------------------------------------------------------------------------
(* Properties                                                              *)

\* Every variable keeps its type.
DriverTypeOK == FwTypeOK /\ ResetTypeOK /\ StreamTypeOK

\* Whatever the calls on streams do, the reset and the camera behave as module
\* D4xxReset says: a call reaches only its own stream's flag and registers.
ImplementsReset == Spec

\* No pipe is lost: whoever took a pipe still knows its number, so that the
\* next start or stop gives it back, across failed starts, retries, resets and
\* failing releases.  (A sensor about to replace its pipe no longer counts.)
NoPipeLeak ==
  \A p \in Pipe : alloc[p] => \E i \in Inst : pipe[i] = p /\ pc[i] # "alloc"

Holds(i) == pipe[i] \in Pipe /\ pc[i] # "alloc"

\* Two sensors never stream through the same pipe, although a start drops
\* serdes_lock__ between giving its old pipe back and taking a new one.
PipeExclusive ==
  \A i, j \in Inst : Holds(i) /\ Holds(j) /\ pipe[i] = pipe[j] => i = j

\* A start never fails for lack of pipes while every instance can have one:
\* -ENOSR is out of reach, whatever failed before.
PipeForEveryone == \A i \in Inst : pc[i] = "alloc" => Available(alloc, Vc[i]) # {}

Rests(i) == pc[i] = "idle" /\ \A r \in Inst : rpc[r] = "idle"

\* Between calls and resets the two records of what streams agree: the flag the
\* reset reads to know which streams to stop, and the sensor's own.
FlagAgrees == \A i \in Inst : Rests(i) /\ ~Stale(i) => flag[i] = streaming[i]

\* A cached register value is what the camera's register holds, unless a reset
\* since then has been noted in the generation; else a start would leave out a
\* write the camera needs.
CacheCoherent ==
  \A i \in Inst : (\A r \in Inst : rpc[r] = "idle") /\ ~Stale(i) =>
    \A k \in Reg : cached[i][k] \in {NoCfg, fwreg[i][k]}

\* Between calls the sensor counts as streaming exactly if the camera streams:
\* no start is skipped as a duplicate of one that a reset undid, no stop is
\* skipped while frames still come.
BooksMatchCamera ==
  \A i \in Inst : Rests(i) => (Active(i) <=> fwst[i] = "streaming")

\* A start that reports success left the camera streaming the selected
\* configuration through a pipe that is set up for its data type.
StartDelivers ==
  [][\A i \in Inst : on[i] /\ pc'[i] = "idle" /\ ret'[i] = "ok" =>
       /\ fwst[i] = "streaming"
       /\ fwreg[i] = [k \in Reg |-> want[i]]
       /\ Holds(i) /\ alloc[pipe[i]] /\ pipeType[i] = DataType[want[i]]]_svars

\* "Streaming timeout -> Send stop command, return -EAGAIN": a start whose loop
\* ended without the stream status it waited for does not report success.
TimedOutStartFails ==
  [][\A i \in Inst : pc[i] = "end" /\ on[i] /\ ~reached[i] /\ pc'[i] = "idle"
       => ret'[i] # "ok"]_svars

\* ds5_hw_reset_with_recovery keeps its books "so that ds5_mux_s_stream() won't
\* silently skip the next stream-start": a start that would be spared as a
\* duplicate finds the camera streaming.
NoStartSkipped ==
  \A i \in Inst : Rests(i) /\ Active(i) => fwst[i] # "idle"

\* Every call on a stream returns.
CallReturns == \A i \in Streams : pc[i] # "idle" ~> pc[i] = "idle"
=============================================================================
