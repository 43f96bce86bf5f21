-------------------------- MODULE D4xxBooks_proofs ---------------------------
(***************************************************************************)
(* Proofs about the books of the driver: the streaming flags that a reset  *)
(* reads, the sensors' own marks and their caches of register values, for  *)
(* any number of instances, configurations and registers, with or without  *)
(* faults, as long as clients do not ask for a reset during a call.        *)
(*                                                                         *)
(* What a reset leaves behind is repaired lazily: the generation tells the *)
(* next call on a sensor that its books are out of date.  So the books are *)
(* claimed only of sensors that have seen the latest generation.           *)
(*                                                                         *)
(* The last part is about a working bus, on which no access fails and no   *)
(* deadline is missed: there the books agree with the camera itself, and a *)
(* start that succeeds delivers.  It follows a call step by step, from     *)
(* what the call knows of the camera at each of its places.                *)
(***************************************************************************)
EXTENDS D4xxPipes_proofs

(* A reset has begun a new generation and has not returned.                *)
AfterBump == {"clear", "scratch", "send", "ready", "type", "version"}

(* Who knows the generation, and that calls and resets take turns.         *)
Turns ==
  /\ \A i \in Inst : ref[i] <= gen
  /\ \A i \in Inst : pc[i] # "idle" => ref[i] = gen
  /\ \A i, j \in Inst : rpc[j] # "idle" => pc[i] = "idle"
  /\ \A i, j \in Inst : rpc[j] \in AfterBump => ref[i] < gen

(* A sensor that knows the generation agrees with its flag; the flags of   *)
(* the others were cleared.                                                *)
Flags ==
  \A i \in Inst :
    /\ ref[i] = gen => flag[i] = streaming[i]
    /\ ref[i] < gen /\ (\A j \in Inst : rpc[j] # "clear") => ~flag[i]

(* What a sensor that knows the generation cached is in the camera.        *)
Caches ==
  \A i \in Inst : ref[i] = gen =>
    \A k \in Reg : cached[i][k] \in {NoCfg, fwreg[i][k]}

(* A step of a call: it is in the call, and changes at most the marks of   *)
(* its own instance, both to the same value.                               *)
LEMMA CallStepEffect ==
  ASSUME DriverTypeOK, NEW i \in Streams, CallStep(i)
  PROVE  /\ pc[i] # "idle"
         /\ UNCHANGED <<ref, gen, rpc>>
         /\ \A j \in Inst \ {i} : pc'[j] = pc[j]
         /\ \/ UNCHANGED <<flag, streaming>>
            \/ \E b \in BOOLEAN : /\ flag' = [flag EXCEPT ![i] = b]
                                  /\ streaming' = [streaming EXCEPT ![i] = b]
<1> USE StreamAssumption
<1>1. i \in Inst /\ pc \in [Inst -> StreamPc] /\ on \in [Inst -> BOOLEAN]
  BY DEF DriverTypeOK, StreamTypeOK
<1>2. CASE CheckForce(i)
  BY <1>1, <1>2 DEF CheckForce, Step, Put, sensorVars
<1>3. CASE CheckNoop(i)
  BY <1>1, <1>3 DEF CheckNoop, Return, Step, Put, sensorVars
<1>4. CASE Mark(i)
  BY <1>1, <1>4 DEF Mark, Step, Put, sensorVars
<1>5. CASE Restore(i)
  BY <1>1, <1>5 DEF Restore, Return, Step, Put, sensorVars
<1>6. CASE \/ Check(i) \/ CheckUnread(i) \/ ConfRelease(i) \/ ConfNothingToRelease(i)
           \/ OutOfPipes(i) \/ SetupPipe(i) \/ Configured(i)
  BY <1>1, <1>6
     DEF Check, CheckUnread, ConfRelease, ConfNothingToRelease, OutOfPipes, SetupPipe,
         Configured, Return, Step, Put, sensorVars, resetVars, callVars
<1>7. CASE \/ Command(i) \/ ReadStream(i) \/ ReadStatusFails(i) \/ ReadStatus(i)
           \/ ReadRejected(i) \/ Again(i) \/ LoopTimeout(i)
  BY <1>1, <1>7
     DEF Command, ReadStream, ReadStatusFails, ReadStatus, ReadRejected, Again,
         LoopTimeout, Return, Step, Put, sensorVars, resetVars, callVars
<1>8. CASE StartSucceeds(i) \/ StopSucceeds(i) \/ ToggleBack(i) \/ DropPipe(i)
  BY <1>1, <1>8
     DEF StartSucceeds, StopSucceeds, ToggleBack, DropPipe, Return, Step, Put,
         sensorVars, resetVars, callVars
<1>9. CASE \E p \in Pipe : TakePipe(i, p)
  BY <1>1, <1>9 DEF TakePipe, Step, Put, sensorVars, resetVars, callVars
<1>10. CASE \E k \in Reg : WriteConfig(i, k)
  BY <1>1, <1>10 DEF WriteConfig, Step, Put, resetVars, callVars
<1> QED BY <1>2, <1>3, <1>4, <1>5, <1>6, <1>7, <1>8, <1>9, <1>10 DEF CallStep

(* A new call synchronises its sensor with the generation.                 *)
LEMMA ClientEffect ==
  ASSUME DriverTypeOK, NEW i \in Streams, Client(i), ~Overlap
  PROVE  /\ UNCHANGED <<gen, rpc, flag>>
         /\ \A j \in Inst \ {i} : pc'[j] = pc[j]
         /\ \/ UNCHANGED <<ref, streaming, cached, pc, fwreg>>
            \/ /\ \A j \in Inst : rpc[j] = "idle"
               /\ UNCHANGED fwreg
               /\ ref' = [ref EXCEPT ![i] = gen]
               /\ streaming' = [streaming EXCEPT ![i] = streaming[i] /\ ref[i] = gen]
               /\ cached' = IF ref[i] # gen THEN [cached EXCEPT ![i] = Empty] ELSE cached
<1> USE StreamAssumption
<1>1. i \in Inst /\ pc \in [Inst -> StreamPc]
  BY DEF DriverTypeOK, StreamTypeOK
<1>2. CASE \E o \in BOOLEAN : Call(i, o)
  BY <1>1, <1>2 DEF Call, MayCall, Synchronise, Active, Stale, Step, Put, fwVars, resetVars,
                    callVars
<1>3. CASE \E o \in BOOLEAN : CallDuplicate(i, o)
  BY <1>1, <1>3 DEF CallDuplicate, MayCall, Synchronise, Active, Stale, Put, fwVars,
                    resetVars, callVars
<1>4. CASE \E c \in Cfg : SelectFormat(i, c)
  BY <1>4 DEF SelectFormat, fwVars, resetVars, callVars
<1> QED BY <1>2, <1>3, <1>4 DEF Client

(* A step of a reset begins a generation or clears the flags, or changes   *)
(* neither; only then is the flag of a sensor cleared.                     *)
LEMMA ResetEffect ==
  ASSUME DriverTypeOK, NEW j \in Inst, ResetStep(j)
  PROVE  /\ rpc[j] # "idle"
         /\ UNCHANGED fwreg
         /\ \A k \in Inst \ {j} : rpc'[k] = rpc[k]
         /\ \/ /\ rpc[j] = "stop" /\ rpc'[j] = "clear"
               /\ gen' = gen + 1 /\ UNCHANGED flag
            \/ /\ rpc[j] = "clear" /\ rpc'[j] = "scratch"
               /\ UNCHANGED gen /\ flag' = [k \in Inst |-> FALSE]
            \/ /\ UNCHANGED <<gen, flag>>
               /\ rpc[j] # "clear" /\ rpc'[j] # "clear"
               /\ rpc'[j] \in AfterBump => rpc[j] \in AfterBump
<1>1. rpc \in [Inst -> ResetPc]
  BY DEF DriverTypeOK, ResetTypeOK
<1> USE <1>1 DEF AfterBump, Goto, ResetReturn, fwVars, callVars
<1>2. CASE ResetBump(j)
  BY <1>2 DEF ResetBump
<1>3. CASE ResetClearFlags(j)
  BY <1>3 DEF ResetClearFlags
<1>4. CASE \/ ResetCooldownOver(j) \/ ResetReadFlags(j) \/ ResetScratch(j)
           \/ ResetSend(j) \/ ResetReady(j) \/ ResetFoundDfu(j)
  BY <1>4 DEF ResetCooldownOver, ResetReadFlags, ResetScratch, ResetSend, ResetReady,
              ResetFoundDfu
<1>5. CASE \E k \in Inst : ResetStop(j, k)
  BY <1>5 DEF ResetStop
<1>6. CASE \/ ResetReadyTimeout(j) \/ ResetType(j) \/ ResetTypeTimeout(j)
           \/ ResetVersion(j)
  BY <1>6 DEF ResetReadyTimeout, ResetType, ResetTypeTimeout, ResetVersion
<1> QED BY <1>2, <1>3, <1>4, <1>5, <1>6 DEF ResetStep

(* Calls and resets keep taking turns, and the flags their meaning.        *)
LEMMA TurnsStep ==
  ASSUME DriverTypeOK, Turns, Flags, ~Overlap, [DriverNext]_svars
  PROVE  Turns' /\ Flags'
<1> USE StreamAssumption, ResetAssumption DEF Turns, Flags
<1>0. /\ gen \in Nat /\ ref \in [Inst -> Nat] /\ pc \in [Inst -> StreamPc]
      /\ flag \in [Inst -> BOOLEAN] /\ streaming \in [Inst -> BOOLEAN]
      /\ rpc \in [Inst -> ResetPc]
  BY DEF DriverTypeOK, ResetTypeOK, StreamTypeOK
<1>1. CASE UNCHANGED svars
  BY <1>1 DEF svars, resetVars, streamVars
<1>2. ASSUME NEW i \in Streams, CallStep(i)
      PROVE  Turns' /\ Flags'
  BY <1>0, <1>2, CallStepEffect
<1>3. ASSUME NEW i \in Streams, Client(i)
      PROVE  Turns' /\ Flags'
  <2>1. i \in Inst
    OBVIOUS
  <2>2. CASE UNCHANGED <<ref, streaming, cached, pc, fwreg>>
    BY <1>3, <2>2, ClientEffect
  <2>3. CASE /\ \A j \in Inst : rpc[j] = "idle"
             /\ ref' = [ref EXCEPT ![i] = gen]
             /\ streaming' = [streaming EXCEPT ![i] = streaming[i] /\ ref[i] = gen]
    <3>1. UNCHANGED <<gen, rpc, flag>> /\ \A j \in Inst \ {i} : pc'[j] = pc[j]
      BY <1>3, ClientEffect
    <3>2. Turns'
      BY <1>0, <2>1, <2>3, <3>1 DEF AfterBump
    <3>3. flag[i] = (streaming[i] /\ ref[i] = gen)
      BY <1>0, <2>1, <2>3
    <3>4. Flags'
      BY <1>0, <2>1, <2>3, <3>1, <3>3
    <3> QED BY <3>2, <3>4
  <2> QED BY <1>3, <2>2, <2>3, ClientEffect
<1>4. ASSUME NEW j \in Inst, ResetStep(j), UNCHANGED streamVars
      PROVE  Turns' /\ Flags'
  <2>1. UNCHANGED <<ref, pc, streaming>>
    BY <1>4 DEF streamVars
  <2>2. Turns'
    BY <1>0, <1>4, <2>1, ResetEffect DEF AfterBump
  <2>3. Flags'
    BY <1>0, <1>4, <2>1, ResetEffect DEF AfterBump
  <2> QED BY <2>2, <2>3
<1>5. ASSUME NEW j \in Resetters, MayReset, ResetEnter(j), UNCHANGED streamVars
      PROVE  Turns' /\ Flags'
  BY <1>0, <1>5 DEF MayReset, ResetEnter, Goto, AfterBump, streamVars
<1>6. CASE CooldownElapses /\ UNCHANGED streamVars
  BY <1>6 DEF CooldownElapses, streamVars
<1>7. CASE CameraNext
  BY <1>7 DEF CameraNext, resetVars, streamVars
<1> QED BY <1>1, <1>2, <1>3, <1>4, <1>5, <1>6, <1>7 DEF DriverNext, ResetNext

(* Before the first call everything is cleared.                            *)
LEMMA BooksInit == DriverInit => Turns /\ Flags /\ Caches
BY DEF DriverInit, FwInit, ResetInit, StreamInit, Turns, Flags, Caches, AfterBump

(* Turns and Flags are inductive when clients wait for their calls.        *)
LEMMA TurnsHold ==
  ASSUME ~Overlap
  PROVE  DriverSpec => [](Turns /\ Flags)
<1>1. DriverTypeOK /\ Turns /\ Flags /\ [DriverNext]_svars => (Turns /\ Flags)'
  BY TurnsStep
<1> QED BY <1>1, BooksInit, DriverTypes, PTL DEF DriverSpec

(* ds5_mux_s_stream, ds5_hw_reset_with_recovery: between calls and resets  *)
(* the flag that the next reset reads agrees with the sensor's own mark.   *)
THEOREM FlagsAgree ==
  ASSUME ~Overlap
  PROVE  DriverSpec => []FlagAgrees
<1>1. Turns /\ Flags => FlagAgrees
  BY DEF Flags, FlagAgrees, Rests, Stale
<1> QED BY <1>1, TurnsHold, PTL

-----------------------------------------------------------------------------
(* The cached register values.                                             *)

(* A write is cached if it reached the camera; otherwise values are only   *)
(* forgotten.                                                              *)
LEMMA CallStepCaches ==
  ASSUME DriverTypeOK, Caches, NEW i \in Streams, CallStep(i)
  PROVE  Caches'
<1> USE StreamAssumption DEF Caches
<1>1. /\ i \in Inst /\ cached \in [Inst -> [Reg -> Cfg \cup {NoCfg}]]
      /\ fwreg \in [Inst -> [Reg -> Cfg \cup {NoCfg}]]
  BY DEF DriverTypeOK, FwTypeOK, StreamTypeOK
<1>2. UNCHANGED <<ref, gen>>
  BY CallStepEffect
<1>3. CASE \E k \in Reg : WriteConfig(i, k)
  <2>1. PICK k \in Reg : WriteConfig(i, k)
    BY <1>3
  <2>2. CASE UNCHANGED <<fwreg, cached>>
    BY <1>2, <2>2
  <2>3. CASE /\ fwreg' = [fwreg EXCEPT ![i][k] = want[i]]
             /\ cached' = [cached EXCEPT ![i][k] = want[i]]
    BY <1>1, <1>2, <2>3
  <2> QED BY <2>1, <2>2, <2>3 DEF WriteConfig, WriteReg
<1>4. CASE ReadRejected(i)
  <2>1. fwreg' = fwreg /\ (cached' = cached \/ cached' = [cached EXCEPT ![i] = Empty])
    BY <1>4 DEF ReadRejected, Put, fwVars
  <2> QED BY <1>1, <1>2, <2>1 DEF Empty
<1>5. ASSUME UNCHANGED <<fwreg, cached>>
      PROVE  Caches'
  BY <1>2, <1>5
<1>6. CASE \/ Check(i) \/ CheckUnread(i) \/ CheckForce(i) \/ CheckNoop(i) \/ Mark(i)
           \/ ConfRelease(i) \/ ConfNothingToRelease(i) \/ OutOfPipes(i) \/ SetupPipe(i)
           \/ Configured(i) \/ Command(i)
  BY <1>5, <1>6
     DEF Check, CheckUnread, CheckForce, CheckNoop, Mark, ConfRelease,
         ConfNothingToRelease, OutOfPipes, SetupPipe, Configured, Command, sensorVars,
         fwVars
<1>7. CASE \/ ReadStream(i) \/ ReadStatusFails(i) \/ ReadStatus(i) \/ Again(i)
           \/ LoopTimeout(i) \/ StartSucceeds(i) \/ StopSucceeds(i) \/ ToggleBack(i)
           \/ DropPipe(i) \/ Restore(i) \/ \E p \in Pipe : TakePipe(i, p)
  BY <1>5, <1>7
     DEF ReadStream, ReadStatusFails, ReadStatus, Again, LoopTimeout, StartSucceeds,
         StopSucceeds, ToggleBack, DropPipe, Restore, TakePipe, sensorVars, fwVars
<1> QED BY <1>3, <1>4, <1>6, <1>7 DEF CallStep

(* With one resetter the camera only forgets its registers in the middle   *)
(* of a reset, when no sensor knows the generation.                        *)
LEMMA CachesStep ==
  ASSUME NEW r \in Inst, DriverTypeOK, Turns, Handshake(r), Caches, ~Overlap,
         [DriverNext]_svars
  PROVE  Caches'
<1> USE StreamAssumption, ResetAssumption
<1>0. /\ gen \in Nat /\ ref \in [Inst -> Nat]
      /\ cached \in [Inst -> [Reg -> Cfg \cup {NoCfg}]]
  BY DEF DriverTypeOK, ResetTypeOK, StreamTypeOK
<1>1. CASE UNCHANGED svars
  BY <1>1 DEF svars, resetVars, streamVars, fwVars, Caches
<1>2. ASSUME NEW i \in Streams, CallStep(i)  PROVE Caches'
  BY <1>2, CallStepCaches
<1>3. ASSUME NEW i \in Streams, Client(i)  PROVE Caches'
  <2>1. i \in Inst /\ gen' = gen
    BY <1>3, ClientEffect
  <2>2. CASE UNCHANGED <<ref, cached, fwreg>>
    BY <2>1, <2>2 DEF Caches
  <2>3. CASE /\ UNCHANGED fwreg /\ ref' = [ref EXCEPT ![i] = gen]
             /\ cached' = IF ref[i] # gen THEN [cached EXCEPT ![i] = Empty] ELSE cached
    BY <1>0, <2>1, <2>3 DEF Caches, Empty
  <2> QED BY <1>3, <2>2, <2>3, ClientEffect
<1>4. ASSUME NEW j \in Inst, ResetStep(j), UNCHANGED streamVars  PROVE Caches'
  <2>1. UNCHANGED <<ref, cached, fwreg>> /\ (gen' = gen \/ gen' = gen + 1)
    BY <1>4, ResetEffect DEF streamVars
  <2> QED BY <1>0, <2>1 DEF Caches, Turns
<1>5. ASSUME NEW j \in Resetters, ResetEnter(j), UNCHANGED streamVars  PROVE Caches'
  BY <1>5 DEF ResetEnter, streamVars, fwVars, Caches
<1>6. CASE CooldownElapses /\ UNCHANGED streamVars
  BY <1>6 DEF CooldownElapses, streamVars, fwVars, Caches
<1>7. CASE CameraNext
  <2>1. UNCHANGED <<gen, ref, cached>>
    BY <1>7 DEF CameraNext, resetVars, streamVars
  <2>2. CASE FwGoDown
    <3>1. rpc[r] = "ready"
      BY <2>2 DEF FwGoDown, Handshake
    <3>2. \A i \in Inst : ref[i] < gen
      BY <3>1 DEF Turns, AfterBump
    <3> QED BY <1>0, <2>1, <3>2 DEF Caches
  <2>3. CASE ~FwGoDown
    <3>1. UNCHANGED fwreg
      BY <1>7, <2>3 DEF CameraNext, FwStep, FwReboot, FwSettle, FwBoot, FwLinkUp, FwRecovery
    <3> QED BY <2>1, <3>1 DEF Caches
  <2> QED BY <2>2, <2>3
<1> QED BY <1>1, <1>2, <1>3, <1>4, <1>5, <1>6, <1>7 DEF DriverNext, ResetNext

(* So the caches are an invariant.                                         *)
LEMMA CachesHold ==
  ASSUME NEW r \in Inst, Resetters = {r}, ~Overlap
  PROVE  DriverSpec => []Caches
<1>1. DriverSpec => []Handshake(r)
  BY DriverImplementsReset, HandshakeHolds, PTL DEF ImplementsReset
<1>2. DriverTypeOK /\ (Turns /\ Flags) /\ Handshake(r) /\ Caches /\ [DriverNext]_svars
        => Caches'
  BY CachesStep
<1> QED BY <1>1, <1>2, BooksInit, DriverTypes, TurnsHold, PTL DEF DriverSpec

(* ds5_write_*_if_changed: a cached value is what the camera's register    *)
(* holds, whatever writes failed and whatever resets came in between, if   *)
(* one instance resets the camera.                                         *)
THEOREM CachesAreCoherent ==
  ASSUME NEW r \in Inst, Resetters = {r}, ~Overlap
  PROVE  DriverSpec => []CacheCoherent
<1>1. Caches => CacheCoherent
  BY DEF Caches, CacheCoherent, Stale
<1> QED BY <1>1, CachesHold, PTL

-----------------------------------------------------------------------------
(* A working bus: no access fails and no deadline is missed.               *)

(* Where the camera is while the only resetter is at work, and that it     *)
(* comes back with no stream left.                                         *)
Back(r) ==
  /\ power # "dfu"
  /\ rpc[r] \notin {"ready", "type"} => power = "up"
  /\ rpc[r] = "ready" /\ power # "dying" => \A i \in Inst : fwst[i] = "idle"
  /\ rpc[r] \in {"type", "version"} => \A i \in Inst : fwst[i] = "idle"

(* During a call the camera is up and its sensor up to date.               *)
LEMMA CallContext ==
  ASSUME NEW r \in Inst, Turns, Back(r), NEW i \in Inst, pc[i] # "idle", ~Faults
  PROVE  /\ \A j \in Inst : rpc[j] = "idle"
         /\ power = "up" /\ Acked /\ ~Nacked /\ ref[i] = gen
BY DEF Turns, Back, Acked, Nacked

(* What calls do is no business of a reset: there is none meanwhile.       *)
LEMMA BackStep ==
  ASSUME NEW r \in Inst, DriverTypeOK, Turns, Handshake(r), Back(r),
         ~Overlap, ~Faults, [DriverNext]_svars
  PROVE  Back(r)'
<1> USE StreamAssumption, ResetAssumption DEF Back
<1>0. fwst \in [Inst -> StreamState] /\ rpc \in [Inst -> ResetPc]
  BY DEF DriverTypeOK, FwTypeOK, ResetTypeOK
<1>1. CASE UNCHANGED svars
  BY <1>1 DEF svars, fwVars, resetVars
<1>2. ASSUME NEW i \in Streams, CallStep(i)  PROVE Back(r)'
  <2>1. i \in Inst /\ pc[i] # "idle" /\ UNCHANGED rpc
    BY <1>2, CallStepEffect
  <2>2. power = "up" /\ rpc[r] = "idle"
    BY <2>1, CallContext
  <2>3. power' = power
    BY <1>2, StreamStepRefines DEF StreamCall, vars, fwVars
  <2> QED BY <2>1, <2>2, <2>3
<1>3. ASSUME NEW i \in Streams, Client(i)  PROVE Back(r)'
  BY <1>3 DEF Client, Call, CallDuplicate, SelectFormat, fwVars, resetVars
<1>4. ASSUME NEW j \in Inst, ResetStep(j), UNCHANGED streamVars  PROVE Back(r)'
  <2>1. j = r
    BY <1>4, ResetStepBusy DEF Handshake
  <2> USE <1>0 DEF Handshake, Acked, Nacked, Goto, ResetReturn, fwVars, callVars
  <2>2. CASE \/ ResetCooldownOver(r) \/ ResetReadFlags(r) \/ ResetBump(r)
             \/ ResetClearFlags(r)
    BY <2>2 DEF ResetCooldownOver, ResetReadFlags, ResetBump, ResetClearFlags
  <2>3. CASE \E k \in Inst : ResetStop(r, k)
    BY <2>3 DEF ResetStop
  <2>4. CASE ResetScratch(r) \/ ResetSend(r)
    BY <2>4 DEF ResetScratch, ResetSend
  <2>5. CASE ResetReady(r) \/ ResetFoundDfu(r) \/ ResetReadyTimeout(r)
    BY <2>5 DEF ResetReady, ResetFoundDfu, ResetReadyTimeout
  <2>6. CASE ResetType(r) \/ ResetTypeTimeout(r) \/ ResetVersion(r)
    BY <2>6 DEF ResetType, ResetTypeTimeout, ResetVersion
  <2> QED BY <1>4, <2>1, <2>2, <2>3, <2>4, <2>5, <2>6 DEF ResetStep
<1>5. ASSUME NEW j \in Resetters, ResetEnter(j)  PROVE Back(r)'
  BY <1>0, <1>5 DEF ResetEnter, Goto, fwVars
<1>6. CASE CooldownElapses
  BY <1>6 DEF CooldownElapses, fwVars
<1>7. CASE CameraNext
  BY <1>0, <1>7
     DEF CameraNext, FwStep, FwReboot, FwSettle, FwGoDown, FwBoot, FwLinkUp,
         FwRecovery, Handshake, resetVars
<1> QED BY <1>1, <1>2, <1>3, <1>4, <1>5, <1>6, <1>7 DEF DriverNext, ResetNext

-----------------------------------------------------------------------------
(* What a call and the camera know of each other at each place.            *)

Configuring == {"conf", "alloc", "setup", "regs"}
Looping == {"cmd", "stream", "status", "again", "end"}

(* No reset has come to the point where it stops streams.                  *)
BeforeStops == \A j \in Inst : rpc[j] \in {"idle", "cooldown", "flags"}

(* The camera was, or was not, told what the call is about.                *)
Told(i) ==
  fwst[i] \in IF on[i] THEN {"starting", "streaming", "rejected"} ELSE {"stopping", "idle"}
Untold(i) == fwst[i] = IF on[i] THEN "idle" ELSE "streaming"

CallKnows(i) ==
  /\ pc[i] = "idle" =>
       /\ ~reached[i] /\ ~on[i]
       /\ BeforeStops => fwst[i] = IF Active(i) THEN "streaming" ELSE "idle"
  /\ pc[i] \in {"check", "mark"} =>
       Untold(i) /\ ~reached[i] /\ status[i] = ~on[i] /\ conf[i] = ~on[i]
  /\ pc[i] \in Configuring => on[i] /\ ~conf[i]
  /\ pc[i] \in Configuring \cup {"cmd"} => IF reached[i] THEN Told(i) ELSE Untold(i)
  /\ pc[i] \in {"cmd", "stream", "status", "end"} => conf[i]
  /\ pc[i] \in {"stream", "status", "again"} => Told(i)
  /\ pc[i] \in {"status", "again", "end"} => reached[i]
  /\ pc[i] = "again" => on[i] \/ conf[i]
  /\ pc[i] = "end" =>
       /\ fwst[i] = IF ~on[i] THEN "idle" ELSE IF status[i] THEN "streaming" ELSE "rejected"
       /\ status[i] => on[i]
  /\ pc[i] \in {"drop", "restore"} => on[i] /\ fwst[i] = "idle"
  /\ pc[i] \notin {"idle", "check", "mark"} => streaming[i] = on[i]

(* A start that went through ds5_configure has its pipe and its registers. *)
Wired(i) == pipe[i] \in Pipe /\ pipeType[i] = DataType[want[i]]

CallHas(i) ==
  /\ pipe[i] # NoPipe
  /\ pc[i] = "setup" => pipe[i] \in Pipe
  /\ pc[i] = "regs" => Wired(i)
  /\ pc[i] \in Looping /\ on[i] /\ conf[i] =>
       Wired(i) /\ \A k \in Reg : cached[i][k] = want[i]

(* Each step of a call leaves it where it knows as much: it gets to its    *)
(* next place only when the camera is where that place expects it.         *)
LEMMA KnowsCall ==
  ASSUME DriverTypeOK, NEW i \in Streams, CallStep(i), CallKnows(i), PipeForEveryone,
         Acked, ~Nacked, ref[i] = gen
  PROVE  CallKnows(i)'
<1> USE StreamAssumption
<1>0. /\ i \in Inst /\ pc \in [Inst -> StreamPc] /\ fwst \in [Inst -> StreamState]
      /\ on \in [Inst -> BOOLEAN] /\ status \in [Inst -> BOOLEAN]
      /\ reached \in [Inst -> BOOLEAN] /\ conf \in [Inst -> BOOLEAN]
      /\ streaming \in [Inst -> BOOLEAN] /\ left \in [Inst -> 0..Retries]
  BY DEF DriverTypeOK, FwTypeOK, StreamTypeOK
<1>1. UNCHANGED <<ref, gen, rpc>> /\ pc[i] # "idle"
  BY CallStepEffect
<1>2. ~Faults
  BY DEF Nacked
<1> USE <1>0, <1>1, <1>2 DEF CallKnows, Configuring, Told, Untold, Active, Stale,
        Step, Put, Return, Nacked, Toggle, ConfigStatus, StreamStatus, ConfigInvalid,
        CheckTimeout, callState, fwVars, sensorVars
<1>3. CASE Check(i)
  BY <1>3 DEF Check
<1>4. CASE CheckUnread(i)
  BY <1>4 DEF CheckUnread
<1>5. CASE CheckForce(i)
  BY <1>5 DEF CheckForce
<1>6. CASE CheckNoop(i)
  BY <1>6 DEF CheckNoop
<1>7. CASE Mark(i)
  BY <1>7 DEF Mark
<1>8. CASE ConfRelease(i)
  BY <1>8 DEF ConfRelease
<1>9. CASE ConfNothingToRelease(i)
  BY <1>9 DEF ConfNothingToRelease
<1>10. CASE \E p \in Pipe : TakePipe(i, p)
  BY <1>10 DEF TakePipe
<1>11. CASE OutOfPipes(i)
  BY <1>11 DEF OutOfPipes, PipeForEveryone
<1>12. CASE SetupPipe(i)
  BY <1>12 DEF SetupPipe
<1>13. CASE \E k \in Reg : WriteConfig(i, k)
  BY <1>13 DEF WriteConfig, WriteReg
<1>14. CASE Configured(i)
  BY <1>14 DEF Configured
<1>15. CASE Command(i)
  BY <1>15 DEF Command, AfterStart, AfterStop
<1>16. CASE ReadStream(i)
  BY <1>16 DEF ReadStream
<1>17. CASE ReadStatusFails(i)
  BY <1>17 DEF ReadStatusFails
<1>18. CASE ReadStatus(i)
  BY <1>18 DEF ReadStatus
<1>19. CASE ReadRejected(i)
  BY <1>19 DEF ReadRejected
<1>20. CASE Again(i)
  BY <1>20 DEF Again
<1>21. CASE LoopTimeout(i)
  BY <1>21 DEF LoopTimeout
<1>22. CASE StartSucceeds(i)
  BY <1>22 DEF StartSucceeds
<1>23. CASE StopSucceeds(i)
  BY <1>23 DEF StopSucceeds
<1>24. CASE ToggleBack(i)
  BY <1>24 DEF ToggleBack, AfterStop
<1>25. CASE DropPipe(i)
  BY <1>25 DEF DropPipe
<1>26. CASE Restore(i)
  BY <1>26 DEF Restore
<1> QED BY <1>3, <1>4, <1>5, <1>6, <1>7, <1>8, <1>9, <1>10, <1>11, <1>12, <1>13, <1>14,
           <1>15, <1>16, <1>17, <1>18, <1>19, <1>20, <1>21, <1>22, <1>23, <1>24, <1>25,
           <1>26 DEF CallStep

(* Nothing a call has is lost before it returns.                           *)
LEMMA HasCall ==
  ASSUME DriverTypeOK, NEW i \in Streams, CallStep(i), CallKnows(i), CallHas(i),
         PipeForEveryone, Acked, ~Nacked
  PROVE  CallHas(i)'
<1> USE StreamAssumption, PipesAssumption
<1>0. /\ i \in Inst /\ pc \in [Inst -> StreamPc]
      /\ pipe \in [Inst -> Pipe \cup {NotConfigured, NoPipe}]
      /\ pipeType \in [Inst -> {DataType[c] : c \in Cfg} \cup {NoType}]
      /\ cached \in [Inst -> [Reg -> Cfg \cup {NoCfg}]]
      /\ on \in [Inst -> BOOLEAN] /\ conf \in [Inst -> BOOLEAN]
  BY DEF DriverTypeOK, StreamTypeOK
<1>1. ~Faults
  BY DEF Nacked
<1>2. NoPipe # NotConfigured /\ NoPipe \notin Pipe
  BY DEF NoPipe, NotConfigured, Pipe
<1> USE <1>0, <1>1, <1>2
<1>3. ASSUME UNCHANGED <<pipe, pipeType, want, cached, on, conf>>,
             pc' = pc \/ \E v \in StreamPc \ {"setup", "regs"} : pc' = [pc EXCEPT ![i] = v],
             (pc[i] \notin Looping /\ pc'[i] \in Looping) => ~on[i] \/ ~conf[i]
      PROVE  CallHas(i)'
  BY <1>3 DEF CallHas, Wired
<1> USE DEF Step, Put
<1>4. CASE Check(i) \/ CheckUnread(i) \/ CheckForce(i) \/ Mark(i)
  BY <1>3, <1>4
     DEF Check, CheckUnread, CheckForce, Mark, CallKnows, StreamPc, Looping, callState,
         sensorVars
<1>5. CASE CheckNoop(i) \/ StartSucceeds(i) \/ Restore(i)
  BY <1>5 DEF CheckNoop, StartSucceeds, Restore, Return, CallHas, Looping, sensorVars
<1>6. CASE ConfRelease(i)
  BY <1>6 DEF ConfRelease, CallHas, Looping, sensorVars, callState
<1>7. CASE ConfNothingToRelease(i)
  BY <1>7 DEF ConfNothingToRelease, NeedsPipe, CallHas, Wired, Looping, sensorVars,
              callState
<1>8. CASE \E p \in Pipe : TakePipe(i, p)
  BY <1>8 DEF TakePipe, CallHas, Looping
<1>9. CASE OutOfPipes(i)
  BY <1>9 DEF OutOfPipes, PipeForEveryone, Return
<1>10. CASE SetupPipe(i)
  BY <1>10 DEF SetupPipe, CallHas, Wired, Looping
<1>11. CASE \E k \in Reg : WriteConfig(i, k)
  BY <1>11 DEF WriteConfig, Nacked, CallHas, Wired, Looping, callState
<1>12. CASE Configured(i)
  BY <1>12 DEF Configured, Differs, CallHas, Wired, Looping, sensorVars
<1>13. CASE Command(i) \/ ReadStream(i) \/ ReadStatusFails(i) \/ ReadStatus(i)
            \/ LoopTimeout(i) \/ ToggleBack(i)
  BY <1>3, <1>13
     DEF Command, ReadStream, ReadStatusFails, ReadStatus, LoopTimeout, ToggleBack,
         StreamPc, Looping, sensorVars, callState
<1>14. CASE Again(i)
  BY <1>14 DEF Again, CallHas, Wired, Looping, sensorVars, callState
<1>15. CASE ReadRejected(i)
  BY <1>15 DEF ReadRejected, CallHas, Wired, Looping
<1>16. CASE StopSucceeds(i)
  BY <1>16 DEF StopSucceeds, GivePipeBack, Return, CallHas, Looping, sensorVars
<1>17. CASE DropPipe(i)
  BY <1>17 DEF DropPipe, GivePipeBack, CallHas, Looping, sensorVars, callState
<1> QED BY <1>4, <1>5, <1>6, <1>7, <1>8, <1>9, <1>10, <1>11, <1>12, <1>13, <1>14,
           <1>15, <1>16, <1>17 DEF CallStep

(* A call changes nothing that another call knows or has.                  *)
SameFor(j) ==
  /\ pc'[j] = pc[j] /\ on'[j] = on[j] /\ status'[j] = status[j]
  /\ reached'[j] = reached[j] /\ conf'[j] = conf[j] /\ streaming'[j] = streaming[j]
  /\ fwst'[j] = fwst[j] /\ ref'[j] = ref[j] /\ pipe'[j] = pipe[j]
  /\ pipeType'[j] = pipeType[j] /\ cached'[j] = cached[j] /\ want'[j] = want[j]

LEMMA SameForOthers ==
  ASSUME NEW i \in Streams, CallStep(i) \/ Client(i), DriverTypeOK, NEW j \in Inst, j # i
  PROVE  SameFor(j)
<1> USE StreamAssumption
<1>0. /\ i \in Inst /\ pc \in [Inst -> StreamPc] /\ fwst \in [Inst -> StreamState]
      /\ on \in [Inst -> BOOLEAN] /\ status \in [Inst -> BOOLEAN]
      /\ reached \in [Inst -> BOOLEAN] /\ conf \in [Inst -> BOOLEAN]
      /\ streaming \in [Inst -> BOOLEAN] /\ ref \in [Inst -> Nat]
      /\ pipe \in [Inst -> Pipe \cup {NotConfigured, NoPipe}]
      /\ pipeType \in [Inst -> {DataType[c] : c \in Cfg} \cup {NoType}]
      /\ cached \in [Inst -> [Reg -> Cfg \cup {NoCfg}]] /\ want \in [Inst -> Cfg]
  BY DEF DriverTypeOK, FwTypeOK, StreamTypeOK
<1> USE <1>0 DEF SameFor, Step, Put, Return, Toggle, callState, fwVars, sensorVars
<1>1. CASE Check(i) \/ CheckUnread(i) \/ CheckForce(i) \/ CheckNoop(i) \/ Mark(i)
  BY <1>1 DEF Check, CheckUnread, CheckForce, CheckNoop, Mark
<1>2. CASE \/ ConfRelease(i) \/ ConfNothingToRelease(i) \/ OutOfPipes(i) \/ SetupPipe(i)
           \/ Configured(i) \/ \E p \in Pipe : TakePipe(i, p)
  BY <1>2 DEF ConfRelease, ConfNothingToRelease, OutOfPipes, SetupPipe, Configured, TakePipe
<1>3. CASE \E k \in Reg : WriteConfig(i, k)
  BY <1>3 DEF WriteConfig, WriteReg
<1>4. CASE \/ Command(i) \/ ReadStream(i) \/ ReadStatusFails(i) \/ ReadStatus(i)
           \/ ReadRejected(i) \/ Again(i) \/ LoopTimeout(i)
  BY <1>4 DEF Command, ReadStream, ReadStatusFails, ReadStatus, ReadRejected, Again,
              LoopTimeout
<1>5. CASE StartSucceeds(i) \/ ToggleBack(i) \/ Restore(i)
  BY <1>5 DEF StartSucceeds, ToggleBack, Restore
<1>6. CASE StopSucceeds(i) \/ DropPipe(i)
  BY <1>6 DEF StopSucceeds, DropPipe, GivePipeBack
<1>7. CASE \/ \E o \in BOOLEAN : Call(i, o) \/ CallDuplicate(i, o)
           \/ \E c \in Cfg : SelectFormat(i, c)
  BY <1>7 DEF Call, CallDuplicate, SelectFormat, Synchronise, Empty
<1> QED BY <1>1, <1>2, <1>3, <1>4, <1>5, <1>6, <1>7 DEF CallStep, Client

(* A new call starts from where the last one left sensor and camera.       *)
LEMMA KnowsClient ==
  ASSUME DriverTypeOK, NEW i \in Streams, Client(i), CallKnows(i), CallHas(i), ~Overlap
  PROVE  CallKnows(i)' /\ CallHas(i)'
<1> USE StreamAssumption
<1>0. /\ i \in Inst /\ pc \in [Inst -> StreamPc] /\ on \in [Inst -> BOOLEAN]
      /\ status \in [Inst -> BOOLEAN] /\ conf \in [Inst -> BOOLEAN]
      /\ streaming \in [Inst -> BOOLEAN] /\ ref \in [Inst -> Nat]
  BY DEF DriverTypeOK, StreamTypeOK
<1> USE <1>0 DEF CallKnows, CallHas, Configuring, Looping, BeforeStops, Untold, Active,
                 Stale, MayCall, Step, Put, fwVars, resetVars, callState
<1>1. CASE \E o \in BOOLEAN : Call(i, o)
  BY <1>1 DEF Call, Synchronise
<1>2. CASE \E o \in BOOLEAN : CallDuplicate(i, o)
  BY <1>2 DEF CallDuplicate, Synchronise
<1>3. CASE \E c \in Cfg : SelectFormat(i, c)
  BY <1>3 DEF SelectFormat
<1> QED BY <1>1, <1>2, <1>3 DEF Client

(* A reset finds no call; what it undoes, no sensor believes in any more.  *)
LEMMA KnowsReset ==
  ASSUME NEW r \in Inst, NEW j \in Inst, ResetStep(j), UNCHANGED streamVars, ~Faults,
         DriverTypeOK, Turns, Handshake(r), Back(r), NEW i \in Inst, CallKnows(i)
  PROVE  CallKnows(i)'
<1>0. rpc \in [Inst -> ResetPc] /\ gen \in Nat /\ ref \in [Inst -> Nat]
      /\ fwst \in [Inst -> StreamState]
  BY DEF DriverTypeOK, FwTypeOK, ResetTypeOK, StreamTypeOK
<1>1. j = r /\ pc[i] = "idle" /\ \A k \in Inst \ {r} : rpc[k] = "idle"
  BY <1>0, ResetStepBusy DEF Handshake, Turns
<1>2. UNCHANGED <<pc, on, reached, streaming, ref, status, conf>>
  BY DEF streamVars
<1>3. SUFFICES ASSUME BeforeStops'
               PROVE  fwst'[i] = IF Active(i)' THEN "streaming" ELSE "idle"
  BY <1>1, <1>2 DEF CallKnows, Configuring
<1> USE <1>0, <1>1, <1>2 DEF BeforeStops, Active, Stale, Goto, ResetReturn, fwVars, callVars
<1>4. CASE ResetCooldownOver(r)
  <2>1. BeforeStops /\ UNCHANGED <<gen, fwst>>
    BY <1>4 DEF ResetCooldownOver
  <2> QED BY <2>1 DEF CallKnows
<1>5. CASE \/ ResetReadFlags(r) \/ ResetBump(r) \/ ResetClearFlags(r) \/ ResetReady(r)
           \/ ResetType(r) \/ \E k \in Inst : ResetStop(r, k)
  BY <1>3, <1>5
     DEF ResetReadFlags, ResetBump, ResetClearFlags, ResetReady, ResetType, ResetStop
<1>6. CASE ResetScratch(r) \/ ResetSend(r)
  BY <1>3, <1>6 DEF ResetScratch, ResetSend, Back, Acked, Nacked
<1>7. CASE \/ ResetFoundDfu(r) \/ ResetReadyTimeout(r) \/ ResetTypeTimeout(r)
           \/ ResetVersion(r)
  <2>1. rpc[r] \in AfterBump /\ UNCHANGED <<gen, fwst>> /\ fwst[i] = "idle"
    BY <1>7 DEF ResetFoundDfu, ResetReadyTimeout, ResetTypeTimeout, ResetVersion, Back,
                AfterBump
  <2>2. ref[i] < gen
    BY <2>1 DEF Turns
  <2> QED BY <2>1, <2>2
<1> QED BY <1>1, <1>4, <1>5, <1>6, <1>7 DEF ResetStep

(* The camera settles as the calls expect, and goes down only in a reset.  *)
LEMMA KnowsCamera ==
  ASSUME NEW r \in Inst, CameraNext, ~Faults, DriverTypeOK, Turns, Handshake(r),
         NEW i \in Inst, CallKnows(i)
  PROVE  CallKnows(i)'
<1>0. fwst \in [Inst -> StreamState]
  BY DEF DriverTypeOK, FwTypeOK
<1>1. UNCHANGED <<rpc, gen, pc, on, reached, streaming, ref, status, conf>>
  BY DEF CameraNext, resetVars, streamVars
<1>2. CASE FwGoDown
  <2>1. pc[i] = "idle" /\ ~BeforeStops
    BY <1>2 DEF FwGoDown, Handshake, Turns, BeforeStops
  <2> QED BY <1>1, <2>1 DEF CallKnows, Configuring, BeforeStops
<1>3. CASE UNCHANGED fwst
  BY <1>1, <1>3 DEF CallKnows, Told, Untold, BeforeStops, Active, Stale
<1>4. ASSUME NEW k \in Inst, FwSettle(k)  PROVE CallKnows(i)'
  <2>1. /\ fwst[k] = "starting" => fwst' = [fwst EXCEPT ![k] = "streaming"]
        /\ fwst[k] = "stopping" => fwst' = [fwst EXCEPT ![k] = "idle"]
        /\ fwst[k] \in {"starting", "stopping"}
    BY <1>4 DEF FwSettle
  <2>2. CASE k # i
    BY <1>0, <1>1, <2>1, <2>2 DEF CallKnows, Told, Untold, BeforeStops, Active, Stale
  <2>3. CASE k = i
    BY <1>0, <1>1, <2>1, <2>3 DEF CallKnows, Told, Untold, BeforeStops, Active, Stale
  <2> QED BY <2>2, <2>3
<1> QED BY <1>2, <1>3, <1>4 DEF CameraNext, FwStep, FwReboot, FwBoot, FwLinkUp, FwRecovery

(* What holds of all calls, with the camera and the reset.                 *)
Known(r) == Back(r) /\ \A i \in Inst : CallKnows(i) /\ CallHas(i)

LEMMA KnownStep ==
  ASSUME NEW r \in Inst, DriverTypeOK, Turns, Handshake(r), PipeForEveryone, Known(r),
         ~Overlap, ~Faults, [DriverNext]_svars
  PROVE  Known(r)'
<1> USE StreamAssumption, ResetAssumption
<1>1. Back(r)'
  BY BackStep DEF Known
<1>2. SUFFICES ASSUME NEW j \in Inst  PROVE CallKnows(j)' /\ CallHas(j)'
  BY <1>1 DEF Known
<1>3. Back(r) /\ CallKnows(j) /\ CallHas(j)
  BY DEF Known
<1>4. ASSUME SameFor(j), UNCHANGED <<gen, rpc>>  PROVE CallKnows(j)' /\ CallHas(j)'
  BY <1>3, <1>4 DEF CallKnows, CallHas, SameFor, BeforeStops, Told, Untold, Active, Stale,
                    Wired
<1>5. ASSUME UNCHANGED streamVars  PROVE CallHas(j)'
  BY <1>3, <1>5 DEF CallHas, Wired, streamVars
<1>6. CASE UNCHANGED svars
  <2>1. SameFor(j) /\ UNCHANGED <<gen, rpc>>
    BY <1>6 DEF svars, fwVars, resetVars, streamVars, SameFor
  <2> QED BY <1>4, <2>1
<1>7. ASSUME NEW i \in Streams, CallStep(i)  PROVE CallKnows(j)' /\ CallHas(j)'
  <2>1. pc[i] # "idle" /\ UNCHANGED <<gen, rpc>>
    BY <1>7, CallStepEffect
  <2>2. CASE i = j
    <3>1. Acked /\ ~Nacked /\ ref[j] = gen
      BY <1>3, <2>1, <2>2, CallContext
    <3> QED BY <1>3, <1>7, <2>2, <3>1, KnowsCall, HasCall
  <2>3. CASE i # j
    BY <1>4, <1>7, <2>1, <2>3, SameForOthers
  <2> QED BY <2>2, <2>3
<1>8. ASSUME NEW i \in Streams, Client(i)  PROVE CallKnows(j)' /\ CallHas(j)'
  <2>1. CASE i = j
    BY <1>3, <1>8, <2>1, KnowsClient
  <2>2. CASE i # j
    BY <1>4, <1>8, <2>2, ClientEffect, SameForOthers
  <2> QED BY <2>1, <2>2
<1>9. ASSUME NEW k \in Inst, ResetStep(k), UNCHANGED streamVars
      PROVE  CallKnows(j)' /\ CallHas(j)'
  BY <1>3, <1>5, <1>9, KnowsReset
<1>10. ASSUME NEW k \in Resetters, ResetEnter(k), UNCHANGED streamVars
       PROVE  CallKnows(j)' /\ CallHas(j)'
  <2>1. SameFor(j) /\ gen' = gen /\ (BeforeStops' => BeforeStops)
    <3>1. rpc[k] = "idle" /\ \A q \in Inst \ {k} : rpc'[q] = rpc[q]
      BY <1>10 DEF ResetEnter, Goto, DriverTypeOK, ResetTypeOK
    <3> QED BY <1>10, <3>1 DEF ResetEnter, SameFor, streamVars, fwVars, BeforeStops
  <2> QED BY <1>3, <1>5, <1>10, <2>1
          DEF CallKnows, SameFor, Told, Untold, Active, Stale
<1>11. CASE CooldownElapses /\ UNCHANGED streamVars
  <2>1. SameFor(j) /\ UNCHANGED <<gen, rpc>>
    BY <1>11 DEF CooldownElapses, fwVars, streamVars, SameFor
  <2> QED BY <1>4, <2>1
<1>12. CASE CameraNext
  BY <1>3, <1>5, <1>12, KnowsCamera DEF CameraNext
<1> QED BY <1>6, <1>7, <1>8, <1>9, <1>10, <1>11, <1>12 DEF DriverNext, ResetNext

(* A working bus: no fault, a pipe for each sensor, and one instance that  *)
(* resets, never during a call.                                            *)
Working(r) ==
  Resetters = {r} /\ ~Overlap /\ ~Faults /\ (PipeEach \/ ChannelEach)

LEMMA KnownHolds ==
  ASSUME NEW r \in Inst, Working(r)
  PROVE  DriverSpec => []Known(r)
<1> USE DEF Working
<1>1. DriverSpec => []Handshake(r)
  BY DriverImplementsReset, HandshakeHolds, PTL DEF ImplementsReset
<1>2. DriverInit => Known(r)
  <2>1. NoPipe # NotConfigured
    BY DEF NoPipe, NotConfigured
  <2> QED BY <2>1
          DEF DriverInit, FwInit, ResetInit, StreamInit, Known, Back, CallKnows, CallHas,
              Configuring, Looping, Active, Stale
<1>3. DriverTypeOK /\ (Turns /\ Flags) /\ Handshake(r) /\ PipeForEveryone /\ Known(r)
        /\ [DriverNext]_svars => Known(r)'
  BY KnownStep
<1> QED BY <1>1, <1>2, <1>3, DriverTypes, TurnsHold, PipesSuffice, PTL DEF DriverSpec

(* Between calls a sensor counts as streaming exactly if the camera        *)
(* streams: on a working bus no start is spared as a duplicate of one that *)
(* a reset undid, and no stop while frames come (ds5_mux_s_stream 4892 to  *)
(* 4915), whatever was rejected or reset before.                           *)
THEOREM BooksMatch ==
  ASSUME NEW r \in Inst, Working(r)
  PROVE  DriverSpec => []BooksMatchCamera
<1>1. Known(r) => BooksMatchCamera
  BY DEF Known, CallKnows, BooksMatchCamera, Rests, BeforeStops
<1> QED BY <1>1, KnownHolds, PTL

(* A start that returns 0 has the camera stream the selected configuration *)
(* through a pipe of its own set up for it (ds5_mux_s_stream and           *)
(* ds5_configure), on a working bus on which releases do not fail.         *)
THEOREM StartsDeliver ==
  ASSUME NEW r \in Inst, Working(r), ReleaseFaults = FALSE
  PROVE  DriverSpec => StartDelivers
<1>1. DriverTypeOK /\ (Turns /\ Flags) /\ Known(r) /\ (PipeExclusive /\ Owned) /\ Caches
        /\ PipeForEveryone /\ [DriverNext]_svars =>
        [\A i \in Inst : on[i] /\ pc'[i] = "idle" /\ ret'[i] = "ok" =>
           /\ fwst[i] = "streaming"
           /\ fwreg[i] = [k \in Reg |-> want[i]]
           /\ Holds(i) /\ alloc[pipe[i]] /\ pipeType[i] = DataType[want[i]]]_svars
  <2> SUFFICES ASSUME DriverTypeOK, Turns, Known(r), Owned, Caches, PipeForEveryone,
                      [DriverNext]_svars,
                      NEW i \in Inst, on[i], pc'[i] = "idle", ret'[i] = "ok"
               PROVE  /\ fwst[i] = "streaming"
                      /\ fwreg[i] = [k \in Reg |-> want[i]]
                      /\ Holds(i) /\ alloc[pipe[i]] /\ pipeType[i] = DataType[want[i]]
    OBVIOUS
  <2> USE StreamAssumption
  <2>0. /\ pc \in [Inst -> StreamPc] /\ ret \in [Inst -> Result] /\ want \in [Inst -> Cfg]
        /\ fwreg \in [Inst -> [Reg -> Cfg \cup {NoCfg}]]
    BY DEF DriverTypeOK, FwTypeOK, StreamTypeOK
  <2>1. CallKnows(i) /\ CallHas(i) /\ pc[i] # "idle"
    BY DEF Known, CallKnows
  <2>2. ref[i] = gen /\ Acked /\ ~Nacked /\ \A j \in Inst : rpc[j] = "idle"
    BY <2>1, CallContext DEF Known, Working
  <2>3. i \in Streams /\ CallStep(i)
    <3>1. ASSUME pc'[i] = pc[i]  PROVE FALSE
      BY <2>1, <3>1
    <3>2. ASSUME NEW j \in Streams, CallStep(j) \/ Client(j), j # i  PROVE FALSE
      BY <3>1, <3>2, SameForOthers DEF SameFor
    <3>3. ASSUME Client(i)  PROVE FALSE
      BY <2>1, <3>3 DEF Client, Call, CallDuplicate, SelectFormat, Step
    <3>4. CASE UNCHANGED svars \/ ResetNext \/ CameraNext
      BY <3>1, <3>4 DEF svars, streamVars, ResetNext, CameraNext
    <3> QED BY <3>2, <3>3, <3>4 DEF DriverNext
  <2>4. pc[i] = "end" /\ status[i]
    <3> USE <2>0, <2>1, <2>3 DEF Step, Put
    <3>1. CASE CheckNoop(i)
      BY <3>1 DEF CheckNoop, Return, CallKnows
    <3>2. CASE OutOfPipes(i)
      BY <3>2 DEF OutOfPipes, PipeForEveryone, Return
    <3>3. CASE Restore(i)
      BY <3>3 DEF Restore, Return
    <3>4. CASE StartSucceeds(i) \/ StopSucceeds(i)
      BY <3>4 DEF StartSucceeds, StopSucceeds, Return
    <3>5. CASE \/ Check(i) \/ CheckUnread(i) \/ CheckForce(i) \/ Mark(i)
               \/ ConfRelease(i) \/ ConfNothingToRelease(i)
               \/ (\E p \in Pipe : TakePipe(i, p)) \/ SetupPipe(i)
               \/ (\E k \in Reg : WriteConfig(i, k)) \/ Configured(i)
      BY <3>5 DEF Check, CheckUnread, CheckForce, Mark, ConfRelease, ConfNothingToRelease,
                  TakePipe, SetupPipe, WriteConfig, Configured
    <3>6. CASE \/ Command(i) \/ ReadStream(i) \/ ReadStatusFails(i) \/ ReadStatus(i)
               \/ ReadRejected(i) \/ Again(i) \/ LoopTimeout(i) \/ ToggleBack(i)
               \/ DropPipe(i)
      BY <3>6 DEF Command, ReadStream, ReadStatusFails, ReadStatus, ReadRejected, Again,
                  LoopTimeout, ToggleBack, DropPipe
    <3> QED BY <3>1, <3>2, <3>3, <3>4, <3>5, <3>6 DEF CallStep
  <2>5. fwst[i] = "streaming" /\ Wired(i) /\ \A k \in Reg : cached[i][k] = want[i]
    BY <2>1, <2>4 DEF CallKnows, CallHas, Looping
  <2>6. fwreg[i] = [k \in Reg |-> want[i]]
    <3>1. want[i] # NoCfg
      BY <2>0, FirmwareAssumption
    <3>2. \A k \in Reg : fwreg[i][k] = want[i]
      BY <2>2, <2>5, <3>1 DEF Caches
    <3> QED BY <2>0, <3>2
  <2>7. Holds(i)
    BY <2>4, <2>5 DEF Wired, Holds
  <2> QED BY <2>5, <2>6, <2>7 DEF Wired, Owned
<1> USE DEF Working
<1>2. DriverSpec => []Caches
  BY CachesHold
<1> QED BY <1>1, <1>2, KnownHolds, DriverTypes, TurnsHold, PipesOwned, PipesSuffice, PTL
        DEF DriverSpec, StartDelivers
=============================================================================
