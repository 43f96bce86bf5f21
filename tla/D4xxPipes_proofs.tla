--------------------------- MODULE D4xxPipes_proofs ---------------------------
(***************************************************************************)
(* Proofs about the deserializer's pipes, for any number of instances and  *)
(* pipes, both deserializers, with or without faults and overlapping       *)
(* resets.                                                                 *)
(*                                                                         *)
(* Few steps touch a pipe or enter or leave the place between giving one   *)
(* back and taking another (pc = "alloc"): PipeStep names them, and the    *)
(* invariants look at these only.                                          *)
(***************************************************************************)
EXTENDS D4xxStream_proofs, FiniteSetTheorems, WellFoundedInduction

(* A step that changes no pipe and nobody's being between two pipes.       *)
Quiet ==
  /\ UNCHANGED <<pipe, alloc>>
  /\ \A j \in Inst : pc'[j] = "alloc" <=> pc[j] = "alloc"

(* A call gives its pipe back and goes on elsewhere.                       *)
Returns(i) ==
  /\ GivePipeBack(i)
  /\ pc[i] # "alloc"
  /\ \E v \in StreamPc \ {"alloc"} : pc' = [pc EXCEPT ![i] = v]

PipeStep(i) ==
  \/ ConfRelease(i) \/ ConfNothingToRelease(i)
  \/ (\E p \in Pipe : TakePipe(i, p)) \/ OutOfPipes(i)
  \/ Returns(i)

(* The steps of a call, told apart by what they do to pipes.               *)
LEMMA CallPipeStep ==
  ASSUME StreamTypeOK, NEW i \in Inst, CallStep(i)
  PROVE  Quiet \/ PipeStep(i)
<1>1. ASSUME UNCHANGED <<pipe, alloc>>, pc[i] # "alloc",
             NEW v, v # "alloc", pc' = [pc EXCEPT ![i] = v]
      PROVE  Quiet
  BY <1>1 DEF Quiet, StreamTypeOK
<1>2. CASE Check(i)
  <2>1. \/ pc' = pc
        \/ pc[i] # "alloc" /\ pc' = [pc EXCEPT ![i] = "mark"]
    BY <1>2 DEF Check, Put
  <2>2. UNCHANGED <<pipe, alloc>>
    BY <1>2 DEF Check
  <2> QED BY <1>1, <2>1, <2>2 DEF Quiet
<1>3. CASE CheckUnread(i)
  <2>1. /\ UNCHANGED <<pipe, alloc>> /\ pc[i] # "alloc"
        /\ \E v \in {"mark"} : pc' = [pc EXCEPT ![i] = v]
    BY <1>3 DEF CheckUnread, Step
  <2> QED BY <1>1, <2>1
<1>4. CASE CheckForce(i)
  <2>1. /\ UNCHANGED <<pipe, alloc>> /\ pc[i] # "alloc"
        /\ \E v \in {"mark"} : pc' = [pc EXCEPT ![i] = v]
    BY <1>4 DEF CheckForce, Step
  <2> QED BY <1>1, <2>1
<1>5. CASE CheckNoop(i)
  <2>1. /\ UNCHANGED <<pipe, alloc>> /\ pc[i] # "alloc"
        /\ \E v \in {"idle"} : pc' = [pc EXCEPT ![i] = v]
    BY <1>5 DEF CheckNoop, Step, Return
  <2> QED BY <1>1, <2>1
<1>6. CASE Mark(i)
  <2>1. /\ UNCHANGED <<pipe, alloc>> /\ pc[i] # "alloc"
        /\ \E v \in {"cmd", "conf"} : pc' = [pc EXCEPT ![i] = v]
    BY <1>6 DEF Mark, Step
  <2> QED BY <1>1, <2>1
<1>7. CASE SetupPipe(i)
  <2>1. /\ UNCHANGED <<pipe, alloc>> /\ pc[i] # "alloc"
        /\ \E v \in {"regs", "again"} : pc' = [pc EXCEPT ![i] = v]
    BY <1>7 DEF SetupPipe, Step
  <2> QED BY <1>1, <2>1
<1>8. ASSUME NEW k \in Reg, WriteConfig(i, k)  PROVE Quiet
  <2>1. \/ pc' = pc
        \/ pc[i] # "alloc" /\ pc' = [pc EXCEPT ![i] = "again"]
    BY <1>8 DEF WriteConfig, Step
  <2>2. UNCHANGED <<pipe, alloc>>
    BY <1>8 DEF WriteConfig
  <2> QED BY <1>1, <2>1, <2>2 DEF Quiet
<1>9. CASE Configured(i)
  <2>1. /\ UNCHANGED <<pipe, alloc>> /\ pc[i] # "alloc"
        /\ \E v \in {"cmd"} : pc' = [pc EXCEPT ![i] = v]
    BY <1>9 DEF Configured, Step
  <2> QED BY <1>1, <2>1
<1>10. CASE Command(i)
  <2>1. /\ UNCHANGED <<pipe, alloc>> /\ pc[i] # "alloc"
        /\ \E v \in {"stream"} : pc' = [pc EXCEPT ![i] = v]
    BY <1>10 DEF Command, Step
  <2> QED BY <1>1, <2>1
<1>11. CASE ReadStream(i)
  <2>1. /\ UNCHANGED <<pipe, alloc>> /\ pc[i] # "alloc"
        /\ \E v \in {"status", "again"} : pc' = [pc EXCEPT ![i] = v]
    BY <1>11 DEF ReadStream, Step
  <2> QED BY <1>1, <2>1
<1>12. CASE ReadStatusFails(i)
  <2>1. /\ UNCHANGED <<pipe, alloc>> /\ pc[i] # "alloc"
        /\ \E v \in {"again"} : pc' = [pc EXCEPT ![i] = v]
    BY <1>12 DEF ReadStatusFails, Step
  <2> QED BY <1>1, <2>1
<1>13. CASE ReadStatus(i)
  <2>1. /\ UNCHANGED <<pipe, alloc>> /\ pc[i] # "alloc"
        /\ \E v \in {"end", "again"} : pc' = [pc EXCEPT ![i] = v]
    BY <1>13 DEF ReadStatus, Step
  <2> QED BY <1>1, <2>1
<1>14. CASE ReadRejected(i)
  <2>1. /\ UNCHANGED <<pipe, alloc>> /\ pc[i] # "alloc"
        /\ \E v \in {"again", "end"} : pc' = [pc EXCEPT ![i] = v]
    BY <1>14 DEF ReadRejected, Step
  <2> QED BY <1>1, <2>1
<1>15. CASE Again(i)
  <2>1. /\ UNCHANGED <<pipe, alloc>> /\ pc[i] # "alloc"
        /\ \E v \in {"cmd", "conf"} : pc' = [pc EXCEPT ![i] = v]
    BY <1>15 DEF Again, Step
  <2> QED BY <1>1, <2>1
<1>16. CASE LoopTimeout(i)
  <2>1. /\ UNCHANGED <<pipe, alloc>> /\ pc[i] # "alloc"
        /\ \E v \in {"end"} : pc' = [pc EXCEPT ![i] = v]
    BY <1>16 DEF LoopTimeout, Step
  <2> QED BY <1>1, <2>1
<1>17. CASE StartSucceeds(i)
  <2>1. /\ UNCHANGED <<pipe, alloc>> /\ pc[i] # "alloc"
        /\ \E v \in {"idle"} : pc' = [pc EXCEPT ![i] = v]
    BY <1>17 DEF StartSucceeds, Step, Return
  <2> QED BY <1>1, <2>1
<1>18. CASE StopSucceeds(i)
  <2>1. pc[i] # "alloc" /\ pc' = [pc EXCEPT ![i] = "idle"] /\ GivePipeBack(i)
    BY <1>18 DEF StopSucceeds, Return, Step
  <2> QED BY <2>1 DEF PipeStep, Returns, StreamPc
<1>19. CASE ToggleBack(i)
  <2>1. /\ UNCHANGED <<pipe, alloc>> /\ pc[i] # "alloc"
        /\ \E v \in {"drop"} : pc' = [pc EXCEPT ![i] = v]
    BY <1>19 DEF ToggleBack, Step
  <2> QED BY <1>1, <2>1
<1>20. CASE DropPipe(i)
  <2>1. pc[i] # "alloc" /\ pc' = [pc EXCEPT ![i] = "restore"]
    BY <1>20 DEF DropPipe, Step
  <2>2. GivePipeBack(i) \/ UNCHANGED <<pipe, alloc>>
    BY <1>20 DEF DropPipe
  <2> QED BY <1>1, <2>1, <2>2 DEF PipeStep, Returns, StreamPc
<1>21. CASE Restore(i)
  <2>1. /\ UNCHANGED <<pipe, alloc>> /\ pc[i] # "alloc"
        /\ \E v \in {"idle"} : pc' = [pc EXCEPT ![i] = v]
    BY <1>21 DEF Restore, Step, Return
  <2> QED BY <1>1, <2>1
<1> QED BY <1>2, <1>3, <1>4, <1>5, <1>6, <1>7, <1>8, <1>9, <1>10, <1>11,
           <1>12, <1>13, <1>14, <1>15, <1>16, <1>17, <1>18, <1>19, <1>20,
           <1>21 DEF CallStep, PipeStep

(* Every step of the driver is quiet or one of the steps above.            *)
LEMMA DriverPipeStep ==
  ASSUME DriverTypeOK, [DriverNext]_svars
  PROVE  Quiet \/ \E i \in Inst : PipeStep(i)
<1>0. StreamTypeOK
  BY DEF DriverTypeOK
<1>1. ASSUME UNCHANGED <<pipe, alloc, pc>>  PROVE Quiet
  BY <1>1 DEF Quiet
<1>2. CASE UNCHANGED svars
  BY <1>1, <1>2 DEF svars, streamVars
<1>3. ASSUME NEW i \in Streams, CallStep(i)  PROVE Quiet \/ PipeStep(i)
  BY <1>0, <1>3, CallPipeStep, StreamAssumption
<1>4. ASSUME NEW i \in Streams, Client(i)  PROVE Quiet
  <2>1. ASSUME NEW o \in BOOLEAN, Call(i, o)  PROVE Quiet
    BY <1>0, <2>1, StreamAssumption DEF Call, Step, Quiet, StreamTypeOK
  <2>2. ASSUME NEW o \in BOOLEAN, CallDuplicate(i, o)  PROVE Quiet
    BY <1>1, <2>2 DEF CallDuplicate
  <2>3. ASSUME NEW c \in Cfg, SelectFormat(i, c)  PROVE Quiet
    BY <1>1, <2>3 DEF SelectFormat
  <2> QED BY <1>4, <2>1, <2>2, <2>3 DEF Client
<1>5. CASE ResetNext \/ CameraNext
  BY <1>1, <1>5 DEF ResetNext, CameraNext, streamVars
<1> QED BY <1>2, <1>3, <1>4, <1>5, StreamAssumption DEF DriverNext

-----------------------------------------------------------------------------
(* No pipe is lost: whoever took one still knows its number, whatever      *)
(* fails, is retried or is reset (ds5_configure and the releases of        *)
(* ds5_mux_s_stream).                                                      *)
THEOREM NoPipeLeaks == DriverSpec => []NoPipeLeak
<1>1. DriverInit => NoPipeLeak
  BY DEF DriverInit, StreamInit, NoPipeLeak
<1>2. DriverTypeOK /\ NoPipeLeak /\ [DriverNext]_svars => NoPipeLeak'
  <2> SUFFICES ASSUME DriverTypeOK, NoPipeLeak, [DriverNext]_svars,
                      NEW p \in Pipe, alloc'[p]
               PROVE  \E j \in Inst : pipe'[j] = p /\ pc'[j] # "alloc"
    BY DEF NoPipeLeak
  <2>0. StreamTypeOK
    BY DEF DriverTypeOK
  <2>1. CASE Quiet
    BY <2>1 DEF Quiet, NoPipeLeak
  <2>2. ASSUME NEW i \in Inst, PipeStep(i)
        PROVE  \E j \in Inst : pipe'[j] = p /\ pc'[j] # "alloc"
    <3>1. CASE ConfRelease(i)
      <4>1. alloc[p] /\ p # pipe[i]
        BY <2>0, <3>1 DEF ConfRelease, Released, StreamTypeOK
      <4>2. PICK j \in Inst : pipe[j] = p /\ pc[j] # "alloc"
        BY <4>1 DEF NoPipeLeak
      <4> QED BY <2>0, <3>1, <4>1, <4>2 DEF ConfRelease, Step, StreamTypeOK
    <3>2. CASE ConfNothingToRelease(i)
      <4>1. PICK j \in Inst : pipe[j] = p /\ pc[j] # "alloc"
        BY <3>2 DEF ConfNothingToRelease, NoPipeLeak
      <4>2. CASE NeedsPipe(i)
        BY <2>0, <3>2, <4>1, <4>2 DEF ConfNothingToRelease, Step, StreamTypeOK
      <4>3. CASE ~NeedsPipe(i)
        BY <2>0, <3>2, <4>1, <4>3 DEF ConfNothingToRelease, Step, StreamTypeOK
      <4> QED BY <4>2, <4>3
    <3>3. ASSUME NEW q \in Pipe, TakePipe(i, q)
          PROVE  \E j \in Inst : pipe'[j] = p /\ pc'[j] # "alloc"
      <4>1. CASE p = q
        BY <2>0, <3>3, <4>1 DEF TakePipe, Step, Put, StreamTypeOK
      <4>2. CASE p # q
        <5>1. alloc[p]
          BY <2>0, <3>3, <4>2 DEF TakePipe, Put, StreamTypeOK
        <5>2. PICK j \in Inst : pipe[j] = p /\ pc[j] # "alloc"
          BY <5>1 DEF NoPipeLeak
        <5> QED BY <2>0, <3>3, <5>2 DEF TakePipe, Step, Put, StreamTypeOK
      <4> QED BY <4>1, <4>2
    <3>4. CASE OutOfPipes(i)
      <4>1. PICK j \in Inst : pipe[j] = p /\ pc[j] # "alloc"
        BY <3>4 DEF OutOfPipes, NoPipeLeak
      <4> QED BY <2>0, <3>4, <4>1 DEF OutOfPipes, Return, Step, Put, StreamTypeOK
    <3>5. CASE Returns(i)
      <4>1. alloc[p] /\ p # pipe[i]
        BY <2>0, <3>5 DEF Returns, GivePipeBack, Released, StreamTypeOK
      <4>2. PICK j \in Inst : pipe[j] = p /\ pc[j] # "alloc"
        BY <4>1 DEF NoPipeLeak
      <4>3. j # i /\ pipe'[j] = pipe[j]
        BY <2>0, <3>5, <4>1, <4>2 DEF Returns, GivePipeBack, Put, StreamTypeOK
      <4> QED BY <2>0, <3>5, <4>2, <4>3 DEF Returns, StreamTypeOK
    <3> QED BY <2>2, <3>1, <3>2, <3>3, <3>4, <3>5 DEF PipeStep
  <2> QED BY <2>1, <2>2, DriverPipeStep
<1> QED BY <1>1, <1>2, DriverTypes, PTL DEF DriverSpec

-----------------------------------------------------------------------------
(* What exclusion rests on: the pipe a sensor holds is marked as taken.    *)
Owned == \A i \in Inst : Holds(i) => alloc[pipe[i]]

(* With the exclusion it is inductive, if releases do not fail.            *)
LEMMA PipesOwned ==
  ASSUME ReleaseFaults = FALSE
  PROVE  DriverSpec => [](PipeExclusive /\ Owned)
<1>1. DriverInit => PipeExclusive /\ Owned
  <2>1. NotConfigured \notin Pipe
    BY PipesAssumption DEF NotConfigured, Pipe
  <2> QED BY <2>1 DEF DriverInit, StreamInit, PipeExclusive, Owned, Holds
<1>2. DriverTypeOK /\ PipeExclusive /\ Owned /\ [DriverNext]_svars
        => (PipeExclusive /\ Owned)'
  <2> SUFFICES ASSUME DriverTypeOK, PipeExclusive, Owned, [DriverNext]_svars
               PROVE  (PipeExclusive /\ Owned)'
    OBVIOUS
  <2>0. StreamTypeOK /\ NotConfigured \notin Pipe /\ NoPipe \notin Pipe
    BY PipesAssumption DEF DriverTypeOK, NotConfigured, NoPipe, Pipe
  <2> USE DEF PipeExclusive, Owned, Holds
  <2>1. CASE Quiet
    BY <2>1 DEF Quiet
  <2>2. ASSUME NEW i \in Inst, PipeStep(i)  PROVE (PipeExclusive /\ Owned)'
    <3>1. CASE ConfRelease(i)
      BY <2>0, <3>1 DEF ConfRelease, Step, Released, StreamTypeOK
    <3>2. CASE ConfNothingToRelease(i)
      <4>1. /\ UNCHANGED <<pipe, alloc>> /\ pc[i] # "alloc"
            /\ \E v \in {"alloc", "regs"} : pc' = [pc EXCEPT ![i] = v]
        BY <3>2 DEF ConfNothingToRelease, Step
      <4> QED BY <2>0, <4>1 DEF StreamTypeOK
    <3>3. ASSUME NEW p \in Pipe, TakePipe(i, p)
          PROVE  (PipeExclusive /\ Owned)'
      <4>1. ~alloc[p]
        BY <3>3 DEF TakePipe, Available, Free
      <4> QED BY <2>0, <3>3, <4>1 DEF TakePipe, Step, Put, StreamTypeOK
    <3>4. CASE OutOfPipes(i)
      BY <2>0, <3>4 DEF OutOfPipes, Return, Step, Put, StreamTypeOK
    <3>5. CASE Returns(i)
      <4>1. CASE pipe[i] \in Pipe
        <5>1. /\ pipe' = [pipe EXCEPT ![i] = NotConfigured]
              /\ alloc' = [alloc EXCEPT ![pipe[i]] = FALSE]
          BY <3>5, <4>1
             DEF Returns, GivePipeBack, ReleaseMayFail, Released, Put
        <5> QED BY <2>0, <3>5, <4>1, <5>1 DEF Returns, StreamTypeOK
      <4>2. CASE pipe[i] \notin Pipe
        <5>1. pipe' = pipe /\ alloc' = alloc
          BY <3>5, <4>2 DEF Returns, GivePipeBack, ReleaseMaySucceed
        <5> QED BY <2>0, <3>5, <4>2, <5>1 DEF Returns, StreamTypeOK
      <4> QED BY <4>1, <4>2
    <3> QED BY <2>2, <3>1, <3>2, <3>3, <3>4, <3>5 DEF PipeStep
  <2> QED BY <2>1, <2>2, DriverPipeStep
<1> QED BY <1>1, <1>2, DriverTypes, PTL DEF DriverSpec

(* Two sensors never stream through one pipe, though serdes_lock__ is      *)
(* dropped between a release and the next allocation, as long as           *)
(* max96712_release_pipe does not report a failure for a pipe it freed.    *)
THEOREM PipesExclusive ==
  ASSUME ReleaseFaults = FALSE
  PROVE  DriverSpec => []PipeExclusive
BY PipesOwned, PTL

-----------------------------------------------------------------------------
(* Every set of pipes that is not empty has a first one.                   *)
LEMMA FirstPipe ==
  ASSUME NEW S \in SUBSET Pipe, S # {}
  PROVE  \E p \in S : \A q \in S : p <= q
<1>1. S \subseteq Nat
  BY PipesAssumption DEF Pipe
<1>2. PICK p \in S : \A q \in S : ~ (<<q, p>> \in OpToRel(<, Nat))
  BY <1>1, NatLessThanWellFounded, WFMin
<1>3. ASSUME NEW q \in S  PROVE p <= q
  <2>1. ~ (q < p)
    BY <1>1, <1>2 DEF OpToRel
  <2> QED BY <1>1, <2>1
<1> QED BY <1>3

(* A max96712 has at least as many pipes as there are sensors.             *)
PipeEach ==
  AnyPipe = TRUE /\ IsFiniteSet(Inst) /\ Cardinality(Inst) <= NPipe

(* A max9296 has the pipe of every sensor's virtual channel, and no two    *)
(* sensors have one channel.                                               *)
ChannelEach ==
  /\ AnyPipe = FALSE
  /\ \A i \in Inst : Vc[i] \in Pipe
  /\ \A i, j \in Inst : Vc[i] = Vc[j] => i = j

(* A sensor between two pipes holds none, so, no pipe being lost, the      *)
(* others cannot hold all pipes of a max96712.                             *)
LEMMA PipesSufficeAny ==
  ASSUME PipeEach
  PROVE  DriverSpec => []PipeForEveryone
<1> USE DEF PipeEach
<1>1. DriverTypeOK /\ NoPipeLeak => PipeForEveryone
  <2> SUFFICES ASSUME DriverTypeOK, NoPipeLeak, NEW i \in Inst, pc[i] = "alloc",
                      Available(alloc, Vc[i]) = {}
               PROVE  FALSE
    BY DEF PipeForEveryone
  <2>1. \A p \in Pipe : alloc[p]
    <3>1. Free(alloc) = {}
      BY FirstPipe DEF Available, Free
    <3> QED BY <3>1 DEF Free
  <2>2. \A p \in Pipe : \E j \in Inst \ {i} : pipe[j] = p
    BY <2>1 DEF NoPipeLeak
  <2> DEFINE holder == [p \in Pipe |-> CHOOSE j \in Inst \ {i} : pipe[j] = p]
  <2>3. /\ holder \in [Pipe -> Inst \ {i}]
        /\ \A p \in Pipe : pipe[holder[p]] = p
    BY <2>2
  <2>4. IsFiniteSet(Inst \ {i}) /\ Cardinality(Inst \ {i}) = Cardinality(Inst) - 1
    BY FS_RemoveElement
  <2>5. IsFiniteSet(Pipe) /\ Cardinality(Pipe) = NPipe
    BY FS_Interval, PipesAssumption DEF Pipe
  <2>6. Cardinality(Inst \ {i}) < Cardinality(Pipe)
    BY <2>4, <2>5, FS_CardinalityType, PipesAssumption
  <2>7. \E p, q \in Pipe : p # q /\ holder[p] = holder[q]
    <3> HIDE DEF holder
    <3> QED BY <2>3, <2>4, <2>5, <2>6, FS_PigeonHole
  <2> QED BY <2>3, <2>7
<1> QED BY <1>1, DriverTypes, NoPipeLeaks, PTL

(* The pipe a sensor has from a max9296 is that of its channel.            *)
OwnChannel == \A i \in Inst : pipe[i] \in Pipe => pipe[i] = Vc[i]

(* It stays so, as a number is only replaced by an allocation.             *)
LEMMA ChannelsKept ==
  ASSUME AnyPipe = FALSE
  PROVE  DriverSpec => []OwnChannel
<1> NotConfigured \notin Pipe /\ NoPipe \notin Pipe
  BY PipesAssumption DEF NotConfigured, NoPipe, Pipe
<1>1. DriverInit => OwnChannel
  BY DEF DriverInit, StreamInit, OwnChannel
<1>2. DriverTypeOK /\ OwnChannel /\ [DriverNext]_svars => OwnChannel'
  <2> SUFFICES ASSUME DriverTypeOK, OwnChannel, [DriverNext]_svars  PROVE OwnChannel'
    OBVIOUS
  <2>1. pipe \in [Inst -> Pipe \cup {NotConfigured, NoPipe}]
    BY DEF DriverTypeOK, StreamTypeOK
  <2>2. CASE UNCHANGED pipe
    BY <2>2 DEF OwnChannel
  <2>3. ASSUME NEW i \in Inst, NEW p \in Pipe, TakePipe(i, p)  PROVE OwnChannel'
    BY <2>1, <2>3 DEF TakePipe, Available, Put, OwnChannel
  <2>4. ASSUME NEW i \in Inst, \/ pipe' = [pipe EXCEPT ![i] = NotConfigured]
                               \/ pipe' = [pipe EXCEPT ![i] = NoPipe]
        PROVE  OwnChannel'
    BY <2>1, <2>4 DEF OwnChannel
  <2>5. ASSUME NEW i \in Inst, PipeStep(i)  PROVE OwnChannel'
    BY <2>2, <2>3, <2>4, <2>5
       DEF PipeStep, ConfRelease, ConfNothingToRelease, OutOfPipes, Returns,
           GivePipeBack, Put
  <2> QED BY <2>2, <2>5, DriverPipeStep DEF Quiet
<1> QED BY <1>1, <1>2, DriverTypes, PTL DEF DriverSpec

(* So nobody else can hold the pipe a sensor asks a max9296 for.           *)
LEMMA PipesSufficeChannel ==
  ASSUME ChannelEach
  PROVE  DriverSpec => []PipeForEveryone
<1>1. DriverTypeOK /\ NoPipeLeak /\ OwnChannel => PipeForEveryone
  <2> SUFFICES ASSUME NoPipeLeak, OwnChannel, NEW i \in Inst, pc[i] = "alloc",
                      Available(alloc, Vc[i]) = {}
               PROVE  FALSE
    BY DEF PipeForEveryone
  <2>1. alloc[Vc[i]]
    BY DEF Available, Free, ChannelEach
  <2>2. PICK j \in Inst : pipe[j] = Vc[i] /\ pc[j] # "alloc"
    BY <2>1 DEF NoPipeLeak, ChannelEach
  <2> QED BY <2>2 DEF OwnChannel, ChannelEach
<1> QED BY <1>1, ChannelsKept, DriverTypes, NoPipeLeaks, PTL DEF ChannelEach

(* With a pipe for every instance, from either deserializer, a start never *)
(* fails with -ENOSR, whatever failed before.                              *)
THEOREM PipesSuffice ==
  ASSUME PipeEach \/ ChannelEach
  PROVE  DriverSpec => []PipeForEveryone
BY PipesSufficeAny, PipesSufficeChannel
=============================================================================
