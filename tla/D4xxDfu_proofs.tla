---------------------------- MODULE D4xxDfu_proofs ----------------------------
(***************************************************************************)
(* Proofs about the firmware update, for images and numbers of video       *)
(* handles of any size, with or without faults.                            *)
(*                                                                         *)
(* The gate alone (GateInv) gives that it rests when nothing is open and   *)
(* that no node is open under a download.  What the devices behind one     *)
(* adapter have saved (BusInv) gives the rate it is left with.  How much   *)
(* of the image the loader holds at every step of a write (Downloading)    *)
(* gives what is installed when the driver reports it as done.             *)
(***************************************************************************)
EXTENDS D4xxDfu, TLAPS

(* The steps of a write that come after the loader was found idle.         *)
Transfer == {"block", "wrote", "wroteLast", "end", "ended"}

(* The flag at every step of a write.                                      *)
FlagOfStep ==
  /\ pc # "idle" => dfu
  /\ pc \in {"switch", "boot"} => flag = "OPEN"
  /\ pc = "opening" => flag \in {"OPEN", "RECOVERY"}
  /\ pc \in {"detach", "detached"} => flag \in {"OPEN", "RECOVERY"}
  /\ pc \in Transfer => flag = "IN_PROGRESS"

(* What keeps the gate: the count, and who may have set the flag.          *)
GateInv ==
  /\ TypeOK
  /\ count = Handles
  /\ ~dfu /\ lost = 0 => flag \in {"IDLE", "RECOVERY"}
  /\ ~dfu => flag \notin {"IN_PROGRESS", "DONE"}
  /\ dfu /\ ~failed => video = 0 /\ flag \notin {"IDLE", "ERROR"}
  /\ FlagOfStep

(* One device alone has saved the old rate; of two, one may have saved the *)
(* rate of the other's update, and is closed first.                        *)
BusInv ==
  ~crossed =>
    /\ ~dfu /\ other = "closed" => rate = "normal"
    /\ dfu /\ other = "closed" => saved = "normal"
    /\ ~dfu /\ other # "closed" => otherSaved = "normal"
    /\ dfu /\ other # "closed" => saved = "normal" \/ otherSaved = "normal"

(* The states the loader can be in at the steps of a transfer.             *)
CameraAt(p) ==
  CASE p \in {"idle", "block"} -> {"loader", "dfuIDLE", "dfuDNLOAD_IDLE"}
    [] p \in {"wrote", "wroteLast"} -> {"loader", "busy", "dfuDNLOAD_IDLE", "dfuERROR"}
    [] p = "end" -> {"loader", "dfuDNLOAD_IDLE"}
    [] p = "ended" -> {"loader", "closing", "dfuMANIFEST", "dfuERROR"}
    [] OTHER -> Camera

(* What the loader received is what writes returned and what the present   *)
(* write has transferred, unless the loader lost it.                       *)
Downloading ==
  /\ cam = "dfuIDLE" => recv = 0
  /\ pc \in {"idle", "opening"} => len = 0
  /\ pc \in {"idle", "opening", "wroteLast", "end", "ended"} => todo = 0
  /\ pc \in {"wroteLast", "end", "ended"} => len % 2 = 1
  /\ pc \in {"switch", "boot", "detach", "detached"} => todo = len
  /\ pc \in {"block", "wrote"} => todo <= len /\ (len - todo) % 2 = 0
  /\ dfu /\ ~failed =>
       /\ flag # "DONE" => sent % 2 = 0
       /\ flag \in {"OPEN", "RECOVERY"} => sent = 0
       /\ flag = "IN_PROGRESS" =>
            /\ pc \in Transfer \cup {"idle", "fail"}
            /\ cam \in CameraAt(pc)
            /\ pc # "fail" /\ cam \in {"dfuIDLE", "busy", "dfuDNLOAD_IDLE",
                                       "closing", "dfuMANIFEST"}
                 => recv = sent + (len - todo)
            /\ pc # "fail" /\ cam = "dfuMANIFEST" => installed = recv
       /\ flag = "DONE" =>
            /\ pc \in {"idle", "fail"}
            /\ cam \notin {"busy", "closing"}
            /\ installed = sent /\ sent % 2 = 1

DfuInv == GateInv /\ BusInv /\ Downloading

(* Nothing is open while the count is zero.                                *)
LEMMA NothingOpen ==
  ASSUME TypeOK, count = Handles, count = 0
  PROVE  video = 0 /\ lost = 0 /\ ~dfu
BY DEF TypeOK, Handles

(* Every step keeps the gate.                                              *)
LEMMA GateStep ==
  ASSUME GateInv, [Next]_vars
  PROVE  GateInv'
<1> USE DfuAssumption
        DEF GateInv, TypeOK, FlagOfStep, Transfer, Handles, Flag, Pc, Camera, Rate,
            Loader, Free, Step, gate, ours, others, bus, writeVars, client, image,
            camera
<1>1. CASE UNCHANGED vars
  BY <1>1 DEF vars
<1>2. ASSUME NEW n \in 1..MaxImage, DfuOpen(n)
      PROVE  GateInv'
  <2>1. video = 0 /\ lost = 0 /\ ~dfu
    BY <1>2, NothingOpen DEF DfuOpen
  <2>2. TypeOK'
    <3>1. saved' = rate /\ dfu' = TRUE /\ failed' = FALSE /\ pc' = "opening"
      BY <1>2 DEF DfuOpen
    <3>2. flag' \in Flag /\ count' \in Nat /\ size' \in Nat /\ sent' \in Nat
      BY <1>2 DEF DfuOpen, Opened
    <3>3. UNCHANGED <<rate, other, otherSaved, crossed, once, len, todo, nodes, video,
                      lost, cam, recv, installed>>
      BY <1>2 DEF DfuOpen
    <3> QED BY <3>1, <3>2, <3>3
  <2>3. count' = Handles'
    BY <1>2, <2>1 DEF DfuOpen
  <2>4. FlagOfStep'
    BY <1>2 DEF DfuOpen, Opened
  <2> QED BY <1>2, <2>1, <2>2, <2>3, <2>4 DEF DfuOpen, Opened
<1>2a. CASE DfuOpened
  BY <1>2a DEF DfuOpened
<1>2b. CASE OtherOpen \/ OtherOpened \/ OtherRelease
  <2>1. /\ rate' \in Rate /\ otherSaved' \in Rate /\ crossed' \in BOOLEAN
        /\ other' \in {"closed", "opening", "open"}
    BY <1>2b DEF OtherOpen, OtherOpened, OtherRelease
  <2>2. UNCHANGED <<gate, saved, once, writeVars, client, image, camera>>
    BY <1>2b DEF OtherOpen, OtherOpened, OtherRelease
  <2> QED BY <2>1, <2>2
<1>3. ASSUME NEW n \in 1..MaxImage, WriteBegin(n)
      PROVE  GateInv'
  BY <1>3 DEF WriteBegin, Entry
<1>4. CASE VideoOpen
  BY <1>4 DEF VideoOpen
<1>5. CASE VideoClose
  BY <1>5 DEF VideoClose
<1>6. CASE DfuOpenFails
  <2>1. video = 0 /\ lost = 0 /\ ~dfu
    BY <1>6, NothingOpen DEF DfuOpenFails
  <2> QED BY <1>6, <2>1 DEF DfuOpenFails, Opened
<1>7. CASE DfuRelease
  <2>1. TypeOK'
    <3>1. rate' = saved /\ dfu' = FALSE
      BY <1>7 DEF DfuRelease, RestoreRate
    <3>2. flag' \in Flag /\ count' \in Nat
      BY <1>7 DEF DfuRelease
    <3>2a. crossed' \in BOOLEAN
      BY <1>7 DEF DfuRelease, RestoreRate
    <3>3. UNCHANGED <<saved, other, otherSaved, once, pc, len, todo, nodes, video,
                      lost, size, sent, failed, cam, recv, installed>>
      BY <1>7 DEF DfuRelease
    <3>4. /\ rate' \in Rate /\ saved' \in Rate /\ otherSaved' \in Rate
          /\ other' \in {"closed", "opening", "open"}
      BY <3>1, <3>3
    <3> QED BY <3>1, <3>2, <3>2a, <3>3, <3>4
  <2>2. count' = Handles'
    BY <1>7 DEF DfuRelease
  <2>3. FlagOfStep'
    BY <1>7 DEF DfuRelease
  <2> QED BY <1>7, <2>1, <2>2, <2>3 DEF DfuRelease
<1>8. CASE DfuRead
  BY <1>8 DEF DfuRead, Detach, Acked
<1>9. CASE ResetFindsRecovery
  BY <1>9 DEF ResetFindsRecovery
<1>10. CASE Switch
  BY <1>10 DEF Switch
<1>11. CASE Booted
  BY <1>11 DEF Booted, Acked
<1>12. CASE WriteDetach
  BY <1>12 DEF WriteDetach, Detach
<1>13. CASE Detached
  BY <1>13 DEF Detached
<1>14. CASE WriteBlock
  BY <1>14 DEF WriteBlock, Unit
<1>15. CASE BlockStored
  BY <1>15 DEF BlockStored
<1>16. CASE WriteEnd
  BY <1>16 DEF WriteEnd
<1>17. CASE Manifested
  BY <1>17 DEF Manifested, WriteReturns
<1>18. CASE NothingLeft
  BY <1>18 DEF NothingLeft, WriteReturns
<1>19. CASE WrongState
  BY <1>19 DEF WrongState
<1>20. CASE Abort
  BY <1>20 DEF Abort, Detach, Acked
<1>21. CASE TransferFails
  BY <1>21 DEF TransferFails
<1>22. CASE Boot
  BY <1>22 DEF Boot
<1>23. CASE Settle
  BY <1>23 DEF Settle
<1>24. CASE Restart
  BY <1>24 DEF Restart
<1>25. CASE PowerLoss
  BY <1>25 DEF PowerLoss
<1> QED
  BY <1>1, <1>2, <1>2a, <1>2b, <1>3, <1>4, <1>5, <1>6, <1>7, <1>8, <1>9, <1>10, <1>11, <1>12,
     <1>13, <1>14, <1>15, <1>16, <1>17, <1>18, <1>19, <1>20, <1>21, <1>22, <1>23,
     <1>24, <1>25
     DEF Next, WriteStep

(* Only opens and releases touch the bus.                                  *)
LEMMA BusStep ==
  ASSUME GateInv, BusInv, [Next]_vars
  PROVE  BusInv'
<1> USE DEF BusInv, Step, gate, ours, others, bus, writeVars, client, image, camera
<1>1. ASSUME NEW n \in 1..MaxImage, DfuOpen(n)
      PROVE  BusInv'
  <2>1. ~dfu
    BY <1>1, NothingOpen DEF DfuOpen, GateInv
  <2> QED BY <1>1, <2>1 DEF DfuOpen
<1>2. CASE DfuOpened
  <2>1. dfu
    BY <1>2 DEF DfuOpened, GateInv, FlagOfStep
  <2> QED BY <1>2, <2>1 DEF DfuOpened
<1>3. CASE DfuRelease
  <2>1. crossed' \in BOOLEAN /\ (~crossed' => ~crossed)
    BY <1>3 DEF DfuRelease, RestoreRate, GateInv, TypeOK
  <2> QED BY <1>3, <2>1 DEF DfuRelease, RestoreRate, GateInv, TypeOK, Rate
<1>4. CASE OtherOpen
  BY <1>4 DEF OtherOpen
<1>5. CASE OtherOpened
  BY <1>5 DEF OtherOpened
<1>6. CASE OtherRelease
  BY <1>6 DEF OtherRelease, GateInv, TypeOK, Rate
<1>7. ASSUME UNCHANGED <<bus, dfu>>  PROVE BusInv'
  BY <1>7
<1>8. CASE UNCHANGED vars \/ VideoOpen \/ VideoClose \/ DfuOpenFails \/ DfuRead
           \/ ResetFindsRecovery \/ TransferFails
  BY <1>7, <1>8 DEF vars, VideoOpen, VideoClose, DfuOpenFails, DfuRead,
                    ResetFindsRecovery, TransferFails
<1>9. CASE \/ Switch \/ Booted \/ WriteDetach \/ Detached \/ WriteBlock
           \/ BlockStored \/ WriteEnd \/ Manifested \/ NothingLeft
           \/ WrongState \/ Abort
  BY <1>7, <1>9 DEF Switch, Booted, WriteDetach, Detached, WriteBlock, BlockStored,
                    WriteEnd, Manifested, NothingLeft, WriteReturns, WrongState, Abort
<1>10. CASE Boot \/ Settle \/ Restart \/ PowerLoss
  BY <1>7, <1>10 DEF Boot, Settle, Restart, PowerLoss
<1>11. ASSUME NEW n \in 1..MaxImage, WriteBegin(n)  PROVE BusInv'
  BY <1>7, <1>11 DEF WriteBegin
<1> QED BY <1>1, <1>2, <1>3, <1>4, <1>5, <1>6, <1>8, <1>9, <1>10, <1>11
        DEF Next, WriteStep

(* Sums and differences of even numbers.                                   *)
LEMMA EvenSum ==
  ASSUME NEW a \in Int, NEW b \in Int, a % 2 = 0, b % 2 = 0
  PROVE  (a + b) % 2 = 0
OBVIOUS

(* Every step keeps count of what the loader received.                     *)
LEMMA DownloadStep ==
  ASSUME GateInv, Downloading, [Next]_vars
  PROVE  Downloading'
<1> USE DfuAssumption
        DEF GateInv, TypeOK, FlagOfStep, Transfer, Flag, Pc, Camera, Loader, Free,
            Step, gate, ours, others, bus, writeVars, client, image, camera,
            Downloading, CameraAt
<1>1. CASE UNCHANGED vars
  BY <1>1 DEF vars
<1>2. ASSUME NEW n \in 1..MaxImage, DfuOpen(n)
      PROVE  Downloading'
  BY <1>2 DEF DfuOpen, Opened
<1>2a. CASE DfuOpened
  BY <1>2a DEF DfuOpened
<1>2b. CASE OtherOpen \/ OtherOpened \/ OtherRelease
  BY <1>2b DEF OtherOpen, OtherOpened, OtherRelease
<1>3. ASSUME NEW n \in 1..MaxImage, WriteBegin(n)
      PROVE  Downloading'
  <2>1. /\ dfu /\ pc = "idle" /\ pc' = Entry /\ len' = n /\ todo' = n
        /\ UNCHANGED <<flag, dfu, cam, recv, size, sent, failed, installed>>
    BY <1>3 DEF WriteBegin
  <2>2. n \in Nat /\ n - n = 0 /\ 0 % 2 = 0
    OBVIOUS
  <2>3. CASE flag = "IN_PROGRESS"
    BY <2>1, <2>2, <2>3 DEF Entry
  <2>4. CASE flag # "IN_PROGRESS"
    BY <2>1, <2>2, <2>4 DEF Entry
  <2> QED BY <2>3, <2>4
<1>4. CASE VideoOpen
  BY <1>4 DEF VideoOpen
<1>5. CASE VideoClose
  BY <1>5 DEF VideoClose
<1>6. CASE DfuOpenFails
  <2>1. ~dfu
    BY <1>6, NothingOpen DEF DfuOpenFails
  <2> QED BY <1>6, <2>1 DEF DfuOpenFails
<1>7. CASE DfuRelease
  BY <1>7 DEF DfuRelease
<1>8. CASE DfuRead
  BY <1>8 DEF DfuRead, Detach, Acked
<1>9. CASE ResetFindsRecovery
  BY <1>9 DEF ResetFindsRecovery
<1>10. CASE Switch
  BY <1>10 DEF Switch
<1>11. CASE Booted
  BY <1>11 DEF Booted, Acked
<1>12. CASE WriteDetach
  BY <1>12 DEF WriteDetach, Detach
<1>13. CASE Detached
  BY <1>13 DEF Detached
<1>14. CASE WriteBlock
  <2> DEFINE k == len - todo
  <2>1. CASE todo > 1
    <3>1. todo' = todo - 2 /\ pc' = "wrote" /\ pc = "block"
      BY <1>14, <2>1 DEF WriteBlock, Unit
    <3>2. len' - todo' = k + 2 /\ (k + 2) % 2 = 0
      BY <1>14, <3>1, EvenSum DEF WriteBlock
    <3>3. /\ todo' <= len' /\ (len' - todo') % 2 = 0
          /\ UNCHANGED <<flag, dfu, len, size, sent, failed, installed>>
      BY <1>14, <3>1, <3>2 DEF WriteBlock
    <3>4. CASE cam \in {"dfuIDLE", "dfuDNLOAD_IDLE"}
      <4>1. cam' = "busy" /\ recv' = recv + 2
        BY <1>14, <2>1, <3>4 DEF WriteBlock, Unit
      <4> QED BY <3>1, <3>2, <3>3, <3>4, <4>1
    <3>5. CASE cam \notin {"dfuIDLE", "dfuDNLOAD_IDLE"}
      <4>1. UNCHANGED <<cam, recv>>
        BY <1>14, <3>5 DEF WriteBlock
      <4> QED BY <3>1, <3>3, <3>5, <4>1
    <3> QED BY <3>4, <3>5
  <2>2. CASE todo = 1
    <3>1. /\ todo' = 0 /\ pc' = "wroteLast" /\ pc = "block"
          /\ UNCHANGED <<flag, dfu, len, size, sent, failed, installed>>
      BY <1>14, <2>2 DEF WriteBlock, Unit
    <3>2. len' % 2 = 1
      BY <1>14, <2>2, <3>1
    <3>3. CASE cam \in {"dfuIDLE", "dfuDNLOAD_IDLE"}
      <4>1. cam' = "busy" /\ recv' = recv + 1
        BY <1>14, <2>2, <3>3 DEF WriteBlock, Unit
      <4> QED BY <2>2, <3>1, <3>2, <3>3, <4>1
    <3>4. CASE cam \notin {"dfuIDLE", "dfuDNLOAD_IDLE"}
      <4>1. UNCHANGED <<cam, recv>>
        BY <1>14, <3>4 DEF WriteBlock
      <4> QED BY <2>2, <3>1, <3>2, <3>4, <4>1
    <3> QED BY <3>3, <3>4
  <2> QED BY <1>14, <2>1, <2>2 DEF WriteBlock
<1>15. CASE BlockStored
  BY <1>15 DEF BlockStored
<1>16. CASE WriteEnd
  BY <1>16 DEF WriteEnd
<1>17. CASE Manifested
  BY <1>17 DEF Manifested, WriteReturns
<1>18. CASE NothingLeft
  BY <1>18 DEF NothingLeft, WriteReturns
<1>19. CASE WrongState
  BY <1>19 DEF WrongState, Awaited
<1>20. CASE Abort
  BY <1>20 DEF Abort, Detach, Acked
<1>21. CASE TransferFails
  BY <1>21 DEF TransferFails
<1>22. CASE Boot
  BY <1>22 DEF Boot
<1>23. CASE Settle
  BY <1>23 DEF Settle
<1>24. CASE Restart
  BY <1>24 DEF Restart
<1>25. CASE PowerLoss
  BY <1>25 DEF PowerLoss
<1> QED
  BY <1>1, <1>2, <1>2a, <1>2b, <1>3, <1>4, <1>5, <1>6, <1>7, <1>8, <1>9, <1>10, <1>11, <1>12,
     <1>13, <1>14, <1>15, <1>16, <1>17, <1>18, <1>19, <1>20, <1>21, <1>22, <1>23,
     <1>24, <1>25
     DEF Next, WriteStep

(* A normal boot and one in recovery: nothing is open or transferred.      *)
LEMMA DfuInit == Init => DfuInv
<1> SUFFICES ASSUME Init PROVE DfuInv
  OBVIOUS
<1>1. TypeOK
  BY DEF Init, TypeOK, Flag, Pc, Camera, Rate
<1>2. GateInv
  BY <1>1 DEF Init, GateInv, Handles, FlagOfStep, Transfer
<1> QED BY <1>2 DEF Init, DfuInv, BusInv, Downloading

(* The gate and the count of the transfer hold in every reachable state.   *)
LEMMA DfuInvariant == Spec => []DfuInv
<1>1. DfuInv /\ [Next]_vars => DfuInv'
  BY GateStep, BusStep, DownloadStep DEF DfuInv
<1> QED BY DfuInit, <1>1, PTL DEF Spec

(* The variables keep their types: in particular the count of open handles *)
(* never becomes negative and no transfer goes beyond the image.           *)
THEOREM DfuTypes == Spec => []TypeOK
<1>1. DfuInv => TypeOK
  BY DEF DfuInv, GateInv
<1> QED BY <1>1, DfuInvariant, PTL

(* ds5_mux_open, ds5_mux_close, ds5_dfu_device_open and _release: the      *)
(* count is the number of handles, and when nothing is open the flag lets  *)
(* the nodes be opened again.                                              *)
THEOREM GateIsRestored == Spec => []GateRests
<1>1. DfuInv => GateRests
  <2> SUFFICES ASSUME DfuInv PROVE GateRests
    OBVIOUS
  <2>1. count = Handles
    BY DEF DfuInv, GateInv
  <2>2. ASSUME Handles = 0 PROVE lost = 0 /\ ~dfu
    BY <2>1, <2>2, NothingOpen DEF DfuInv, GateInv
  <2> QED BY <2>1, <2>2 DEF DfuInv, GateInv, GateRests
<1> QED BY <1>1, DfuInvariant, PTL

(* The opens and releases of two update devices on the rate of their       *)
(* adapter: once both are closed it is as before, in any order of their    *)
(* steps but a release under a device that had saved the other's rate.     *)
THEOREM BusIsRestored == Spec => []BusRests
<1>1. DfuInv => BusRests
  BY DEF DfuInv, BusInv, BusRests
<1> QED BY <1>1, DfuInvariant, PTL

(* While an image is downloaded no video node of the instance is open,     *)
(* unless a write on the same handle failed before.                        *)
THEOREM DownloadIsExclusive == Spec => []UpdateExclusive
<1>1. DfuInv => UpdateExclusive
  BY DEF DfuInv, GateInv, TypeOK, UpdateExclusive
<1> QED BY <1>1, DfuInvariant, PTL

(* ds5_dfu_device_write: an image of any length that ends in a short block *)
(* is installed as a whole, whatever failed, and what the driver reports   *)
(* as done is exactly what the writes have handed over by then, the last   *)
(* of them up to the middle of a block.                                    *)
THEOREM SentImageIsInstalled == Spec => []SentIsInstalled
<1>1. DfuInv => SentIsInstalled
  <2> SUFFICES ASSUME DfuInv PROVE SentIsInstalled
    OBVIOUS
  <2> USE DEF DfuInv, GateInv, TypeOK, Downloading, Flag
  <2>1. ASSUME Free, dfu, sent = size, ~failed, size % 2 = 1
        PROVE  flag = "DONE"
    <3>1. sent % 2 # 0
      BY <2>1
    <3> QED BY <2>1, <3>1
  <2>2. ASSUME flag = "DONE", ~failed
        PROVE  installed = sent /\ sent % 2 = 1
    BY <2>2
  <2> QED BY <2>1, <2>2 DEF SentIsInstalled
<1> QED BY <1>1, DfuInvariant, PTL
=============================================================================
