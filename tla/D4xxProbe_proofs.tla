--------------------------- MODULE D4xxProbe_proofs ---------------------------
(***************************************************************************)
(* Proofs about the slot tables, for any number of instances, cameras,     *)
(* deserializers and slots.                                                *)
(*                                                                         *)
(* A primary owns its slot (Owned); from that and the search under         *)
(* serdes_lock__ follow one slot per camera, one per deserializer and, as  *)
(* long as no mishap happened, that every instance works on the slot of    *)
(* its camera.                                                             *)
(***************************************************************************)
EXTENDS D4xxProbe, TLAPS

(* What a primary relies on from BecomePrimary until it lets its slot go:  *)
(* nobody else claims it or gives it up.                                   *)
Owned ==
  \A i \in Inst :
    /\ pc[i] \in {"setup", "cycled"} => isPrimary[i] /\ ~complete[mySlot[i]]
    /\ pc[i] \in {"unbound", "removing"} => ~isPrimary[i]
    /\ isPrimary[i] => mySlot[i] \in Slot /\ primary[mySlot[i]] = i

SlotInv == TypeOK /\ Owned

(* The steps that claim a slot change these tables alike.                  *)
LEMMA DserSlotsFound ==
  ASSUME NEW i \in Inst, NEW d \in DserSlots(i)
  PROVE  /\ d \in DserSlot
         /\ dserDev[d] = Dser[i] \/ dserDev[d] = None
         /\ dserDev[d] # Dser[i] => \A e \in DserSlot : dserDev[e] # Dser[i]
BY DEF DserSlots, First

LEMMA InitSlotInv == Init => SlotInv
BY ProbeAssumption DEF Init, SlotInv, TypeOK, Owned

LEMMA SlotStepType ==
  ASSUME TypeOK, Owned, Next
  PROVE  TypeOK'
<1> USE DEF TypeOK
<1>1. CASE SerdesBind
  BY <1>1 DEF SerdesBind, slotVars, instVars
<1>2. ASSUME NEW i \in Inst, NEW from,
             NEW r \in {"none", "ok", "defer", "nospc", "err"}, Gone(i, from, r)
      PROVE  /\ pc' \in [Inst -> {"unbound", "setup", "cycled", "linked", "bound", "removing"}]
             /\ mySlot' \in [Inst -> Slot \cup {NoSlot}]
             /\ isPrimary' \in [Inst -> BOOLEAN]
             /\ res' \in [Inst -> {"none", "ok", "defer", "nospc", "err"}]
  BY <1>2 DEF Gone, Goto
<1>3. ASSUME NEW p \in Inst \cup {Freed}, NEW i \in Inst, NEW s \in Slot,
             NEW d \in DserSlot \cup {NoSlot}, Claim(p, i, s, d)
      PROVE  /\ primary' \in [Slot -> Inst \cup {None, Freed}]
             /\ complete' \in [Slot -> BOOLEAN]
             /\ dserOf' \in [Slot -> DserSlot \cup {NoSlot}]
             /\ dserDev' \in [DserSlot -> {Dser[j] : j \in Inst} \cup {None}]
  BY <1>3 DEF Claim
<1>4. ASSUME NEW i \in Inst, ReleaseSlot(i)
      PROVE  /\ primary' \in [Slot -> Inst \cup {None, Freed}]
             /\ complete' \in [Slot -> BOOLEAN]
             /\ dserOf' \in [Slot -> DserSlot \cup {NoSlot}]
             /\ dserDev' \in [DserSlot -> {Dser[j] : j \in Inst} \cup {None}]
  BY <1>4 DEF ReleaseSlot
<1>4a. ASSUME NEW i \in Inst, NEW own \in {"down", "up", "lost"},
             PowerOff(i, own) \/ link' = [link EXCEPT ![Ser[i]] = own]
      PROVE  link' \in [Camera -> {"down", "up", "cut", "lost"}]
  BY <1>4a DEF PowerOff
<1>5. ASSUME NEW i \in Inst
      PROVE  /\ ProbeTooEarly(i) => TypeOK'
             /\ ProbeUnready(i) => TypeOK'
             /\ ProbeNoSlot(i) => TypeOK'
             /\ SetupDone(i) => TypeOK'
             /\ ProbeDone(i) => TypeOK'
             /\ RemovePeer(i) => TypeOK'
             /\ ProbeFails(i) => TypeOK'
             /\ PowerCycle(i) => TypeOK'
             /\ RemovePowerOff(i) => TypeOK'
  <2>1. CASE ProbeTooEarly(i)
    BY <1>2, <2>1 DEF ProbeTooEarly, slotVars
  <2>2. CASE ProbeUnready(i)
    BY <2>2 DEF ProbeUnready, Goto, slotVars
  <2>3. CASE ProbeNoSlot(i)
    BY <1>2, <2>3 DEF ProbeNoSlot, slotVars
  <2>4. CASE SetupDone(i)
    BY <2>4 DEF SetupDone, Goto
  <2>5. CASE ProbeDone(i)
    BY <2>5 DEF ProbeDone, Goto, slotVars
  <2>6. CASE RemovePeer(i)
    BY <1>2, <2>6 DEF RemovePeer, slotVars
  <2>7. CASE ProbeFails(i)
    <3>1. primary' \in [Slot -> Inst \cup {None, Freed}]
      BY <2>7 DEF ProbeFails
    <3>2. mishaps' \subseteq {"early", "nospc", "late", "orphans"}
      BY <2>7 DEF ProbeFails
    <3> QED BY <1>2, <2>7, <3>1, <3>2 DEF ProbeFails
  <2>8. CASE PowerCycle(i)
    <3>1. link' \in [Camera -> {"down", "up", "cut", "lost"}]
      BY <1>4a, <2>8 DEF PowerCycle
    <3> QED BY <2>8, <3>1 DEF PowerCycle, Goto, slotVars
  <2>9. CASE RemovePowerOff(i)
    <3>1. link' \in [Camera -> {"down", "up", "cut", "lost"}]
      BY <1>4a, <2>9 DEF RemovePowerOff
    <3> QED BY <2>9, <3>1 DEF RemovePowerOff, Goto, slotVars
  <2> QED BY <2>1, <2>2, <2>3, <2>4, <2>5, <2>6, <2>7, <2>8, <2>9
<1>6. ASSUME NEW i \in Inst, NEW s \in Slot
      PROVE  /\ ProbeDefer(i, s) => TypeOK'
             /\ ProbePeer(i, s) => TypeOK'
             /\ ProbePrimary(i, s) => TypeOK'
             /\ ProbeNoDser(i, s) => TypeOK'
  <2>1. CASE ProbeDefer(i, s)
    BY <1>2, <2>1 DEF ProbeDefer, slotVars
  <2>2. CASE ProbePeer(i, s)
    BY <2>2 DEF ProbePeer, Goto, slotVars
  <2>3. CASE ProbePrimary(i, s)
    <3>1. PICK d \in DserSlots(i) : Claim(i, i, s, d)
      BY <2>3 DEF ProbePrimary, BecomePrimary
    <3>2. d \in DserSlot
      BY DserSlotsFound
    <3>3. /\ pc' \in [Inst -> {"unbound", "setup", "cycled", "linked", "bound", "removing"}]
          /\ mySlot' \in [Inst -> Slot \cup {NoSlot}]
          /\ isPrimary' \in [Inst -> BOOLEAN]
          /\ res' \in [Inst -> {"none", "ok", "defer", "nospc", "err"}]
          /\ UNCHANGED <<link, serdesUp, mishaps>>
      BY <2>3 DEF ProbePrimary, BecomePrimary, Goto
    <3> QED BY <1>3, <3>1, <3>2, <3>3
  <2>4. CASE ProbeNoDser(i, s)
    BY <1>2, <1>3, <2>4 DEF ProbeNoDser
  <2> QED BY <2>1, <2>2, <2>3, <2>4
<1>7. ASSUME NEW i \in Inst
      PROVE  (SetupFails(i) \/ RemoveRelease(i)) => TypeOK'
  <2>1. CASE SetupFails(i)
    <3>1. link' \in [Camera -> {"down", "up", "cut", "lost"}]
      BY <1>4a, <2>1 DEF SetupFails, LinkFails
    <3> QED BY <1>2, <1>4, <2>1, <3>1 DEF SetupFails
  <2>2. CASE RemoveRelease(i)
    BY <1>4, <2>2 DEF RemoveRelease, Goto
  <2> QED BY <2>1, <2>2
<1> QED BY <1>1, <1>5, <1>6, <1>7 DEF Next

LEMMA SlotStepOwned ==
  ASSUME TypeOK, Owned, Next
  PROVE  Owned'
<1> USE ProbeAssumption DEF TypeOK, Owned
<1>1. CASE SerdesBind
  BY <1>1 DEF SerdesBind, slotVars, instVars
<1>2. ASSUME NEW i \in Inst, NEW from, NEW r, Gone(i, from, r), UNCHANGED slotVars
      PROVE  Owned'
  BY <1>2 DEF Gone, Goto, slotVars
<1>3. ASSUME NEW i \in Inst, ProbeUnready(i)  PROVE Owned'
  BY <1>3 DEF ProbeUnready, Goto, slotVars
<1>4. ASSUME NEW i \in Inst, NEW s \in Slot, ProbePeer(i, s)  PROVE Owned'
  BY <1>4 DEF ProbePeer, Goto, slotVars
<1>5. ASSUME NEW i \in Inst, NEW s \in Slot, ProbePrimary(i, s)  PROVE Owned'
  <2>1. /\ primary[s] = None
        /\ primary' = [primary EXCEPT ![s] = i]
        /\ complete' = [complete EXCEPT ![s] = FALSE]
        /\ pc' = [pc EXCEPT ![i] = "setup"]
        /\ mySlot' = [mySlot EXCEPT ![i] = s]
        /\ isPrimary' = [isPrimary EXCEPT ![i] = TRUE]
    BY <1>5 DEF ProbePrimary, BecomePrimary, Claim, Goto, FirstFree, First
  <2>2. \A j \in Inst \ {i} : isPrimary[j] => mySlot[j] # s
    BY <2>1
  <2> QED BY <2>1, <2>2
<1>6. ASSUME NEW i \in Inst, NEW s \in Slot, ProbeNoDser(i, s)  PROVE Owned'
  <2>1. /\ primary[s] = None
        /\ primary' = [primary EXCEPT ![s] = Freed]
        /\ complete' = [complete EXCEPT ![s] = FALSE]
        /\ pc' = [pc EXCEPT ![i] = "unbound"]
        /\ mySlot' = [mySlot EXCEPT ![i] = NoSlot]
        /\ isPrimary' = [isPrimary EXCEPT ![i] = FALSE]
    BY <1>6 DEF ProbeNoDser, Claim, Gone, Goto, FirstFree, First
  <2>2. \A j \in Inst \ {i} : isPrimary[j] => mySlot[j] # s
    BY <2>1
  <2> QED BY <2>1, <2>2
<1>7. ASSUME NEW i \in Inst, SetupDone(i)  PROVE Owned'
  <2>1. \A j \in Inst \ {i} : isPrimary[j] => mySlot[j] # mySlot[i]
    BY <1>7 DEF SetupDone, Goto
  <2> QED BY <1>7, <2>1 DEF SetupDone, Goto
<1>8. ASSUME NEW i \in Inst, ProbeDone(i) \/ PowerCycle(i)  PROVE Owned'
  BY <1>8 DEF ProbeDone, PowerCycle, Goto, slotVars
<1>9. ASSUME NEW i \in Inst, ProbeFails(i)  PROVE Owned'
  BY <1>9 DEF ProbeFails, Gone, Goto
<1>10. ASSUME NEW i \in Inst, NEW from, NEW to \in {"unbound", "removing"}, NEW r,
              Goto(i, from, to, r),
              mySlot' = [mySlot EXCEPT ![i] = NoSlot],
              isPrimary' = [isPrimary EXCEPT ![i] = FALSE],
              ReleaseSlot(i), isPrimary[i]
       PROVE  Owned'
  <2>1. /\ primary' = [primary EXCEPT ![mySlot[i]] = None]
        /\ complete' = [complete EXCEPT ![mySlot[i]] = FALSE]
    BY <1>10 DEF ReleaseSlot
  <2>2. \A j \in Inst \ {i} : isPrimary[j] => mySlot[j] # mySlot[i]
    BY <1>10
  <2> QED BY <1>10, <2>1, <2>2 DEF Goto
<1>11. ASSUME NEW i \in Inst, SetupFails(i)  PROVE Owned'
  <2>1. PICK from \in {"setup", "cycled"}, r \in {"defer", "err"} : Gone(i, from, r)
    BY <1>11 DEF SetupFails
  <2>2. isPrimary[i] /\ ReleaseSlot(i)
    BY <1>11, <2>1 DEF SetupFails, Gone, Goto
  <2> QED BY <1>10, <2>1, <2>2 DEF Gone
<1>12. ASSUME NEW i \in Inst, RemoveRelease(i)  PROVE Owned'
  BY <1>10, <1>12 DEF RemoveRelease
<1>12a. ASSUME NEW i \in Inst, RemovePowerOff(i)  PROVE Owned'
  BY <1>12a DEF RemovePowerOff, Goto, slotVars
<1>13. ASSUME NEW i \in Inst
       PROVE  /\ ProbeTooEarly(i) => Owned'
              /\ ProbeNoSlot(i) => Owned'
              /\ RemovePeer(i) => Owned'
              /\ \A s \in Slot : ProbeDefer(i, s) => Owned'
  BY <1>2 DEF ProbeTooEarly, ProbeNoSlot, RemovePeer, ProbeDefer
<1> QED BY <1>1, <1>3, <1>4, <1>5, <1>6, <1>7, <1>8, <1>9, <1>11, <1>12, <1>12a, <1>13
        DEF Next

LEMMA SlotInvHolds == Spec => []SlotInv
<1>1. SlotInv /\ [Next]_vars => SlotInv'
  <2>1. CASE UNCHANGED vars
    BY <2>1 DEF vars, slotVars, instVars, SlotInv, TypeOK, Owned
  <2> QED BY <2>1, SlotStepType, SlotStepOwned DEF SlotInv
<1> QED BY <1>1, InitSlotInv, PTL DEF Spec

(* Every variable keeps its type: a slot links to a deserializer slot and  *)
(* an instance to a slot of the table (ds5_inited, dser_inited).           *)
THEOREM ProbeTypes == Spec => []TypeOK
BY SlotInvHolds, PTL DEF SlotInv

-----------------------------------------------------------------------------
(* How a step may change the tables: it claims a slot, gives up the slot   *)
(* of a primary, loses the memory of a primary, or completes a link.       *)

Claims(i, s) == ProbePrimary(i, s) \/ ProbeNoDser(i, s)
Releases(i) == SetupFails(i) \/ RemoveRelease(i)

LEMMA TableStep ==
  ASSUME SlotInv, [Next]_vars
  PROVE  \/ UNCHANGED <<primary, dserOf, dserDev>>
         \/ \E i \in Inst, s \in Slot : Claims(i, s)
         \/ \E i \in Inst : Releases(i) /\ ReleaseSlot(i) /\ isPrimary[i]
         \/ \E i \in Inst : ProbeFails(i)
<1>1. CASE UNCHANGED vars
  BY <1>1 DEF vars, slotVars
<1>2. CASE SerdesBind
  BY <1>2 DEF SerdesBind, slotVars
<1>3. ASSUME NEW i \in Inst,
             \/ ProbeTooEarly(i) \/ ProbeUnready(i) \/ ProbeNoSlot(i)
             \/ (\E s \in Slot : ProbeDefer(i, s) \/ ProbePeer(i, s))
             \/ PowerCycle(i) \/ SetupDone(i) \/ ProbeDone(i) \/ RemovePeer(i)
             \/ RemovePowerOff(i)
      PROVE  UNCHANGED <<primary, dserOf, dserDev>>
  BY <1>3 DEF ProbeTooEarly, ProbeUnready, ProbeNoSlot, ProbeDefer, ProbePeer,
              PowerCycle, SetupDone, ProbeDone, RemovePeer, RemovePowerOff, slotVars
<1>4. ASSUME NEW i \in Inst, SetupFails(i)  PROVE ReleaseSlot(i) /\ isPrimary[i]
  BY <1>4 DEF SetupFails, Gone, Goto, SlotInv, Owned
<1>5. ASSUME NEW i \in Inst, RemoveRelease(i)  PROVE ReleaseSlot(i) /\ isPrimary[i]
  BY <1>5 DEF RemoveRelease
<1> QED BY <1>1, <1>2, <1>3, <1>4, <1>5 DEF Next, Claims, Releases

(* Two slots never belong to one camera: ds5_setup_and_link claims one only *)
(* if its search found none, and both happen under serdes_lock__.           *)
THEOREM OneSlot == Spec => []OneSlotPerCamera
<1>1. Init => OneSlotPerCamera
  BY ProbeAssumption DEF Init, OneSlotPerCamera
<1>2. SlotInv /\ OneSlotPerCamera /\ [Next]_vars => OneSlotPerCamera'
  <2> SUFFICES ASSUME SlotInv, OneSlotPerCamera, [Next]_vars
               PROVE  OneSlotPerCamera'
    OBVIOUS
  <2> USE ProbeAssumption DEF SlotInv, TypeOK, OneSlotPerCamera
  <2>1. CASE UNCHANGED <<primary, dserOf, dserDev>>
    BY <2>1
  <2>2. ASSUME NEW i \in Inst, NEW s \in Slot, ProbePrimary(i, s)
        PROVE  OneSlotPerCamera'
    <3>1. /\ \A t \in Slot : ~Match(i, t)
          /\ primary' = [primary EXCEPT ![s] = i]
      BY <2>2 DEF ProbePrimary, BecomePrimary, Claim
    <3> QED BY <3>1 DEF Match
  <2>3. ASSUME NEW i \in Inst, NEW s \in Slot, ProbeNoDser(i, s)
        PROVE  OneSlotPerCamera'
    BY <2>3 DEF ProbeNoDser, Claim
  <2>4. ASSUME NEW i \in Inst, ReleaseSlot(i)  PROVE OneSlotPerCamera'
    BY <2>4 DEF ReleaseSlot
  <2>5. ASSUME NEW i \in Inst, ProbeFails(i)  PROVE OneSlotPerCamera'
    BY <2>5 DEF ProbeFails
  <2> QED BY <2>1, <2>2, <2>3, <2>4, <2>5, TableStep DEF Claims
<1> QED BY <1>1, <1>2, SlotInvHolds, PTL DEF Spec

-----------------------------------------------------------------------------
(* The deserializers' slots.                                               *)

LEMMA DserSharedClaim ==
  ASSUME SlotInv, DserShared, NEW i \in Inst, NEW s \in Slot, ProbePrimary(i, s)
  PROVE  DserShared'
<1> USE ProbeAssumption DEF SlotInv, TypeOK
<1>1. PICK d \in DserSlots(i) : Claim(i, i, s, d)
  BY DEF ProbePrimary, BecomePrimary
<1>2. primary[s] = None
  BY DEF ProbePrimary, FirstFree, First
<1>3. /\ d \in DserSlot
      /\ dserDev[d] = Dser[i] \/ dserDev[d] = None
      /\ dserDev[d] # Dser[i] => \A e \in DserSlot : dserDev[e] # Dser[i]
  BY DserSlotsFound
<1>4. /\ primary' = [primary EXCEPT ![s] = i]
      /\ dserOf' = [dserOf EXCEPT ![s] = d]
      /\ dserDev' = [e \in DserSlot |-> IF e = d THEN Dser[i] ELSE dserDev[e]]
  BY <1>1 DEF Claim
<1>5. ASSUME NEW t \in Slot, primary'[t] \in Inst
      PROVE  dserOf'[t] \in DserSlot /\ dserDev'[dserOf'[t]] = Dser[primary'[t]]
  <2>1. CASE t = s
    BY <1>3, <1>4, <2>1
  <2>2. CASE t # s
    <3>1. /\ primary[t] \in Inst /\ primary'[t] = primary[t]
          /\ dserOf'[t] = dserOf[t]
          /\ dserOf[t] \in DserSlot /\ dserDev[dserOf[t]] = Dser[primary[t]]
      BY <1>4, <1>5, <2>2 DEF DserShared
    <3>2. dserOf[t] = d => Dser[i] = Dser[primary[t]]
      BY <1>3, <3>1
    <3> QED BY <1>4, <3>1, <3>2
  <2> QED BY <2>1, <2>2
<1>6. ASSUME NEW e \in DserSlot, NEW f \in DserSlot,
             dserDev'[e] # None, dserDev'[e] = dserDev'[f]
      PROVE  e = f
  BY <1>3, <1>4, <1>6 DEF DserShared
<1>7. ASSUME NEW e \in DserSlot, dserDev'[e] # None
      PROVE  \E t \in Slot : InUse(t, e)'
  <2>1. CASE e = d
    BY <1>3, <1>4, <2>1 DEF InUse
  <2>2. CASE e # d
    <3>1. PICK t \in Slot : InUse(t, e)
      BY <1>4, <1>7, <2>2 DEF DserShared
    <3>2. t # s
      BY <1>2, <3>1 DEF InUse
    <3> QED BY <1>4, <3>1, <3>2 DEF InUse
  <2> QED BY <2>1, <2>2
<1> QED BY <1>5, <1>6, <1>7 DEF DserShared

(* A slot without a deserializer changes nothing for those that have one.  *)
LEMMA DserSharedNoDser ==
  ASSUME SlotInv, DserShared, NEW i \in Inst, NEW s \in Slot, ProbeNoDser(i, s)
  PROVE  DserShared'
<1> USE ProbeAssumption DEF SlotInv, TypeOK
<1>1. /\ primary[s] = None
      /\ primary' = [primary EXCEPT ![s] = Freed]
      /\ dserOf' = [dserOf EXCEPT ![s] = NoSlot]
  BY DEF ProbeNoDser, Claim, FirstFree, First
<1>2. dserDev' = dserDev
  BY DEF ProbeNoDser, Claim, DserSlot, NoSlot
<1>3. ASSUME NEW t \in Slot, primary'[t] \in Inst
      PROVE  dserOf'[t] \in DserSlot /\ dserDev'[dserOf'[t]] = Dser[primary'[t]]
  BY <1>1, <1>2, <1>3 DEF DserShared
<1>4. ASSUME NEW e \in DserSlot, dserDev'[e] # None
      PROVE  \E t \in Slot : InUse(t, e)'
  <2>1. PICK t \in Slot : InUse(t, e)
    BY <1>2, <1>4 DEF DserShared
  <2>2. t # s
    BY <1>1, <2>1 DEF InUse
  <2> QED BY <1>1, <2>1, <2>2 DEF InUse
<1> QED BY <1>2, <1>3, <1>4 DEF DserShared

(* The deserializer's slot is kept exactly if another camera is linked.    *)
LEMMA DserSharedRelease ==
  ASSUME SlotInv, DserShared, NEW i \in Inst, ReleaseSlot(i), isPrimary[i]
  PROVE  DserShared'
<1> USE ProbeAssumption DEF SlotInv, TypeOK
<1> DEFINE s == mySlot[i]
<1> DEFINE d == dserOf[s]
<1>1. s \in Slot /\ primary[s] = i /\ d \in DserSlot
  BY DEF Owned, DserShared
<1>2. /\ primary' = [primary EXCEPT ![s] = None]
      /\ dserOf' = [dserOf EXCEPT ![s] = NoSlot]
      /\ dserDev' = IF \E t \in Slot \ {s} : InUse(t, d) THEN dserDev
                    ELSE [dserDev EXCEPT ![d] = None]
  BY DEF ReleaseSlot
<1> HIDE DEF s, d
<1>3. ASSUME NEW t \in Slot, primary'[t] \in Inst
      PROVE  dserOf'[t] \in DserSlot /\ dserDev'[dserOf'[t]] = Dser[primary'[t]]
  <2>1. t # s /\ primary[t] \in Inst
    BY <1>1, <1>2, <1>3
  <2>2. dserOf[t] = d => InUse(t, d)
    BY <2>1 DEF InUse
  <2> QED BY <1>1, <1>2, <2>1, <2>2 DEF DserShared
<1>4. ASSUME NEW e \in DserSlot, NEW f \in DserSlot,
             dserDev'[e] # None, dserDev'[e] = dserDev'[f]
      PROVE  e = f
  BY <1>1, <1>2, <1>4 DEF DserShared
<1>5. ASSUME NEW e \in DserSlot, dserDev'[e] # None
      PROVE  \E t \in Slot : InUse(t, e)'
  <2>1. PICK t \in Slot : InUse(t, e) /\ t # s
    <3>1. CASE e = d
      BY <1>1, <1>2, <1>5, <3>1
    <3>2. CASE e # d
      <4>1. PICK t \in Slot : InUse(t, e)
        BY <1>1, <1>2, <1>5, <3>2 DEF DserShared
      <4>2. dserOf[s] = d
        BY DEF d
      <4>3. t # s
        BY <3>2, <4>1, <4>2 DEF InUse
      <4> QED BY <4>1, <4>3
    <3> QED BY <3>1, <3>2
  <2> QED BY <1>2, <2>1 DEF InUse
<1> QED BY <1>3, <1>4, <1>5 DEF DserShared

LEMMA DserSharedFails ==
  ASSUME SlotInv, DserShared, NEW i \in Inst, ProbeFails(i)
  PROVE  DserShared'
<1> USE ProbeAssumption DEF SlotInv, TypeOK
<1>1. /\ primary' = [s \in Slot |-> IF primary[s] = i THEN Freed ELSE primary[s]]
      /\ UNCHANGED <<dserOf, dserDev>>
  BY DEF ProbeFails
<1>2. \A s \in Slot : /\ primary'[s] \in Inst => primary'[s] = primary[s]
                      /\ primary[s] # None => primary'[s] # None
  BY <1>1
<1> QED BY <1>1, <1>2 DEF DserShared, InUse

(* Cameras behind one deserializer share its slot of dser_inited, which is *)
(* kept as long as one of them is linked and no longer.                    *)
THEOREM DserSlotsShared == Spec => []DserShared
<1>1. Init => DserShared
  BY ProbeAssumption DEF Init, DserShared
<1>2. SlotInv /\ DserShared /\ [Next]_vars => DserShared'
  <2> SUFFICES ASSUME SlotInv, DserShared, [Next]_vars
               PROVE  DserShared'
    OBVIOUS
  <2>1. CASE UNCHANGED <<primary, dserOf, dserDev>>
    BY <2>1 DEF DserShared, InUse
  <2> QED BY <2>1, TableStep, DserSharedClaim, DserSharedNoDser,
             DserSharedRelease, DserSharedFails DEF Claims
<1> QED BY <1>1, <1>2, SlotInvHolds, PTL DEF Spec

-----------------------------------------------------------------------------
(* All instances of a camera on its one slot.                              *)

LEMMA PeersAgreePrimary ==
  ASSUME SlotInv, PeersAgree, NEW i \in Inst, NEW s \in Slot, ProbePrimary(i, s)
  PROVE  PeersAgree'
<1> USE ProbeAssumption DEF SlotInv, TypeOK
<1>1. /\ primary[s] = None
      /\ primary' = [primary EXCEPT ![s] = i]
      /\ complete' = [complete EXCEPT ![s] = FALSE]
      /\ pc[i] = "unbound" /\ pc' = [pc EXCEPT ![i] = "setup"]
      /\ mySlot' = [mySlot EXCEPT ![i] = s]
      /\ isPrimary' = [isPrimary EXCEPT ![i] = TRUE]
      /\ mishaps' = mishaps
  BY DEF ProbePrimary, BecomePrimary, Claim, Goto, FirstFree, First
<1> SUFFICES ASSUME mishaps = {}  PROVE PeersAgree'
  BY <1>1 DEF PeersAgree
<1>2. ASSUME NEW j \in Inst, pc'[j] \in {"linked", "bound"}
      PROVE  mySlot'[j] # NoSlot /\ complete'[mySlot'[j]] /\ Match(j, mySlot[j])'
  <2>1. j # i /\ pc[j] \in {"linked", "bound"}
    BY <1>1, <1>2
  <2>2. /\ mySlot[j] # NoSlot /\ complete[mySlot[j]]
        /\ Match(j, mySlot[j])
    BY <2>1 DEF PeersAgree
  <2>3. mySlot[j] # s
    BY <1>1, <2>2 DEF Match
  <2> QED BY <1>1, <2>1, <2>2, <2>3 DEF Match
<1>3. ASSUME NEW t \in Slot, primary'[t] # None
      PROVE  primary'[t] \in Inst /\ mySlot'[primary'[t]] = t /\ isPrimary'[primary'[t]]
  <2>1. CASE t = s
    BY <1>1, <2>1
  <2>2. CASE t # s
    <3>1. primary[t] \in Inst /\ mySlot[primary[t]] = t /\ isPrimary[primary[t]]
      BY <1>1, <1>3, <2>2 DEF PeersAgree
    <3>2. primary[t] # i
      BY <1>1, <3>1 DEF Owned
    <3> QED BY <1>1, <2>2, <3>1, <3>2
  <2> QED BY <2>1, <2>2
<1> QED BY <1>2, <1>3 DEF PeersAgree

(* A peer of a slot found in order is an instance of the slot's camera.    *)
LEMMA PeersAgreePeer ==
  ASSUME SlotInv, PeersAgree, NEW i \in Inst, NEW s \in Slot, ProbePeer(i, s)
  PROVE  PeersAgree'
<1> USE ProbeAssumption DEF SlotInv, TypeOK
<1>1. /\ MayMatch(i, s) /\ complete[s]
      /\ pc[i] = "unbound" /\ pc' = [pc EXCEPT ![i] = "linked"]
      /\ mySlot' = [mySlot EXCEPT ![i] = s]
      /\ UNCHANGED <<primary, complete, isPrimary, mishaps>>
  BY DEF ProbePeer, Found, Goto, slotVars
<1> SUFFICES ASSUME mishaps = {}  PROVE PeersAgree'
  BY <1>1 DEF PeersAgree
<1>2. Match(i, s)
  BY <1>1 DEF MayMatch, Match, PeersAgree
<1>3. s # NoSlot
  BY DEF Slot, NoSlot
<1>4. ASSUME NEW j \in Inst, pc'[j] \in {"linked", "bound"}
      PROVE  mySlot'[j] # NoSlot /\ complete'[mySlot'[j]] /\ Match(j, mySlot[j])'
  BY <1>1, <1>2, <1>3, <1>4 DEF PeersAgree, Match
<1>5. ASSUME NEW t \in Slot, primary'[t] # None
      PROVE  primary'[t] \in Inst /\ mySlot'[primary'[t]] = t /\ isPrimary'[primary'[t]]
  BY <1>1, <1>5 DEF PeersAgree, Owned
<1> QED BY <1>4, <1>5 DEF PeersAgree

LEMMA PeersAgreeDone ==
  ASSUME SlotInv, PeersAgree, NEW i \in Inst, SetupDone(i)
  PROVE  PeersAgree'
<1> USE ProbeAssumption DEF SlotInv, TypeOK
<1>1. /\ pc[i] = "cycled" /\ pc' = [pc EXCEPT ![i] = "linked"]
      /\ complete' = [complete EXCEPT ![mySlot[i]] = TRUE]
      /\ UNCHANGED <<primary, mySlot, isPrimary, mishaps>>
  BY DEF SetupDone, Goto
<1>2. mySlot[i] \in Slot /\ primary[mySlot[i]] = i /\ mySlot[i] # NoSlot
  BY <1>1 DEF Owned, Slot, NoSlot
<1> QED BY <1>1, <1>2 DEF PeersAgree, Match

(* An instance that leaves without being a primary takes nothing with it.  *)
LEMMA PeersAgreeGone ==
  ASSUME SlotInv, PeersAgree, NEW i \in Inst, ~isPrimary[i],
         pc' = [pc EXCEPT ![i] = "unbound"],
         mySlot' = [mySlot EXCEPT ![i] = NoSlot],
         isPrimary' = [isPrimary EXCEPT ![i] = FALSE],
         mishaps' = mishaps, UNCHANGED <<primary, complete>>
  PROVE  PeersAgree'
<1> USE ProbeAssumption DEF SlotInv, TypeOK
<1> SUFFICES ASSUME mishaps = {}  PROVE PeersAgree'
  BY DEF PeersAgree
<1>1. ASSUME NEW j \in Inst, pc'[j] \in {"linked", "bound"}
      PROVE  mySlot'[j] # NoSlot /\ complete'[mySlot'[j]] /\ Match(j, mySlot[j])'
  BY <1>1 DEF PeersAgree, Match
<1>2. ASSUME NEW t \in Slot, primary'[t] # None
      PROVE  primary'[t] \in Inst /\ mySlot'[primary'[t]] = t /\ isPrimary'[primary'[t]]
  BY <1>2 DEF PeersAgree
<1> QED BY <1>1, <1>2 DEF PeersAgree

(* A primary gives its slot up: while it sets up, nobody is linked to the  *)
(* slot yet; later, it must have been the last.                            *)
LEMMA PeersAgreeRelease ==
  ASSUME SlotInv, PeersAgree, NEW i \in Inst, isPrimary[i], ReleaseSlot(i),
         NEW to \in {"unbound", "removing"}, pc' = [pc EXCEPT ![i] = to],
         mySlot' = [mySlot EXCEPT ![i] = NoSlot],
         isPrimary' = [isPrimary EXCEPT ![i] = FALSE],
         pc[i] \in {"setup", "cycled"} \/ Peers(i) = {}, mishaps' = mishaps
  PROVE  PeersAgree'
<1> USE ProbeAssumption DEF SlotInv, TypeOK
<1>1. /\ primary' = [primary EXCEPT ![mySlot[i]] = None]
      /\ complete' = [complete EXCEPT ![mySlot[i]] = FALSE]
      /\ mySlot[i] \in Slot /\ primary[mySlot[i]] = i
  BY DEF ReleaseSlot, Owned
<1> SUFFICES ASSUME mishaps = {}  PROVE PeersAgree'
  BY DEF PeersAgree
<1>2. ASSUME NEW j \in Inst, pc'[j] \in {"linked", "bound"}
      PROVE  mySlot'[j] # NoSlot /\ complete'[mySlot'[j]] /\ Match(j, mySlot[j])'
  <2>1. j # i /\ pc[j] \in {"linked", "bound"}
    BY <1>2
  <2>2. mySlot[j] # NoSlot /\ complete[mySlot[j]] /\ Match(j, mySlot[j])
    BY <2>1 DEF PeersAgree
  <2>3. mySlot[j] # mySlot[i]
    BY <2>1, <2>2 DEF Owned, Peers
  <2> QED BY <1>1, <2>1, <2>2, <2>3 DEF Match
<1>3. ASSUME NEW t \in Slot, primary'[t] # None
      PROVE  primary'[t] \in Inst /\ mySlot'[primary'[t]] = t /\ isPrimary'[primary'[t]]
  BY <1>1, <1>3 DEF PeersAgree
<1> QED BY <1>2, <1>3 DEF PeersAgree

(* As long as none of the four mishaps happened, every instance past the   *)
(* set-up works on the slot of its camera, whose link is complete and      *)
(* whose primary is there.                                                 *)
THEOREM PeersOfOneCamera == Spec => []PeersAgree
<1>1. Init => PeersAgree
  BY ProbeAssumption DEF Init, PeersAgree
<1>2. SlotInv /\ PeersAgree /\ [Next]_vars => PeersAgree'
  <2> SUFFICES ASSUME SlotInv, PeersAgree, [Next]_vars
               PROVE  PeersAgree'
    OBVIOUS
  <2>1. CASE UNCHANGED vars
    BY <2>1 DEF vars, slotVars, instVars, PeersAgree, Match
  <2>2. CASE SerdesBind
    BY <2>2 DEF SerdesBind, slotVars, instVars, PeersAgree, Match
  <2>3. ASSUME NEW i \in Inst,
               \/ ProbeTooEarly(i) \/ ProbeNoSlot(i) \/ RemovePeer(i)
               \/ \E s \in Slot : ProbeDefer(i, s)
        PROVE  PeersAgree'
    <3>1. /\ ~isPrimary[i]
          /\ pc' = [pc EXCEPT ![i] = "unbound"]
          /\ mySlot' = [mySlot EXCEPT ![i] = NoSlot]
          /\ isPrimary' = [isPrimary EXCEPT ![i] = FALSE]
          /\ mishaps' = mishaps /\ UNCHANGED <<primary, complete>>
      BY <2>3 DEF ProbeTooEarly, ProbeNoSlot, RemovePeer, ProbeDefer, Gone,
                  Goto, slotVars, SlotInv, Owned
    <3> QED BY <3>1, PeersAgreeGone
  <2>4. ASSUME NEW i \in Inst, ProbeUnready(i)  PROVE PeersAgree'
    BY <2>4 DEF ProbeUnready, PeersAgree
  <2>5. ASSUME NEW i \in Inst, NEW s \in Slot, ProbeNoDser(i, s)  PROVE PeersAgree'
    BY <2>5 DEF ProbeNoDser, PeersAgree
  <2>6. ASSUME NEW i \in Inst, SetupFails(i)  PROVE PeersAgree'
    <3>1. /\ isPrimary[i] /\ ReleaseSlot(i) /\ pc[i] \in {"setup", "cycled"}
          /\ pc' = [pc EXCEPT ![i] = "unbound"]
          /\ mySlot' = [mySlot EXCEPT ![i] = NoSlot]
          /\ isPrimary' = [isPrimary EXCEPT ![i] = FALSE]
          /\ mishaps' = mishaps
      BY <2>6 DEF SetupFails, Gone, Goto, SlotInv, Owned
    <3> QED BY <3>1, PeersAgreeRelease
  <2>7. ASSUME NEW i \in Inst,
               ProbeDone(i) \/ PowerCycle(i) \/ RemovePowerOff(i)
        PROVE  PeersAgree'
    BY <2>7 DEF ProbeDone, PowerCycle, RemovePowerOff, Goto, slotVars, PeersAgree, Match, SlotInv, TypeOK
  <2>8. ASSUME NEW i \in Inst, ProbeFails(i)  PROVE PeersAgree'
    <3>1. CASE isPrimary[i]
      BY <2>8, <3>1 DEF ProbeFails, PeersAgree
    <3>2. CASE ~isPrimary[i]
      <4>1. /\ primary' = [s \in Slot |-> IF primary[s] = i THEN Freed ELSE primary[s]]
            /\ pc' = [pc EXCEPT ![i] = "unbound"]
            /\ mySlot' = [mySlot EXCEPT ![i] = NoSlot]
            /\ isPrimary' = [isPrimary EXCEPT ![i] = FALSE]
            /\ mishaps' = mishaps /\ complete' = complete
        BY <2>8, <3>2 DEF ProbeFails, Gone, Goto
      <4>2. mishaps # {} => PeersAgree'
        BY <4>1 DEF PeersAgree
      <4>3. CASE mishaps = {}
        <5>1. \A s \in Slot : primary[s] # i
          BY <3>2, <4>3, ProbeAssumption DEF PeersAgree
        <5>2. primary' = primary
          BY <4>1, <5>1 DEF SlotInv, TypeOK
        <5> QED BY <3>2, <4>1, <5>2, PeersAgreeGone
      <4> QED BY <4>2, <4>3
    <3> QED BY <3>1, <3>2
  <2>9. ASSUME NEW i \in Inst, RemoveRelease(i)  PROVE PeersAgree'
    <3>1. CASE Peers(i) # {}
      BY <2>9, <3>1 DEF RemoveRelease, PeersAgree
    <3>2. CASE Peers(i) = {}
      <4>1. /\ isPrimary[i] /\ ReleaseSlot(i)
            /\ pc' = [pc EXCEPT ![i] = "removing"]
            /\ mySlot' = [mySlot EXCEPT ![i] = NoSlot]
            /\ isPrimary' = [isPrimary EXCEPT ![i] = FALSE]
            /\ mishaps' = mishaps
        BY <2>9, <3>2 DEF RemoveRelease, Goto
      <4> QED BY <3>2, <4>1, PeersAgreeRelease
    <3> QED BY <3>1, <3>2
  <2> QED BY <2>1, <2>2, <2>3, <2>4, <2>5, <2>6, <2>7, <2>8, <2>9,
             PeersAgreePrimary, PeersAgreePeer, PeersAgreeDone DEF Next
<1> QED BY <1>1, <1>2, SlotInvHolds, PTL DEF Spec

-----------------------------------------------------------------------------
(* The links.                                                              *)

(* A complete slot, and a primary past the power cycle, have a link that   *)
(* was set up.                                                             *)
LinkInv ==
  /\ \A s \in Slot : complete[s] /\ primary[s] \in Inst => link[Ser[primary[s]]] # "down"
  /\ \A i \in Inst : pc[i] = "cycled" => link[Ser[i]] # "down"

(* A set-up that fails puts the link of its camera down, and no other slot *)
(* or instance depends on that link then.                                  *)
LEMMA LinkInvRelease ==
  ASSUME SlotInv, OneSlotPerCamera, LinkInv, NEW i \in Inst, Releases(i)
  PROVE  LinkInv'
<1> USE ProbeAssumption DEF SlotInv, TypeOK
<1>1. /\ isPrimary[i] /\ ReleaseSlot(i)
      /\ \E to \in {"unbound", "removing"} : pc' = [pc EXCEPT ![i] = to]
  BY DEF Releases, SetupFails, RemoveRelease, Gone, Goto, Owned
<1>2. /\ primary' = [primary EXCEPT ![mySlot[i]] = None]
      /\ complete' = [complete EXCEPT ![mySlot[i]] = FALSE]
      /\ mySlot[i] \in Slot /\ primary[mySlot[i]] = i
  BY <1>1 DEF ReleaseSlot, Owned
<1>3. ASSUME NEW k \in Camera, k # Ser[i], link[k] # "down"  PROVE link'[k] # "down"
  BY <1>3 DEF Releases, SetupFails, LinkFails, RemoveRelease, PowerOff
<1>4. ASSUME NEW s \in Slot, complete'[s], primary'[s] \in Inst
      PROVE  link'[Ser[primary'[s]]] # "down"
  <2>1. s # mySlot[i] /\ primary[s] \in Inst /\ complete[s] /\ primary'[s] = primary[s]
    BY <1>2, <1>4
  <2>2. Ser[primary[s]] # Ser[i]
    BY <1>2, <2>1 DEF OneSlotPerCamera
  <2> QED BY <1>3, <2>1, <2>2 DEF LinkInv, Camera
<1>5. ASSUME NEW j \in Inst, pc'[j] = "cycled"  PROVE link'[Ser[j]] # "down"
  <2>1. j # i /\ pc[j] = "cycled"
    BY <1>1, <1>5
  <2>2. mySlot[j] \in Slot /\ primary[mySlot[j]] = j
    BY <2>1 DEF Owned
  <2>3. Ser[j] # Ser[i]
    BY <1>2, <2>1, <2>2 DEF OneSlotPerCamera
  <2> QED BY <1>3, <2>1, <2>3 DEF LinkInv, Camera
<1> QED BY <1>4, <1>5 DEF LinkInv

(* The power-off of a removed primary may end the link that its successor  *)
(* has set up, which then is lost but not down.                            *)
LEMMA LinkInvPowerOff ==
  ASSUME SlotInv, LinkInv, NEW i \in Inst, RemovePowerOff(i)
  PROVE  LinkInv'
<1> USE ProbeAssumption DEF SlotInv, TypeOK
<1>1. /\ UNCHANGED <<primary, complete>>
      /\ pc' = [pc EXCEPT ![i] = "unbound"]
      /\ PowerOff(i, IF Renewed(i) THEN "lost" ELSE "down")
  BY DEF RemovePowerOff, Goto, slotVars
<1>2. ASSUME NEW k \in Camera, link[k] # "down", k = Ser[i] => Renewed(i)
      PROVE  link'[k] # "down"
  BY <1>1, <1>2 DEF PowerOff
<1>3. ASSUME NEW s \in Slot, complete'[s], primary'[s] \in Inst
      PROVE  link'[Ser[primary'[s]]] # "down"
  <2>1. Ser[primary[s]] = Ser[i] => Renewed(i)
    BY <1>1, <1>3 DEF Renewed, Match
  <2> QED BY <1>1, <1>2, <1>3, <2>1 DEF LinkInv, Camera
<1>4. ASSUME NEW j \in Inst, pc'[j] = "cycled"  PROVE link'[Ser[j]] # "down"
  <2>1. j # i /\ pc[j] = "cycled"
    BY <1>1, <1>4
  <2>2. mySlot[j] \in Slot /\ primary[mySlot[j]] = j
    BY <2>1 DEF Owned
  <2>3. Ser[j] = Ser[i] => Renewed(i)
    BY <2>1, <2>2 DEF Renewed, Match
  <2> QED BY <1>2, <2>1, <2>3 DEF LinkInv, Camera
<1> QED BY <1>3, <1>4 DEF LinkInv

LEMMA LinkInvStep ==
  ASSUME SlotInv, OneSlotPerCamera, LinkInv, [Next]_vars
  PROVE  LinkInv'
<1> USE ProbeAssumption DEF SlotInv, TypeOK
<1>1. CASE UNCHANGED vars
  BY <1>1 DEF vars, slotVars, instVars, LinkInv
<1>2. CASE SerdesBind
  BY <1>2 DEF SerdesBind, slotVars, instVars, LinkInv
<1>3. ASSUME NEW i \in Inst,
             \/ ProbeTooEarly(i) \/ ProbeUnready(i) \/ ProbeNoSlot(i)
             \/ (\E s \in Slot : ProbeDefer(i, s) \/ ProbePeer(i, s))
             \/ ProbeDone(i) \/ RemovePeer(i)
      PROVE  LinkInv'
  <2>1. /\ UNCHANGED <<primary, complete, link>>
        /\ \E to \in {"unbound", "linked", "bound"} : pc' = [pc EXCEPT ![i] = to]
    BY <1>3 DEF ProbeTooEarly, ProbeUnready, ProbeNoSlot, ProbeDefer, ProbePeer,
                ProbeDone, RemovePeer, Gone, Goto, slotVars
  <2> QED BY <2>1 DEF LinkInv
<1>4. ASSUME NEW i \in Inst, NEW s \in Slot, Claims(i, s)  PROVE LinkInv'
  <2>1. /\ complete' = [complete EXCEPT ![s] = FALSE]
        /\ \E p \in Inst \cup {Freed} : primary' = [primary EXCEPT ![s] = p]
        /\ \E to \in {"unbound", "setup"} : pc' = [pc EXCEPT ![i] = to]
        /\ UNCHANGED link
    BY <1>4 DEF Claims, ProbePrimary, ProbeNoDser, BecomePrimary, Claim, Gone, Goto
  <2> QED BY <2>1 DEF LinkInv
<1>5. ASSUME NEW i \in Inst, ProbeFails(i)  PROVE LinkInv'
  BY <1>5 DEF ProbeFails, Gone, Goto, LinkInv
<1>6. ASSUME NEW i \in Inst, PowerCycle(i)  PROVE LinkInv'
  <2>1. /\ UNCHANGED <<primary, complete>> /\ pc' = [pc EXCEPT ![i] = "cycled"]
        /\ PowerOff(i, "up")
    BY <1>6 DEF PowerCycle, Goto, slotVars
  <2>2. link'[Ser[i]] = "up"
    BY <2>1 DEF PowerOff, Camera
  <2>3. ASSUME NEW k \in Camera, link[k] # "down"  PROVE link'[k] # "down"
    BY <2>1, <2>3 DEF PowerOff
  <2> QED BY <2>1, <2>2, <2>3 DEF LinkInv, Camera
<1>7. ASSUME NEW i \in Inst, SetupDone(i)  PROVE LinkInv'
  <2>1. /\ pc[i] = "cycled" /\ pc' = [pc EXCEPT ![i] = "linked"]
        /\ complete' = [complete EXCEPT ![mySlot[i]] = TRUE]
        /\ UNCHANGED <<primary, link>>
    BY <1>7 DEF SetupDone, Goto
  <2>2. primary[mySlot[i]] = i
    BY <2>1 DEF Owned
  <2> QED BY <2>1, <2>2 DEF LinkInv
<1> QED BY <1>1, <1>2, <1>3, <1>4, <1>5, <1>6, <1>7, LinkInvRelease, LinkInvPowerOff
        DEF Next, Claims, Releases

(* Whoever is past the SerDes set-up, as long as none of the four mishaps  *)
(* happened, uses a link that the primary of its slot set up, which no     *)
(* failed set-up took down: only the power-off for another camera behind   *)
(* the deserializer or for a removed primary of its own can have ended it. *)
THEOREM LinksOfPeersStay == Spec => []LinksStay
<1>1. Init => LinkInv
  BY ProbeAssumption DEF Init, LinkInv
<1>2. SlotInv /\ LinkInv /\ PeersAgree => LinksStay
  <2> SUFFICES ASSUME SlotInv, LinkInv, PeersAgree, mishaps = {},
                      NEW i \in Inst, pc[i] \in {"linked", "bound"}
               PROVE  link[Ser[i]] # "down"
    BY DEF LinksStay
  <2>1. mySlot[i] \in Slot /\ complete[mySlot[i]] /\ Match(i, mySlot[i])
    BY DEF PeersAgree, SlotInv, TypeOK
  <2> QED BY <2>1 DEF LinkInv, Match
<1>3. SlotInv /\ OneSlotPerCamera /\ LinkInv /\ [Next]_vars => LinkInv'
  BY LinkInvStep
<1> QED BY <1>1, <1>2, <1>3, SlotInvHolds, OneSlot, PeersOfOneCamera, PTL DEF Spec
=============================================================================
