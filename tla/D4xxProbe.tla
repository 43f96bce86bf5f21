------------------------------ MODULE D4xxProbe ------------------------------
(***************************************************************************)
(* Probing and removing driver instances (ds5_probe, ds5_serdes_setup,     *)
(* ds5_setup_and_link, ds5_release_slot and ds5_remove of d4xx.c).         *)
(*                                                                         *)
(* The instances of one camera hang off one serializer and must share one  *)
(* slot of ds5_inited[]; cameras behind one deserializer share one slot of *)
(* dser_inited[].  The first instance that probes becomes the primary and  *)
(* sets the link up, the others are deferred until that is done.  Devices  *)
(* of one bus probe in any order and may overlap; slots are searched and   *)
(* claimed under serdes_lock__, so that is one step.  The set-up of a link *)
(* power-cycles the deserializer, whoever else streams through it.         *)
(***************************************************************************)
EXTENDS Integers, FiniteSets

CONSTANTS
  Inst,        \* I2C devices the driver binds to
  Ser,         \* Ser[i]: the serializer of i, one per camera
  Dser,        \* Dser[i]: the deserializer of i
  NSlot,       \* MAX_DS5_NUM
  NDser,       \* MAX_DSER_NUM
  None,        \* a NULL pointer
  Freed        \* a pointer to an instance that is gone

ASSUME ProbeAssumption ==
  /\ NSlot \in Nat /\ NDser \in Nat
  /\ DOMAIN Ser = Inst /\ DOMAIN Dser = Inst
  /\ \A i, j \in Inst : Ser[i] = Ser[j] => Dser[i] = Dser[j]
  /\ None \notin Inst /\ Freed \notin Inst \cup {None}
  /\ \A i \in Inst : Dser[i] # None

VARIABLES
  primary,     \* ds5_inited[s].ds5_primary
  complete,    \* ds5_inited[s].serdes_setup_complete
  dserOf,      \* ds5_inited[s].dser_control
  dserDev,     \* dser_inited[d].dser_dev
  pc,          \* where the probe of an instance is
  mySlot,      \* state->ds5_dev
  isPrimary,   \* state->serdes_primary
  res,         \* what its last probe returned
  link,        \* link[c]: the link of camera c; once up, a neighbour may cut
               \* it, and a removed primary may take it from its successors
  serdesUp,    \* the SerDes drivers are bound
  mishaps      \* history: what happened that the slots do not survive

slotVars == <<primary, complete, dserOf, dserDev>>
instVars == <<pc, mySlot, isPrimary, res>>
vars == <<slotVars, instVars, link, serdesUp, mishaps>>

Slot == 1..NSlot
DserSlot == 1..NDser
NoSlot == 0
Camera == {Ser[i] : i \in Inst}

TypeOK ==
  /\ primary \in [Slot -> Inst \cup {None, Freed}]
  /\ complete \in [Slot -> BOOLEAN]
  /\ dserOf \in [Slot -> DserSlot \cup {NoSlot}]
  /\ dserDev \in [DserSlot -> {Dser[i] : i \in Inst} \cup {None}]
  /\ pc \in [Inst -> {"unbound", "setup", "cycled", "linked", "bound", "removing"}]
  /\ mySlot \in [Inst -> Slot \cup {NoSlot}]
  /\ isPrimary \in [Inst -> BOOLEAN]
  /\ res \in [Inst -> {"none", "ok", "defer", "nospc", "err"}]
  /\ link \in [Camera -> {"down", "up", "cut", "lost"}]
  /\ serdesUp \in BOOLEAN
  /\ mishaps \subseteq {"early", "nospc", "late", "orphans"}

Init ==
  /\ primary = [s \in Slot |-> None]
  /\ complete = [s \in Slot |-> FALSE]
  /\ dserOf = [s \in Slot |-> NoSlot]
  /\ dserDev = [d \in DserSlot |-> None]
  /\ pc = [i \in Inst |-> "unbound"]
  /\ mySlot = [i \in Inst |-> NoSlot]
  /\ isPrimary = [i \in Inst |-> FALSE]
  /\ res = [i \in Inst |-> "none"]
  /\ link = [k \in Camera |-> "down"]
  /\ serdesUp \in BOOLEAN
  /\ mishaps = {}

First(S) == {s \in S : \A t \in S : s <= t}

Goto(i, from, to, r) ==
  /\ pc[i] = from
  /\ pc' = [pc EXCEPT ![i] = to]
  /\ res' = [res EXCEPT ![i] = r]

\* A probe that fails, or a removal: the instance and what it knew is gone.
Gone(i, from, r) ==
  /\ Goto(i, from, "unbound", r)
  /\ mySlot' = [mySlot EXCEPT ![i] = NoSlot]
  /\ isPrimary' = [isPrimary EXCEPT ![i] = FALSE]

-----------------------------------------------------------------------------
(* ds5_board_setup and ds5_setup_and_link.                                 *)

SerdesBind ==
  /\ ~serdesUp /\ serdesUp' = TRUE
  /\ UNCHANGED slotVars /\ UNCHANGED instVars /\ UNCHANGED <<link, mishaps>>

\* The serializer's or deserializer's I2C client is not there yet, ...
ProbeTooEarly(i) ==
  /\ ~serdesUp
  /\ Gone(i, "unbound", "defer")
  /\ UNCHANGED slotVars /\ UNCHANGED <<link, serdesUp, mishaps>>

\* ... or it is there without a driver: err still holds the 0 of the last
\* property read, and the probe goes on as a peer without a slot.
ProbeUnready(i) ==
  /\ ~serdesUp
  /\ Goto(i, "unbound", "linked", "none")
  /\ mishaps' = mishaps \cup {"early"}
  /\ UNCHANGED <<mySlot, isPrimary>> /\ UNCHANGED slotVars
  /\ UNCHANGED <<link, serdesUp>>

\* The slot's primary has the serializer of i.  Through a pointer to a primary
\* that is gone, either answer may be read.
Match(i, s) == primary[s] \in Inst /\ Ser[primary[s]] = Ser[i]
MayMatch(i, s) == primary[s] = Freed \/ Match(i, s)

\* The slot the search stops at.
Found(i, s) == serdesUp /\ MayMatch(i, s) /\ \A t \in 1..(s - 1) : ~Match(i, t)

\* Mutant: the search does not look whether the link is complete.
ProbePeerEarly(i, s) ==
  /\ Found(i, s)
  /\ Goto(i, "unbound", "linked", "none")
  /\ mySlot' = [mySlot EXCEPT ![i] = s]
  /\ UNCHANGED isPrimary /\ UNCHANGED slotVars /\ UNCHANGED <<link, serdesUp, mishaps>>

\* The primary of this camera still sets the link up.
ProbeDefer(i, s) ==
  /\ Found(i, s) /\ ~complete[s]
  /\ Gone(i, "unbound", "defer")
  /\ UNCHANGED slotVars /\ UNCHANGED <<link, serdesUp, mishaps>>

\* Another instance of this camera is the primary and is done.
ProbePeer(i, s) ==
  /\ Found(i, s) /\ complete[s]
  /\ Goto(i, "unbound", "linked", "none")
  /\ mySlot' = [mySlot EXCEPT ![i] = s]
  /\ UNCHANGED isPrimary /\ UNCHANGED slotVars /\ UNCHANGED <<link, serdesUp, mishaps>>

FirstFree == First({s \in Slot : primary[s] = None})

\* The slot of the deserializer, or else the first free one.
DserSlots(i) ==
  LET mine == {d \in DserSlot : dserDev[d] = Dser[i]}
  IN  First(IF mine # {} THEN mine ELSE {d \in DserSlot : dserDev[d] = None})

\* Mutant: the search has moved on from the deserializer slot it links.
ClaimNext(p, i, s, d) ==
  /\ primary' = [primary EXCEPT ![s] = p]
  /\ complete' = [complete EXCEPT ![s] = FALSE]
  /\ dserOf' = [dserOf EXCEPT ![s] = d + 1]
  /\ dserDev' = [e \in DserSlot |-> IF e = d THEN Dser[i] ELSE dserDev[e]]

\* ds5_init_ds5_dev, and the link to deserializer slot d.
Claim(p, i, s, d) ==
  /\ primary' = [primary EXCEPT ![s] = p]
  /\ complete' = [complete EXCEPT ![s] = FALSE]
  /\ dserOf' = [dserOf EXCEPT ![s] = d]
  /\ dserDev' = [e \in DserSlot |-> IF e = d THEN Dser[i] ELSE dserDev[e]]

BecomePrimary(i, s) ==
  /\ \E d \in DserSlots(i) : Claim(i, i, s, d)
  /\ Goto(i, "unbound", "setup", "none")
  /\ mySlot' = [mySlot EXCEPT ![i] = s]
  /\ isPrimary' = [isPrimary EXCEPT ![i] = TRUE]
  /\ UNCHANGED <<link, serdesUp, mishaps>>

\* Mutant: a slot whose link is not set up yet does not count as a match.
ProbePrimaryTwice(i, s) ==
  /\ serdesUp /\ \A t \in Slot : Match(i, t) => ~complete[t]
  /\ s \in FirstFree
  /\ BecomePrimary(i, s)

\* The first instance of a camera takes the first free slot.
ProbePrimary(i, s) ==
  /\ serdesUp /\ \A t \in Slot : ~Match(i, t)
  /\ s \in FirstFree
  /\ BecomePrimary(i, s)

\* All slots are taken ...
ProbeNoSlot(i) ==
  /\ serdesUp /\ \A t \in Slot : ~Match(i, t)
  /\ FirstFree = {}
  /\ Gone(i, "unbound", "nospc")
  /\ UNCHANGED slotVars /\ UNCHANGED <<link, serdesUp, mishaps>>

\* ... or one is claimed before the deserializer finds none: the claim stays.
ProbeNoDser(i, s) ==
  /\ serdesUp /\ \A t \in Slot : ~Match(i, t)
  /\ s \in FirstFree /\ DserSlots(i) = {}
  /\ Claim(Freed, i, s, NoSlot)
  /\ Gone(i, "unbound", "nospc")
  /\ mishaps' = mishaps \cup {"nospc"}
  /\ UNCHANGED <<link, serdesUp>>

-----------------------------------------------------------------------------
(* ds5_release_slot, under serdes_lock__.                                  *)

InUse(s, d) == primary[s] # None /\ dserOf[s] = d

\* Mutant: other cameras behind the deserializer are not looked for.
ReleaseSlotAlone(i) ==
  LET s == mySlot[i]  d == dserOf[s]
  IN  /\ primary' = [primary EXCEPT ![s] = None]
      /\ complete' = [complete EXCEPT ![s] = FALSE]
      /\ dserOf' = [dserOf EXCEPT ![s] = NoSlot]
      /\ dserDev' = [dserDev EXCEPT ![d] = None]

\* The slot is given up, and the deserializer's if no other camera uses it.
ReleaseSlot(i) ==
  LET s == mySlot[i]  d == dserOf[s]
  IN  /\ primary' = [primary EXCEPT ![s] = None]
      /\ complete' = [complete EXCEPT ![s] = FALSE]
      /\ dserOf' = [dserOf EXCEPT ![s] = NoSlot]
      /\ dserDev' = IF \E t \in Slot \ {s} : InUse(t, d) THEN dserDev
                    ELSE [dserDev EXCEPT ![d] = None]

-----------------------------------------------------------------------------
(* The rest of the probe, and removal.                                     *)

Behind(d) == {Ser[j] : j \in {j \in Inst : Dser[j] = d}}

\* The deserializer of i loses its power, which ends with the link of i as
\* given and cuts the others behind it.
PowerOff(i, own) ==
  link' = [k \in Camera |->
             IF k = Ser[i] THEN own
             ELSE IF k \in Behind(Dser[i]) /\ link[k] = "up" THEN "cut"
             ELSE link[k]]

\* Pairing, registration and ds5_gmsl_serdes_setup of a primary.
PowerCycle(i) ==
  /\ Goto(i, "setup", "cycled", "none")
  /\ PowerOff(i, "up")
  /\ UNCHANGED <<mySlot, isPrimary>> /\ UNCHANGED slotVars
  /\ UNCHANGED <<serdesUp, mishaps>>

\* The settings follow, and the slot is ready for peers.
SetupDone(i) ==
  /\ Goto(i, "cycled", "linked", "none")
  /\ complete' = [complete EXCEPT ![mySlot[i]] = TRUE]
  /\ UNCHANGED <<primary, dserOf, dserDev, mySlot, isPrimary>>
  /\ UNCHANGED <<link, serdesUp, mishaps>>

\* A step of the set-up fails: before the power cycle, in it, or after it.
LinkFails(i) ==
  \/ link' = [link EXCEPT ![Ser[i]] = "down"]
  \/ pc[i] = "setup" /\ PowerOff(i, "down")

\* Mutant: a failed set-up keeps its slot.
SetupFailsKeepsSlot(i) ==
  /\ LinkFails(i)
  /\ \E from \in {"setup", "cycled"}, r \in {"defer", "err"} : Gone(i, from, r)
  /\ UNCHANGED slotVars
  /\ UNCHANGED <<serdesUp, mishaps>>

SetupFails(i) ==
  /\ LinkFails(i)
  /\ \E from \in {"setup", "cycled"}, r \in {"defer", "err"} : Gone(i, from, r)
  /\ ReleaseSlot(i)
  /\ UNCHANGED <<serdesUp, mishaps>>

\* The camera answers, its device type is valid and its nodes are registered,
\* or it is in recovery and only gets its DFU device.
ProbeDone(i) ==
  /\ mySlot[i] # NoSlot
  /\ Goto(i, "linked", "bound", "ok")
  /\ UNCHANGED <<mySlot, isPrimary>> /\ UNCHANGED slotVars
  /\ UNCHANGED <<link, serdesUp, mishaps>>

\* It does not: the probe fails without a word to ds5_release_slot.
ProbeFails(i) ==
  /\ mySlot[i] # NoSlot
  /\ Gone(i, "linked", "err")
  /\ primary' = [s \in Slot |-> IF primary[s] = i THEN Freed ELSE primary[s]]
  /\ mishaps' = IF isPrimary[i] THEN mishaps \cup {"late"} ELSE mishaps
  /\ UNCHANGED <<complete, dserOf, dserDev, link, serdesUp>>

Peers(i) == {j \in Inst \ {i} : mySlot[j] = mySlot[i]}

RemovePeer(i) ==
  /\ ~isPrimary[i]
  /\ Gone(i, "bound", "none")
  /\ UNCHANGED slotVars /\ UNCHANGED <<link, serdesUp, mishaps>>

\* A primary gives its slot up first, whether it has peers or not, ...
RemoveRelease(i) ==
  /\ isPrimary[i]
  /\ Goto(i, "bound", "removing", "none")
  /\ mySlot' = [mySlot EXCEPT ![i] = NoSlot]
  /\ isPrimary' = [isPrimary EXCEPT ![i] = FALSE]
  /\ ReleaseSlot(i)
  /\ mishaps' = IF Peers(i) # {} THEN mishaps \cup {"orphans"} ELSE mishaps
  /\ UNCHANGED <<link, serdesUp>>

\* Another primary of this camera has set the link up again.
Renewed(i) == \E s \in Slot : Match(i, s) /\ (complete[s] \/ pc[primary[s]] = "cycled")

\* ... and then, under no lock, the power of the deserializer, whoever set up
\* or uses a link through it by now.  The controls it resets and the serializer
\* it unpairs before that are part of this step: until they are unpaired, a new
\* primary of the camera cannot pair and fails.
RemovePowerOff(i) ==
  /\ Goto(i, "removing", "unbound", "none")
  /\ PowerOff(i, IF Renewed(i) THEN "lost" ELSE "down")
  /\ UNCHANGED <<mySlot, isPrimary>> /\ UNCHANGED slotVars
  /\ UNCHANGED <<serdesUp, mishaps>>

Next ==
  \/ SerdesBind
  \/ \E i \in Inst :
       \/ ProbeTooEarly(i) \/ ProbeUnready(i) \/ ProbeNoSlot(i)
       \/ \E s \in Slot : ProbeDefer(i, s) \/ ProbePeer(i, s)
                          \/ ProbePrimary(i, s) \/ ProbeNoDser(i, s)
       \/ PowerCycle(i) \/ SetupDone(i) \/ SetupFails(i) \/ ProbeDone(i) \/ ProbeFails(i)
       \/ RemovePeer(i) \/ RemoveRelease(i) \/ RemovePowerOff(i)

Spec == Init /\ [][Next]_vars

-----------------------------------------------------------------------------
(* Properties                                                              *)

\* TypeOK, above: every variable keeps its type, in particular a slot is linked
\* to a deserializer slot and an instance to a slot of the table.

\* Two slots never belong to the same camera, however its instances overlap
\* while they probe, fail, are deferred and are removed: otherwise two resets
\* of the camera would not know of each other.
OneSlotPerCamera ==
  \A s, t \in Slot : primary[s] \in Inst /\ primary[t] \in Inst
    /\ Ser[primary[s]] = Ser[primary[t]] => s = t

\* Cameras behind one deserializer share its slot and with it its reset
\* generation, until the last of them is gone; no deserializer slot is lost.
DserShared ==
  /\ \A s \in Slot : primary[s] \in Inst =>
       dserOf[s] \in DserSlot /\ dserDev[dserOf[s]] = Dser[primary[s]]
  /\ \A d, e \in DserSlot : dserDev[d] # None /\ dserDev[d] = dserDev[e] => d = e
  /\ \A d \in DserSlot : dserDev[d] # None => \E s \in Slot : InUse(s, d)

\* All instances of a camera work on the camera's one slot, whose link is set
\* up by an instance that is still there; only the four mishaps break this.
PeersAgree ==
  mishaps = {} =>
    /\ \A i \in Inst : pc[i] \in {"linked", "bound"} =>
         mySlot[i] # NoSlot /\ complete[mySlot[i]] /\ Match(i, mySlot[i])
    /\ \A s \in Slot : primary[s] # None =>
         primary[s] \in Inst /\ mySlot[primary[s]] = s /\ isPrimary[primary[s]]

\* Whoever is past the SerDes set-up uses a link that was set up for it: by the
\* primary of its slot, and not taken down by a set-up that failed.  What can
\* have ended the link since is the power-off of another camera behind the
\* deserializer ("cut") or of an older primary of its own camera, which was
\* removed while the link was set up anew ("lost").
LinksStay ==
  mishaps = {} =>
    \A i \in Inst : pc[i] \in {"linked", "bound"} => link[Ser[i]] # "down"

\* "SerDes devices not ready -> Return -EPROBE_DEFER, kernel will retry": a
\* probe that goes past the SerDes set-up has a slot.
NotReadyDefers == \A i \in Inst : pc[i] = "linked" => mySlot[i] # NoSlot
=============================================================================
