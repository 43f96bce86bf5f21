---------------------------- MODULE D4xxControls ----------------------------
(***************************************************************************)
(* The V4L2 controls of d4xx.c that send commands to the camera's firmware *)
(* (ds5_s_ctrl, ds5_g_volatile_ctrl) through the HWMC mailbox: a data      *)
(* buffer, an EXEC register, a status and the length of the answer.  The   *)
(* mailbox belongs to the camera; the instances of its streams share it.   *)
(*                                                                         *)
(* The V4L2 framework holds the lock of an instance's control handler      *)
(* around the set and the get of a control.  A set also takes state->lock, *)
(* a get does not, and no lock is shared by two instances: nothing orders  *)
(* the accesses of two instances to the mailbox.  Each action is one       *)
(* access to the mailbox or one wait for a lock.                           *)
(***************************************************************************)
EXTENDS FiniteSets

CONSTANTS
  Thread,      \* clients, each with one video node open and in at most one call
  Inst,        \* instances (one per stream) of one camera
  Opened,      \* the ways in which the clients may have opened the nodes
  Calls,       \* Calls[t]: the calls client t makes
  Nobody,      \* no thread
  Faults       \* TRUE: I2C transactions may fail, the firmware may be late

ASSUME ControlsAssumption ==
  /\ Nobody \notin Thread
  /\ Opened \subseteq [Thread -> Inst]
  /\ Faults \in BOOLEAN

\* The calls, grouped by the shape of their handler:
\*   set      AE_ROI_SET, AE_SETPOINT_SET, *_CALIBRATION_TABLE_SET
\*   ewb      EWB            erb     ERB          hwmc    HWMC
\*   rwset    HWMC_RW, set   rwget   HWMC_RW, get
\*   fetch    *_CALIBRATION_TABLE_GET, GVD, LOG
\*   aeget    AE_ROI_GET, AE_SETPOINT_GET
\*   open     ds5_mux_open, which only needs state->lock
Op == {"set", "ewb", "erb", "hwmc", "rwset", "rwget", "fetch", "aeget", "open"}

Locking == {"set", "ewb", "erb", "hwmc", "rwset", "open"}  \* take state->lock
Sending == Op \ {"rwget", "open"}                          \* ds5_hwmc_send
Getting == {"erb", "hwmc", "rwget", "aeget"}               \* ds5_get_hwmc
Reading == Getting \cup {"fetch"}                          \* return an answer

VARIABLES
  hlock,       \* hlock[i]: who holds the lock of i's control handler
  slock,       \* slock[i]: who holds state->lock
  pc,          \* where thread t is
  op,          \* its call, or the last one
  at,          \* the instance whose node t has open
  res,         \* what the call is about to return
  good,        \* history: what it read so far was about its own command
  mishap,      \* history: threads whose command was interfered with
  leaked,      \* history: instances whose state->lock was left locked
  data,        \* HWMC_DATA
  len,         \* whose command was carried out last: HWMC_RESP_LEN is about it
  status,      \* HWMC_STATUS
  pending      \* the command the firmware works on

locks == <<hlock, slock, leaked>>
callVars == <<op, at>>
mailbox == <<data, len, status, pending>>
vars == <<locks, pc, callVars, res, good, mishap, mailbox>>

Author == Thread \cup {Nobody}
Content == [kind : {"command", "answer", "code", "none"}, by : Author]
Nothing == [kind |-> "none", by |-> Nobody]
Outcome == {"none", "own", "wrong", "void", "refused", "blank", "error"}
Pc == {"idle", "handler", "lock", "data", "exec", "wait", "code", "len",
       "answer", "done"}

TypeOK ==
  /\ hlock \in [Inst -> Author]
  /\ slock \in [Inst -> Author]
  /\ pc \in [Thread -> Pc]
  /\ op \in [Thread -> Op]
  /\ at \in [Thread -> Inst]
  /\ res \in [Thread -> Outcome]
  /\ good \in [Thread -> BOOLEAN]
  /\ mishap \subseteq Thread
  /\ leaked \subseteq Inst
  /\ data \in Content
  /\ len \in Author
  /\ status \in {"ok", "err", "wip"}
  /\ pending \in Content

Init ==
  /\ hlock = [i \in Inst |-> Nobody]
  /\ slock = [i \in Inst |-> Nobody]
  /\ pc = [t \in Thread |-> "idle"]
  /\ op = [t \in Thread |-> "open"]
  /\ at \in Opened
  /\ res = [t \in Thread |-> "none"]
  /\ good = [t \in Thread |-> TRUE]
  /\ mishap = {}
  /\ leaked = {}
  /\ data = Nothing
  /\ len = Nobody
  /\ status = "ok"
  /\ pending = Nothing

Put(f, x, v) == [f EXCEPT ![x] = v]
Step(t, from, to) == pc[t] = from /\ pc' = Put(pc, t, to)

\* The call is over but for the locks it gives back.
Finish(t, from, r) == Step(t, from, "done") /\ res' = Put(res, t, r)

\* What the mailbox still holds of t's earlier commands is nobody's any more.
Forget(t) ==
  /\ data' = IF data.by = t THEN [data EXCEPT !.by = Nobody] ELSE data
  /\ pending' = IF pending.by = t THEN [pending EXCEPT !.by = Nobody] ELSE pending
  /\ len' = IF len = t THEN Nobody ELSE len

-----------------------------------------------------------------------------
(* Entering a call.                                                        *)

\* An answer is collected by whoever sent its command.
Begin(t, o) ==
  /\ Step(t, "idle", IF o = "open" THEN "lock" ELSE "handler")
  /\ o \in Calls[t]
  /\ o = "rwget" => op[t] = "rwset"
  /\ op' = Put(op, t, o)
  /\ IF o \in Sending THEN Forget(t) /\ mishap' = mishap \ {t}
                      ELSE UNCHANGED <<data, len, pending, mishap>>
  /\ UNCHANGED <<locks, at, res, good, status>>

Start(t) == IF op[t] = "rwget" THEN "wait" ELSE "data"

LockHandler(t) ==
  /\ hlock[at[t]] = Nobody
  /\ Step(t, "handler", IF op[t] \in Locking THEN "lock" ELSE Start(t))
  /\ hlock' = Put(hlock, at[t], t)
  /\ UNCHANGED <<slock, leaked, callVars, res, good, mishap, mailbox>>

LockState(t) ==
  /\ slock[at[t]] = Nobody
  /\ IF op[t] = "open" THEN Finish(t, "lock", "void")
                       ELSE Step(t, "lock", "data") /\ UNCHANGED res
  /\ slock' = Put(slock, at[t], t)
  /\ UNCHANGED <<hlock, leaked, callVars, good, mishap, mailbox>>

-----------------------------------------------------------------------------
(* ds5_hwmc_send.                                                          *)

\* t's command or answer is in the mailbox.
Using(t) ==
  \/ pc[t] \in {"exec", "wait", "code", "len", "answer"}
  \/ op[t] = "rwset" /\ pc[t] \in {"done", "idle"}
  \/ op[t] = "rwget" /\ pc[t] = "handler"

Others(t) == {u \in Thread \ {t} : Using(u)}

WriteCommand(t) ==
  /\ Step(t, "data", "exec")
  /\ data' = [kind |-> "command", by |-> t]
  /\ mishap' = mishap \cup Others(t) \cup (IF pending = Nothing THEN {} ELSE {t})
  /\ UNCHANGED <<locks, callVars, res, good, len, status, pending>>

Reject(t) ==
  /\ status' = "err"
  /\ data' = [kind |-> "code", by |-> t]
  /\ pending' = Nothing

\* The firmware takes what the buffer holds at the write of EXEC and rejects
\* what is no command; while it works on another one, EXEC replaces that or is
\* ignored.
Execute(t) ==
  /\ IF op[t] = "rwset" THEN Finish(t, "exec", "void")
                        ELSE Step(t, "exec", "wait") /\ UNCHANGED res
  /\ \/ data.kind = "command" /\ pending' = data /\ status' = "wip" /\ UNCHANGED data
     \/ data.kind # "command" /\ Reject(data.by)
     \/ pending # Nothing /\ UNCHANGED <<data, status, pending>>
  /\ mishap' = mishap \cup Others(t)
  /\ UNCHANGED <<locks, callVars, good, len>>

\* HWMC goes on to read an answer whatever ds5_hwmc_send returned.
SendFails(t) ==
  /\ Faults /\ pc[t] \in {"data", "exec"}
  /\ IF op[t] = "hwmc"
       THEN /\ Step(t, pc[t], "wait")
            /\ mishap' = mishap \cup {t}
            /\ UNCHANGED res
       ELSE Finish(t, pc[t], "error") /\ UNCHANGED mishap
  /\ UNCHANGED <<locks, callVars, good, mailbox>>

-----------------------------------------------------------------------------
(* ds5_hwmc_wait: poll the status.                                         *)

\* The command is done: collect the answer, or return.
Answered(t, from) ==
  LET mine == good[t] /\ len = t IN
  /\ good' = Put(good, t, mine)
  /\ IF op[t] \in Reading
       THEN Step(t, from, "len") /\ UNCHANGED res
       ELSE Finish(t, from, IF mine THEN "own" ELSE "wrong")

\* Mutant: the error code is handed on as it is.
RefusedRaw(t, from) ==
  Finish(t, from, IF op[t] \in Getting THEN "code" ELSE "error")

\* ds5_get_hwmc puts the code where the answer would be and returns 0; of its
\* callers, ERB and the two AE getters look behind it and find zeros.
Refused(t, from) ==
  Finish(t, from, CASE op[t] \in {"erb", "aeget"} -> "blank"
                    [] op[t] \in Getting -> "refused"
                    [] OTHER -> "error")

\* Mutant: a command still in progress counts as done.
StatusOkEarly(t) ==
  /\ status \in {"ok", "wip"}
  /\ Answered(t, "wait")
  /\ UNCHANGED <<locks, callVars, mishap, mailbox>>

StatusOk(t) ==
  /\ status = "ok"
  /\ Answered(t, "wait")
  /\ UNCHANGED <<locks, callVars, mishap, mailbox>>

StatusErr(t) ==
  /\ status = "err"
  /\ Step(t, "wait", "code")
  /\ UNCHANGED <<locks, callVars, res, good, mishap, mailbox>>

\* Still in progress at the last poll, or the last poll failed.
TimesOut(t) ==
  /\ Faults
  /\ \/ status = "wip" /\ Refused(t, "wait")
     \/ Finish(t, "wait", "error")
  /\ UNCHANGED <<locks, callVars, good, mishap, mailbox>>

ReadCode(t) ==
  /\ Refused(t, "code")
  /\ UNCHANGED <<locks, callVars, good, mishap, mailbox>>

\* The result of this read is not looked at: errorCode is whatever the stack
\* held, an error, 0 or DS5_HWMC_ERR_LAST.
ReadCodeFails(t) ==
  /\ Faults /\ pc[t] = "code"
  /\ \/ Refused(t, "code") /\ UNCHANGED good
     \/ Finish(t, "code", "error") /\ UNCHANGED good
     \/ Answered(t, "code")
  /\ mishap' = mishap \cup {t}
  /\ UNCHANGED <<locks, callVars, mailbox>>

-----------------------------------------------------------------------------
(* The answer: its length, then its data.                                  *)

ReadLen(t) ==
  /\ Step(t, "len", "answer")
  /\ good' = Put(good, t, good[t] /\ len = t)
  /\ UNCHANGED <<locks, callVars, res, mishap, mailbox>>

\* The length is zero, which is an empty log but no table, or more than the
\* caller's buffer takes.
LenRefused(t) ==
  /\ \/ Finish(t, "len", "error")
     \/ op[t] = "fetch" /\ Finish(t, "len", "blank")
  /\ UNCHANGED <<locks, callVars, good, mishap, mailbox>>

\* Only ds5_get_calibration_data goes on, with a length that was never read.
ReadLenFails(t) ==
  /\ Faults /\ pc[t] = "len"
  /\ \/ Finish(t, "len", "error") /\ UNCHANGED <<good, mishap>>
     \/ /\ op[t] = "fetch"
        /\ Step(t, "len", "answer")
        /\ good' = Put(good, t, FALSE)
        /\ mishap' = mishap \cup {t}
        /\ UNCHANGED res
  /\ UNCHANGED <<locks, callVars, mailbox>>

ReadAnswer(t) ==
  /\ LET mine == good[t] /\ data = [kind |-> "answer", by |-> t] IN
     Finish(t, "answer", IF mine THEN "own" ELSE "wrong")
  /\ UNCHANGED <<locks, callVars, good, mishap, mailbox>>

ReadAnswerFails(t) ==
  /\ Faults
  /\ Finish(t, "answer", "error")
  /\ UNCHANGED <<locks, callVars, good, mishap, mailbox>>

-----------------------------------------------------------------------------
(* Leaving a call.                                                         *)

\* ERB and EWB return -EAGAIN from the middle of the switch.
KeepsLock(t) == op[t] \in {"erb", "ewb"} /\ res[t] = "error"

\* Mutant: no failed call unlocks state->lock.
ReturnKeeps(t) ==
  /\ Step(t, "done", "idle")
  /\ hlock' = IF op[t] = "open" THEN hlock ELSE Put(hlock, at[t], Nobody)
  /\ leaked' = IF KeepsLock(t) THEN leaked \cup {at[t]} ELSE leaked
  /\ slock' = IF op[t] \in Locking /\ res[t] # "error"
                THEN Put(slock, at[t], Nobody) ELSE slock
  /\ IF op[t] = "rwset" /\ res[t] = "void"
       THEN UNCHANGED <<op, mishap>>
       ELSE op' = Put(op, t, "open") /\ mishap' = mishap \ {t}
  /\ good' = Put(good, t, TRUE)
  /\ res' = Put(res, t, "none")
  /\ UNCHANGED <<at, mailbox>>

\* Mutant: the handler's lock is only given back with state->lock.
ReturnHalf(t) ==
  /\ Step(t, "done", "idle")
  /\ IF op[t] \in Locking /\ ~KeepsLock(t)
       THEN slock' = Put(slock, at[t], Nobody) ELSE UNCHANGED slock
  /\ hlock' = IF op[t] \in Locking \ {"open"} THEN Put(hlock, at[t], Nobody) ELSE hlock
  /\ leaked' = IF KeepsLock(t) THEN leaked \cup {at[t]} ELSE leaked
  /\ IF op[t] = "rwset" /\ res[t] = "void"
       THEN UNCHANGED <<op, mishap>>
       ELSE op' = Put(op, t, "open") /\ mishap' = mishap \ {t}
  /\ good' = Put(good, t, TRUE)
  /\ res' = Put(res, t, "none")
  /\ UNCHANGED <<at, mailbox>>

\* The client only remembers whether it has an answer to collect.
Return(t) ==
  /\ Step(t, "done", "idle")
  /\ hlock' = IF op[t] = "open" THEN hlock ELSE Put(hlock, at[t], Nobody)
  /\ IF KeepsLock(t)
       THEN leaked' = leaked \cup {at[t]} /\ UNCHANGED slock
       ELSE /\ slock' = IF op[t] \in Locking THEN Put(slock, at[t], Nobody) ELSE slock
            /\ UNCHANGED leaked
  /\ IF op[t] = "rwset" /\ res[t] = "void"
       THEN UNCHANGED <<op, mishap>>
       ELSE op' = Put(op, t, "open") /\ mishap' = mishap \ {t}
  /\ good' = Put(good, t, TRUE)
  /\ res' = Put(res, t, "none")
  /\ UNCHANGED <<at, mailbox>>

-----------------------------------------------------------------------------
(* The firmware carries the command out or rejects it.                     *)

Firmware ==
  /\ pending # Nothing
  /\ \/ /\ status' = "ok"
        /\ data' = [kind |-> "answer", by |-> pending.by]
        /\ len' = pending.by
        /\ pending' = Nothing
     \/ Reject(pending.by) /\ UNCHANGED len
  /\ UNCHANGED <<locks, pc, callVars, res, good, mishap>>

Lock(t) == LockHandler(t) \/ LockState(t)

Access(t) ==
  \/ WriteCommand(t) \/ Execute(t) \/ SendFails(t)
  \/ StatusOk(t) \/ StatusErr(t) \/ TimesOut(t) \/ ReadCode(t) \/ ReadCodeFails(t)
  \/ ReadLen(t) \/ LenRefused(t) \/ ReadLenFails(t)
  \/ ReadAnswer(t) \/ ReadAnswerFails(t)
  \/ Return(t)

Next ==
  \/ \E t \in Thread : Lock(t) \/ Access(t)
  \/ \E t \in Thread, o \in Op : Begin(t, o)
  \/ Firmware

Spec == Init /\ [][Next]_vars

\* Threads run, a mutex that is free again and again is granted, and the
\* firmware ends what it was told to do.  Clients need not call.
Fairness ==
  /\ \A t \in Thread : SF_vars(Lock(t)) /\ WF_vars(Access(t))
  /\ WF_vars(Firmware)

FairSpec == Spec /\ Fairness

-----------------------------------------------------------------------------
(* Properties                                                              *)

Locked == {"data", "exec", "wait", "code", "len", "answer", "done"}

\* A state lock is held by a call that is on its way to give it back, and by
\* one call only, unless ERB or EWB failed on that instance.
LockReleased ==
  \A i \in Inst \ leaked :
    slock[i] # Nobody =>
      LET t == slock[i] IN at[t] = i /\ op[t] \in Locking /\ pc[t] \in Locked

\* Seen from its callers the mailbox behaves as HwmcService says, although the
\* instances share no lock: a call that reports success without having had its
\* own command carried out and its own answer read was interfered with.
Service == INSTANCE HwmcService WITH
  result <- res,
  accepted <- {len} \cap Thread,
  busy <- {t \in Thread : pc[t] \notin {"idle", "done"}}

ImplementsService == Service!Spec

\* Every call returns, whatever the others do, unless the state lock of its
\* instance was left locked: the two locks are never waited for in a circle.
ControlReturns ==
  \A t \in Thread : pc[t] # "idle" ~> pc[t] = "idle" \/ at[t] \in leaked
=============================================================================
