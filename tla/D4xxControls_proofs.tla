-------------------------- MODULE D4xxControls_proofs --------------------------
(***************************************************************************)
(* Proofs about the controls, for any number of threads and instances and  *)
(* any way in which the nodes were opened, with or without faults.         *)
(*                                                                         *)
(* A state lock belongs to a call that will give it back (LockReleased is  *)
(* inductive).  As long as nobody interferes with a command, where it is   *)
(* follows from where its thread is (Undisturbed); from that every step is *)
(* a step of HwmcService or none.                                          *)
(***************************************************************************)
EXTENDS D4xxControls, TLAPS

(* What the place of a thread says about its call.                         *)
CallAtPlace ==
  \A t \in Thread :
    /\ res[t] # "none" <=> pc[t] = "done"
    /\ pc[t] = "lock" => op[t] \in Locking
    /\ pc[t] \notin {"len", "answer", "done"} => good[t]

(* The command of t is carried out now, was carried out, was rejected.     *)
InProgress(t) == pending # Nothing /\ pending.by = t /\ status = "wip"
Answer(t) == [kind |-> "answer", by |-> t]
Executed(t) ==
  /\ pending = Nothing /\ status = "ok"
  /\ len = t /\ data = Answer(t)
Rejected == pending = Nothing /\ status = "err"

(* t sent its command and has not looked at the status.                    *)
Sent(t) ==
  \/ pc[t] = "wait"
  \/ op[t] = "rwset" /\ pc[t] = "done" /\ res[t] = "void"
  \/ op[t] = "rwset" /\ pc[t] = "idle"
  \/ op[t] = "rwget" /\ pc[t] = "handler"

(* What t may rely on while nobody interferes with its command.            *)
Undisturbed(t) ==
  /\ pc[t] = "exec" => pending = Nothing /\ data = [kind |-> "command", by |-> t]
  /\ Sent(t) => InProgress(t) \/ Executed(t) \/ Rejected
  /\ pc[t] \in {"len", "answer"} => good[t] /\ Executed(t)

MailboxInv ==
  /\ data.kind = "answer" /\ data.by # Nobody => len = data.by
  /\ \A t \in Thread \ mishap : Undisturbed(t)

ControlsInv == TypeOK /\ CallAtPlace /\ MailboxInv

(* Every step keeps the types.                                             *)
LEMMA TypesStep ==
  ASSUME TypeOK, [Next]_vars
  PROVE  TypeOK'
<1> USE ControlsAssumption
        DEF TypeOK, locks, callVars, mailbox, Put, Step, Author, Content, Nothing,
            Outcome, Pc
<1>1. CASE UNCHANGED vars
  BY <1>1 DEF vars
<1>2. CASE Firmware
  BY <1>2 DEF Firmware, Reject
<1>3. ASSUME NEW t \in Thread, NEW o \in Op, Begin(t, o)
      PROVE  TypeOK'
  BY <1>3 DEF Begin, Forget
<1>4. ASSUME NEW t \in Thread, Lock(t) \/ Access(t)
      PROVE  TypeOK'
  <2>1. CASE LockHandler(t)
    BY <1>4, <2>1 DEF LockHandler, Start
  <2>2. CASE LockState(t)
    BY <1>4, <2>2 DEF LockState, Finish
  <2>3. CASE WriteCommand(t)
    <3>1. mishap' \subseteq Thread
      BY <2>3 DEF WriteCommand, Others
    <3>2. data' \in Content
      BY <2>3 DEF WriteCommand
    <3> QED BY <2>3, <3>1, <3>2 DEF WriteCommand
  <2>4. CASE Execute(t)
    <3>1. mishap' \subseteq Thread
      BY <2>4 DEF Execute, Others
    <3>2. data.by \in Author
      OBVIOUS
    <3>3. data' \in Content /\ pending' \in Content /\ status' \in {"ok", "err", "wip"}
      BY <2>4, <3>2 DEF Execute, Reject
    <3>4. pc' \in [Thread -> Pc] /\ res' \in [Thread -> Outcome]
      BY <2>4 DEF Execute, Finish
    <3> QED BY <2>4, <3>1, <3>3, <3>4 DEF Execute
  <2>5. CASE SendFails(t)
    BY <1>4, <2>5 DEF SendFails, Finish
  <2>6. CASE StatusOk(t)
    BY <1>4, <2>6 DEF StatusOk, Answered, Finish
  <2>7. CASE StatusErr(t)
    BY <1>4, <2>7 DEF StatusErr
  <2>8. CASE TimesOut(t)
    BY <1>4, <2>8 DEF TimesOut, Refused, Finish
  <2>9. CASE ReadCode(t)
    BY <1>4, <2>9 DEF ReadCode, Refused, Finish
  <2>10. CASE ReadCodeFails(t)
    <3>1. pc' \in [Thread -> Pc] /\ res' \in [Thread -> Outcome]
      <4>1. CASE Refused(t, "code")
        BY <4>1 DEF Refused, Finish
      <4>2. CASE Finish(t, "code", "error")
        BY <4>2 DEF Finish
      <4>3. CASE Answered(t, "code")
        BY <4>3 DEF Answered, Finish
      <4> QED BY <2>10, <4>1, <4>2, <4>3 DEF ReadCodeFails
    <3>2. good' \in [Thread -> BOOLEAN]
      BY <2>10 DEF ReadCodeFails, Answered
    <3> QED BY <2>10, <3>1, <3>2 DEF ReadCodeFails
  <2>11. CASE ReadLen(t)
    BY <1>4, <2>11 DEF ReadLen
  <2>12. CASE LenRefused(t)
    BY <1>4, <2>12 DEF LenRefused, Finish
  <2>13. CASE ReadLenFails(t)
    <3>1. pc' \in [Thread -> Pc] /\ res' \in [Thread -> Outcome]
      BY <2>13 DEF ReadLenFails, Finish
    <3>2. good' \in [Thread -> BOOLEAN]
      BY <2>13 DEF ReadLenFails
    <3> QED BY <2>13, <3>1, <3>2 DEF ReadLenFails
  <2>14. CASE ReadAnswer(t)
    BY <1>4, <2>14 DEF ReadAnswer, Finish
  <2>15. CASE ReadAnswerFails(t)
    BY <1>4, <2>15 DEF ReadAnswerFails, Finish
  <2>16. CASE Return(t)
    <3>1. pc' \in [Thread -> Pc] /\ res' \in [Thread -> Outcome] /\ good' \in [Thread -> BOOLEAN]
      BY <2>16 DEF Return
    <3>2. op' \in [Thread -> Op] /\ mishap' \subseteq Thread
      BY <2>16 DEF Return, Op
    <3>3. hlock' \in [Inst -> Author] /\ slock' \in [Inst -> Author] /\ leaked' \subseteq Inst
      BY <2>16 DEF Return
    <3> QED BY <2>16, <3>1, <3>2, <3>3 DEF Return
  <2> QED BY <1>4, <2>1, <2>2, <2>3, <2>4, <2>5, <2>6, <2>7, <2>8,
            <2>9, <2>10, <2>11, <2>12, <2>13, <2>14, <2>15, <2>16 DEF Lock, Access
<1> QED BY <1>1, <1>2, <1>3, <1>4 DEF Next

(* Every step keeps what a place says about a call.                        *)
LEMMA PlaceStep ==
  ASSUME TypeOK, CallAtPlace, [Next]_vars
  PROVE  CallAtPlace'
<1> USE ControlsAssumption DEF TypeOK, locks, callVars, mailbox, Put, Step, CallAtPlace
<1>1. CASE UNCHANGED vars
  BY <1>1 DEF vars
<1>2. CASE Firmware
  BY <1>2 DEF Firmware
<1>3. ASSUME NEW t \in Thread, NEW o \in Op, Begin(t, o)
      PROVE  CallAtPlace'
  BY <1>3 DEF Begin, Locking
<1>4. ASSUME NEW t \in Thread, Lock(t) \/ Access(t)
      PROVE  CallAtPlace'
  <2>1. CASE LockHandler(t)
    BY <1>4, <2>1 DEF LockHandler, Start
  <2>2. CASE LockState(t)
    BY <1>4, <2>2 DEF LockState, Finish
  <2>3. CASE WriteCommand(t)
    BY <1>4, <2>3 DEF WriteCommand
  <2>4. CASE Execute(t)
    BY <1>4, <2>4 DEF Execute, Finish, Reject
  <2>5. CASE SendFails(t)
    BY <1>4, <2>5 DEF SendFails, Finish
  <2>6. CASE StatusOk(t)
    BY <1>4, <2>6 DEF StatusOk, Answered, Finish
  <2>7. CASE StatusErr(t)
    BY <1>4, <2>7 DEF StatusErr
  <2>8. CASE TimesOut(t)
    BY <1>4, <2>8 DEF TimesOut, Refused, Finish
  <2>9. CASE ReadCode(t)
    BY <1>4, <2>9 DEF ReadCode, Refused, Finish
  <2>10. CASE ReadCodeFails(t)
    BY <1>4, <2>10 DEF ReadCodeFails, Refused, Answered, Finish
  <2>11. CASE ReadLen(t)
    BY <1>4, <2>11 DEF ReadLen
  <2>12. CASE LenRefused(t)
    BY <1>4, <2>12 DEF LenRefused, Finish
  <2>13. CASE ReadLenFails(t)
    BY <1>4, <2>13 DEF ReadLenFails, Finish
  <2>14. CASE ReadAnswer(t)
    BY <1>4, <2>14 DEF ReadAnswer, Finish
  <2>15. CASE ReadAnswerFails(t)
    BY <1>4, <2>15 DEF ReadAnswerFails, Finish
  <2>16. CASE Return(t)
    BY <1>4, <2>16 DEF Return
  <2> QED BY <1>4, <2>1, <2>2, <2>3, <2>4, <2>5, <2>6, <2>7, <2>8,
            <2>9, <2>10, <2>11, <2>12, <2>13, <2>14, <2>15, <2>16 DEF Lock, Access
<1> QED BY <1>1, <1>2, <1>3, <1>4 DEF Next

(* A call that moves on under the state lock keeps it.                     *)
LEMMA StaysLocked ==
  ASSUME TypeOK, LockReleased, UNCHANGED <<slock, leaked, op, at>>,
         NEW t \in Thread, \E x \in Locked : pc' = [pc EXCEPT ![t] = x]
  PROVE  LockReleased'
<1>1. PICK x \in Locked : pc' = [pc EXCEPT ![t] = x]
  OBVIOUS
<1>2. \A u \in Thread : pc[u] \in Locked => pc'[u] \in Locked
  BY <1>1 DEF TypeOK
<1> QED BY <1>2 DEF LockReleased, TypeOK, Author

(* Every step keeps the state locks in hands that will give them back.     *)
LEMMA LockStep ==
  ASSUME TypeOK, CallAtPlace, LockReleased, [Next]_vars
  PROVE  LockReleased'
<1> USE ControlsAssumption DEF TypeOK, locks, callVars, mailbox, Put, Step, Author
<1>1. CASE UNCHANGED vars
  BY <1>1 DEF vars, LockReleased
<1>2. CASE Firmware
  BY <1>2 DEF Firmware, LockReleased
<1>3. ASSUME NEW t \in Thread, NEW o \in Op, Begin(t, o)
      PROVE  LockReleased'
  <2>1. /\ UNCHANGED <<slock, leaked, at>>
        /\ \A u \in Thread : pc[u] \in Locked => pc'[u] = pc[u] /\ op'[u] = op[u]
    BY <1>3 DEF Begin, Locked
  <2> QED BY <2>1 DEF LockReleased
<1>4. ASSUME NEW t \in Thread, Lock(t) \/ Access(t)
      PROVE  LockReleased'
  <2>1. CASE LockHandler(t)
    <3>1. /\ UNCHANGED <<slock, leaked, op, at>>
          /\ \A u \in Thread : pc[u] \in Locked => pc'[u] \in Locked
      BY <2>1 DEF LockHandler, Start, Locked
    <3> QED BY <3>1 DEF LockReleased
  <2>2. CASE LockState(t)
    <3>1. pc[t] = "lock" /\ op[t] \in Locking
      BY <2>2 DEF LockState, Finish, CallAtPlace
    <3>2. pc' = [pc EXCEPT ![t] = "done"] \/ pc' = [pc EXCEPT ![t] = "data"]
      BY <2>2 DEF LockState, Finish
    <3>3. slock' = [slock EXCEPT ![at[t]] = t] /\ UNCHANGED <<leaked, op, at>>
      BY <2>2 DEF LockState
    <3>4. \A u \in Thread : pc[u] \in Locked \/ u = t => pc'[u] \in Locked
      BY <3>2 DEF Locked
    <3> QED BY <3>1, <3>3, <3>4 DEF LockReleased
  <2>3. CASE WriteCommand(t)
    <3>1. UNCHANGED <<slock, leaked, op, at>>
      BY <2>3 DEF WriteCommand
    <3>2. \E x \in Locked : pc' = [pc EXCEPT ![t] = x]
      BY <2>3 DEF WriteCommand, Locked
    <3> QED BY <3>1, <3>2, StaysLocked
  <2>4. CASE Execute(t)
    <3>1. UNCHANGED <<slock, leaked, op, at>>
      BY <2>4 DEF Execute
    <3>2. \E x \in Locked : pc' = [pc EXCEPT ![t] = x]
      BY <2>4 DEF Execute, Finish, Locked
    <3> QED BY <3>1, <3>2, StaysLocked
  <2>5. CASE SendFails(t)
    <3>1. UNCHANGED <<slock, leaked, op, at>>
      BY <2>5 DEF SendFails
    <3>2. \E x \in Locked : pc' = [pc EXCEPT ![t] = x]
      BY <2>5 DEF SendFails, Finish, Locked
    <3> QED BY <3>1, <3>2, StaysLocked
  <2>6. CASE StatusOk(t)
    <3>1. UNCHANGED <<slock, leaked, op, at>>
      BY <2>6 DEF StatusOk
    <3>2. \E x \in Locked : pc' = [pc EXCEPT ![t] = x]
      BY <2>6 DEF StatusOk, Answered, Finish, Locked
    <3> QED BY <3>1, <3>2, StaysLocked
  <2>7. CASE StatusErr(t)
    <3>1. UNCHANGED <<slock, leaked, op, at>>
      BY <2>7 DEF StatusErr
    <3>2. \E x \in Locked : pc' = [pc EXCEPT ![t] = x]
      BY <2>7 DEF StatusErr, Locked
    <3> QED BY <3>1, <3>2, StaysLocked
  <2>8. CASE TimesOut(t)
    <3>1. UNCHANGED <<slock, leaked, op, at>>
      BY <2>8 DEF TimesOut
    <3>2. \E x \in Locked : pc' = [pc EXCEPT ![t] = x]
      BY <2>8 DEF TimesOut, Refused, Finish, Locked
    <3> QED BY <3>1, <3>2, StaysLocked
  <2>9. CASE ReadCode(t)
    <3>1. UNCHANGED <<slock, leaked, op, at>>
      BY <2>9 DEF ReadCode
    <3>2. \E x \in Locked : pc' = [pc EXCEPT ![t] = x]
      BY <2>9 DEF ReadCode, Refused, Finish, Locked
    <3> QED BY <3>1, <3>2, StaysLocked
  <2>10. CASE ReadCodeFails(t)
    <3>1. UNCHANGED <<slock, leaked, op, at>>
      BY <2>10 DEF ReadCodeFails
    <3>2. \E x \in Locked : pc' = [pc EXCEPT ![t] = x]
      BY <2>10 DEF ReadCodeFails, Refused, Answered, Finish, Locked
    <3> QED BY <3>1, <3>2, StaysLocked
  <2>11. CASE ReadLen(t)
    <3>1. UNCHANGED <<slock, leaked, op, at>>
      BY <2>11 DEF ReadLen
    <3>2. \E x \in Locked : pc' = [pc EXCEPT ![t] = x]
      BY <2>11 DEF ReadLen, Locked
    <3> QED BY <3>1, <3>2, StaysLocked
  <2>12. CASE LenRefused(t)
    <3>1. UNCHANGED <<slock, leaked, op, at>>
      BY <2>12 DEF LenRefused
    <3>2. \E x \in Locked : pc' = [pc EXCEPT ![t] = x]
      BY <2>12 DEF LenRefused, Finish, Locked
    <3> QED BY <3>1, <3>2, StaysLocked
  <2>13. CASE ReadLenFails(t)
    <3>1. UNCHANGED <<slock, leaked, op, at>>
      BY <2>13 DEF ReadLenFails
    <3>2. \E x \in Locked : pc' = [pc EXCEPT ![t] = x]
      BY <2>13 DEF ReadLenFails, Finish, Locked
    <3> QED BY <3>1, <3>2, StaysLocked
  <2>14. CASE ReadAnswer(t)
    <3>1. UNCHANGED <<slock, leaked, op, at>>
      BY <2>14 DEF ReadAnswer
    <3>2. \E x \in Locked : pc' = [pc EXCEPT ![t] = x]
      BY <2>14 DEF ReadAnswer, Finish, Locked
    <3> QED BY <3>1, <3>2, StaysLocked
  <2>15. CASE ReadAnswerFails(t)
    <3>1. UNCHANGED <<slock, leaked, op, at>>
      BY <2>15 DEF ReadAnswerFails
    <3>2. \E x \in Locked : pc' = [pc EXCEPT ![t] = x]
      BY <2>15 DEF ReadAnswerFails, Finish, Locked
    <3> QED BY <3>1, <3>2, StaysLocked
  <2>16. CASE Return(t)
    <3>1. /\ pc[t] = "done" /\ UNCHANGED at
          /\ pc' = [pc EXCEPT ![t] = "idle"]
          /\ op' \in {op, [op EXCEPT ![t] = "open"]}
      BY <2>16 DEF Return
    <3>2. CASE KeepsLock(t)
      <4>1. leaked' = leaked \cup {at[t]} /\ slock' = slock
        BY <2>16, <3>2 DEF Return
      <4> QED BY <3>1, <4>1 DEF LockReleased
    <3>3. CASE ~KeepsLock(t)
      <4>1. /\ leaked' = leaked
            /\ slock' = IF op[t] \in Locking THEN [slock EXCEPT ![at[t]] = Nobody]
                                             ELSE slock
        BY <2>16, <3>3 DEF Return
      <4> QED BY <3>1, <4>1 DEF LockReleased
    <3> QED BY <3>2, <3>3
  <2> QED BY <1>4, <2>1, <2>2, <2>3, <2>4, <2>5, <2>6, <2>7, <2>8,
            <2>9, <2>10, <2>11, <2>12, <2>13, <2>14, <2>15, <2>16 DEF Lock, Access
<1> QED BY <1>1, <1>2, <1>3, <1>4 DEF Next

(* A step of t that leaves the mailbox alone disturbs no other thread.     *)
LEMMA QuietStep ==
  ASSUME MailboxInv, UNCHANGED mailbox, NEW t \in Thread,
         \A u \in Thread \ {t} : /\ pc'[u] = pc[u] /\ op'[u] = op[u]
                                 /\ res'[u] = res[u] /\ good'[u] = good[u]
                                 /\ u \in mishap => u \in mishap',
         t \notin mishap' => Undisturbed(t)'
  PROVE  MailboxInv'
BY DEF MailboxInv, mailbox, Undisturbed, Sent, InProgress, Executed, Rejected, Answer

(* Every step keeps what undisturbed threads rely on.                      *)
LEMMA MailStep ==
  ASSUME ControlsInv, [Next]_vars
  PROVE  MailboxInv'
<1> USE ControlsAssumption
        DEF ControlsInv, TypeOK, locks, callVars, Put, Step, Author, Content
<1> DEFINE Mine(t) == t \notin mishap' => Undisturbed(t)'
           Apart(t) == \A u \in Thread \ {t} :
                         /\ pc'[u] = pc[u] /\ op'[u] = op[u]
                         /\ res'[u] = res[u] /\ good'[u] = good[u]
                         /\ u \in mishap => u \in mishap'
<1>1. CASE UNCHANGED vars
  BY <1>1 DEF vars, mailbox, MailboxInv, Undisturbed, Sent, InProgress, Executed,
              Rejected, Answer
<1>2. CASE Firmware
  <2>1. data'.kind = "answer" /\ data'.by # Nobody => len' = data'.by
    BY <1>2 DEF Firmware, Reject
  <2>2. ASSUME NEW u \in Thread, u \notin mishap'
        PROVE  Undisturbed(u)'
    BY <1>2, <2>2 DEF Firmware, Reject, MailboxInv, Undisturbed, Sent, InProgress,
                      Executed, Rejected, Answer, Nothing
  <2> QED BY <2>1, <2>2 DEF MailboxInv
<1>3. ASSUME NEW t \in Thread, NEW o \in Op, Begin(t, o)
      PROVE  MailboxInv'
  <2>1. CASE o \in Sending
    <3>1. data'.kind = "answer" /\ data'.by # Nobody => len' = data'.by
      BY <1>3, <2>1 DEF Begin, Forget, MailboxInv
    <3>2. ASSUME NEW u \in Thread \ {t}, u \notin mishap'
          PROVE  Undisturbed(u)'
      <4>1. /\ pc'[u] = pc[u] /\ op'[u] = op[u] /\ res' = res /\ good' = good
            /\ status' = status /\ Undisturbed(u)
        BY <1>3, <2>1, <3>2 DEF Begin, MailboxInv
      <4>2. /\ data.by # t => data' = data
            /\ pending.by # t => pending' = pending
            /\ len # t => len' = len
        BY <1>3, <2>1 DEF Begin, Forget, Nothing
      <4>3. pending = Nothing => pending.by = Nobody
        BY DEF Nothing
      <4> QED BY <4>1, <4>2, <4>3 DEF Undisturbed, Sent, InProgress, Executed, Rejected, Answer
    <3>3. Undisturbed(t)'
      BY <1>3, <2>1 DEF Begin, Undisturbed, Sent, Sending
    <3> QED BY <3>1, <3>2, <3>3 DEF MailboxInv
  <2>2. CASE o \notin Sending
    <3>1. UNCHANGED mailbox /\ Apart(t)
      BY <1>3, <2>2 DEF Begin, mailbox
    <3>2. Mine(t)
      BY <1>3, <2>2 DEF Begin, mailbox, MailboxInv, Undisturbed, Sent, InProgress,
                        Executed, Rejected, Answer, Sending
    <3> QED BY <3>1, <3>2, QuietStep
  <2> QED BY <2>1, <2>2
<1>4. ASSUME NEW t \in Thread, Lock(t) \/ Access(t)
      PROVE  MailboxInv'
  <2>1. CASE LockHandler(t)
    <3>1. UNCHANGED mailbox /\ Apart(t)
      BY <2>1 DEF LockHandler, Start, mailbox
    <3>2. Mine(t)
      BY <2>1 DEF LockHandler, Start, mailbox, MailboxInv, CallAtPlace,
                   Undisturbed, Sent, InProgress, Executed, Rejected, Answer
    <3> QED BY <3>1, <3>2, QuietStep
  <2>2. CASE LockState(t)
    <3>1. UNCHANGED mailbox /\ Apart(t)
      BY <2>2 DEF LockState, Finish, mailbox
    <3>2. Mine(t)
      BY <2>2 DEF LockState, Finish, mailbox, MailboxInv, CallAtPlace,
                   Undisturbed, Sent, InProgress, Executed, Rejected, Answer
    <3> QED BY <3>1, <3>2, QuietStep
  <2>3. CASE WriteCommand(t)
    <3>1. /\ data' = [kind |-> "command", by |-> t] /\ UNCHANGED <<len, status, pending>>
          /\ pc' = [pc EXCEPT ![t] = "exec"]
          /\ UNCHANGED <<op, res, good>>
          /\ mishap' = mishap \cup Others(t) \cup (IF pending = Nothing THEN {} ELSE {t})
      BY <2>3 DEF WriteCommand
    <3>2. ASSUME NEW u \in Thread \ {t}, u \notin mishap'
          PROVE  Undisturbed(u)'
      <4>1. ~Using(u) /\ pc'[u] = pc[u]
        BY <3>1, <3>2 DEF Others
      <4> QED BY <3>1, <4>1 DEF Using, Undisturbed, Sent
    <3>3. Mine(t)
      BY <3>1 DEF Undisturbed, Sent
    <3> QED BY <3>1, <3>2, <3>3 DEF MailboxInv
  <2>4. CASE Execute(t)
    <3>1. /\ UNCHANGED <<op, good, len>> /\ mishap' = mishap \cup Others(t)
          /\ \A u \in Thread \ {t} : pc'[u] = pc[u] /\ res'[u] = res[u]
          /\ pc[t] = "exec"
          /\ \/ op[t] = "rwset" /\ pc'[t] = "done" /\ res'[t] = "void"
             \/ op[t] # "rwset" /\ pc'[t] = "wait"
      BY <2>4 DEF Execute, Finish
    <3>2. data'.kind = "answer" /\ data'.by # Nobody => len' = data'.by
      BY <2>4 DEF Execute, Reject, MailboxInv
    <3>3. ASSUME NEW u \in Thread \ {t}, u \notin mishap'
          PROVE  Undisturbed(u)'
      <4>1. ~Using(u)
        BY <3>1, <3>3 DEF Others
      <4> QED BY <3>1, <4>1 DEF Using, Undisturbed, Sent
    <3>4. ASSUME t \notin mishap' PROVE Undisturbed(t)'
      <4>1. pending = Nothing /\ data = [kind |-> "command", by |-> t]
        BY <3>1, <3>4 DEF MailboxInv, Undisturbed
      <4>2. pending' = data /\ status' = "wip"
        BY <2>4, <4>1 DEF Execute
      <4>3. InProgress(t)'
        BY <4>1, <4>2 DEF InProgress, Nothing
      <4> QED BY <3>1, <4>3 DEF Undisturbed
    <3> QED BY <3>2, <3>3, <3>4 DEF MailboxInv
  <2>5. CASE SendFails(t)
    <3>1. UNCHANGED mailbox /\ Apart(t)
      BY <2>5 DEF SendFails, Finish, mailbox
    <3>2. Mine(t)
      BY <2>5 DEF SendFails, Finish, mailbox, MailboxInv, CallAtPlace,
                   Undisturbed, Sent, InProgress, Executed, Rejected, Answer
    <3> QED BY <3>1, <3>2, QuietStep
  <2>6. CASE StatusOk(t)
    <3>1. UNCHANGED mailbox /\ Apart(t)
      BY <2>6 DEF StatusOk, Answered, Finish, mailbox
    <3>2. Mine(t)
      BY <2>6 DEF StatusOk, Answered, Finish, mailbox, MailboxInv, CallAtPlace,
                   Undisturbed, Sent, InProgress, Executed, Rejected, Answer
    <3> QED BY <3>1, <3>2, QuietStep
  <2>7. CASE StatusErr(t)
    <3>1. UNCHANGED mailbox /\ Apart(t)
      BY <2>7 DEF StatusErr, mailbox
    <3>2. Mine(t)
      BY <2>7 DEF StatusErr, mailbox, MailboxInv, CallAtPlace,
                   Undisturbed, Sent, InProgress, Executed, Rejected, Answer
    <3> QED BY <3>1, <3>2, QuietStep
  <2>8. CASE TimesOut(t)
    <3>1. UNCHANGED mailbox /\ Apart(t)
      BY <2>8 DEF TimesOut, Refused, Finish, mailbox
    <3>2. Mine(t)
      BY <2>8 DEF TimesOut, Refused, Finish, mailbox, MailboxInv, CallAtPlace,
                   Undisturbed, Sent, InProgress, Executed, Rejected, Answer
    <3> QED BY <3>1, <3>2, QuietStep
  <2>9. CASE ReadCode(t)
    <3>1. UNCHANGED mailbox /\ Apart(t)
      BY <2>9 DEF ReadCode, Refused, Finish, mailbox
    <3>2. Mine(t)
      BY <2>9 DEF ReadCode, Refused, Finish, mailbox, MailboxInv, CallAtPlace,
                   Undisturbed, Sent, InProgress, Executed, Rejected, Answer
    <3> QED BY <3>1, <3>2, QuietStep
  <2>10. CASE ReadCodeFails(t)
    <3>1. UNCHANGED mailbox /\ Apart(t)
      BY <2>10 DEF ReadCodeFails, Refused, Answered, Finish, mailbox
    <3>2. Mine(t)
      BY <2>10 DEF ReadCodeFails, Refused, Answered, Finish, mailbox, MailboxInv, CallAtPlace,
                   Undisturbed, Sent, InProgress, Executed, Rejected, Answer
    <3> QED BY <3>1, <3>2, QuietStep
  <2>11. CASE ReadLen(t)
    <3>1. UNCHANGED mailbox /\ Apart(t)
      BY <2>11 DEF ReadLen, mailbox
    <3>2. Mine(t)
      BY <2>11 DEF ReadLen, mailbox, MailboxInv, CallAtPlace,
                   Undisturbed, Sent, InProgress, Executed, Rejected, Answer
    <3> QED BY <3>1, <3>2, QuietStep
  <2>12. CASE LenRefused(t)
    <3>1. UNCHANGED mailbox /\ Apart(t)
      BY <2>12 DEF LenRefused, Finish, mailbox
    <3>2. Mine(t)
      BY <2>12 DEF LenRefused, Finish, mailbox, MailboxInv, CallAtPlace,
                   Undisturbed, Sent, InProgress, Executed, Rejected, Answer
    <3> QED BY <3>1, <3>2, QuietStep
  <2>13. CASE ReadLenFails(t)
    <3>1. UNCHANGED mailbox /\ Apart(t)
      BY <2>13 DEF ReadLenFails, Finish, mailbox
    <3>2. Mine(t)
      BY <2>13 DEF ReadLenFails, Finish, mailbox, MailboxInv, CallAtPlace,
                   Undisturbed, Sent, InProgress, Executed, Rejected, Answer
    <3> QED BY <3>1, <3>2, QuietStep
  <2>14. CASE ReadAnswer(t)
    <3>1. UNCHANGED mailbox /\ Apart(t)
      BY <2>14 DEF ReadAnswer, Finish, mailbox
    <3>2. Mine(t)
      BY <2>14 DEF ReadAnswer, Finish, mailbox, MailboxInv, CallAtPlace,
                   Undisturbed, Sent, InProgress, Executed, Rejected, Answer
    <3> QED BY <3>1, <3>2, QuietStep
  <2>15. CASE ReadAnswerFails(t)
    <3>1. UNCHANGED mailbox /\ Apart(t)
      BY <2>15 DEF ReadAnswerFails, Finish, mailbox
    <3>2. Mine(t)
      BY <2>15 DEF ReadAnswerFails, Finish, mailbox, MailboxInv, CallAtPlace,
                   Undisturbed, Sent, InProgress, Executed, Rejected, Answer
    <3> QED BY <3>1, <3>2, QuietStep
  <2>16. CASE Return(t)
    <3>1. UNCHANGED mailbox /\ Apart(t)
      BY <2>16 DEF Return, mailbox
    <3>2. Mine(t)
      BY <2>16 DEF Return, mailbox, MailboxInv, CallAtPlace,
                   Undisturbed, Sent, InProgress, Executed, Rejected, Answer
    <3> QED BY <3>1, <3>2, QuietStep
  <2> QED BY <1>4, <2>1, <2>2, <2>3, <2>4, <2>5, <2>6, <2>7, <2>8,
            <2>9, <2>10, <2>11, <2>12, <2>13, <2>14, <2>15, <2>16 DEF Lock, Access
<1> QED BY <1>1, <1>2, <1>3, <1>4 DEF Next

(* At the start nothing is in the mailbox and nobody holds a lock.         *)
LEMMA ControlsInit == Init => ControlsInv /\ LockReleased
BY ControlsAssumption
   DEF Init, ControlsInv, TypeOK, CallAtPlace, MailboxInv, Undisturbed, Sent, LockReleased,
       Author, Content, Nothing, Outcome, Pc, Op

(* The three parts together are inductive.                                 *)
LEMMA ControlsInvariant == Spec => []ControlsInv
<1>1. ControlsInv /\ [Next]_vars => ControlsInv'
  BY TypesStep, PlaceStep, MailStep DEF ControlsInv
<1> QED BY ControlsInit, <1>1, PTL DEF Spec

(* The variables of the controls keep their types.                         *)
THEOREM ControlsTypes == Spec => []TypeOK
<1>1. ControlsInv => TypeOK
  BY DEF ControlsInv
<1> QED BY <1>1, ControlsInvariant, PTL

(* ds5_s_ctrl, ds5_mux_open: a state lock is held by a call that is about  *)
(* to give it back, unless ERB or EWB failed on that instance.             *)
THEOREM StateLockReleased == Spec => []LockReleased
<1>1. ControlsInv /\ LockReleased /\ [Next]_vars => LockReleased'
  BY LockStep DEF ControlsInv
<1>2. Init => LockReleased
  BY ControlsInit
<1> QED BY <1>1, <1>2, ControlsInvariant, PTL DEF Spec

-----------------------------------------------------------------------------
(* The refinement.                                                         *)

(* The callers that wait for the outcome of a call.                        *)
Waiting == {t \in Thread : pc[t] \notin {"idle", "done"}}

(* A step that ends the call of t is the End of the service, if it tells   *)
(* right from wrong.                                                       *)
LEMMA EndStep ==
  ASSUME ControlsInv, NEW t \in Thread, NEW r \in Outcome \ {"none"},
         pc[t] \notin {"idle", "done"},
         pc' = [pc EXCEPT ![t] = "done"], res' = [res EXCEPT ![t] = r],
         len' = len, mishap' \subseteq Thread, mishap \subseteq mishap',
         r = "own" => len = t,
         r = "wrong" => t \in mishap'
  PROVE  Service!End(t, r)
<1>1. Waiting' = Waiting \ {t}
  BY DEF Waiting, ControlsInv, TypeOK
<1> QED BY <1>1 DEF Waiting, Service!End, Service!Interfered

(* A step within a call is no step of the service, or an interference.     *)
LEMMA InnerStep ==
  ASSUME ControlsInv, NEW t \in Thread, NEW x \in Pc \ {"idle", "done"},
         pc[t] \notin {"idle", "done"},
         pc' = [pc EXCEPT ![t] = x], res' = res,
         len' = len, mishap' \subseteq Thread, mishap \subseteq mishap'
  PROVE  Service!Interfere
<1>1. Waiting' = Waiting
  BY DEF Waiting, ControlsInv, TypeOK
<1> QED BY <1>1 DEF Waiting, Service!Interfere, Service!Interfered

(* A call that looks at an answered command gets its own, or was           *)
(* interfered with.                                                        *)
LEMMA AnsweredRight ==
  ASSUME ControlsInv, NEW t \in Thread \ mishap, pc[t] = "wait", status = "ok"
  PROVE  good[t] /\ len = t
<1>1. Undisturbed(t) /\ good[t]
  BY DEF ControlsInv, MailboxInv, CallAtPlace
<1> QED BY <1>1 DEF Undisturbed, Sent, InProgress, Executed, Rejected

(* Every step of the driver is a step of the service or none.             *)
LEMMA ServiceStep ==
  ASSUME ControlsInv, ControlsInv', [Next]_vars
  PROVE  Service!Next \/ UNCHANGED Service!svars
<1> USE DEF ControlsInv, TypeOK, locks, callVars, mailbox, Put, Step, Outcome, Pc
<1>1. CASE UNCHANGED vars
  BY <1>1 DEF vars, Service!svars
<1>2. CASE Firmware
  <2>1. UNCHANGED <<pc, res, mishap>>
    BY <1>2 DEF Firmware
  <2>2. CASE len' = len
    BY <2>1, <2>2 DEF Service!svars
  <2>3. CASE len' # len /\ pending.by \in Thread
    <3>1. {len'} \cap Thread = {pending.by}
      BY <1>2, <2>3 DEF Firmware
    <3>2. Service!Accept(pending.by)
      BY <2>1, <3>1 DEF Service!Accept
    <3> QED BY <2>3, <3>2 DEF Service!Next
  <2>4. CASE len' # len /\ pending.by \notin Thread
    <3>1. {len'} \cap Thread = {}
      BY <1>2, <2>4 DEF Firmware
    <3>2. CASE Thread = {}
      BY <2>1, <3>1, <3>2 DEF Service!svars
    <3>3. ASSUME NEW t \in Thread
          PROVE  Service!Accept(t)
      BY <2>1, <3>1 DEF Service!Accept
    <3> QED BY <3>2, <3>3 DEF Service!Next
  <2> QED BY <2>2, <2>3, <2>4
<1>3. ASSUME NEW t \in Thread, NEW o \in Op, Begin(t, o)
      PROVE  Service!Next
  <2>1. Waiting' = Waiting \cup {t}
    BY <1>3 DEF Begin, Waiting
  <2>2. t \notin Waiting /\ res[t] = "none" /\ res' = res
    BY <1>3 DEF Begin, Waiting, CallAtPlace
  <2>3. \/ {len'} \cap Thread = ({len} \cap Thread) \ {t} /\ mishap' = mishap \ {t}
        \/ len' = len /\ mishap' = mishap
    BY <1>3, ControlsAssumption DEF Begin, Forget
  <2>4. Service!Begin(t)
    BY <2>1, <2>2, <2>3 DEF Waiting, Service!Begin
  <2> QED BY <2>4 DEF Service!Next
<1>4. ASSUME NEW t \in Thread, Lock(t) \/ Access(t)
      PROVE  Service!Next
  <2> USE <1>4 DEF Service!Next, Service!Outcome
  <2>1. CASE LockHandler(t)
    <3>1. Service!Interfere
      BY <2>1, InnerStep DEF LockHandler, Start
    <3> QED BY <3>1
  <2>2. CASE LockState(t)
    <3>1. CASE op[t] = "open"
      <4>1. Service!End(t, "void")
        BY <2>2, <3>1, EndStep DEF LockState, Finish
      <4> QED BY <4>1
    <3>2. CASE op[t] # "open"
      <4>1. Service!Interfere
        BY <2>2, <3>2, InnerStep DEF LockState, Finish
      <4> QED BY <4>1
    <3> QED BY <3>1, <3>2
  <2>3. CASE WriteCommand(t)
    <3>1. Service!Interfere
      BY <2>3, InnerStep DEF WriteCommand, Others
    <3> QED BY <3>1
  <2>4. CASE Execute(t)
    <3>1. mishap' \subseteq Thread /\ mishap \subseteq mishap' /\ len' = len
      BY <2>4 DEF Execute, Others
    <3>2. CASE op[t] = "rwset"
      <4>1. Service!End(t, "void")
        BY <2>4, <3>1, <3>2, EndStep DEF Execute, Finish
      <4> QED BY <4>1
    <3>3. CASE op[t] # "rwset"
      <4>1. Service!Interfere
        BY <2>4, <3>1, <3>3, InnerStep DEF Execute
      <4> QED BY <4>1
    <3> QED BY <3>2, <3>3
  <2>5. CASE SendFails(t)
    <3>1. CASE op[t] = "hwmc"
      <4>1. Service!Interfere
        BY <2>5, <3>1, InnerStep DEF SendFails
      <4> QED BY <4>1
    <3>2. CASE op[t] # "hwmc"
      <4>1. Service!End(t, "error")
        BY <2>5, <3>2, EndStep DEF SendFails, Finish
      <4> QED BY <4>1
    <3> QED BY <3>1, <3>2
  <2>6. CASE StatusOk(t)
    <3>1. UNCHANGED <<mishap, mailbox>> /\ pc[t] = "wait" /\ status = "ok"
      BY <2>6 DEF StatusOk, Answered, Finish
    <3>2. CASE op[t] \in Reading
      <4>1. Service!Interfere
        BY <2>6, <3>1, <3>2, InnerStep DEF StatusOk, Answered
      <4> QED BY <4>1
    <3>3. CASE op[t] \notin Reading
      <4>1. PICK r \in {"own", "wrong"} :
              /\ pc' = [pc EXCEPT ![t] = "done"] /\ res' = [res EXCEPT ![t] = r]
              /\ r = "own" <=> good[t] /\ len = t
        BY <2>6, <3>3 DEF StatusOk, Answered, Finish
      <4>2. r = "wrong" => t \in mishap
        BY <3>1, <4>1, AnsweredRight
      <4>3. Service!End(t, r)
        BY <3>1, <4>1, <4>2, EndStep
      <4> QED BY <4>3
    <3> QED BY <3>2, <3>3
  <2>7. CASE StatusErr(t)
    <3>1. Service!Interfere
      BY <2>7, InnerStep DEF StatusErr
    <3> QED BY <3>1
  <2>8. CASE TimesOut(t)
    <3>1. PICK r \in Outcome \ {"none", "own", "wrong"} :
            pc' = [pc EXCEPT ![t] = "done"] /\ res' = [res EXCEPT ![t] = r]
      BY <2>8 DEF TimesOut, Refused, Finish
    <3>2. UNCHANGED <<mishap, mailbox>> /\ pc[t] \in {"wait", "code"}
      BY <2>8 DEF TimesOut, Refused, Finish
    <3>3. Service!End(t, r)
      BY <3>1, <3>2, EndStep
    <3> QED BY <3>3
  <2>9. CASE ReadCode(t)
    <3>1. PICK r \in Outcome \ {"none", "own", "wrong"} :
            pc' = [pc EXCEPT ![t] = "done"] /\ res' = [res EXCEPT ![t] = r]
      BY <2>9 DEF ReadCode, Refused, Finish
    <3>2. UNCHANGED <<mishap, mailbox>> /\ pc[t] \in {"wait", "code"}
      BY <2>9 DEF ReadCode, Refused, Finish
    <3>3. Service!End(t, r)
      BY <3>1, <3>2, EndStep
    <3> QED BY <3>3
  <2>10. CASE ReadCodeFails(t)
    <3>1. pc[t] = "code" /\ UNCHANGED mailbox /\ mishap' = mishap \cup {t}
      BY <2>10 DEF ReadCodeFails
    <3>2. CASE pc' = [pc EXCEPT ![t] = "len"] /\ res' = res
      <4>1. Service!Interfere
        BY <3>1, <3>2, InnerStep
      <4> QED BY <4>1
    <3>3. ASSUME NEW r \in Outcome \ {"none"}, r = "own" => len = t,
                 pc' = [pc EXCEPT ![t] = "done"] /\ res' = [res EXCEPT ![t] = r]
          PROVE  Service!Next
      <4>1. Service!End(t, r)
        BY <3>1, <3>3, EndStep
      <4> QED BY <4>1
    <3>4. CASE Refused(t, "code")
      <4>1. \E r \in Outcome \ {"none", "own"} :
              pc' = [pc EXCEPT ![t] = "done"] /\ res' = [res EXCEPT ![t] = r]
        BY <3>4 DEF Refused, Finish
      <4> QED BY <3>3, <4>1
    <3>5. CASE Finish(t, "code", "error")
      BY <3>3, <3>5 DEF Finish
    <3>6. CASE Answered(t, "code")
      <4>1. CASE op[t] \in Reading
        BY <3>2, <3>6, <4>1 DEF Answered
      <4>2. CASE op[t] \notin Reading
        BY <3>3, <3>6, <4>2 DEF Answered, Finish
      <4> QED BY <4>1, <4>2
    <3> QED BY <2>10, <3>4, <3>5, <3>6 DEF ReadCodeFails
  <2>11. CASE ReadLen(t)
    <3>1. Service!Interfere
      BY <2>11, InnerStep DEF ReadLen
    <3> QED BY <3>1
  <2>12. CASE LenRefused(t)
    <3>1. PICK r \in {"error", "blank"} : Finish(t, "len", r)
      BY <2>12 DEF LenRefused
    <3>2. Service!End(t, r)
      BY <2>12, <3>1, EndStep DEF LenRefused, Finish, Outcome
    <3> QED BY <3>2
  <2>13. CASE ReadLenFails(t)
    <3>1. CASE Finish(t, "len", "error") /\ UNCHANGED <<good, mishap>>
      <4>1. Service!End(t, "error")
        BY <2>13, <3>1, EndStep DEF ReadLenFails, Finish
      <4> QED BY <4>1
    <3>2. CASE Step(t, "len", "answer") /\ mishap' = mishap \cup {t} /\ UNCHANGED res
      <4>1. Service!Interfere
        BY <2>13, <3>2, InnerStep DEF ReadLenFails
      <4> QED BY <4>1
    <3> QED BY <2>13, <3>1, <3>2 DEF ReadLenFails
  <2>14. CASE ReadAnswer(t)
    <3>1. PICK r \in {"own", "wrong"} :
            /\ pc' = [pc EXCEPT ![t] = "done"] /\ res' = [res EXCEPT ![t] = r]
            /\ r = "own" <=> good[t] /\ data = Answer(t)
      BY <2>14 DEF ReadAnswer, Finish, Answer
    <3>2. pc[t] = "answer" /\ UNCHANGED <<mishap, mailbox>>
      BY <2>14 DEF ReadAnswer, Finish
    <3>3. data = Answer(t) => len = t
      BY ControlsAssumption DEF Answer, MailboxInv
    <3>4. t \notin mishap => good[t] /\ data = Answer(t)
      BY <3>2 DEF MailboxInv, Undisturbed, Executed
    <3>5. Service!End(t, r)
      BY <3>1, <3>2, <3>3, <3>4, EndStep
    <3> QED BY <3>5
  <2>15. CASE ReadAnswerFails(t)
    <3>1. Service!End(t, "error")
      BY <2>15, EndStep DEF ReadAnswerFails, Finish
    <3> QED BY <3>1
  <2>16. CASE Return(t)
    <3>1. Waiting' = Waiting
      BY <2>16 DEF Return, Waiting
    <3>2. res[t] # "none" /\ res' = [res EXCEPT ![t] = "none"] /\ len' = len
      BY <2>16 DEF Return, CallAtPlace
    <3>3. mishap' \in {mishap, mishap \ {t}}
      BY <2>16 DEF Return
    <3>4. Service!Return(t)
      BY <3>1, <3>2, <3>3 DEF Waiting, Service!Return
    <3> QED BY <3>4
  <2> QED BY <2>1, <2>2, <2>3, <2>4, <2>5, <2>6, <2>7, <2>8,
            <2>9, <2>10, <2>11, <2>12, <2>13, <2>14, <2>15, <2>16 DEF Lock, Access
<1> QED BY <1>1, <1>2, <1>3, <1>4 DEF Next

(* Although the instances share no lock, callers see the mailbox behave as *)
(* HwmcService says: whoever is told of success had its own command        *)
(* carried out and reads its own answer, or was interfered with.           *)
THEOREM ControlsImplementService == Spec => ImplementsService
<1>1. Init => Service!Init
  BY ControlsAssumption DEF Init, Service!Init
<1>2. ControlsInv /\ ControlsInv' /\ [Next]_vars => [Service!Next]_(Service!svars)
  BY ServiceStep
<1> QED BY <1>1, <1>2, ControlsInvariant, PTL DEF Spec, ImplementsService, Service!Spec
=============================================================================
