----------------------------- MODULE HwmcService -----------------------------
(***************************************************************************)
(* What a caller may expect of the controls that go through the camera's   *)
(* command mailbox: a call that reports success had its own command        *)
(* carried out and hands out its own answer, unless something happened to  *)
(* the mailbox in the middle of the call.                                  *)
(***************************************************************************)
CONSTANT Thread

VARIABLES
  busy,        \* callers that wait for the outcome of a call
  accepted,    \* the caller whose command the camera carried out last
  mishap,      \* callers whose command or answer was interfered with
  result       \* the outcome of a call that is about to return

svars == <<busy, accepted, mishap, result>>

Outcome == {"none", "own", "wrong", "void", "refused", "blank", "error"}

Init ==
  /\ busy = {}
  /\ accepted = {}
  /\ mishap = {}
  /\ result = [t \in Thread |-> "none"]

\* A call begins with a command of its own, or collects an earlier answer.
Begin(t) ==
  /\ t \notin busy /\ result[t] = "none"
  /\ busy' = busy \cup {t}
  /\ \/ accepted' = accepted \ {t} /\ mishap' = mishap \ {t}
     \/ UNCHANGED <<accepted, mishap>>
  /\ UNCHANGED result

\* The command of t, or one that nobody waits for.
Accept(t) ==
  /\ accepted' \in {{t}, {}}
  /\ UNCHANGED <<busy, mishap, result>>

Interfered == mishap' \in {m \in SUBSET Thread : mishap \subseteq m}

Interfere ==
  /\ Interfered
  /\ UNCHANGED <<busy, accepted, result>>

End(t, r) ==
  /\ t \in busy
  /\ r = "own" => t \in accepted
  /\ busy' = busy \ {t}
  /\ result' = [result EXCEPT ![t] = r]
  /\ Interfered
  /\ r = "wrong" => t \in mishap'
  /\ UNCHANGED accepted

Return(t) ==
  /\ result[t] # "none"
  /\ result' = [result EXCEPT ![t] = "none"]
  /\ mishap' \in {mishap, mishap \ {t}}
  /\ UNCHANGED <<busy, accepted>>

Next ==
  \/ \E t \in Thread : Begin(t) \/ Accept(t) \/ Return(t)
  \/ \E t \in Thread, r \in Outcome \ {"none"} : End(t, r)
  \/ Interfere

Spec == Init /\ [][Next]_svars
=============================================================================
