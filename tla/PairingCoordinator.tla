-------------------------- MODULE PairingCoordinator --------------------------
(***************************************************************************)
(* PairingCoordinator (src/src/pairing.rs): pairing is serialised by one   *)
(* mutex, and a pairing the user asks for cancels the automatic one of the *)
(* daemon through a watch channel.                                         *)
(*                                                                         *)
(* The daemon runs on a thread of its own and the user's requests on those *)
(* of the tray program, so every access to the shared state is a step.     *)
(***************************************************************************)
EXTENDS Naturals

CONSTANTS
  Autos,       \* calls of automatic
  Manuals,     \* calls of manual
  NoOne,       \* a mutex is free
  MaxRequests  \* bound of the model: values sent on the watch channel

ASSUME TasksAssumption ==
  /\ Autos \cap Manuals = {} /\ NoOne \notin Autos \cup Manuals
  /\ MaxRequests \in Nat

Tasks == Autos \cup Manuals

VARIABLES
  active,    \* holder of the active mutex
  manual,    \* holder of the manual mutex
  requested, \* the watch channel: [value, version]
  seen,      \* version each automatic call has seen
  pc

vars == <<active, manual, requested, seen, pc>>

Init ==
  /\ active = NoOne /\ manual = NoOne
  /\ requested = [value |-> FALSE, version |-> 0]
  /\ seen = [t \in Autos |-> 0]
  /\ pc = [t \in Tasks |-> "out"]

Goto(t, where) == pc' = [pc EXCEPT ![t] = where]

-----------------------------------------------------------------------------
(* automatic.                                                              *)

\* A subscriber starts with the current value seen.
Subscribe(t) ==
  /\ pc[t] = "out"
  /\ seen' = [seen EXCEPT ![t] = requested.version]
  /\ Goto(t, "autoLock")
  /\ UNCHANGED <<active, manual, requested>>

AutoLock(t) ==
  /\ pc[t] = "autoLock" /\ active = NoOne
  /\ active' = t
  /\ Goto(t, "autoCheck")
  /\ UNCHANGED <<manual, requested, seen>>

\* Fault: automatic does not look at the channel once it has the mutex.
AutoCheckBlind(t) ==
  /\ pc[t] = "autoCheck"
  /\ Goto(t, "autoSelect")
  /\ UNCHANGED <<active, manual, requested, seen>>

\* if *requested.borrow() { return }
AutoCheck(t) ==
  /\ pc[t] = "autoCheck"
  /\ Goto(t, IF requested.value THEN "autoLeave" ELSE "autoSelect")
  /\ UNCHANGED <<active, manual, requested, seen>>

Changed(t) == requested.version # seen[t]

\* The biased select looks at the channel before it polls the work.
AutoStart(t) ==
  /\ pc[t] = "autoSelect" /\ ~Changed(t)
  /\ Goto(t, "autoWork")
  /\ UNCHANGED <<active, manual, requested, seen>>

\* Fault: the change is noticed before the work starts, not during it.
AutoCancelLate(t) ==
  /\ pc[t] = "autoSelect" /\ Changed(t)
  /\ Goto(t, "autoLeave")
  /\ UNCHANGED <<active, manual, requested, seen>>

\* The change wins the select: the work is dropped.
AutoCancel(t) ==
  /\ pc[t] \in {"autoSelect", "autoWork"} /\ Changed(t)
  /\ Goto(t, "autoLeave")
  /\ UNCHANGED <<active, manual, requested, seen>>

\* Pairing ends by itself, with or without success.
AutoFinish(t) ==
  /\ pc[t] = "autoWork"
  /\ Goto(t, "autoLeave")
  /\ UNCHANGED <<active, manual, requested, seen>>

\* The daemon is stopped: run_daemon's select drops the call where it awaits.
AutoDropped(t) ==
  /\ pc[t] \in {"autoLock", "autoWork"}
  /\ Goto(t, IF active = t THEN "autoLeave" ELSE "out")
  /\ UNCHANGED <<active, manual, requested, seen>>

AutoLeave(t) ==
  /\ pc[t] = "autoLeave"
  /\ active' = NoOne
  /\ Goto(t, "out")
  /\ UNCHANGED <<manual, requested, seen>>

-----------------------------------------------------------------------------
(* manual.                                                                 *)

\* try_lock: a second request is refused.
ManualTry(t) ==
  /\ pc[t] = "out" /\ manual = NoOne
  /\ requested.version + 2 <= MaxRequests
  /\ manual' = t
  /\ Goto(t, "request")
  /\ UNCHANGED <<active, requested, seen>>

ManualRefused(t) ==
  /\ pc[t] = "out" /\ manual # NoOne
  /\ UNCHANGED vars

Send(value) == requested' = [value |-> value, version |-> requested.version + 1]

Request(t) ==
  /\ pc[t] = "request"
  /\ Send(TRUE)
  /\ Goto(t, "manualLock")
  /\ UNCHANGED <<active, manual, seen>>

ManualLock(t) ==
  /\ pc[t] = "manualLock" /\ active = NoOne
  /\ active' = t
  /\ Goto(t, "manualWork")
  /\ UNCHANGED <<manual, requested, seen>>

\* The work ends, or its caller drops the call where it awaits.
ManualEnd(t) ==
  /\ pc[t] = "manualWork"
  /\ Goto(t, "unlock")
  /\ UNCHANGED <<active, manual, requested, seen>>

\* Fault: the request is taken back only when the work was reached.
ManualDroppedKeepsRequest(t) ==
  /\ pc[t] = "manualLock"
  /\ Goto(t, "manualLeave")
  /\ UNCHANGED <<active, manual, requested, seen>>

ManualDropped(t) ==
  /\ pc[t] = "manualLock"
  /\ Goto(t, "reset")
  /\ UNCHANGED <<active, manual, requested, seen>>

\* Locals go in reverse order: the active guard, ResetRequest, the manual guard.
ManualUnlock(t) ==
  /\ pc[t] = "unlock"
  /\ active' = NoOne
  /\ Goto(t, "reset")
  /\ UNCHANGED <<manual, requested, seen>>

Reset(t) ==
  /\ pc[t] = "reset"
  /\ Send(FALSE)
  /\ Goto(t, "manualLeave")
  /\ UNCHANGED <<active, manual, seen>>

ManualLeave(t) ==
  /\ pc[t] = "manualLeave"
  /\ manual' = NoOne
  /\ Goto(t, "out")
  /\ UNCHANGED <<active, requested, seen>>

-----------------------------------------------------------------------------

Automatic(t) ==
  \/ Subscribe(t) \/ AutoLock(t) \/ AutoCheck(t) \/ AutoStart(t)
  \/ AutoCancel(t) \/ AutoFinish(t) \/ AutoDropped(t) \/ AutoLeave(t)

Manual(t) == \/ ManualTry(t) \/ ManualRefused(t) \/ Request(t) \/ ManualLock(t)
             \/ ManualEnd(t) \/ ManualDropped(t) \/ ManualUnlock(t) \/ Reset(t)
             \/ ManualLeave(t)

Next == (\E t \in Autos : Automatic(t)) \/ (\E t \in Manuals : Manual(t))

Spec == Init /\ [][Next]_vars

(* Fairness: a call that can go on does.  The active mutex is handed to    *)
(* its waiters in turn (SF), and pairing may take for ever: its end is not *)
(* assumed, only its cancellation.                                         *)
FairSpec ==
  /\ Spec
  /\ \A t \in Autos : /\ WF_vars(AutoCheck(t)) /\ WF_vars(AutoStart(t))
                      /\ WF_vars(AutoCancel(t)) /\ WF_vars(AutoLeave(t))
  /\ \A t \in Manuals : /\ WF_vars(Request(t)) /\ SF_vars(ManualLock(t))
                        /\ WF_vars(ManualUnlock(t)) /\ WF_vars(Reset(t))
                        /\ WF_vars(ManualLeave(t))

-----------------------------------------------------------------------------
(* Properties.                                                             *)

AutoPcs == {"out", "autoLock", "autoCheck", "autoSelect", "autoWork", "autoLeave"}
ManualPcs == {"out", "request", "manualLock", "manualWork", "unlock", "reset", "manualLeave"}

TypeOK ==
  /\ active \in Tasks \cup {NoOne}
  /\ manual \in Manuals \cup {NoOne}
  /\ requested \in [value : BOOLEAN, version : Nat]
  /\ seen \in [Autos -> Nat]
  /\ pc \in [Tasks -> AutoPcs \cup ManualPcs]
  /\ \A t \in Autos : pc[t] \in AutoPcs
  /\ \A t \in Manuals : pc[t] \in ManualPcs

Working(t) == pc[t] \in {"autoWork", "manualWork"}

\* Two pairings never run at once, whoever asked for them: both would bind the
\* pairing port and save the configuration.
OnePairing == \A t, u \in Tasks : Working(t) /\ Working(u) => t = u

\* Once the user asked, automatic pairing only ends: none starts before the
\* request is over, and the one at work is one that has yet to see it.
UserFirst ==
  \A t \in Autos : Working(t) /\ requested.value => Changed(t)

\* The request does not outlive the call that made it, dropped or not, or
\* automatic pairing would be disabled for good.
RequestEnds == requested.value => \E t \in Manuals :
  manual = t /\ pc[t] \in {"manualLock", "manualWork", "unlock", "reset"}

\* The user's pairing is not kept waiting by the daemon's, however long that
\* one would take: it starts, or the user gives up.
UserServed == \A t \in Manuals :
  (pc[t] = "manualLock") ~> (pc[t] \in {"manualWork", "reset"})
=============================================================================
