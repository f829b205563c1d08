-------------------------------- MODULE Pairing --------------------------------
(***************************************************************************)
(* Pairing as the program runs it: what the calls of PairingCoordinator do *)
(* on one device is to listen for a pairing (auto_pair_from_config in      *)
(* src/src/service.rs, SyncService::pair_listen), and dropping a call      *)
(* drops the exchange it is in.  The other device connects.                *)
(***************************************************************************)
EXTENDS PairingCoordinator

CONSTANTS Codes, NoCode, MaxConns, MaxFaults \* see PairingExchange

ASSUME PairingAssumption ==
  NoCode \notin Codes /\ MaxConns \in Nat /\ MaxFaults \in Nat

VARIABLES listen, port, dial, conns, link, faults

Exchange == INSTANCE PairingExchange WITH Calls <- Tasks, NoCall <- NoOne

exchangeVars == <<listen, port, dial, conns, link, faults>>
pairingVars == <<vars, exchangeVars>>

PairingInit == Init /\ Exchange!ExchangeInit

Same == UNCHANGED exchangeVars

\* Peers are paired, or the automatic pairing is not enabled.
NothingToDo(t) ==
  /\ listen' = [listen EXCEPT ![t].pc = "ended"]
  /\ UNCHANGED <<port, dial, conns, link, faults>>

\* What a call was doing goes with it.
DropWork(t) == IF listen[t].pc = "out" THEN Same ELSE Exchange!Drop(t)

AutoCall(t) ==
  \/ (Subscribe(t) \/ AutoLock(t) \/ AutoCheck(t) \/ AutoLeave(t)) /\ Same
  \/ AutoStart(t) /\ (Exchange!Listen(t) \/ NothingToDo(t))
  \/ AutoFinish(t) /\ Exchange!Leave(t)
  \/ (AutoCancel(t) \/ AutoDropped(t)) /\ DropWork(t)

UserCall(t) ==
  \/ (\/ ManualTry(t) \/ ManualRefused(t) \/ Request(t) \/ ManualDropped(t)
      \/ ManualUnlock(t) \/ Reset(t) \/ ManualLeave(t)) /\ Same
  \/ ManualLock(t) /\ Exchange!Listen(t)
  \/ ManualEnd(t) /\ (Exchange!Leave(t) \/ Exchange!Drop(t))

\* The calls' work, and the other device.
Work == /\ \/ \E t \in Tasks : \/ Exchange!Serve(t) \/ Exchange!SaveServerFails(t)
                               \/ Exchange!ListenExpires(t)
           \/ Exchange!Dial
        /\ UNCHANGED vars

PairingNext == (\E t \in Autos : AutoCall(t)) \/ (\E t \in Manuals : UserCall(t)) \/ Work

PairingSpec == PairingInit /\ [][PairingNext]_pairingVars

(* Fairness: a call that can go on does.  The active mutex is handed to    *)
(* its waiters in turn (SF).  Nothing is assumed of the other device, and  *)
(* time limits are left to the property that needs them.                   *)
FairPairing ==
  /\ PairingSpec
  /\ \A t \in Autos :
       /\ WF_pairingVars(AutoCheck(t) /\ Same)
       /\ WF_pairingVars(AutoStart(t) /\ (Exchange!Listen(t) \/ NothingToDo(t)))
       /\ WF_pairingVars(AutoFinish(t) /\ Exchange!Leave(t))
       /\ WF_pairingVars(AutoCancel(t) /\ DropWork(t)) /\ WF_pairingVars(AutoLeave(t) /\ Same)
  /\ \A t \in Manuals :
       /\ WF_pairingVars(Request(t) /\ Same)
       /\ SF_pairingVars(ManualLock(t) /\ Exchange!Listen(t))
       /\ WF_pairingVars(ManualEnd(t) /\ Exchange!Leave(t))
       /\ WF_pairingVars(ManualUnlock(t) /\ Same) /\ WF_pairingVars(Reset(t) /\ Same)
       /\ WF_pairingVars(ManualLeave(t) /\ Same)
  /\ \A t \in Tasks : WF_pairingVars(Exchange!Serve(t) /\ UNCHANGED vars)

-----------------------------------------------------------------------------
(* Properties.                                                             *)

SameKey == Exchange!SameKey
BothOrNeither == Exchange!BothOrNeither

\* A call is in an exchange only while the coordinator lets it work.
PairingTypeOK ==
  /\ TypeOK /\ Exchange!ExchangeTypeOK
  /\ \A t \in Tasks : listen[t].pc # "out" => Working(t)

\* No call finds the pairing port still bound by the one it took over from.
PortFree == \A t \in Tasks : listen[t].pc = "bind" => port = NoOne

\* Where time limits run out, every pairing comes to an end, whatever the other
\* device does or fails to do.
PairingEnds ==
  (\A t \in Tasks : WF_pairingVars(Exchange!ListenExpires(t) /\ UNCHANGED vars)) =>
    ((\E t \in Tasks : Working(t)) ~> (\A t \in Tasks : ~Working(t)))
=============================================================================
