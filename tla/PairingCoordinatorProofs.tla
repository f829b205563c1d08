----------------------- MODULE PairingCoordinatorProofs -----------------------
(***************************************************************************)
(* Proofs about PairingCoordinator for any number of automatic and manual  *)
(* calls and requests.  The mutexes tell where each call is (ActiveInv,    *)
(* ManualInv), and a call past its look at the channel has a change to     *)
(* see as soon as a request is on (SelectInv).                             *)
(***************************************************************************)
EXTENDS PairingCoordinator, TLAPS

HoldsActive == {"autoCheck", "autoSelect", "autoWork", "autoLeave", "manualWork", "unlock"}

\* The active mutex is held by exactly the call that is past it.
ActiveInv == \A t \in Tasks : pc[t] \in HoldsActive <=> active = t

\* The manual mutex is held by exactly the manual call under way.
ManualInv == \A t \in Manuals : pc[t] # "out" <=> manual = t

\* A call has seen no version that was never sent.
SeenInv == \A t \in Autos : seen[t] <= requested.version

SelectInv ==
  \A t \in Autos : pc[t] \in {"autoSelect", "autoWork"} /\ requested.value => Changed(t)

IInv == TypeOK /\ ActiveInv /\ ManualInv /\ SeenInv /\ SelectInv /\ RequestEnds

LEMMA InitIInv == Init => IInv
BY TasksAssumption
DEF Init, IInv, TypeOK, ActiveInv, ManualInv, SeenInv, SelectInv, RequestEnds, Tasks,
    HoldsActive, AutoPcs, ManualPcs

\* One call moves and no other does.
LEMMA GotoOthers ==
  ASSUME TypeOK, NEW t \in Tasks, NEW where, Goto(t, where)
  PROVE  pc'[t] = where /\ \A u \in Tasks \ {t} : pc'[u] = pc[u]
BY DEF TypeOK, Goto

LEMMA GotoAuto ==
  ASSUME TypeOK, NEW t \in Autos, NEW where \in AutoPcs, Goto(t, where)
  PROVE  /\ pc' \in [Tasks -> AutoPcs \cup ManualPcs]
         /\ \A u \in Autos : pc'[u] \in AutoPcs
         /\ \A u \in Manuals : pc'[u] \in ManualPcs
         /\ t \in Tasks /\ t \notin Manuals
BY TasksAssumption DEF TypeOK, Goto, Tasks

LEMMA GotoManual ==
  ASSUME TypeOK, NEW t \in Manuals, NEW where \in ManualPcs, Goto(t, where)
  PROVE  /\ pc' \in [Tasks -> AutoPcs \cup ManualPcs]
         /\ \A u \in Autos : pc'[u] \in AutoPcs
         /\ \A u \in Manuals : pc'[u] \in ManualPcs
         /\ t \in Tasks /\ t \notin Autos
BY TasksAssumption DEF TypeOK, Goto, Tasks

\* An automatic call moves between two places on the same side of the mutex.
LEMMA AutoMove ==
  ASSUME IInv, NEW t \in Autos, NEW where \in AutoPcs, Goto(t, where),
         UNCHANGED <<active, manual, requested, seen>>,
         pc[t] \in HoldsActive <=> where \in HoldsActive,
         where \in {"autoSelect", "autoWork"} /\ requested.value => Changed(t)
  PROVE  IInv'
<1>1. /\ pc'[t] = where /\ \A u \in Tasks \ {t} : pc'[u] = pc[u]
      /\ t \in Tasks /\ t \notin Manuals /\ Manuals \subseteq Tasks /\ Autos \subseteq Tasks
  BY GotoOthers, GotoAuto DEF IInv, Tasks
<1>2. TypeOK'
  BY GotoAuto DEF IInv, TypeOK
<1>3. ActiveInv'
  BY <1>1 DEF IInv, ActiveInv
<1>4. ManualInv' /\ RequestEnds'
  BY <1>1 DEF IInv, ManualInv, RequestEnds
<1>5. SeenInv' /\ SelectInv'
  BY <1>1 DEF IInv, SeenInv, SelectInv, Changed
<1> QED  BY <1>2, <1>3, <1>4, <1>5 DEF IInv

LEMMA AutoStep == ASSUME IInv, NEW t \in Autos, Automatic(t) PROVE IInv'
<1> USE DEF AutoPcs, HoldsActive
<1>0. /\ TypeOK /\ t \in Tasks /\ t \notin Manuals /\ Manuals \subseteq Tasks
      /\ Autos \subseteq Tasks /\ active \in Tasks \cup {NoOne}
  BY TasksAssumption DEF IInv, TypeOK, Tasks
<1>1. CASE Subscribe(t)
  <2>1. /\ pc[t] = "out" /\ seen' = [seen EXCEPT ![t] = requested.version]
        /\ Goto(t, "autoLock") /\ UNCHANGED <<active, manual, requested>>
    BY <1>1 DEF Subscribe
  <2>2. /\ pc'[t] = "autoLock" /\ \A u \in Tasks \ {t} : pc'[u] = pc[u]
    BY <1>0, <2>1, GotoOthers
  <2>3. seen \in [Autos -> Nat] /\ requested.version \in Nat
    BY <1>0 DEF TypeOK
  <2>4. TypeOK'
    BY <1>0, <2>1, <2>3, GotoAuto DEF TypeOK
  <2>5. ActiveInv' /\ ManualInv' /\ RequestEnds'
    BY <1>0, <2>1, <2>2 DEF IInv, ActiveInv, ManualInv, RequestEnds
  <2>6. SeenInv' /\ SelectInv'
    BY <1>0, <2>1, <2>2, <2>3 DEF IInv, SeenInv, SelectInv, Changed
  <2> QED  BY <2>4, <2>5, <2>6 DEF IInv
<1>2. CASE AutoLock(t)
  <2>1. /\ pc[t] = "autoLock" /\ active = NoOne /\ active' = t
        /\ Goto(t, "autoCheck") /\ UNCHANGED <<manual, requested, seen>>
    BY <1>2 DEF AutoLock
  <2>2. /\ pc'[t] = "autoCheck" /\ \A u \in Tasks \ {t} : pc'[u] = pc[u]
    BY <1>0, <2>1, GotoOthers
  <2>3. TypeOK'
    BY <1>0, <2>1, GotoAuto DEF TypeOK
  <2>4. ActiveInv'
    BY <1>0, <2>1, <2>2, TasksAssumption DEF IInv, ActiveInv, Tasks
  <2>5. ManualInv' /\ RequestEnds'
    BY <1>0, <2>1, <2>2 DEF IInv, ManualInv, RequestEnds
  <2>6. SeenInv' /\ SelectInv'
    BY <1>0, <2>1, <2>2 DEF IInv, SeenInv, SelectInv, Changed
  <2> QED  BY <2>3, <2>4, <2>5, <2>6 DEF IInv
<1>3. CASE AutoCheck(t)
  <2>1. CASE requested.value
    BY <1>3, <2>1, AutoMove DEF AutoCheck
  <2>2. CASE ~requested.value
    BY <1>3, <2>2, AutoMove DEF AutoCheck
  <2> QED  BY <2>1, <2>2
<1>4. CASE AutoStart(t)
  BY <1>4, AutoMove DEF AutoStart, IInv, SelectInv
<1>5. CASE AutoCancel(t)
  BY <1>5, AutoMove DEF AutoCancel
<1>6. CASE AutoFinish(t)
  BY <1>6, AutoMove DEF AutoFinish
<1>7. CASE AutoDropped(t)
  <2>1. pc[t] \in HoldsActive <=> active = t
    BY <1>0 DEF IInv, ActiveInv
  <2>2. CASE active = t
    BY <1>7, <2>1, <2>2, AutoMove DEF AutoDropped
  <2>3. CASE active # t
    BY <1>7, <2>1, <2>3, AutoMove DEF AutoDropped
  <2> QED  BY <2>2, <2>3
<1>8. CASE AutoLeave(t)
  <2>1. /\ pc[t] = "autoLeave" /\ active' = NoOne
        /\ Goto(t, "out") /\ UNCHANGED <<manual, requested, seen>>
    BY <1>8 DEF AutoLeave
  <2>2. /\ pc'[t] = "out" /\ \A u \in Tasks \ {t} : pc'[u] = pc[u]
    BY <1>0, <2>1, GotoOthers
  <2>3. TypeOK'
    BY <1>0, <2>1, GotoAuto DEF TypeOK
  <2>4. ActiveInv'
    BY <1>0, <2>1, <2>2, TasksAssumption DEF IInv, ActiveInv, Tasks
  <2>5. ManualInv' /\ RequestEnds'
    BY <1>0, <2>1, <2>2 DEF IInv, ManualInv, RequestEnds
  <2>6. SeenInv' /\ SelectInv'
    BY <1>0, <2>1, <2>2 DEF IInv, SeenInv, SelectInv, Changed
  <2> QED  BY <2>3, <2>4, <2>5, <2>6 DEF IInv
<1> QED  BY <1>1, <1>2, <1>3, <1>4, <1>5, <1>6, <1>7, <1>8 DEF Automatic

\* Steps of a manual call: each lemma is the part of IInv one variable decides.
LEMMA ManualFrame ==
  ASSUME IInv, NEW t \in Manuals, NEW where \in ManualPcs, Goto(t, where)
  PROVE  /\ pc'[t] = where /\ \A u \in Tasks \ {t} : pc'[u] = pc[u]
         /\ TypeOK' <=> /\ active' \in Tasks \cup {NoOne} /\ manual' \in Manuals \cup {NoOne}
                        /\ requested' \in [value : BOOLEAN, version : Nat]
                        /\ seen' \in [Autos -> Nat]
         /\ t \in Tasks /\ t \notin Autos /\ Manuals \subseteq Tasks /\ Autos \subseteq Tasks
  BY GotoOthers, GotoManual DEF IInv, TypeOK, Tasks

LEMMA ManualStep == ASSUME IInv, NEW t \in Manuals, Manual(t) PROVE IInv'
<1> USE DEF ManualPcs
<1>0. /\ active \in Tasks \cup {NoOne} /\ manual \in Manuals \cup {NoOne}
      /\ requested \in [value : BOOLEAN, version : Nat] /\ seen \in [Autos -> Nat]
      /\ t \in Tasks /\ t \notin Autos /\ Manuals \subseteq Tasks /\ Autos \subseteq Tasks
  BY TasksAssumption DEF IInv, TypeOK, Tasks
<1>1. ASSUME NEW where \in ManualPcs, Goto(t, where),
             UNCHANGED <<active, manual, requested, seen>>,
             pc[t] # "out", where # "out",
             pc[t] \in HoldsActive <=> where \in HoldsActive,
             requested.value => where \in {"manualLock", "manualWork", "unlock", "reset"}
      PROVE  IInv'
  <2>1. TypeOK' /\ ActiveInv'
    BY <1>0, <1>1, ManualFrame DEF IInv, ActiveInv
  <2>2. ManualInv' /\ RequestEnds'
    BY <1>0, <1>1, ManualFrame DEF IInv, ManualInv, RequestEnds
  <2>3. SeenInv' /\ SelectInv'
    BY <1>0, <1>1, ManualFrame DEF IInv, SeenInv, SelectInv, Changed
  <2> QED  BY <2>1, <2>2, <2>3 DEF IInv
<1>2. CASE ManualTry(t)
  <2>1. /\ pc[t] = "out" /\ manual = NoOne /\ manual' = t /\ Goto(t, "request")
        /\ UNCHANGED <<active, requested, seen>>
    BY <1>2 DEF ManualTry
  <2>2. TypeOK' /\ ActiveInv'
    BY <1>0, <2>1, ManualFrame DEF IInv, ActiveInv, HoldsActive
  <2>3. ManualInv' /\ RequestEnds'
    BY <1>0, <2>1, ManualFrame, TasksAssumption DEF IInv, ManualInv, RequestEnds, Tasks
  <2>4. SeenInv' /\ SelectInv'
    BY <1>0, <2>1, ManualFrame DEF IInv, SeenInv, SelectInv, Changed
  <2> QED  BY <2>2, <2>3, <2>4 DEF IInv
<1>3. CASE ManualRefused(t)
  BY <1>3 DEF ManualRefused, vars, IInv, TypeOK, ActiveInv, ManualInv, SeenInv, SelectInv,
              RequestEnds, Changed
<1>4. CASE Request(t)
  <2>1. /\ pc[t] = "request" /\ Goto(t, "manualLock")
        /\ requested' = [value |-> TRUE, version |-> requested.version + 1]
        /\ UNCHANGED <<active, manual, seen>>
    BY <1>4 DEF Request, Send
  <2>2. TypeOK' /\ ActiveInv'
    BY <1>0, <2>1, ManualFrame DEF IInv, ActiveInv, HoldsActive
  <2>3. ManualInv' /\ RequestEnds'
    BY <1>0, <2>1, ManualFrame DEF IInv, ManualInv, RequestEnds
  <2>4. SeenInv' /\ SelectInv'
    BY <1>0, <2>1, ManualFrame DEF IInv, SeenInv, SelectInv, Changed
  <2> QED  BY <2>2, <2>3, <2>4 DEF IInv
<1>5. CASE ManualLock(t)
  <2>1. /\ pc[t] = "manualLock" /\ active = NoOne /\ active' = t
        /\ Goto(t, "manualWork") /\ UNCHANGED <<manual, requested, seen>>
    BY <1>5 DEF ManualLock
  <2>2. TypeOK' /\ ActiveInv'
    BY <1>0, <2>1, ManualFrame, TasksAssumption DEF IInv, ActiveInv, HoldsActive, Tasks
  <2>3. ManualInv' /\ RequestEnds'
    BY <1>0, <2>1, ManualFrame DEF IInv, ManualInv, RequestEnds
  <2>4. SeenInv' /\ SelectInv'
    BY <1>0, <2>1, ManualFrame DEF IInv, SeenInv, SelectInv, Changed
  <2> QED  BY <2>2, <2>3, <2>4 DEF IInv
<1>6. CASE ManualEnd(t)
  BY <1>1, <1>6 DEF ManualEnd, HoldsActive
<1>7. CASE ManualDropped(t)
  BY <1>1, <1>7 DEF ManualDropped, HoldsActive
<1>8. CASE ManualUnlock(t)
  <2>1. /\ pc[t] = "unlock" /\ active' = NoOne
        /\ Goto(t, "reset") /\ UNCHANGED <<manual, requested, seen>>
    BY <1>8 DEF ManualUnlock
  <2>2. TypeOK' /\ ActiveInv'
    BY <1>0, <2>1, ManualFrame, TasksAssumption DEF IInv, ActiveInv, HoldsActive, Tasks
  <2>3. ManualInv' /\ RequestEnds'
    BY <1>0, <2>1, ManualFrame DEF IInv, ManualInv, RequestEnds
  <2>4. SeenInv' /\ SelectInv'
    BY <1>0, <2>1, ManualFrame DEF IInv, SeenInv, SelectInv, Changed
  <2> QED  BY <2>2, <2>3, <2>4 DEF IInv
<1>9. CASE Reset(t)
  <2>1. /\ pc[t] = "reset" /\ Goto(t, "manualLeave")
        /\ requested' = [value |-> FALSE, version |-> requested.version + 1]
        /\ UNCHANGED <<active, manual, seen>>
    BY <1>9 DEF Reset, Send
  <2>2. TypeOK' /\ ActiveInv'
    BY <1>0, <2>1, ManualFrame DEF IInv, ActiveInv, HoldsActive
  <2>3. ManualInv' /\ RequestEnds'
    BY <1>0, <2>1, ManualFrame DEF IInv, ManualInv, RequestEnds
  <2>4. SeenInv' /\ SelectInv'
    BY <1>0, <2>1, ManualFrame DEF IInv, SeenInv, SelectInv, Changed
  <2> QED  BY <2>2, <2>3, <2>4 DEF IInv
<1>10. CASE ManualLeave(t)
  <2>1. /\ pc[t] = "manualLeave" /\ manual' = NoOne
        /\ Goto(t, "out") /\ UNCHANGED <<active, requested, seen>>
    BY <1>10 DEF ManualLeave
  <2>2. TypeOK' /\ ActiveInv'
    BY <1>0, <2>1, ManualFrame DEF IInv, ActiveInv, HoldsActive
  <2>3. ManualInv' /\ RequestEnds'
    BY <1>0, <2>1, ManualFrame, TasksAssumption DEF IInv, ManualInv, RequestEnds, Tasks
  <2>4. SeenInv' /\ SelectInv'
    BY <1>0, <2>1, ManualFrame DEF IInv, SeenInv, SelectInv, Changed
  <2> QED  BY <2>2, <2>3, <2>4 DEF IInv
<1> QED  BY <1>2, <1>3, <1>4, <1>5, <1>6, <1>7, <1>8, <1>9, <1>10 DEF Manual

LEMMA NextIInv == IInv /\ [Next]_vars => IInv'
<1>1. ASSUME IInv, UNCHANGED vars PROVE IInv'
  BY <1>1 DEF vars, IInv, TypeOK, ActiveInv, ManualInv, SeenInv, SelectInv, RequestEnds, Changed
<1> QED  BY <1>1, AutoStep, ManualStep DEF Next

LEMMA Invariance == Spec => []IInv
BY InitIInv, NextIInv, PTL DEF Spec

(* The active mutex keeps pairings apart, automatic or manual, however     *)
(* many calls there are and wherever they are dropped.                     *)
THEOREM OnePairingCorrect == Spec => []OnePairing
<1>1. IInv => OnePairing
  BY DEF IInv, ActiveInv, OnePairing, Working, HoldsActive
<1> QED  BY <1>1, Invariance, PTL

(* Once the user asked, no automatic pairing starts, and one that works    *)
(* has a change to see.                                                    *)
THEOREM UserFirstCorrect == Spec => []UserFirst
<1>1. IInv => UserFirst
  BY DEF IInv, TypeOK, AutoPcs, SelectInv, UserFirst, Working
<1> QED  BY <1>1, Invariance, PTL

(* A request is on only while the call that made it holds the manual       *)
(* mutex: ResetRequest takes it back however the call ends.                *)
THEOREM RequestEndsCorrect == Spec => []RequestEnds
<1>1. IInv => RequestEnds
  BY DEF IInv
<1> QED  BY <1>1, Invariance, PTL
=============================================================================
