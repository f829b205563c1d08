----------------------------- MODULE InstanceProofs ----------------------------
(***************************************************************************)
(* One daemon at a time, and no stale stop, for every set of daemons and   *)
(* askers.                                                                 *)
(*                                                                         *)
(* The inductive invariant says what the event stands for: a daemon with   *)
(* tasks holds a handle (HeldInv), so CreateEventW finds the event when    *)
(* there is one (AloneInv), and a new event is not signaled, so that a     *)
(* signal is for the daemon that has the event (SignalInv).  The window's  *)
(* flag is reset only when its thread is off (FlagInv, JoinInv).           *)
(***************************************************************************)
EXTENDS Instance, TLAPS

TypeInv ==
  /\ daemon \in [Daemons -> {"off", "create", "refused", "pairing", "run",
                             "ending", "shutdown", "closed"}]
  /\ ask \in [Askers -> {"idle", "polled", "stop", "signal", "close", "wait",
                         "waited", "join", "start", "started", "starting"}]
  /\ signaled \in BOOLEAN /\ stopping \in BOOLEAN /\ join \in BOOLEAN

HeldInv == \A d \in Daemons : Alive(d) => d \in open
AloneInv == \A d, e \in Daemons : Alive(d) /\ Alive(e) => d = e
SignalInv == signaled => \A d \in Daemons : Alive(d) => d \in wanted
FlagInv == stopping /\ daemon[Thread] # "off" => Thread \in wanted
JoinInv == daemon[Thread] # "off" => join

IInv == TypeInv /\ HeldInv /\ AloneInv /\ SignalInv /\ FlagInv /\ JoinInv

LEMMA InitInv == Init => IInv
  BY DEF Init, IInv, TypeInv, HeldInv, AloneInv, SignalInv, FlagInv, JoinInv,
         Alive, Daemons, Askers, Thread

\* A daemon that goes on without closing its handle or becoming alive.
LEMMA StaysInv ==
  ASSUME IInv, NEW d \in Daemons, NEW from, NEW pc,
         pc \in {"refused", "pairing", "run", "ending", "shutdown", "closed", "off"},
         from \in {"create", "pairing", "run", "ending", "closed"},
         pc \in {"pairing", "run", "ending", "shutdown"}
           => from \in {"pairing", "run", "ending"},
         DaemonStep(d, from, pc), SameEvent, UNCHANGED wanted
  PROVE  IInv'
  BY DEF IInv, TypeInv, HeldInv, AloneInv, SignalInv, FlagInv, JoinInv,
         Alive, DaemonStep, To, SameEvent, Daemons

\* A daemon that is not alive afterwards may let go of the event.
LEMMA LeavesInv ==
  ASSUME IInv, NEW d \in Daemons, NEW from, NEW pc,
         pc \in {"closed"}, from \in {"refused", "shutdown"},
         DaemonStep(d, from, pc), CloseHandle(d)
  PROVE  IInv'
  BY DEF IInv, TypeInv, HeldInv, AloneInv, SignalInv, FlagInv, JoinInv,
         Alive, DaemonStep, To, CloseHandle, Daemons

LEMMA CreateInv == ASSUME IInv, NEW d \in Daemons, Create(d) PROVE IInv'
<1>1. CASE open = {}
  BY <1>1 DEF IInv, TypeInv, HeldInv, AloneInv, SignalInv, FlagInv, JoinInv,
              Alive, Create, DaemonStep, To, Daemons
<1>2. CASE open # {}
  BY <1>2 DEF IInv, TypeInv, HeldInv, AloneInv, SignalInv, FlagInv, JoinInv,
              Alive, Create, DaemonStep, To, Daemons
<1> QED BY <1>1, <1>2

LEMMA LaunchInv == ASSUME IInv, NEW d \in Daemons, Launch(d) PROVE IInv'
  BY InstanceAssumption DEF IInv, TypeInv, HeldInv, AloneInv, SignalInv, FlagInv,
     JoinInv, Alive, Launch, DaemonStep, To, SameEvent, Daemons, Thread

LEMMA KillInv == ASSUME IInv, NEW d \in Daemons, Kill(d) PROVE IInv'
  BY InstanceAssumption DEF IInv, TypeInv, HeldInv, AloneInv, SignalInv, FlagInv,
     JoinInv, Alive, Kill, To, CloseHandle, Daemons, Thread

LEMMA DaemonInv ==
  ASSUME IInv, NEW d \in Daemons,
         \/ Launch(d) \/ DaemonRuns(d) \/ Kill(d)
         \/ Paired(d) \/ CreateFails(d) \/ StartFails(d) \/ RunFails(d)
  PROVE  IInv'
<1>1. CASE Launch(d) BY <1>1, LaunchInv
<1>2. CASE Kill(d) BY <1>2, KillInv
<1>3. CASE Create(d) BY <1>3, CreateInv
<1>4. CASE Refused(d) \/ Shutdown(d) BY <1>4, LeavesInv DEF Refused, Shutdown
<1>5. CASE PairingStopped(d) BY <1>5, StaysInv DEF PairingStopped
<1>6. CASE RunStopped(d) BY <1>6, StaysInv DEF RunStopped
<1>7. CASE TasksEnd(d) BY <1>7, StaysInv DEF TasksEnd
<1>8. CASE Exit(d) BY <1>8, StaysInv DEF Exit
<1>9. CASE Paired(d) BY <1>9, StaysInv DEF Paired
<1>10. CASE CreateFails(d) BY <1>10, StaysInv DEF CreateFails
<1>11. CASE StartFails(d) BY <1>11, StaysInv DEF StartFails
<1>12. CASE RunFails(d) BY <1>12, StaysInv DEF RunFails
<1> QED
  BY <1>1, <1>2, <1>3, <1>4, <1>5, <1>6, <1>7, <1>8, <1>9, <1>10, <1>11, <1>12
  DEF DaemonRuns

\* An asker has no part in the invariant but its handle, which is not a daemon's.
LEMMA AsksInv ==
  ASSUME IInv, SameService, ask' \in [Askers -> {"idle", "polled", "stop", "signal",
           "close", "wait", "waited", "join", "start", "started", "starting"}],
         \A d \in Daemons : d \in open => d \in open',
         wanted \subseteq wanted',
         \/ signaled' = signaled
         \/ signaled' = TRUE /\ \A d \in Daemons : Alive(d) => d \in wanted'
  PROVE  IInv'
<1>1. TypeInv' BY DEF IInv, TypeInv, SameService
<1>2. HeldInv' /\ AloneInv' BY DEF IInv, HeldInv, AloneInv, SameService, Alive
<1>3. SignalInv' BY DEF IInv, SignalInv, SameService, Alive
<1>4. FlagInv' /\ JoinInv' BY DEF IInv, FlagInv, JoinInv, SameService
<1> QED BY <1>1, <1>2, <1>3, <1>4 DEF IInv

LEMMA HandleIsOwn == ASSUME NEW a \in Askers PROVE a \notin Daemons
  BY InstanceAssumption DEF Askers, Daemons, Thread, Window

LEMMA AskerInv ==
  ASSUME IInv, NEW a \in Askers,
         Poll(a) \/ PollEnd(a) \/ StopCommand(a) \/ RequestStop(a)
  PROVE  IInv'
<1> USE HandleIsOwn
<1>a. ask \in [Askers -> {"idle", "polled", "stop", "signal", "close", "wait",
                         "waited", "join", "start", "started", "starting"}]
  BY DEF IInv, TypeInv
<1>1. CASE Poll(a)
  BY <1>1, <1>a, AsksInv DEF Poll, Asks, Hold
<1>2. CASE PollEnd(a)
  BY <1>2, <1>a, AsksInv DEF PollEnd, Asks, CloseHandle
<1>3. CASE StopCommand(a)
  BY <1>3, <1>a, AsksInv DEF StopCommand, Asks, SameEvent
<1>4. CASE StopNone(a) \/ StopGone(a)
  BY <1>4, <1>a, AsksInv DEF StopNone, StopGone, Asks, SameEvent, AfterStop
<1>5. CASE StopOpen(a) \/ StopWait(a)
  BY <1>5, <1>a, AsksInv DEF StopOpen, StopWait, Asks, Hold
<1>6. CASE SetEvent(a)
  BY <1>6, <1>a, AsksInv DEF SetEvent, Asks
<1>7. CASE StopClose(a)
  BY <1>7, <1>a, AsksInv DEF StopClose, Asks, CloseHandle
<1>8. CASE StopWaited(a)
  BY <1>8, <1>a, AsksInv DEF StopWaited, Asks, CloseHandle
<1> QED
  BY <1>1, <1>2, <1>3, <1>4, <1>5, <1>6, <1>7, <1>8 DEF RequestStop

LEMMA WindowInv ==
  ASSUME IInv, StartBegin \/ StartRunning \/ Stop \/ WindowRuns \/ WindowKilled
  PROVE  IInv'
<1> USE HandleIsOwn
<1>a. /\ ask \in [Askers -> {"idle", "polled", "stop", "signal", "close", "wait",
                            "waited", "join", "start", "started", "starting"}]
      /\ Window \in Askers
  BY DEF IInv, TypeInv, Askers
<1>1. CASE StartBegin \/ StartTwice \/ StartFailed \/ StartLooks \/ StartNotYet
  BY <1>1, <1>a, AsksInv
  DEF StartBegin, StartTwice, StartFailed, StartLooks, StartNotYet, WindowStep, Asks
<1>2. CASE StartRunning \/ StartDone
  BY <1>2, <1>a, AsksInv DEF StartRunning, StartDone, Asks, Hold
<1>3. CASE Spawn
  <2> USE <1>3
  <2>1. daemon[Thread] = "off" BY DEF IInv, JoinInv, Spawn
  <2>2. TypeInv' BY <1>a DEF IInv, TypeInv, Spawn, WindowStep, Asks, To
  <2>3. \A d \in Daemons : Alive(d)' <=> Alive(d)
    BY <2>1 DEF IInv, TypeInv, Spawn, To, Alive, Daemons
  <2>4. HeldInv' /\ AloneInv'
    BY <2>3 DEF IInv, HeldInv, AloneInv, Spawn, WindowStep
  <2>5. \A d \in Daemons : Alive(d) /\ d \in wanted => d \in wanted'
    BY <2>1 DEF Spawn, Alive
  <2>6. SignalInv'
    BY <2>3, <2>5 DEF IInv, SignalInv, Spawn, WindowStep
  <2>7. FlagInv' /\ JoinInv' BY DEF FlagInv, JoinInv, Spawn
  <2> QED BY <2>2, <2>4, <2>6, <2>7 DEF IInv
<1>4. CASE Stop
  <2> USE <1>4
  <2>1. TypeInv' BY <1>a DEF IInv, TypeInv, Stop, WindowStep, Asks
  <2>2. HeldInv' /\ AloneInv' /\ SignalInv' /\ JoinInv'
    BY DEF IInv, HeldInv, AloneInv, SignalInv, JoinInv, Stop, WindowStep, Alive
  <2>3. FlagInv' BY DEF FlagInv, Stop
  <2> QED BY <2>1, <2>2, <2>3 DEF IInv
<1>5. CASE Join
  <2> USE <1>5
  <2>1. TypeInv' BY <1>a DEF IInv, TypeInv, Join, WindowStep, Asks
  <2>2. HeldInv' /\ AloneInv' /\ SignalInv' /\ FlagInv'
    BY DEF IInv, HeldInv, AloneInv, SignalInv, FlagInv, Join, WindowStep, Alive
  <2>3. JoinInv' BY DEF IInv, JoinInv, Join
  <2> QED BY <2>1, <2>2, <2>3 DEF IInv
<1>6. CASE WindowKilled
  <2> USE <1>6
  <2>1. TypeInv' BY <1>a DEF IInv, TypeInv, WindowKilled, To
  <2>2. Thread \in Daemons /\ daemon'[Thread] = "off"
    BY DEF IInv, TypeInv, WindowKilled, To, Daemons
  <2>3. \A d \in Daemons : Alive(d)' => Alive(d) /\ d # Thread
    BY <2>2 DEF IInv, TypeInv, WindowKilled, To, Alive
  <2>4. HeldInv' /\ AloneInv'
    BY <2>3, <1>a DEF IInv, HeldInv, AloneInv, WindowKilled
  <2>5. SignalInv' BY <2>3 DEF IInv, SignalInv, WindowKilled
  <2>6. FlagInv' /\ JoinInv' BY <2>2 DEF FlagInv, JoinInv
  <2> QED BY <2>1, <2>4, <2>5, <2>6 DEF IInv
<1> QED BY <1>1, <1>2, <1>3, <1>4, <1>5, <1>6 DEF WindowRuns

LEMMA NextInv == ASSUME IInv, [Next]_vars PROVE IInv'
<1>1. CASE UNCHANGED vars
  BY <1>1 DEF vars, IInv, TypeInv, HeldInv, AloneInv, SignalInv, FlagInv, JoinInv, Alive
<1>2. CASE Next
  BY <1>2, DaemonInv, AskerInv, WindowInv DEF Next
<1> QED BY <1>1, <1>2

LEMMA Invariance == Spec => []IInv
  BY InitInv, NextInv, PTL DEF Spec

\* At most one daemon of a device has tasks, for any number of starts, stops,
\* kills and pollers at the same time (InstanceControl::create).
THEOREM OneDaemonCorrect == Spec => []OneDaemon
<1>1. IInv => OneDaemon BY DEF IInv, AloneInv, OneDaemon
<1> QED BY <1>1, Invariance, PTL

\* No daemon obeys a stop that was asked for before it was started: a signaled
\* event is never handed to a new daemon (InstanceControl::create) and the flag
\* is reset before the thread is spawned (SyncService::start).
THEOREM NoStaleStopCorrect == Spec => []NoStaleStop
<1>1. IInv => NoStaleStop
  BY DEF IInv, SignalInv, FlagInv, NoStaleStop, StopSeen, Alive
<1> QED BY <1>1, Invariance, PTL

\* What a step does to the place of an asker that does not take it.
LEMMA AsksOnly ==
  ASSUME TypeInv, NEW a \in Askers, NEW b \in Askers, NEW from, NEW pc,
         Asks(b, from, pc), ask'[a] # ask[a]
  PROVE  a = b /\ ask[a] = from /\ ask'[a] = pc
  BY DEF TypeInv, Asks

LEMMA GoneStep ==
  ASSUME IInv, [Next]_vars, NEW a \in Askers,
         ask[a] \in {"close", "wait"}, ask'[a] = AfterStop(a)
  PROVE  \A d \in Daemons : ~Working(d)
<1>a. TypeInv /\ ask'[a] # ask[a] BY DEF IInv, AfterStop
<1>1. open = {}
  <2>1. CASE UNCHANGED vars BY <2>1, <1>a DEF vars
  <2>2. CASE \E d \in Daemons :
              \/ Launch(d) \/ DaemonRuns(d) \/ Kill(d)
              \/ Paired(d) \/ CreateFails(d) \/ StartFails(d) \/ RunFails(d)
    BY <2>2, <1>a
    DEF Launch, DaemonRuns, Kill, Paired, CreateFails, StartFails, RunFails, Create,
        Refused, PairingStopped, RunStopped, TasksEnd, Shutdown, Exit, DaemonStep
  <2>3. CASE \E b \in Askers : Poll(b) \/ PollEnd(b) \/ StopCommand(b) \/ RequestStop(b)
    <3>1. PICK b \in Askers : Poll(b) \/ PollEnd(b) \/ StopCommand(b) \/ RequestStop(b)
      BY <2>3
    <3>2. CASE Poll(b) BY <3>2, <1>a, AsksOnly DEF Poll
    <3>3. CASE PollEnd(b) BY <3>3, <1>a, AsksOnly DEF PollEnd
    <3>4. CASE StopCommand(b) BY <3>4, <1>a, AsksOnly DEF StopCommand
    <3>5. CASE StopNone(b) \/ StopGone(b) BY <3>5 DEF StopNone, StopGone
    <3>6. CASE StopOpen(b) BY <3>6, <1>a, AsksOnly DEF StopOpen
    <3>7. CASE SetEvent(b) BY <3>7, <1>a, AsksOnly DEF SetEvent
    <3>8. CASE StopClose(b) BY <3>8, <1>a, AsksOnly DEF StopClose, AfterStop
    <3>9. CASE StopWait(b) BY <3>9, <1>a, AsksOnly DEF StopWait, AfterStop
    <3>10. CASE StopWaited(b) BY <3>10, <1>a, AsksOnly DEF StopWaited
    <3> QED
      BY <3>1, <3>2, <3>3, <3>4, <3>5, <3>6, <3>7, <3>8, <3>9, <3>10 DEF RequestStop
  <2>4. CASE StartBegin \/ StartRunning \/ Stop \/ WindowRuns
    <3>1. Window \in Askers BY DEF Askers
    <3>2. CASE StartBegin \/ Stop
      BY <3>1, <3>2, <1>a, AsksOnly DEF StartBegin, Stop, WindowStep
    <3>3. CASE StartRunning \/ StartDone
      BY <3>1, <3>3, <1>a, AsksOnly DEF StartRunning, StartDone
    <3>4. CASE StartTwice \/ StartFailed \/ StartLooks \/ StartNotYet
      BY <3>1, <3>4, <1>a, AsksOnly
      DEF StartTwice, StartFailed, StartLooks, StartNotYet, WindowStep
    <3>5. CASE Spawn \/ Join
      BY <3>1, <3>5, <1>a, AsksOnly DEF Spawn, Join, WindowStep
    <3> QED BY <2>4, <3>2, <3>3, <3>4, <3>5 DEF WindowRuns
  <2>5. CASE WindowKilled
    <3>1. a = Window => ask'[a] = "idle" BY <2>5, <1>a DEF WindowKilled, TypeInv
    <3>2. a # Window => ask'[a] = ask[a] BY <2>5, <1>a DEF WindowKilled, TypeInv
    <3> QED BY <3>1, <3>2, <1>a DEF AfterStop
  <2> QED BY <2>1, <2>2, <2>3, <2>4, <2>5 DEF Next
<1> QED BY <1>1 DEF IInv, HeldInv, Alive, Working

\* request_stop says Ok only when no daemon has tasks left: the event is not gone
\* before they are (the end of run_daemon).
THEOREM StopGoneMeansGoneCorrect == Spec => StopGoneMeansGone
<1>1. IInv /\ [Next]_vars =>
        [\A a \in Askers :
           ask[a] \in {"close", "wait"} /\ ask'[a] = AfterStop(a)
             => \A d \in Daemons : ~Working(d)]_vars
  BY GoneStep
<1> QED BY <1>1, Invariance, PTL DEF Spec, StopGoneMeansGone
-----------------------------------------------------------------------------
(* The rest of the type invariant: a wait ends with its last round.        *)

\* An asker that counts rounds has one left.
LeftInv == \A a \in Askers :
  ask[a] \in {"wait", "waited", "started", "starting"} => left[a] # 0

\* A step of an asker that leaves the counts alone.
LEMMA CountsStay ==
  ASSUME TypeOK, LeftInv, NEW a \in Askers, NEW from, NEW pc, Asks(a, from, pc), SameCounts,
         pc \in {"wait", "waited", "started", "starting"}
           => from \in {"wait", "waited", "started", "starting"}
  PROVE  LeftInv'
  BY DEF TypeOK, LeftInv, Asks, SameCounts

LEMMA AskerTypeOK ==
  ASSUME TypeOK, LeftInv, NEW a \in Askers,
         Poll(a) \/ PollEnd(a) \/ StopCommand(a) \/ RequestStop(a)
  PROVE  (TypeOK /\ LeftInv)'
<1>1. CASE Poll(a)
  <2>1. TypeOK'  BY <1>1 DEF Poll, Asks, Hold, SameService, SameCounts, TypeOK
  <2>2. LeftInv'  BY <1>1 DEF Poll, Asks, SameCounts, LeftInv, TypeOK
  <2> QED  BY <2>1, <2>2
<1>2. CASE PollEnd(a)
  <2>1. TypeOK'  BY <1>2 DEF PollEnd, Asks, CloseHandle, SameService, SameCounts, TypeOK
  <2>2. LeftInv'  BY <1>2 DEF PollEnd, Asks, SameCounts, LeftInv, TypeOK
  <2> QED  BY <2>1, <2>2
<1>3. CASE StopCommand(a)
  BY <1>3, CountsStay DEF StopCommand, Asks, SameEvent, SameService, SameCounts, TypeOK
<1>4. CASE StopNone(a) \/ StopGone(a)
  BY <1>4, CountsStay
  DEF StopNone, StopGone, AfterStop, Asks, SameEvent, SameService, SameCounts, TypeOK
<1>5. CASE StopOpen(a) \/ StopWait(a)
  BY <1>5, CountsStay DEF StopOpen, StopWait, Asks, Hold, SameService, SameCounts, TypeOK
<1>6. CASE SetEvent(a)
  BY <1>6, CountsStay DEF SetEvent, Asks, SameService, SameCounts, TypeOK
<1>7. CASE StopClose(a)
  BY <1>7, InstanceAssumption
  DEF StopClose, Asks, CloseHandle, SameService, TypeOK, LeftInv
<1>8. CASE StopWaited(a)
  BY <1>8, InstanceAssumption
  DEF StopWaited, Asks, CloseHandle, SameService, TypeOK, LeftInv
<1> QED
  BY <1>1, <1>2, <1>3, <1>4, <1>5, <1>6, <1>7, <1>8 DEF RequestStop

LEMMA WindowTypeOK ==
  ASSUME TypeOK, LeftInv, StartBegin \/ StartRunning \/ Stop \/ WindowRuns \/ WindowKilled
  PROVE  (TypeOK /\ LeftInv)'
<1>a. Window \in Askers /\ Thread \in Daemons
  BY DEF Askers, Daemons
<1>1. CASE StartBegin \/ StartTwice \/ StartFailed \/ StartLooks
  BY <1>1, <1>a, CountsStay
  DEF StartBegin, StartTwice, StartFailed, StartLooks, WindowStep, Asks, SameService,
      SameCounts, TypeOK
<1>2. CASE StartRunning \/ StartDone
  BY <1>2, <1>a, CountsStay DEF StartRunning, StartDone, Asks, Hold, SameService, SameCounts, TypeOK
<1>3. CASE Spawn
  <2>1. MaxPolls \in 0..MaxPolls /\ MaxPolls # 0  BY InstanceAssumption
  <2>2. TypeOK'  BY <1>3, <1>a, <2>1 DEF Spawn, WindowStep, Asks, To, TypeOK
  <2>3. LeftInv'  BY <1>3, <1>a, <2>1 DEF Spawn, WindowStep, Asks, LeftInv, TypeOK
  <2> QED  BY <2>2, <2>3
<1>4. CASE StartNotYet
  BY <1>4, <1>a, InstanceAssumption DEF StartNotYet, WindowStep, Asks, SameService, TypeOK, LeftInv
<1>5. CASE Stop \/ Join
  BY <1>5, <1>a DEF Stop, Join, WindowStep, Asks, TypeOK, LeftInv
<1>6. CASE WindowKilled
  <2>1. 0 \in 0..MaxPolls  BY InstanceAssumption
  <2>2. TypeOK'  BY <1>6, <1>a, <2>1 DEF WindowKilled, To, TypeOK
  <2>3. LeftInv'  BY <1>6, <1>a DEF WindowKilled, LeftInv, TypeOK
  <2> QED  BY <2>2, <2>3
<1> QED BY <1>1, <1>2, <1>3, <1>4, <1>5, <1>6 DEF WindowRuns

LEMMA DaemonTypeOK ==
  ASSUME TypeOK, LeftInv, NEW d \in Daemons,
         \/ Launch(d) \/ DaemonRuns(d) \/ Kill(d)
         \/ Paired(d) \/ CreateFails(d) \/ StartFails(d) \/ RunFails(d)
  PROVE  (TypeOK /\ LeftInv)'
<1>1. UNCHANGED <<ask, left, join, stopping>>
  BY DEF Launch, DaemonRuns, Kill, Paired, CreateFails, StartFails, RunFails, Create,
         Refused, PairingStopped, RunStopped, TasksEnd, Shutdown, Exit, DaemonStep
<1>2. PICK pc \in {"off", "create", "refused", "pairing", "run", "ending", "shutdown", "closed"} :
        daemon' = [daemon EXCEPT ![d] = pc]
  BY DEF Launch, DaemonRuns, Kill, Paired, CreateFails, StartFails, RunFails, Create,
         Refused, PairingStopped, RunStopped, TasksEnd, Shutdown, Exit, DaemonStep, To
<1>3. open' \subseteq open \cup {d} /\ signaled' \in BOOLEAN /\ wanted' \subseteq wanted
  BY DEF Launch, DaemonRuns, Kill, Paired, CreateFails, StartFails, RunFails, Create,
         Refused, PairingStopped, RunStopped, TasksEnd, Shutdown, Exit, SameEvent,
         CloseHandle, TypeOK
<1> QED BY <1>1, <1>2, <1>3 DEF TypeOK, LeftInv

\* Every variable keeps its type, the rounds of every wait within MaxPolls.
THEOREM TypeCorrect == Spec => []TypeOK
<1>1. Init => TypeOK /\ LeftInv
  <2>1. 0 \in 0..MaxPolls  BY InstanceAssumption
  <2> QED  BY <2>1 DEF Init, TypeOK, LeftInv
<1>2. TypeOK /\ LeftInv /\ [Next]_vars => (TypeOK /\ LeftInv)'
  <2>1. CASE UNCHANGED vars
    BY <2>1 DEF vars, TypeOK, LeftInv
  <2>2. CASE Next
    BY <2>2, DaemonTypeOK, AskerTypeOK, WindowTypeOK DEF Next
  <2> QED BY <2>1, <2>2
<1> QED BY <1>1, <1>2, PTL DEF Spec
=============================================================================
