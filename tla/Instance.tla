------------------------------- MODULE Instance -------------------------------
(***************************************************************************)
(* One daemon at a time on a device: the named event of                    *)
(* src/src/process_control.rs, the life of run_daemon in                   *)
(* src/src/service.rs, and those who start, stop and look for it: the      *)
(* window's SyncService (start and stop, serialised by AppState.sync), the *)
(* command line and the status pollers.                                    *)
(*                                                                         *)
(* The system keeps the event while a handle to it is open; a daemon holds *)
(* one for its life, is_running and request_stop hold one for an instant.  *)
(***************************************************************************)
EXTENDS Naturals, FiniteSets

CONSTANTS
  Processes, \* daemons run by a process of their own
  Stoppers,  \* `stop` commands
  Pollers,   \* status commands, the tray's thread
  MaxPolls   \* rounds of a wait (50 in the code)

ASSUME InstanceAssumption ==
  /\ IsFiniteSet(Processes) /\ Processes \cap (Stoppers \cup Pollers) = {}
  /\ {"thread", "window"} \cap (Processes \cup Stoppers \cup Pollers) = {}
  /\ MaxPolls \in Nat \ {0}

Thread == "thread"  \* the daemon SyncService runs on a thread of the window's
Window == "window"  \* the window's calls of start and stop
Daemons == Processes \cup {Thread}
Askers == Stoppers \cup Pollers \cup {Window}

VARIABLES
  daemon,   \* where each run_daemon is
  open,     \* who holds a handle to the event; it exists while someone does
  signaled, \* the event's state
  ask,      \* where each asker is
  left,     \* rounds its wait has left
  join,     \* SyncService.join: is there a handle
  stopping, \* SyncService.stopping
  wanted    \* history: the daemons asked to stop since they started

vars == <<daemon, open, signaled, ask, left, join, stopping, wanted>>

Init ==
  /\ daemon = [d \in Daemons |-> "off"]
  /\ open = {} /\ signaled = FALSE
  /\ ask = [a \in Askers |-> "idle"] /\ left = [a \in Askers |-> 0]
  /\ join = FALSE /\ stopping = FALSE /\ wanted = {}

\* A daemon that may synchronise, and one that still has tasks that do.
Alive(d) == daemon[d] \in {"pairing", "run", "ending", "shutdown"}
Working(d) == daemon[d] \in {"pairing", "run", "ending"}

-----------------------------------------------------------------------------
(* run_daemon.                                                             *)

To(d, pc) == daemon' = [daemon EXCEPT ![d] = pc]
DaemonStep(d, from, pc) ==
  daemon[d] = from /\ To(d, pc) /\ UNCHANGED <<ask, left, join, stopping>>
SameEvent == UNCHANGED <<open, signaled>>

Launch(d) ==
  /\ d \in Processes
  /\ DaemonStep(d, "off", "create") /\ SameEvent
  /\ wanted' = wanted \ {d}

\* Fault: ERROR_ALREADY_EXISTS is not looked at.
CreateShared(d) ==
  /\ open' = open \cup {d} /\ signaled' = (open # {} /\ signaled)
  /\ DaemonStep(d, "create", "pairing") /\ UNCHANGED wanted

\* CreateEventW makes a new event or opens the one there is.
Create(d) ==
  /\ open' = open \cup {d} /\ signaled' = (open # {} /\ signaled)
  /\ DaemonStep(d, "create", IF open = {} THEN "pairing" ELSE "refused")
  /\ UNCHANGED wanted

CloseHandle(p) == open' = open \ {p} /\ UNCHANGED <<signaled, wanted>>

Refused(d) == DaemonStep(d, "refused", "closed") /\ CloseHandle(d)

StopSeen(d) == signaled \/ (d = Thread /\ stopping)

\* Automatic pairing is over and the configuration loaded: the tasks start.
Paired(d) == DaemonStep(d, "pairing", "run") /\ SameEvent /\ UNCHANGED wanted

\* Fault: automatic pairing is raced with the flag alone.
PairingFlagOnly(d) ==
  /\ d = Thread /\ stopping
  /\ DaemonStep(d, "pairing", "shutdown") /\ SameEvent /\ UNCHANGED wanted

PairingStopped(d) ==
  /\ StopSeen(d)
  /\ DaemonStep(d, "pairing", "shutdown") /\ SameEvent /\ UNCHANGED wanted

\* `?` on the configuration, and on the pairing or the apartment.
CreateFails(d) == DaemonStep(d, "create", "closed") /\ SameEvent /\ UNCHANGED wanted
StartFails(d) == DaemonStep(d, "pairing", "shutdown") /\ SameEvent /\ UNCHANGED wanted

\* Fault: the event's handle is dropped with the select!, before the tasks.
RunStoppedReleased(d) ==
  /\ StopSeen(d)
  /\ DaemonStep(d, "run", "ending") /\ CloseHandle(d)

RunStopped(d) ==
  /\ StopSeen(d)
  /\ DaemonStep(d, "run", "ending") /\ SameEvent /\ UNCHANGED wanted

\* A task of the daemon ends, or ctrl-c.
RunFails(d) == DaemonStep(d, "run", "ending") /\ SameEvent /\ UNCHANGED wanted

\* The three tasks are aborted and awaited.
TasksEnd(d) == DaemonStep(d, "ending", "shutdown") /\ SameEvent /\ UNCHANGED wanted

\* The apartment is shut down and InstanceControl dropped with its block.
Shutdown(d) == DaemonStep(d, "shutdown", "closed") /\ CloseHandle(d)

\* The runtime is dropped, which waits for the blocking tasks.
Exit(d) == DaemonStep(d, "closed", "off") /\ SameEvent /\ UNCHANGED wanted

\* The process is killed; the system closes its handles.
Kill(d) ==
  /\ d \in Processes /\ daemon[d] # "off"
  /\ To(d, "off") /\ CloseHandle(d)
  /\ UNCHANGED <<ask, left, join, stopping>>

DaemonRuns(d) ==
  \/ Create(d) \/ Refused(d) \/ PairingStopped(d) \/ RunStopped(d)
  \/ TasksEnd(d) \/ Shutdown(d) \/ Exit(d)

-----------------------------------------------------------------------------
(* is_running: with the event there, a handle is held for an instant.      *)

Asks(a, from, pc) == ask[a] = from /\ ask' = [ask EXCEPT ![a] = pc]
Hold(a) == open' = open \cup {a} /\ UNCHANGED <<signaled, wanted>>
SameService == UNCHANGED <<daemon, join, stopping>>
SameCounts == UNCHANGED left

Poll(a) ==
  /\ a \in Pollers /\ open # {}
  /\ Asks(a, "idle", "polled") /\ Hold(a)
  /\ SameService /\ SameCounts

PollEnd(a) ==
  /\ Asks(a, "polled", "idle") /\ CloseHandle(a)
  /\ SameService /\ SameCounts

-----------------------------------------------------------------------------
(* request_stop, by a `stop` command or SyncService::stop.                 *)

StopCommand(a) ==
  /\ a \in Stoppers
  /\ Asks(a, "idle", "stop") /\ SameEvent
  /\ SameService /\ SameCounts /\ UNCHANGED wanted

\* What follows Ok: the command is done, SyncService::stop joins.
AfterStop(a) == IF a = Window THEN "join" ELSE "idle"

StopNone(a) ==
  /\ open = {}
  /\ Asks(a, "stop", AfterStop(a)) /\ SameEvent
  /\ SameService /\ SameCounts /\ UNCHANGED wanted

StopOpen(a) ==
  /\ open # {}
  /\ Asks(a, "stop", "signal") /\ Hold(a)
  /\ SameService /\ SameCounts

SetEvent(a) ==
  /\ Asks(a, "signal", "close")
  /\ signaled' = TRUE /\ wanted' = wanted \cup {d \in Daemons : Alive(d)}
  /\ UNCHANGED open /\ SameService /\ SameCounts

StopClose(a) ==
  /\ Asks(a, "close", "wait") /\ CloseHandle(a)
  /\ left' = [left EXCEPT ![a] = MaxPolls]
  /\ SameService

StopGone(a) ==
  /\ open = {}
  /\ Asks(a, "wait", AfterStop(a)) /\ SameEvent
  /\ SameService /\ SameCounts /\ UNCHANGED wanted

StopWait(a) ==
  /\ open # {}
  /\ Asks(a, "wait", "waited") /\ Hold(a)
  /\ SameService /\ SameCounts

\* After the last round stop returns an error, SyncService::stop's join with it.
StopWaited(a) ==
  /\ Asks(a, "waited", IF left[a] > 1 THEN "wait" ELSE "idle") /\ CloseHandle(a)
  /\ left' = [left EXCEPT ![a] = @ - 1]
  /\ SameService

RequestStop(a) ==
  \/ StopNone(a) \/ StopOpen(a) \/ SetEvent(a) \/ StopClose(a)
  \/ StopGone(a) \/ StopWait(a) \/ StopWaited(a)

-----------------------------------------------------------------------------
(* SyncService::start and stop.                                            *)

WindowStep(from, pc) == Asks(Window, from, pc) /\ UNCHANGED <<open, signaled>>

StartBegin ==
  /\ open = {}
  /\ WindowStep("idle", "start")
  /\ SameService /\ SameCounts /\ UNCHANGED wanted

StartRunning ==
  /\ open # {}
  /\ Asks(Window, "idle", "polled") /\ Hold(Window)
  /\ SameService /\ SameCounts

StartTwice ==
  /\ join /\ daemon[Thread] # "off"
  /\ WindowStep("start", "idle")
  /\ SameService /\ SameCounts /\ UNCHANGED wanted

\* Fault: the flag keeps what the last stop left in it.
SpawnUnreset ==
  /\ join => daemon[Thread] = "off"
  /\ WindowStep("start", "started")
  /\ To(Thread, "create") /\ join' = TRUE /\ UNCHANGED stopping
  /\ wanted' = wanted \ {Thread}
  /\ left' = [left EXCEPT ![Window] = MaxPolls]

Spawn ==
  /\ join => daemon[Thread] = "off"
  /\ WindowStep("start", "started")
  /\ To(Thread, "create") /\ join' = TRUE /\ stopping' = FALSE
  /\ wanted' = wanted \ {Thread}
  /\ left' = [left EXCEPT ![Window] = MaxPolls]

\* One round of the wait: has the thread ended, is the event there.
StartFailed ==
  /\ daemon[Thread] = "off"
  /\ WindowStep("started", "idle")
  /\ SameService /\ SameCounts /\ UNCHANGED wanted

StartLooks ==
  /\ daemon[Thread] # "off"
  /\ WindowStep("started", "starting")
  /\ SameService /\ SameCounts /\ UNCHANGED wanted

StartNotYet ==
  /\ open = {}
  /\ WindowStep("starting", IF left[Window] > 1 THEN "started" ELSE "idle")
  /\ left' = [left EXCEPT ![Window] = @ - 1]
  /\ SameService /\ UNCHANGED wanted

StartDone ==
  /\ open # {}
  /\ Asks(Window, "starting", "polled") /\ Hold(Window)
  /\ SameService /\ SameCounts

\* Fault: stop relies on the event alone.
StopFlagless ==
  /\ WindowStep("idle", "stop")
  /\ UNCHANGED <<daemon, join, stopping, left, wanted>>

Stop ==
  /\ WindowStep("idle", "stop")
  /\ stopping' = TRUE
  /\ wanted' = wanted \cup (IF daemon[Thread] = "off" THEN {} ELSE {Thread})
  /\ UNCHANGED <<daemon, join, left>>

\* The handle is taken and the thread joined.
Join ==
  /\ join => daemon[Thread] = "off"
  /\ WindowStep("join", "idle")
  /\ join' = FALSE
  /\ UNCHANGED <<daemon, stopping, left, wanted>>

\* The window's process ends, by `quit` once stop has returned or killed, and
\* comes back with a new SyncService.
WindowKilled ==
  /\ open' = open \ {Thread, Window} /\ UNCHANGED signaled
  /\ To(Thread, "off") /\ ask' = [ask EXCEPT ![Window] = "idle"]
  /\ join' = FALSE /\ stopping' = FALSE
  /\ left' = [left EXCEPT ![Window] = 0] /\ wanted' = wanted \ {Thread}

WindowRuns ==
  \/ StartTwice \/ Spawn \/ StartFailed \/ StartLooks \/ StartNotYet \/ StartDone \/ Join

-----------------------------------------------------------------------------

Next ==
  \/ \E d \in Daemons : \/ Launch(d) \/ DaemonRuns(d) \/ Kill(d)
                        \/ Paired(d) \/ CreateFails(d) \/ StartFails(d) \/ RunFails(d)
  \/ \E a \in Askers : Poll(a) \/ PollEnd(a) \/ StopCommand(a) \/ RequestStop(a)
  \/ StartBegin \/ StartRunning \/ Stop \/ WindowRuns \/ WindowKilled

Spec == Init /\ [][Next]_vars

(* Fairness: a started call runs to its end, a daemon polls its event and  *)
(* its flag, and tasks that are aborted end.  A pairing or a daemon need   *)
(* never end by itself.                                                    *)
FairSpec ==
  /\ Spec
  /\ \A d \in Daemons : WF_vars(DaemonRuns(d))
  /\ \A a \in Askers : WF_vars(PollEnd(a) \/ RequestStop(a))
  /\ WF_vars(WindowRuns)

-----------------------------------------------------------------------------
(* Properties.                                                             *)

TypeOK ==
  /\ daemon \in [Daemons -> {"off", "create", "refused", "pairing", "run",
                             "ending", "shutdown", "closed"}]
  /\ open \subseteq Daemons \cup Askers /\ signaled \in BOOLEAN
  /\ ask \in [Askers -> {"idle", "polled", "stop", "signal", "close", "wait",
                         "waited", "join", "start", "started", "starting"}]
  /\ left \in [Askers -> 0..MaxPolls]
  /\ join \in BOOLEAN /\ stopping \in BOOLEAN
  /\ wanted \subseteq Daemons

\* Two daemons never have tasks at the same time, whoever starts, stops, kills
\* or looks for them: the event outlives the tasks it stands for.
OneDaemon == \A d, e \in Daemons : Alive(d) /\ Alive(e) => d = e

\* A daemon is stopped by a request made since it was started: neither an event
\* an earlier stop has set, kept alive by a poller, nor a flag left by it.
NoStaleStop == \A d \in Daemons : Alive(d) /\ StopSeen(d) => d \in wanted

\* A stop that says the daemon has stopped says so when none has tasks left.
StopGoneMeansGone ==
  [][\A a \in Askers :
       ask[a] \in {"close", "wait"} /\ ask'[a] = AfterStop(a)
         => \A d \in Daemons : ~Working(d)]_vars

\* A daemon asked to stop ends, in automatic pairing too.
StopEnds == \A d \in Daemons :
  (Alive(d) /\ d \in wanted) ~> ~Alive(d)

\* The window's stop returns, even for a daemon whose event it did not find.
StopReturns == (ask[Window] = "join") ~> (ask[Window] # "join")
=============================================================================
