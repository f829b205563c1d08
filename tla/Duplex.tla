-------------------------------- MODULE Duplex --------------------------------
(***************************************************************************)
(* Both directions of one connection (run_channel in src/src/network.rs    *)
(* and the frames of src/src/protocol.rs): on each device one future       *)
(* queues captures, one writes what is queued, the replies and a heartbeat, *)
(* and one reads and answers; the first that fails ends all three.         *)
(*                                                                         *)
(* Contents are the matter of Transfer.  Here a data message is one that   *)
(* may be acknowledged, a reply is a Pong or an Ack, time is counted in    *)
(* heartbeat intervals, and a frame knows how many nonces its receiver is  *)
(* behind it.                                                              *)
(***************************************************************************)
EXTENDS Naturals

CONSTANTS
  ReplyCap,       \* slots of the reply queue (32 in the code)
  IoTimeout,      \* IO_TIMEOUT in heartbeat intervals (2 in the code)
  ReceiveTimeout, \* RECEIVE_TIMEOUT in heartbeat intervals (6 in the code)
  \* Bounds of the model, none of them in the code.
  MaxData,        \* data messages of each device
  MaxFaults       \* ends that fail for a reason of their own, links that go dead

ASSUME DuplexAssumption ==
  /\ ReplyCap \in Nat \ {0} /\ IoTimeout \in Nat \ {0} /\ ReceiveTimeout \in Nat
  /\ IoTimeout + 1 < ReceiveTimeout
  /\ MaxData \in Nat /\ MaxFaults \in Nat

Devices == {1, 2}
Peer(d) == 3 - d

VARIABLES
  clocked, \* whether time passes: without it nothing is saved by a timeout
  end,     \* each device's end, see Fresh
  wire,    \* wire[d]: the frame under way from d, or NoFrame
  ahead,   \* ahead[d]: send_counter of d less the receive_counter of its peer
  cut,     \* the link is dead, which neither end is told
  faults

NoFrame == [msg |-> "none", nonce |-> 0]

vars == <<clocked, end, wire, ahead, cut, faults>>

Fresh == [open |-> TRUE,
          data |-> MaxData,   \* messages queue_captures has or will have for the writer
          replies |-> 0,      \* length of the reply queue
          out |-> "none",     \* what write_messages is sending
          hand |-> "none",    \* what read_messages is handling
          due |-> TRUE,       \* the heartbeat is to be sent; at first at once
          busy |-> 0,         \* intervals the write has taken
          idle |-> 0]         \* intervals the read has taken
Closed == [Fresh EXCEPT !.open = FALSE, !.data = 0, !.due = FALSE]

\* Bound of the model: to the clock a data message is what any other is, so with
\* a clock there are heartbeats and replies only.
Init ==
  /\ clocked \in BOOLEAN
  /\ end = [d \in Devices |-> IF clocked THEN [Fresh EXCEPT !.data = 0] ELSE Fresh]
  /\ wire = [d \in Devices |-> NoFrame]
  /\ ahead = [d \in Devices |-> 0]
  /\ cut = FALSE /\ faults = 0

\* try_join!: the other two futures are dropped, and the socket with them.
CloseEnd(d) ==
  /\ end' = [end EXCEPT ![d] = Closed]
  /\ wire' = [wire EXCEPT ![Peer(d)] = NoFrame]

-----------------------------------------------------------------------------
(* write_messages: what is ready is taken in any order; send takes the next *)
(* nonce first.                                                            *)

Writable(d) == end[d].open /\ end[d].out = "none"
TakeNonce(d) == ahead' = [ahead EXCEPT ![d] = @ + 1]

StartReply(d) ==
  /\ Writable(d) /\ end[d].replies > 0
  /\ end' = [end EXCEPT ![d].out = "reply", ![d].replies = @ - 1]
  /\ TakeNonce(d)
  /\ UNCHANGED <<clocked, wire, cut, faults>>

StartData(d) ==
  /\ Writable(d) /\ end[d].data > 0
  /\ end' = [end EXCEPT ![d].out = "data", ![d].data = @ - 1]
  /\ TakeNonce(d)
  /\ UNCHANGED <<clocked, wire, cut, faults>>

\* Without a clock a heartbeat is due at any time.
StartPing(d) ==
  /\ Writable(d) /\ end[d].due
  /\ end' = [end EXCEPT ![d].out = "ping", ![d].due = ~clocked]
  /\ TakeNonce(d)
  /\ UNCHANGED <<clocked, wire, cut, faults>>

Written(d) == end' = [end EXCEPT ![d].out = "none", ![d].busy = 0]

\* A frame has left when the one before it was read: the link is as slow as
\* its receiver, or slower.
FinishWrite(d) ==
  /\ end[d].out # "none" /\ ~cut /\ end[Peer(d)].open /\ wire[d] = NoFrame
  /\ wire' = [wire EXCEPT ![d] = [msg |-> end[d].out, nonce |-> ahead[d]]]
  /\ Written(d)
  /\ UNCHANGED <<clocked, ahead, cut, faults>>

\* Into the buffers of a socket whose link is dead: nobody counts them.
WriteLost(d) ==
  /\ end[d].out # "none" /\ cut
  /\ Written(d)
  /\ ahead' = [ahead EXCEPT ![d] = @ - 1]
  /\ UNCHANGED <<clocked, wire, cut, faults>>

WriteReset(d) ==
  /\ end[d].out # "none" /\ ~cut /\ ~end[Peer(d)].open
  /\ CloseEnd(d)
  /\ UNCHANGED <<clocked, ahead, cut, faults>>

\* Fault: the writer goes on with the next message.
WriteTimesOutContinues(d) ==
  /\ end[d].busy = IoTimeout
  /\ Written(d)
  /\ UNCHANGED <<clocked, wire, ahead, cut, faults>>

WriteTimesOut(d) ==
  /\ end[d].busy = IoTimeout
  /\ CloseEnd(d)
  /\ UNCHANGED <<clocked, ahead, cut, faults>>

-----------------------------------------------------------------------------
(* read_messages and handle_message                                        *)

Readable(d) == end[d].open /\ end[d].hand = "none"
Incoming(d) == wire[Peer(d)]

\* A frame opens with the nonce it was sealed with; any other ends the end.
Receive(d) ==
  /\ Readable(d) /\ ~cut /\ Incoming(d) # NoFrame
  /\ ahead' = [ahead EXCEPT ![Peer(d)] = @ - 1]
  /\ IF Incoming(d).nonce = 1
     THEN /\ end' = [end EXCEPT ![d].hand = Incoming(d).msg, ![d].idle = 0]
          /\ wire' = [wire EXCEPT ![Peer(d)] = NoFrame]
     ELSE CloseEnd(d)
  /\ UNCHANGED <<clocked, cut, faults>>

ReadEof(d) ==
  /\ Readable(d) /\ ~cut /\ Incoming(d) = NoFrame /\ ~end[Peer(d)].open
  /\ CloseEnd(d)
  /\ UNCHANGED <<clocked, ahead, cut, faults>>

\* Fault: the read starts again.
ReadTimesOutRetries(d) ==
  /\ end[d].idle = ReceiveTimeout
  /\ end' = [end EXCEPT ![d].idle = 0]
  /\ UNCHANGED <<clocked, wire, ahead, cut, faults>>

ReadTimesOut(d) ==
  /\ end[d].idle = ReceiveTimeout
  /\ CloseEnd(d)
  /\ UNCHANGED <<clocked, ahead, cut, faults>>

\* A manifest, a chunk before the last and what fails have no reply.
Answers(msg) == CASE msg = "ping" -> {1}
                  [] msg = "data" -> {0, 1}
                  [] OTHER -> {0}

Answer(d, n) == end' = [end EXCEPT ![d].hand = "none", ![d].replies = @ + n]

\* Fault: the reader waits for room in the reply queue.
HandleWaits(d) ==
  /\ end[d].hand # "none"
  /\ \E n \in Answers(end[d].hand) : end[d].replies + n <= ReplyCap /\ Answer(d, n)
  /\ UNCHANGED <<clocked, wire, ahead, cut, faults>>

\* try_send: a full queue is an error, and never waited for.
Handle(d) ==
  /\ end[d].hand # "none"
  /\ \E n \in Answers(end[d].hand) :
       IF end[d].replies + n <= ReplyCap
       THEN Answer(d, n) /\ UNCHANGED wire
       ELSE CloseEnd(d)
  /\ UNCHANGED <<clocked, ahead, cut, faults>>

-----------------------------------------------------------------------------
(* Faults and time.                                                        *)

Fault == faults < MaxFaults /\ faults' = faults + 1

\* A source that changed, a new configuration: an end closes of its own.
Fail(d) ==
  /\ end[d].open /\ Fault
  /\ CloseEnd(d)
  /\ UNCHANGED <<clocked, ahead, cut>>

CutLink ==
  /\ ~cut /\ Fault
  /\ cut' = TRUE
  /\ UNCHANGED <<clocked, end, wire, ahead>>

\* What a runtime that is not overloaded does before its clock moves on.
Prompt(d) == end[d].open =>
  /\ end[d].busy < IoTimeout /\ end[d].idle < ReceiveTimeout
  /\ end[d].out = "none" => ~end[d].due /\ end[d].data = 0 /\ end[d].replies = 0
  /\ Readable(d) /\ ~cut => Incoming(d) = NoFrame /\ end[Peer(d)].open

\* Fault: the heartbeat is a timer that fires once.
OlderBeatsOnce(e) == IF ~e.open THEN e
  ELSE [e EXCEPT !.busy = IF e.out # "none" THEN @ + 1 ELSE 0,
                 !.idle = IF e.hand = "none" THEN @ + 1 ELSE 0]

\* An interval begins, and the time limits of what is under way run.
Older(e) == IF ~e.open THEN e
  ELSE [e EXCEPT !.due = TRUE,
                 !.busy = IF e.out # "none" THEN @ + 1 ELSE 0,
                 !.idle = IF e.hand = "none" THEN @ + 1 ELSE 0]

Tick ==
  /\ clocked /\ \A d \in Devices : Prompt(d)
  /\ \E d \in Devices : end[d].open
  /\ end' = [d \in Devices |-> Older(end[d])]
  /\ UNCHANGED <<clocked, wire, ahead, cut, faults>>

-----------------------------------------------------------------------------

Write(d) == FinishWrite(d) \/ WriteLost(d) \/ WriteReset(d) \/ WriteTimesOut(d)
Read(d) == Receive(d) \/ ReadEof(d) \/ ReadTimesOut(d)

\* Both ends are closed: connector_loop makes a new connection.
Ended == (\A d \in Devices : ~end[d].open) /\ UNCHANGED vars

Next ==
  \/ \E d \in Devices : \/ StartReply(d) \/ StartData(d) \/ StartPing(d) \/ Write(d)
                        \/ Read(d) \/ Handle(d) \/ Fail(d)
  \/ CutLink \/ Tick \/ Ended

Spec == Init /\ [][Next]_vars

(* Fairness: the three futures are polled, TCP delivers while the link     *)
(* lives, and select! takes at random among the branches that are ready,   *)
(* so that none of them is passed over for ever.                           *)
FairSpec ==
  /\ Spec
  /\ \A d \in Devices :
       /\ WF_vars(Write(d)) /\ WF_vars(Read(d)) /\ WF_vars(Handle(d))
       /\ SF_vars(StartReply(d)) /\ SF_vars(StartData(d)) /\ WF_vars(StartPing(d))
  /\ WF_vars(Tick)

-----------------------------------------------------------------------------
(* Properties.                                                             *)

Messages == {"none", "data", "reply", "ping"}

TypeOK ==
  /\ clocked \in BOOLEAN
  /\ end \in [Devices -> [open : BOOLEAN, data : 0..MaxData, replies : 0..ReplyCap,
                          out : Messages, hand : Messages, due : BOOLEAN,
                          busy : 0..IoTimeout, idle : 0..ReceiveTimeout]]
  /\ wire \in [Devices -> [msg : Messages, nonce : Nat]] /\ ahead \in [Devices -> Nat]
  /\ cut \in BOOLEAN /\ faults \in 0..MaxFaults

\* A frame that arrives is sealed with the nonce its receiver has reached,
\* whatever writes failed before it: no honest frame fails to authenticate.
InStep == \A d \in Devices : wire[d] # NoFrame => wire[d].nonce = 1

\* On a live link no reader runs into its 90 seconds, however long frames take
\* within their 30: a heartbeat always comes in between.
HealthyStays == ~cut => \A d \in Devices : end[d].idle < ReceiveTimeout

\* Both devices may have data for each other, and replies to it, with every
\* buffer full: all of it arrives, or an end closes, without help of a timeout.
NoGridlock == clocked \/ \A d \in Devices :
  <>(\/ "data" \notin {end[d].out, wire[d].msg, end[Peer(d)].hand} /\ end[d].data = 0
     \/ cut \/ ~end[d].open \/ ~end[Peer(d)].open)

\* An end that closes, or a link that goes dead unannounced, ends both ends.
\* (Where no time passes, a dead link is not noticed.)
BothEnd ==
  ((\E d \in Devices : ~end[d].open) \/ cut)
    ~> ((\A d \in Devices : ~end[d].open) \/ (cut /\ ~clocked))
=============================================================================
