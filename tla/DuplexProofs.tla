----------------------------- MODULE DuplexProofs -----------------------------
(***************************************************************************)
(* Proofs about Duplex for every capacity of the reply queue and every     *)
(* pair of time limits with IoTimeout + 1 < ReceiveTimeout.                *)
(*                                                                         *)
(* NonceInv counts the frames a receiver is behind: one being written, one *)
(* on its way.  IdleInv ties how long a read has taken to how long its     *)
(* peer has been writing, or to a heartbeat that is due.                   *)
(***************************************************************************)
EXTENDS Duplex, TLAPS

Ends == [open : BOOLEAN, data : 0..MaxData, replies : 0..ReplyCap,
         out : Messages, hand : Messages, due : BOOLEAN,
         busy : 0..IoTimeout, idle : 0..ReceiveTimeout]

\* A closed end does nothing.
ClosedInv == \A d \in Devices : ~end[d].open => end[d] = Closed

\* Frames of d whose nonce its peer has not reached.
Sealed(d) == (IF end[d].out # "none" THEN 1 ELSE 0) + (IF wire[d] # NoFrame THEN 1 ELSE 0)

NonceInv == \A d \in Devices :
  /\ ahead[d] >= Sealed(d)
  /\ end[d].open /\ end[Peer(d)].open => ahead[d] = Sealed(d)
  /\ wire[d] # NoFrame => wire[d].nonce = 1

\* While nothing is on its way to d, its peer has been writing for as long as
\* d has been reading, or is about to write.
IdleInv == ~cut => \A d \in Devices : end[d].open =>
  /\ end[d].idle <= IoTimeout + 1
  /\ end[Peer(d)].open /\ wire[Peer(d)] = NoFrame =>
       IF end[Peer(d)].out = "none"
       THEN end[d].idle <= 1 /\ (end[d].idle = 1 => end[Peer(d)].due)
       ELSE end[d].idle <= end[Peer(d)].busy + 1

IInv == TypeOK /\ ClosedInv /\ NonceInv /\ IdleInv

LEMMA PeerFacts ==
  \A d \in Devices : /\ Peer(d) \in Devices /\ Peer(d) # d /\ Peer(Peer(d)) = d
                     /\ \A e \in Devices : e = d \/ e = Peer(d)
BY DEF Devices, Peer

LEMMA NoFrameType == NoFrame \in [msg : Messages, nonce : Nat] /\ NoFrame.msg = "none"
BY DEF NoFrame, Messages

LEMMA FreshEnd ==
  /\ Fresh \in Ends /\ Fresh.open = TRUE /\ Fresh.due = TRUE /\ Fresh.out = "none"
  /\ Fresh.hand = "none" /\ Fresh.idle = 0 /\ Fresh.busy = 0
BY DuplexAssumption DEF Fresh, Ends, Messages

\* What an end keeps when its fields change.
LEMMA EmptyEnd ==
  ASSUME NEW e \in Ends
  PROVE  LET f == [e EXCEPT !.data = 0] IN
           /\ f \in Ends /\ f.open = e.open /\ f.out = e.out /\ f.hand = e.hand
           /\ f.due = e.due /\ f.idle = e.idle /\ f.busy = e.busy
BY DuplexAssumption DEF Ends

LEMMA FieldEnd ==
  ASSUME NEW e \in Ends
  PROVE  /\ \A m \in Messages : [e EXCEPT !.hand = m] \in Ends
         /\ \A n \in 0..ReplyCap : [e EXCEPT !.replies = n] \in Ends
         /\ \A n \in 0..ReceiveTimeout : [e EXCEPT !.idle = n] \in Ends
<1>1. ASSUME NEW m \in Messages PROVE [e EXCEPT !.hand = m] \in Ends
  BY DEF Ends
<1>2. ASSUME NEW n \in 0..ReplyCap PROVE [e EXCEPT !.replies = n] \in Ends
  BY DEF Ends
<1>3. ASSUME NEW n \in 0..ReceiveTimeout PROVE [e EXCEPT !.idle = n] \in Ends
  BY DEF Ends
<1> QED  BY <1>1, <1>2, <1>3

\* An end that reads a frame, answers one, and grows older.
Reading(e, m) == [e EXCEPT !.hand = m, !.idle = 0]
Answered(e, n) == [e EXCEPT !.hand = "none", !.replies = @ + n]
Aged(e, busy, idle) == [e EXCEPT !.due = TRUE, !.busy = busy, !.idle = idle]

LEMMA ReadEnd ==
  ASSUME NEW e \in Ends, NEW m \in Messages
  PROVE  LET f == Reading(e, m) IN
           /\ f \in Ends /\ f.open = e.open /\ f.out = e.out
           /\ f.due = e.due /\ f.idle = 0 /\ f.busy = e.busy
<1> USE DEF Reading
<1> DEFINE h == [e EXCEPT !.hand = m]
           f == [h EXCEPT !.idle = 0]
<1>1. f \in Ends
  <2>1. h \in Ends /\ 0 \in 0..ReceiveTimeout
    BY FieldEnd, DuplexAssumption
  <2> HIDE DEF h
  <2> QED  BY <2>1, FieldEnd
<1>2. /\ f.open = e.open /\ f.out = e.out /\ f.due = e.due /\ f.idle = 0 /\ f.busy = e.busy
  BY DEF Ends
<1> QED  BY <1>1, <1>2

LEMMA AnsweredEnd ==
  ASSUME NEW e \in Ends, NEW n \in {0, 1}, e.replies + n <= ReplyCap
  PROVE  LET f == Answered(e, n) IN
           /\ f \in Ends /\ f.open = e.open /\ f.out = e.out
           /\ f.due = e.due /\ f.idle = e.idle /\ f.busy = e.busy
<1> USE DEF Answered
<1> DEFINE h == [e EXCEPT !.hand = "none"]
           f == [h EXCEPT !.replies = @ + n]
<1>1. f \in Ends
  <2>1. h \in Ends /\ h.replies + n \in 0..ReplyCap
    BY FieldEnd, DuplexAssumption DEF Ends, Messages
  <2> HIDE DEF h
  <2> QED  BY <2>1, FieldEnd
<1>2. /\ f.open = e.open /\ f.out = e.out /\ f.due = e.due /\ f.idle = e.idle /\ f.busy = e.busy
  BY DEF Ends
<1> QED  BY <1>1, <1>2

LEMMA OlderEnd ==
  ASSUME NEW e \in Ends, e.open,
         NEW busy \in 0..IoTimeout, NEW idle \in 0..ReceiveTimeout
  PROVE  LET f == Aged(e, busy, idle) IN
           /\ f \in Ends /\ f.open /\ f.out = e.out
           /\ f.due /\ f.idle = idle /\ f.busy = busy
BY DuplexAssumption DEF Ends, Aged

LEMMA ClosedEnd ==
  /\ Closed \in Ends /\ Closed.open = FALSE /\ Closed.out = "none" /\ Closed.hand = "none"
  /\ Closed.idle = 0 /\ Closed.busy = 0
<1>1. ASSUME NEW e \in Ends
      PROVE  LET f == [e EXCEPT !.open = FALSE, !.data = 0, !.due = FALSE] IN
               /\ f \in Ends /\ f.open = FALSE /\ f.out = e.out /\ f.hand = e.hand
               /\ f.idle = e.idle /\ f.busy = e.busy
  <2> DEFINE o == [e EXCEPT !.open = FALSE]
             n == [o EXCEPT !.data = 0]
             f == [n EXCEPT !.due = FALSE]
  <2>1. /\ o \in Ends /\ o.open = FALSE /\ o.out = e.out /\ o.hand = e.hand
        /\ o.idle = e.idle /\ o.busy = e.busy
    BY DEF Ends
  <2>2. /\ n \in Ends /\ n.open = FALSE /\ n.out = e.out /\ n.hand = e.hand
        /\ n.idle = e.idle /\ n.busy = e.busy
    <3> HIDE DEF o
    <3> QED  BY <2>1, EmptyEnd
  <2>3. /\ f \in Ends /\ f.open = FALSE /\ f.out = e.out /\ f.hand = e.hand
        /\ f.idle = e.idle /\ f.busy = e.busy
    <3> HIDE DEF n
    <3> QED  BY <2>2 DEF Ends
  <2> QED  BY <2>3
<1> QED  BY <1>1, FreshEnd DEF Closed

LEMMA TypeFacts == TypeOK <=>
  /\ clocked \in BOOLEAN /\ end \in [Devices -> Ends]
  /\ wire \in [Devices -> [msg : Messages, nonce : Nat]] /\ ahead \in [Devices -> Nat]
  /\ cut \in BOOLEAN /\ faults \in 0..MaxFaults
BY DEF TypeOK, Ends

LEMMA InitInv == Init => IInv
<1> SUFFICES ASSUME Init PROVE IInv
  OBVIOUS
<1> DEFINE first == IF clocked THEN [Fresh EXCEPT !.data = 0] ELSE Fresh
<1>3. /\ first \in Ends /\ first.open = TRUE /\ first.out = "none" /\ first.idle = 0
      /\ first.due = TRUE
  <2>1. CASE clocked
    BY <2>1, FreshEnd, EmptyEnd
  <2>2. CASE ~clocked
    BY <2>2, FreshEnd
  <2> QED  BY <2>1, <2>2
<1>4. /\ clocked \in BOOLEAN /\ end = [d \in Devices |-> first]
      /\ wire = [d \in Devices |-> NoFrame] /\ ahead = [d \in Devices |-> 0]
      /\ cut = FALSE /\ faults = 0
  BY DEF Init
<1> HIDE DEF first
<1>5. TypeOK
  <2>1. end \in [Devices -> Ends]
    BY <1>3, <1>4
  <2>2. wire \in [Devices -> [msg : Messages, nonce : Nat]]
    BY <1>4, NoFrameType
  <2>3. ahead \in [Devices -> Nat]
    BY <1>4
  <2>4. faults \in 0..MaxFaults
    BY <1>4, DuplexAssumption
  <2> QED  BY <1>4, <2>1, <2>2, <2>3, <2>4 DEF TypeOK, Ends
<1>6. ClosedInv /\ NonceInv
  BY <1>3, <1>4, PeerFacts DEF ClosedInv, NonceInv, Sealed
<1>7. IdleInv
  BY <1>3, <1>4, PeerFacts, DuplexAssumption DEF IdleInv
<1> QED  BY <1>5, <1>6, <1>7 DEF IInv

\* An end closes: it has nothing under way, and its peer's reads are excused.
LEMMA CloseInv ==
  ASSUME IInv, NEW d \in Devices, CloseEnd(d), clocked' = clocked, cut' = cut,
         faults' \in 0..MaxFaults, ahead' = ahead
  PROVE  IInv'
<1>0. /\ end \in [Devices -> Ends] /\ wire \in [Devices -> [msg : Messages, nonce : Nat]]
      /\ ahead \in [Devices -> Nat] /\ clocked \in BOOLEAN /\ cut \in BOOLEAN
  BY TypeFacts DEF IInv
<1>1. /\ end' = [end EXCEPT ![d] = Closed] /\ wire' = [wire EXCEPT ![Peer(d)] = NoFrame]
  BY DEF CloseEnd
<1>2. /\ end'[d] = Closed /\ end'[Peer(d)] = end[Peer(d)]
      /\ wire'[Peer(d)] = NoFrame /\ wire'[d] = wire[d]
      /\ end' \in [Devices -> Ends] /\ wire' \in [Devices -> [msg : Messages, nonce : Nat]]
  BY <1>0, <1>1, PeerFacts, ClosedEnd, NoFrameType
<1>3. TypeOK'
  BY <1>0, <1>2, TypeFacts DEF TypeOK, Ends
<1>4. ClosedInv'
  BY <1>2, PeerFacts DEF IInv, ClosedInv
<1>5. NonceInv'
  BY <1>0, <1>2, PeerFacts, ClosedEnd DEF IInv, NonceInv, Sealed
<1>6. IdleInv'
  BY <1>2, PeerFacts, ClosedEnd DEF IInv, IdleInv
<1> QED  BY <1>3, <1>4, <1>5, <1>6 DEF IInv

\* The writer takes a message of some kind and the nonce for it.
LEMMA StartInv ==
  ASSUME IInv, NEW d \in Devices, StartReply(d) \/ StartData(d) \/ StartPing(d)
  PROVE  IInv'
<1>0. /\ end \in [Devices -> Ends] /\ wire \in [Devices -> [msg : Messages, nonce : Nat]]
      /\ ahead \in [Devices -> Nat] /\ end[d] \in Ends
  BY TypeFacts DEF IInv
<1>1. /\ ahead' = [ahead EXCEPT ![d] = @ + 1]
      /\ UNCHANGED <<clocked, wire, cut, faults>> /\ end[d].open /\ end[d].out = "none"
  BY DEF StartReply, StartData, StartPing, TakeNonce, Writable
<1>2. /\ end' \in [Devices -> Ends] /\ end'[Peer(d)] = end[Peer(d)]
      /\ end'[d].open = end[d].open /\ end'[d].out # "none"
      /\ end'[d].idle = end[d].idle /\ end'[d].busy = end[d].busy
  <2>1. CASE StartReply(d)
    BY <1>0, <2>1, PeerFacts, DuplexAssumption DEF StartReply, Ends, Messages
  <2>2. CASE StartData(d)
    BY <1>0, <2>2, PeerFacts, DuplexAssumption DEF StartData, Ends, Messages
  <2>3. CASE StartPing(d)
    BY <1>0, <2>3, PeerFacts, DuplexAssumption DEF StartPing, Ends, Messages
  <2> QED  BY <2>1, <2>2, <2>3
<1>3. TypeOK'
  <2>1. ahead' \in [Devices -> Nat]
    BY <1>0, <1>1
  <2> QED  BY <1>1, <1>2, <2>1 DEF IInv, TypeOK, Ends
<1>4. ClosedInv'
  BY <1>1, <1>2, PeerFacts DEF IInv, ClosedInv
<1>5. NonceInv'
  BY <1>0, <1>1, <1>2, PeerFacts DEF IInv, NonceInv, Sealed
<1>6. IdleInv'
  BY <1>0, <1>1, <1>2, PeerFacts, DuplexAssumption DEF IInv, IdleInv, Ends
<1> QED  BY <1>3, <1>4, <1>5, <1>6 DEF IInv

LEMMA WriteInv == ASSUME IInv, NEW d \in Devices, Write(d) PROVE IInv'
<1>0. /\ end \in [Devices -> Ends] /\ wire \in [Devices -> [msg : Messages, nonce : Nat]]
      /\ ahead \in [Devices -> Nat] /\ end[d] \in Ends /\ faults \in 0..MaxFaults
  BY TypeFacts DEF IInv
<1>1. ASSUME Written(d), end[d].out # "none"
      PROVE  /\ end' \in [Devices -> Ends] /\ end'[Peer(d)] = end[Peer(d)]
             /\ end'[d].open = end[d].open /\ end'[d].open /\ end'[d].out = "none"
             /\ end'[d].idle = end[d].idle
  BY <1>0, <1>1, PeerFacts, ClosedEnd, DuplexAssumption
  DEF IInv, ClosedInv, Written, Ends, Messages
<1>2. CASE FinishWrite(d)
  <2>1. /\ end[d].out # "none" /\ ~cut /\ end[Peer(d)].open /\ wire[d] = NoFrame
        /\ wire' = [wire EXCEPT ![d] = [msg |-> end[d].out, nonce |-> ahead[d]]]
        /\ Written(d) /\ UNCHANGED <<clocked, ahead, cut, faults>>
    BY <1>2 DEF FinishWrite
  <2>2. /\ wire' \in [Devices -> [msg : Messages, nonce : Nat]]
        /\ wire'[d].nonce = ahead[d] /\ wire'[d] # NoFrame /\ wire'[Peer(d)] = wire[Peer(d)]
    BY <1>0, <2>1, PeerFacts, NoFrameType DEF Ends
  <2>3. TypeOK'
    BY <1>0, <1>1, <2>1, <2>2 DEF IInv, TypeOK, Ends
  <2>4. ClosedInv'
    BY <1>1, <2>1, PeerFacts DEF IInv, ClosedInv
  <2>5. NonceInv'
    BY <1>0, <1>1, <2>1, <2>2, PeerFacts DEF IInv, NonceInv, Sealed
  <2>6. IdleInv'
    BY <1>0, <1>1, <2>1, <2>2, PeerFacts DEF IInv, IdleInv
  <2> QED  BY <2>3, <2>4, <2>5, <2>6 DEF IInv
<1>3. CASE WriteLost(d)
  <2>1. /\ end[d].out # "none" /\ cut /\ Written(d) /\ ahead' = [ahead EXCEPT ![d] = @ - 1]
        /\ UNCHANGED <<clocked, wire, cut, faults>>
    BY <1>3 DEF WriteLost
  <2>2. ahead[d] >= 1 /\ ahead' \in [Devices -> Nat]
    BY <1>0, <2>1 DEF IInv, NonceInv, Sealed
  <2>3. TypeOK'
    BY <1>0, <1>1, <2>1, <2>2 DEF IInv, TypeOK, Ends
  <2>4. ClosedInv'
    BY <1>1, <2>1, PeerFacts DEF IInv, ClosedInv
  <2>5. NonceInv'
    BY <1>0, <1>1, <2>1, PeerFacts DEF IInv, NonceInv, Sealed
  <2>6. IdleInv'
    BY <2>1 DEF IdleInv
  <2> QED  BY <2>3, <2>4, <2>5, <2>6 DEF IInv
<1>4. CASE WriteReset(d) \/ WriteTimesOut(d)
  BY <1>0, <1>4, CloseInv DEF WriteReset, WriteTimesOut
<1> QED  BY <1>2, <1>3, <1>4 DEF Write

LEMMA ReadInv == ASSUME IInv, NEW d \in Devices, Read(d) PROVE IInv'
<1>0. /\ end \in [Devices -> Ends] /\ wire \in [Devices -> [msg : Messages, nonce : Nat]]
      /\ ahead \in [Devices -> Nat] /\ end[d] \in Ends /\ faults \in 0..MaxFaults
  BY TypeFacts DEF IInv
<1>1. CASE Receive(d)
  <2>1. /\ Readable(d) /\ wire[Peer(d)] # NoFrame /\ wire[Peer(d)].nonce = 1
        /\ ahead[Peer(d)] >= 1
    BY <1>0, <1>1, PeerFacts, NoFrameType DEF Receive, Incoming, IInv, NonceInv, Sealed, Ends
  <2>2. /\ ahead' = [ahead EXCEPT ![Peer(d)] = @ - 1]
        /\ end' = [end EXCEPT ![d].hand = wire[Peer(d)].msg, ![d].idle = 0]
        /\ wire' = [wire EXCEPT ![Peer(d)] = NoFrame] /\ UNCHANGED <<clocked, cut, faults>>
    BY <1>1, <2>1 DEF Receive, Incoming
  <2>3. /\ end' \in [Devices -> Ends] /\ end'[Peer(d)] = end[Peer(d)] /\ end'[d].idle = 0
        /\ end'[d].open = end[d].open /\ end'[d].open /\ end'[d].out = end[d].out
        /\ end'[d].busy = end[d].busy /\ end'[d].due = end[d].due
    <3> DEFINE m == wire[Peer(d)].msg
    <3>1. m \in Messages /\ end[d].open
      BY <1>0, <2>1, PeerFacts DEF Readable
    <3>2. end'[d] = Reading(end[d], m)
      BY <1>0, <2>2 DEF Reading
    <3>3. /\ end'[d] \in Ends /\ end'[d].open = end[d].open /\ end'[d].out = end[d].out
          /\ end'[d].due = end[d].due /\ end'[d].idle = 0 /\ end'[d].busy = end[d].busy
      <4>1. end[d] \in Ends
        BY <1>0
      <4> HIDE DEF m
      <4>2. LET f == Reading(end[d], m) IN
               /\ f \in Ends /\ f.open = end[d].open /\ f.out = end[d].out
               /\ f.due = end[d].due /\ f.idle = 0 /\ f.busy = end[d].busy
        BY <3>1, <4>1, ReadEnd
      <4> QED  BY <3>2, <4>2
    <3>4. end' = [end EXCEPT ![d] = end'[d]]
      BY <1>0, <2>2
    <3> QED  BY <1>0, <3>1, <3>3, <3>4, PeerFacts
  <2>4. /\ wire' \in [Devices -> [msg : Messages, nonce : Nat]]
        /\ wire'[Peer(d)] = NoFrame /\ wire'[d] = wire[d]
    BY <1>0, <2>2, PeerFacts, NoFrameType
  <2>5. TypeOK'
    BY <1>0, <2>1, <2>2, <2>3, <2>4, PeerFacts DEF IInv, TypeOK, Ends
  <2>6. ClosedInv'
    BY <2>3, PeerFacts DEF IInv, ClosedInv
  <2>7. NonceInv'
    BY <1>0, <2>1, <2>2, <2>3, <2>4, PeerFacts DEF IInv, NonceInv, Sealed
  <2>8. IdleInv'
    BY <1>0, <2>2, <2>3, <2>4, PeerFacts, DuplexAssumption DEF IInv, IdleInv, Ends
  <2> QED  BY <2>5, <2>6, <2>7, <2>8 DEF IInv
<1>2. CASE ReadEof(d) \/ ReadTimesOut(d)
  BY <1>0, <1>2, CloseInv DEF ReadEof, ReadTimesOut
<1> QED  BY <1>1, <1>2 DEF Read

LEMMA HandleInv == ASSUME IInv, NEW d \in Devices, Handle(d) PROVE IInv'
<1>0. /\ end \in [Devices -> Ends] /\ end[d] \in Ends /\ faults \in 0..MaxFaults
  BY TypeFacts DEF IInv
<1>1. PICK n \in Answers(end[d].hand) :
        IF end[d].replies + n <= ReplyCap
        THEN Answer(d, n) /\ UNCHANGED wire
        ELSE CloseEnd(d)
  BY DEF Handle
<1>2. n \in {0, 1} /\ UNCHANGED <<clocked, ahead, cut, faults>> /\ end[d].hand # "none"
  BY DEF Answers, Handle
<1>3. CASE end[d].replies + n <= ReplyCap
  <2>1. end' = [end EXCEPT ![d].hand = "none", ![d].replies = @ + n] /\ UNCHANGED wire
    BY <1>1, <1>3 DEF Answer
  <2>2. end[d].open
    BY <1>2, ClosedEnd DEF IInv, ClosedInv
  <2>3. /\ end' \in [Devices -> Ends] /\ end'[Peer(d)] = end[Peer(d)]
        /\ end'[d].idle = end[d].idle /\ end'[d].open /\ end'[d].out = end[d].out
        /\ end'[d].busy = end[d].busy /\ end'[d].due = end[d].due
    <3>1. end'[d] = Answered(end[d], n)
      BY <1>0, <2>1 DEF Answered
    <3>2. /\ end'[d] \in Ends /\ end'[d].open = end[d].open /\ end'[d].out = end[d].out
          /\ end'[d].due = end[d].due /\ end'[d].idle = end[d].idle
          /\ end'[d].busy = end[d].busy
      BY <1>0, <1>2, <1>3, <3>1, AnsweredEnd
    <3>3. end' = [end EXCEPT ![d] = end'[d]]
      BY <1>0, <2>1
    <3> QED  BY <1>0, <2>2, <3>2, <3>3, PeerFacts
  <2>4. TypeOK'
    BY <1>2, <2>1, <2>3 DEF IInv, TypeOK, Ends
  <2>5. ClosedInv' /\ NonceInv'
    BY <1>2, <2>1, <2>2, <2>3, PeerFacts DEF IInv, ClosedInv, NonceInv, Sealed
  <2>6. IdleInv'
    BY <1>2, <2>1, <2>2, <2>3, PeerFacts DEF IInv, IdleInv
  <2> QED  BY <2>4, <2>5, <2>6 DEF IInv
<1>4. CASE ~(end[d].replies + n <= ReplyCap)
  BY <1>0, <1>1, <1>2, <1>4, CloseInv
<1> QED  BY <1>3, <1>4

\* An interval goes by: a read that waits on has a peer that writes, or a
\* heartbeat becomes due.
LEMMA TickInv == ASSUME IInv, Tick PROVE IInv'
<1>0. /\ end \in [Devices -> Ends] /\ \A d \in Devices : end[d] \in Ends
  BY TypeFacts DEF IInv
<1>1. /\ \A d \in Devices : Prompt(d)
      /\ end' = [d \in Devices |-> Older(end[d])]
      /\ UNCHANGED <<clocked, wire, ahead, cut, faults>>
  BY DEF Tick
<1>2. ASSUME NEW d \in Devices
      PROVE  /\ end'[d] \in Ends /\ end'[d].open = end[d].open /\ end'[d].out = end[d].out
             /\ ~end[d].open => end'[d] = end[d]
             /\ end[d].open =>
                  /\ end'[d].due
                  /\ end'[d].busy = (IF end[d].out # "none" THEN end[d].busy + 1 ELSE 0)
                  /\ end'[d].idle = (IF end[d].hand = "none" THEN end[d].idle + 1 ELSE 0)
  <2>1. end'[d] = Older(end[d]) /\ Prompt(d)
    BY <1>1
  <2>2. CASE ~end[d].open
    BY <1>0, <2>1, <2>2 DEF Older
  <2>3. CASE end[d].open
    <3> DEFINE busy == IF end[d].out # "none" THEN end[d].busy + 1 ELSE 0
               idle == IF end[d].hand = "none" THEN end[d].idle + 1 ELSE 0
    <3>1. end'[d] = Aged(end[d], busy, idle)
      BY <2>1, <2>3 DEF Older, Aged
    <3>2. busy \in 0..IoTimeout /\ idle \in 0..ReceiveTimeout
      BY <1>0, <2>1, <2>3, DuplexAssumption DEF Prompt, Ends
    <3> HIDE DEF busy, idle
    <3>3. /\ end'[d] \in Ends /\ end'[d].open /\ end'[d].out = end[d].out
          /\ end'[d].due /\ end'[d].busy = busy /\ end'[d].idle = idle
      BY <1>0, <2>3, <3>1, <3>2, OlderEnd
    <3> QED  BY <1>0, <2>3, <3>3 DEF busy, idle, Ends
  <2> QED  BY <2>2, <2>3
<1>3. TypeOK'
  <2>1. end' \in [Devices -> Ends]
    <3>1. \A d \in Devices : Older(end[d]) \in Ends
      BY <1>1, <1>2
    <3>2. end' = [d \in Devices |-> Older(end[d])]
      BY DEF Tick
    <3> QED  BY <3>1, <3>2
  <2> QED  BY <1>1, <2>1 DEF IInv, TypeOK, Ends
<1>4. ClosedInv'
  BY <1>1, <1>2 DEF IInv, ClosedInv
<1>5. NonceInv'
  BY <1>1, <1>2, PeerFacts DEF IInv, NonceInv, Sealed
<1>6. IdleInv'
  <2> SUFFICES ASSUME ~cut, NEW d \in Devices, end[d].open
               PROVE  /\ end'[d].idle <= IoTimeout + 1
                      /\ end[Peer(d)].open /\ wire[Peer(d)] = NoFrame =>
                           IF end[Peer(d)].out = "none"
                           THEN end'[d].idle <= 1 /\ (end'[d].idle = 1 => end'[Peer(d)].due)
                           ELSE end'[d].idle <= end'[Peer(d)].busy + 1
    BY <1>1, <1>2, PeerFacts DEF IdleInv
  <2> DEFINE p == Peer(d)
  <2>1. p \in Devices /\ end[d] \in Ends /\ end[p] \in Ends
    BY <1>0, PeerFacts
  <2>2. CASE end[d].hand # "none"
    BY <1>2, <2>1, <2>2, DuplexAssumption DEF Ends
  <2>3. CASE end[d].hand = "none"
    <3>1. wire[p] = NoFrame /\ end[p].open
      BY <1>1, <2>3 DEF Prompt, Readable, Incoming
    <3>2. IF end[p].out = "none" THEN end[d].idle = 0
          ELSE end[d].idle <= end[p].busy + 1 /\ end[p].busy < IoTimeout
      BY <1>1, <2>1, <3>1 DEF IInv, IdleInv, Prompt, Ends
    <3>3. end'[d].idle = end[d].idle + 1 /\ end'[p].due
      BY <1>2, <2>1, <2>3, <3>1
    <3>4. CASE end[p].out = "none"
      BY <2>1, <3>1, <3>2, <3>3, <3>4, DuplexAssumption DEF Ends
    <3>5. CASE end[p].out # "none"
      <4>1. end'[p].busy = end[p].busy + 1
        BY <1>2, <2>1, <3>1, <3>5
      <4> QED  BY <2>1, <3>1, <3>2, <3>3, <3>5, <4>1, DuplexAssumption DEF Ends
    <3> QED  BY <3>4, <3>5
  <2> QED  BY <2>2, <2>3
<1> QED  BY <1>3, <1>4, <1>5, <1>6 DEF IInv

LEMMA NextInv == IInv /\ [Next]_vars => IInv'
<1> SUFFICES ASSUME IInv, [Next]_vars PROVE IInv'
  OBVIOUS
<1>1. ASSUME NEW d \in Devices, Fail(d) PROVE IInv'
  <2>1. faults \in 0..MaxFaults /\ faults < MaxFaults /\ faults' = faults + 1 /\ MaxFaults \in Nat
    BY <1>1, TypeFacts, DuplexAssumption DEF IInv, Fail, Fault
  <2> QED  BY <1>1, <2>1, CloseInv DEF Fail
<1>2. CASE CutLink
  <2>1. TypeOK'
    BY <1>2, DuplexAssumption DEF CutLink, Fault, IInv, TypeOK
  <2> QED  BY <1>2, <2>1 DEF CutLink, IInv, ClosedInv, NonceInv, Sealed, IdleInv
<1>3. CASE UNCHANGED vars
  BY <1>3 DEF vars, IInv, TypeOK, ClosedInv, NonceInv, Sealed, IdleInv
<1> QED
  BY <1>1, <1>2, <1>3, StartInv, WriteInv, ReadInv, HandleInv, TickInv DEF Next, Ended

LEMMA Invariance == Spec => []IInv
BY InitInv, NextInv, PTL DEF Spec

(* The reply queue and the time limits stay within their bounds, whatever  *)
(* they are.                                                               *)
THEOREM TypeCorrect == Spec => []TypeOK
<1>1. IInv => TypeOK
  BY DEF IInv
<1> QED  BY <1>1, Invariance, PTL

(* No honest frame fails to authenticate: a write that failed ended the    *)
(* connection, and one that succeeded is read with the nonce it was sealed  *)
(* with.                                                                   *)
THEOREM InStepCorrect == Spec => []InStep
<1>1. IInv => InStep
  BY DEF IInv, NonceInv, InStep
<1> QED  BY <1>1, Invariance, PTL

(* On a live link a heartbeat comes before any reader's limit, for every   *)
(* pair of limits with an interval to spare between them.                  *)
THEOREM HealthyStaysCorrect == Spec => []HealthyStays
<1>1. IInv => HealthyStays
  <2> SUFFICES ASSUME IInv, ~cut, NEW d \in Devices PROVE end[d].idle < ReceiveTimeout
    BY DEF HealthyStays
  <2>1. end[d] \in Ends
    BY TypeFacts DEF IInv
  <2>2. CASE end[d].open
    BY <2>1, <2>2, DuplexAssumption DEF IInv, IdleInv, Ends
  <2>3. CASE ~end[d].open
    BY <2>3, ClosedEnd, DuplexAssumption DEF IInv, ClosedInv
  <2> QED  BY <2>2, <2>3
<1> QED  BY <1>1, Invariance, PTL
=============================================================================
