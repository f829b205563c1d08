--------------------------- MODULE ClipboardProofs ---------------------------
(***************************************************************************)
(* Proofs about Clipboard for any number of sessions, formats, attempts,   *)
(* writes, applies and restarts.                                           *)
(*                                                                         *)
(* What makes the properties inductive: the lock tells who is reading or   *)
(* writing (LockInv), whatever was written since an apply read "before" is *)
(* its own or raced it (CommitInv), and the newest generation, when it is  *)
(* ours, is recorded, given up, or about to be recorded (NewestInv).  The  *)
(* order of the captures needs none of these: it rests on last_sequence    *)
(* (LastInv), ahead of all that this run of the daemon sent (LineInv).     *)
(***************************************************************************)
EXTENDS Clipboard, TLAPS

\* What the watch loop knows of the generation it works on.
WatchTypeInv == watch.pc # "idle" => watch.seq \in 1..Sequence

TypeInv == TypeOK /\ WatchTypeInv

\* CLIPBOARD_LOCK is held by exactly the one that reads or writes.
LockInv ==
  /\ \A s \in Sessions : apply[s].pc # "idle" <=> lock = s
  /\ watch.pc = "reading" <=> lock = Watcher

\* Every generation since an apply read "before" is its own or raced it.
CommitInv ==
  \A s \in Sessions : Committing(s) =>
    /\ apply[s].before <= Sequence
    /\ \A g \in (apply[s].before + 1)..Sequence :
         writes[g].by = "remote" \/ writes[g].raced

\* REMOTE_SEQUENCE never runs ahead of the clipboard.
RemoteInv == remoteSequence <= Sequence /\ SuppressesOwnWrites

\* The newest generation, when this program wrote it, is recorded, given up,
\* or written by an apply that has yet to record it.
NewestInv ==
  writes[Sequence].by = "remote" =>
    \/ Sequence = remoteSequence
    \/ Sequence \in unrecorded
    \/ \E s \in Sessions : Committing(s) /\ apply[s].before < Sequence

Known(g) == writes[g].by = "local" \/ g \in unrecorded

\* The generation under the watch loop's hands is one it may send.
ReadingInv ==
  watch.pc \in {"reading", "sending"} => Known(watch.seq)

\* What was read so far was read at or after the generation captured.
SeenInv ==
  /\ watch.pc = "reading" => /\ watch.seen \subseteq watch.seq..Sequence
                             /\ watch.read > 0 => watch.seen # {}
  /\ watch.pc = "sending" => watch.seen = {watch.seq}

\* A capture that may travel: of a generation that exists, that is not ours
\* unless given up, and read from that generation alone.
Sound(c) == c.gen \in 1..Sequence /\ Known(c.gen) /\ c.seen = {c.gen}

ChannelInv ==
  /\ \A i \in 1..Len(published) : Sound(published[i])
  /\ \A i \in 1..Len(queue) : Sound(queue[i])

WriteType == [by : {"local", "remote"}, kind : AllKinds, raced : BOOLEAN]
WatchType == [pc : {"idle", "reading", "sending"}, seq : 0..MaxWrites,
              read : 0..FormatCount, seen : SUBSET (1..MaxWrites)]
ApplyType == [pc : AwaitPcs \cup CommitPcs, before : 0..MaxWrites,
              attempt : 0..MaxAttempts]

-----------------------------------------------------------------------------
(* Type correctness.                                                       *)

LEMMA InitType == Init => TypeInv
<1> SUFFICES ASSUME Init PROVE TypeInv
  OBVIOUS
<1>1. PICK k \in Kinds : writes = <<[by |-> "local", kind |-> k, raced |-> FALSE]>>
  BY DEF Init
<1>2. writes \in Seq(WriteType) /\ Len(writes) = 1
  <2>1. [by |-> "local", kind |-> k, raced |-> FALSE] \in WriteType
    BY ConstantsAssumption DEF WriteType
  <2> QED  BY <1>1, <2>1
<1>3. watch \in WatchType /\ apply \in [Sessions -> ApplyType]
  BY ConstantsAssumption DEF Init, WatchIdle, ApplyIdle, WatchType, ApplyType, AwaitPcs
<1>4. queue \in Seq(CaptureType) /\ published \in Seq(CaptureType)
  BY DEF Init
<1>5. Len(queue) = 0
  BY DEF Init
<1> QED
  BY <1>2, <1>3, <1>4, <1>5, ConstantsAssumption
  DEF Init, TypeInv, TypeOK, WatchTypeInv, WatchIdle, Sequence, WriteType, WatchType, ApplyType

\* One more write of either kind keeps the history well typed.
LEMMA AppendWrite ==
  ASSUME TypeInv, Sequence < MaxWrites, NEW w \in WriteType, writes' = Append(writes, w)
  PROVE  /\ writes' \in Seq(WriteType)
         /\ Len(writes') = Len(writes) + 1
         /\ Sequence' \in 1..MaxWrites
         /\ Sequence' = Sequence + 1
         /\ writes'[Sequence'] = w
         /\ \A g \in 1..Sequence : writes'[g] = writes[g]
<1>1. writes \in Seq(WriteType) /\ Len(writes) \in Nat
  BY DEF TypeInv, TypeOK, WriteType
<1> QED  BY <1>1, ConstantsAssumption DEF TypeInv, TypeOK, Sequence

LEMMA RemoteWriteAppends ==
  ASSUME RemoteWrite
  PROVE  \E w \in WriteType : /\ w.by = "remote" /\ Sequence < MaxWrites
                              /\ writes' = Append(writes, w)
<1>1. [by |-> "remote", kind |-> "item", raced |-> FALSE] \in WriteType
  BY DEF WriteType, AllKinds
<1> QED  BY <1>1 DEF RemoteWrite

LEMMA UserCopyAppends ==
  ASSUME NEW kind \in Kinds, UserCopy(kind)
  PROVE  \E w \in WriteType : /\ w.by = "local" /\ Sequence < MaxWrites
                              /\ w.raced = (\E s \in Sessions : Committing(s))
                              /\ writes' = Append(writes, w)
<1> DEFINE w == [by |-> "local", kind |-> kind, raced |-> \E s \in Sessions : Committing(s)]
<1>1. w \in WriteType
  BY ConstantsAssumption DEF WriteType
<1>2. w.by = "local" /\ w.raced = (\E s \in Sessions : Committing(s))
  OBVIOUS
<1> QED  BY <1>1, <1>2 DEF UserCopy

LEMMA RemoteWritesRange ==
  ASSUME TypeInv
  PROVE  RemoteWrites \subseteq 1..MaxWrites /\ Unfinished \subseteq 1..MaxWrites
BY ConstantsAssumption DEF RemoteWrites, Unfinished, TypeInv, TypeOK

LEMMA ReadType ==
  ASSUME TypeInv, WatchRead
  PROVE  watch' \in WatchType /\ watch'.pc = watch.pc /\ watch'.seq = watch.seq
<1> DEFINE read == watch.read + 1
           seen == watch.seen \cup {Sequence}
<1>1. watch \in WatchType /\ Sequence \in 1..MaxWrites
  BY DEF TypeInv, TypeOK, WatchType
<1>2. read \in 0..FormatCount
  BY <1>1, ConstantsAssumption DEF WatchRead, WatchType
<1>3. seen \in SUBSET (1..MaxWrites)
  BY <1>1 DEF WatchType
<1>4. watch' = [watch EXCEPT !.read = read, !.seen = seen]
  BY DEF WatchRead
<1> HIDE DEF read, seen
<1> QED  BY <1>1, <1>2, <1>3, <1>4 DEF WatchType

LEMMA NextType == TypeInv /\ [Next]_vars => TypeInv'
<1> SUFFICES ASSUME TypeInv, [Next]_vars PROVE TypeInv'
  OBVIOUS
<1> USE ConstantsAssumption DEF TypeInv, TypeOK, WatchTypeInv, Sequence,
      WatchIdle, ApplyIdle, AwaitPcs, CommitPcs
<1>1. ASSUME NEW kind \in Kinds, UserCopy(kind) PROVE TypeInv'
  BY <1>1 DEF UserCopy, AllKinds
<1>2. CASE Watch
  <2>1. CASE WatchSkip
    BY <2>1 DEF WatchSkip, LastAfterPoll
  <2>2. CASE WatchBegin
    BY <2>2 DEF WatchBegin
  <2>3. CASE WatchRead
    <3>1. watch' \in WatchType /\ watch'.pc = watch.pc /\ watch'.seq = watch.seq
      BY <2>3, ReadType
    <3> QED  BY <2>3, <3>1 DEF WatchRead, WatchType
  <2>4. CASE WatchChanged
    BY <2>4 DEF WatchChanged
  <2>5. CASE WatchUnreadable
    BY <2>5 DEF WatchUnreadable
  <2>6. CASE WatchRefuse
    BY <2>6 DEF WatchRefuse
  <2>7. CASE WatchCapture
    BY <2>7 DEF WatchCapture
  <2>8. CASE WatchSend
    <3>1. CaptureOf(watch) \in CaptureType
      BY <2>8 DEF WatchSend, CaptureOf, CaptureType
    <3> QED  BY <2>8, <3>1 DEF WatchSend
  <2> QED  BY <1>2, <2>1, <2>2, <2>3, <2>4, <2>5, <2>6, <2>7, <2>8 DEF Watch
<1>3. CASE Dispatch
  <2>1. Head(queue) \in CaptureType /\ Tail(queue) \in Seq(CaptureType)
        /\ Len(Tail(queue)) = Len(queue) - 1
    BY <1>3 DEF Dispatch
  <2> QED  BY <1>3, <2>1 DEF Dispatch
<1>4. ASSUME NEW s \in Sessions, Apply(s) PROVE TypeInv'
  <2>a. ASSUME NEW t \in ApplyType, apply' = [apply EXCEPT ![s] = t]
        PROVE  apply' \in [Sessions -> ApplyType]
    BY <2>a DEF ApplyType
  <2>b. ASSUME NEW pc \in AwaitPcs \cup CommitPcs, Goto(s, pc)
        PROVE  apply' \in [Sessions -> ApplyType]
    BY <2>b DEF Goto, ApplyType
  <2>c. ApplyIdle \in ApplyType
    BY DEF ApplyType
  <2>1. CASE ApplyBegin(s)
    <3>1. Goto(s, "building")
      BY <2>1 DEF ApplyBegin, Goto
    <3>2. applies' \in 0..MaxApplies
      BY <2>1 DEF ApplyBegin
    <3> QED  BY <2>1, <3>1, <3>2, <2>b DEF ApplyBegin, ApplyType
  <2>2. CASE ApplyBuildFail(s)
    BY <2>2, <2>a, <2>c DEF ApplyBuildFail, ApplyType
  <2>3. CASE ApplyBuilt(s)
    BY <2>3 DEF ApplyBuilt
  <2>4. CASE CommitSet(s)
    <3>1. apply' \in [Sessions -> ApplyType]
      BY <2>4, <2>b DEF CommitSet
    <3>2. writes' \in Seq(WriteType) /\ Sequence' \in 1..MaxWrites /\ Sequence' > Sequence
      BY <2>4, RemoteWriteAppends, AppendWrite DEF CommitSet
    <3> QED  BY <2>4, <3>1, <3>2 DEF CommitSet, WriteType, ApplyType
  <2>5. CASE CommitRefused(s)
    BY <2>5, <2>b DEF CommitRefused, ApplyType
  <2>6. CASE CommitFlush(s)
    <3>1. apply' \in [Sessions -> ApplyType]
      BY <2>6, <2>b DEF CommitFlush
    <3>2. CASE RemoteWrite
      <4>1. writes' \in Seq(WriteType) /\ Sequence' \in 1..MaxWrites /\ Sequence' > Sequence
        BY <3>2, RemoteWriteAppends, AppendWrite
      <4>2. UNCHANGED <<remoteSequence, lastSequence, lock, watch, queue,
                        published, unrecorded, epoch, applies, unreadable>>
        BY <2>6 DEF CommitFlush
      <4> QED  BY <3>1, <4>1, <4>2 DEF WriteType, ApplyType
    <3>3. CASE UNCHANGED writes
      BY <2>6, <3>1, <3>3 DEF CommitFlush, ApplyType
    <3> QED  BY <2>6, <3>2, <3>3 DEF CommitFlush
  <2>7. CASE CommitFlushFail(s)
    <3>1. apply' \in [Sessions -> ApplyType]
      BY <2>7, <2>b DEF CommitFlushFail
    <3> QED  BY <2>7, <3>1 DEF CommitFlushFail, ApplyType
  <2>8. CASE CommitRetry(s)
    <3>1. apply' \in [Sessions -> ApplyType]
      <4>1. CASE apply[s].attempt < MaxAttempts
        <5> DEFINE t == [pc |-> "set", before |-> apply[s].before,
                         attempt |-> apply[s].attempt + 1]
        <5>1. t \in ApplyType
          <6>1. apply[s].attempt + 1 \in 0..MaxAttempts /\ apply[s].before \in 0..MaxWrites
            BY <4>1
          <6> QED  BY <6>1 DEF ApplyType
        <5>2. apply' = [apply EXCEPT ![s] = t]
          BY <2>8, <4>1 DEF CommitRetry
        <5> QED  BY <5>1, <5>2, <2>a
      <4>2. CASE ~(apply[s].attempt < MaxAttempts)
        BY <2>8, <4>2, <2>b DEF CommitRetry
      <4> QED  BY <4>1, <4>2
    <3> QED  BY <2>8, <3>1 DEF CommitRetry, ApplyType
  <2>9. CASE ApplyRecord(s)
    BY <2>9 DEF ApplyRecord, Recorded
  <2>10. CASE ApplyDropped(s)
    <3>1. apply' \in [Sessions -> ApplyType]
      BY <2>10, <2>a, <2>c DEF ApplyDropped
    <3>2. unrecorded' \subseteq 1..MaxWrites
      BY <2>10, RemoteWritesRange DEF ApplyDropped
    <3>3. lock' = NoOne /\ UNCHANGED <<writes, remoteSequence, lastSequence, watch,
            queue, published, epoch, applies, unreadable>>
      BY <2>10 DEF ApplyDropped
    <3> QED  BY <3>1, <3>2, <3>3 DEF ApplyType
  <2> QED  BY <1>4, <2>1, <2>2, <2>3, <2>4, <2>5, <2>6, <2>7, <2>8, <2>9, <2>10 DEF Apply
<1>r. ASSUME Restart PROVE apply' \in [Sessions -> ApplyType]
  BY <1>r DEF Restart, ApplyType
<1>5. CASE DaemonRestart
  <2>1. unrecorded' \subseteq 1..MaxWrites
    BY <1>5, RemoteWritesRange DEF DaemonRestart
  <2> QED  BY <1>5, <1>r, <2>1 DEF DaemonRestart, Restart, ApplyType
<1>6. CASE ProcessRestart
  <2>1. unrecorded' \subseteq 1..MaxWrites
    BY <1>6, RemoteWritesRange DEF ProcessRestart
  <2> QED  BY <1>6, <1>r, <2>1 DEF ProcessRestart, Restart, ApplyType
<1>7. CASE UNCHANGED vars
  BY <1>7 DEF vars
<1> QED  BY <1>1, <1>2, <1>3, <1>4, <1>5, <1>6, <1>7 DEF Next

(* Every variable has its type and the capture channel its capacity: the   *)
(* type invariant holds of the watch, dispatch and apply tasks in any run. *)
THEOREM TypeCorrect == Spec => []TypeOK
<1>1. TypeInv => TypeOK
  BY DEF TypeInv
<1> QED  BY <1>1, InitType, NextType, PTL DEF Spec

-----------------------------------------------------------------------------
(* The history of the clipboard only grows, and what is known of a         *)
(* generation stays known.                                                 *)

LEMMA HistoryGrows ==
  ASSUME TypeInv, [Next]_vars
  PROVE  /\ Sequence' = Sequence \/ Sequence' = Sequence + 1
         /\ \A g \in 1..Sequence : writes'[g] = writes[g]
<1>1. CASE UNCHANGED writes
  BY <1>1 DEF Sequence
<1>2. ASSUME NEW kind \in Kinds, UserCopy(kind) 
      PROVE  /\ Sequence' = Sequence + 1
             /\ \A g \in 1..Sequence : writes'[g] = writes[g]
  BY <1>2, UserCopyAppends, AppendWrite
<1>3. ASSUME RemoteWrite
      PROVE  /\ Sequence' = Sequence + 1
             /\ \A g \in 1..Sequence : writes'[g] = writes[g]
  BY <1>3, RemoteWriteAppends, AppendWrite
<1>4. ASSUME Watch PROVE UNCHANGED writes
  BY <1>4 DEF Watch, WatchSkip, WatchBegin, WatchRead, WatchChanged, WatchUnreadable,
              WatchRefuse, WatchCapture, WatchSend
<1>5. ASSUME NEW s \in Sessions, Apply(s) PROVE UNCHANGED writes \/ RemoteWrite
  BY <1>5 DEF Apply, ApplyBegin, ApplyBuildFail, ApplyBuilt, CommitSet, CommitRefused,
              CommitFlush, CommitFlushFail, CommitRetry, ApplyRecord, ApplyDropped
<1>6. ASSUME DaemonRestart \/ ProcessRestart \/ Dispatch \/ UNCHANGED vars
      PROVE  UNCHANGED writes
  BY <1>6 DEF DaemonRestart, ProcessRestart, Restart, Dispatch, vars
<1> QED  BY <1>1, <1>2, <1>3, <1>4, <1>5, <1>6 DEF Next

LEMMA UnrecordedGrows ==
  ASSUME [Next]_vars
  PROVE  unrecorded \subseteq unrecorded' \/ (unrecorded' = RemoteWrites /\ UNCHANGED writes)
<1>1. ASSUME Watch PROVE UNCHANGED unrecorded
  BY <1>1 DEF Watch, WatchSkip, WatchBegin, WatchRead, WatchChanged, WatchUnreadable,
              WatchRefuse, WatchCapture, WatchSend
<1>2. ASSUME NEW s \in Sessions, Apply(s) PROVE unrecorded \subseteq unrecorded'
  BY <1>2 DEF Apply, ApplyBegin, ApplyBuildFail, ApplyBuilt, CommitSet, CommitRefused,
              CommitFlush, CommitFlushFail, CommitRetry, ApplyRecord, ApplyDropped
<1>3. ASSUME DaemonRestart PROVE unrecorded \subseteq unrecorded'
  BY <1>3 DEF DaemonRestart
<1>4. ASSUME ProcessRestart PROVE unrecorded' = RemoteWrites /\ UNCHANGED writes
  BY <1>4 DEF ProcessRestart, Restart
<1>5. ASSUME Dispatch \/ UNCHANGED vars \/ \E kind \in Kinds : UserCopy(kind)
      PROVE  UNCHANGED unrecorded
  BY <1>5 DEF Dispatch, vars, UserCopy
<1> QED  BY <1>1, <1>2, <1>3, <1>4, <1>5 DEF Next

LEMMA KnownStays ==
  ASSUME TypeInv, [Next]_vars, NEW g \in 1..Sequence, Known(g)
  PROVE  Known(g)'
<1>1. writes'[g] = writes[g]
  BY HistoryGrows
<1>2. writes[g].by \in {"local", "remote"}
  <2>1. writes \in Seq(WriteType) /\ g \in 1..Len(writes)
    BY DEF TypeInv, TypeOK, Sequence, WriteType
  <2>2. writes[g] \in WriteType
    BY <2>1
  <2> QED  BY <2>2 DEF WriteType
<1>3. CASE writes[g].by = "local"
  BY <1>1, <1>3 DEF Known
<1>4. CASE writes[g].by = "remote"
  <2>1. g \in RemoteWrites
    BY <1>4 DEF RemoteWrites
  <2>2. g \in unrecorded
    BY <1>4 DEF Known
  <2> QED  BY <2>1, <2>2, UnrecordedGrows DEF Known
<1> QED  BY <1>2, <1>3, <1>4

-----------------------------------------------------------------------------
(* CLIPBOARD_LOCK.                                                         *)

LEMMA LockStep == TypeInv /\ LockInv /\ [Next]_vars => LockInv'
<1> SUFFICES ASSUME TypeInv, LockInv, [Next]_vars PROVE LockInv'
  OBVIOUS
<1>0. /\ lock \in Sessions \cup {Watcher, NoOne}
      /\ apply \in [Sessions -> ApplyType] /\ watch \in WatchType
  BY DEF TypeInv, TypeOK, ApplyType, WatchType
<1> USE ConstantsAssumption, <1>0 DEF LockInv
<1>1. ASSUME NEW kind \in Kinds, UserCopy(kind) PROVE LockInv'
  BY <1>1 DEF UserCopy
<1>2. CASE Watch
  <2> USE DEF WatchType
  <2>1. CASE WatchSkip
    BY <2>1 DEF WatchSkip
  <2>2. CASE WatchBegin
    BY <2>2 DEF WatchBegin
  <2>3. CASE WatchRead
    BY <2>3 DEF WatchRead
  <2>4. CASE WatchChanged \/ WatchUnreadable \/ WatchRefuse
    BY <2>4 DEF WatchChanged, WatchUnreadable, WatchRefuse, WatchIdle
  <2>5. CASE WatchCapture
    BY <2>5 DEF WatchCapture
  <2>6. CASE WatchSend
    BY <2>6 DEF WatchSend, WatchIdle
  <2> QED  BY <1>2, <2>1, <2>2, <2>3, <2>4, <2>5, <2>6 DEF Watch
<1>3. CASE Dispatch
  BY <1>3 DEF Dispatch
<1>4. ASSUME NEW s \in Sessions, Apply(s) PROVE LockInv'
  <2> USE DEF ApplyType
  <2>1. CASE ApplyBegin(s)
    BY <2>1 DEF ApplyBegin
  <2>2. CASE ApplyBuildFail(s) \/ ApplyRecord(s) \/ ApplyDropped(s)
    BY <2>2 DEF ApplyBuildFail, ApplyRecord, ApplyDropped, ApplyIdle, AwaitPcs
  <2>3. ASSUME NEW pc \in CommitPcs, Goto(s, pc), apply[s].pc # "idle",
               UNCHANGED <<lock, watch>>
        PROVE  LockInv'
    BY <2>3 DEF Goto, CommitPcs
  <2>4. CASE ApplyBuilt(s)
    BY <2>4 DEF ApplyBuilt
  <2>5. CASE CommitSet(s)
    BY <2>3, <2>5 DEF CommitSet, CommitPcs
  <2>6. CASE CommitRefused(s)
    BY <2>3, <2>6 DEF CommitRefused, CommitPcs
  <2>7. CASE CommitFlush(s)
    BY <2>3, <2>7 DEF CommitFlush, CommitPcs
  <2>8. CASE CommitFlushFail(s)
    BY <2>3, <2>8 DEF CommitFlushFail, CommitPcs
  <2>9. CASE CommitRetry(s)
    BY <2>3, <2>9 DEF CommitRetry, CommitPcs
  <2> QED  BY <1>4, <2>1, <2>2, <2>4, <2>5, <2>6, <2>7, <2>8, <2>9 DEF Apply
<1>5. CASE DaemonRestart \/ ProcessRestart
  BY <1>5 DEF DaemonRestart, ProcessRestart, Restart, WatchIdle, ApplyIdle
<1>6. CASE UNCHANGED vars
  BY <1>6 DEF vars
<1> QED  BY <1>1, <1>2, <1>3, <1>4, <1>5, <1>6 DEF Next

-----------------------------------------------------------------------------
(* The two reads of the sequence number around a commit.                   *)

\* A step of the commit that does not restart it.
CommitStays(s) == Committing(s) /\ apply'[s].before = apply[s].before

LEMMA CommitFrame ==
  ASSUME TypeInv, CommitInv, [Next]_vars,
         \A s \in Sessions : Committing(s)' => CommitStays(s),
         Sequence' # Sequence =>
           \/ writes'[Sequence'].by = "remote" \/ writes'[Sequence'].raced
           \/ \A s \in Sessions : ~Committing(s)
  PROVE  CommitInv'
<1> SUFFICES ASSUME NEW s \in Sessions, Committing(s)'
             PROVE  /\ apply'[s].before <= Sequence'
                    /\ \A g \in (apply'[s].before + 1)..Sequence' :
                         writes'[g].by = "remote" \/ writes'[g].raced
  BY DEF CommitInv
<1>1. /\ Committing(s) /\ apply'[s].before = apply[s].before
      /\ apply[s].before <= Sequence /\ apply[s].before \in Nat /\ Sequence \in Nat
  BY ConstantsAssumption DEF CommitStays, CommitInv, TypeInv, TypeOK
<1>2. /\ Sequence' = Sequence \/ Sequence' = Sequence + 1
      /\ \A g \in 1..Sequence : writes'[g] = writes[g]
  BY HistoryGrows
<1>3. ASSUME NEW g \in (apply'[s].before + 1)..Sequence'
      PROVE  writes'[g].by = "remote" \/ writes'[g].raced
  <2>1. CASE g <= Sequence
    <3>1. g \in 1..Sequence /\ g \in (apply[s].before + 1)..Sequence
      BY <1>1, <1>2, <2>1
    <3> QED  BY <1>1, <1>2, <3>1 DEF CommitInv
  <2>2. CASE g > Sequence
    BY <1>1, <1>2, <2>2
  <2> QED  BY <1>1, <1>2, <2>1, <2>2
<1> QED  BY <1>1, <1>2, <1>3

LEMMA ApplySteps ==
  ASSUME TypeInv, NEW s \in Sessions, Apply(s)
  PROVE  /\ \A t \in Sessions \ {s} : apply'[t] = apply[t]
         /\ \/ Committing(s)' /\ CommitStays(s)
            \/ ~Committing(s)' /\ apply'[s].pc # "set" /\ UNCHANGED writes
            \/ ApplyBuilt(s)
<1>0. apply \in [Sessions -> ApplyType]
  BY DEF TypeInv, TypeOK, ApplyType
<1> USE <1>0 DEF ApplyType, Committing, CommitStays
<1>a. ASSUME NEW pc \in CommitPcs, Goto(s, pc), apply[s].pc \in CommitPcs
      PROVE  /\ \A t \in Sessions \ {s} : apply'[t] = apply[t]
             /\ Committing(s)' /\ CommitStays(s)
  BY <1>a DEF Goto, CommitPcs
<1>1. CASE ApplyBegin(s)
  BY <1>1 DEF ApplyBegin, CommitPcs
<1>2. CASE ApplyBuildFail(s) \/ ApplyRecord(s) \/ ApplyDropped(s)
  BY <1>2 DEF ApplyBuildFail, ApplyRecord, ApplyDropped, ApplyIdle, CommitPcs
<1>3. CASE ApplyBuilt(s)
  BY <1>3 DEF ApplyBuilt
<1>4. CASE CommitSet(s)
  BY <1>4, <1>a DEF CommitSet, CommitPcs
<1>5. CASE CommitRefused(s)
  BY <1>5, <1>a DEF CommitRefused, CommitPcs
<1>6. CASE CommitFlush(s)
  BY <1>6, <1>a DEF CommitFlush, CommitPcs
<1>7. CASE CommitFlushFail(s)
  BY <1>7, <1>a DEF CommitFlushFail, CommitPcs
<1>8. CASE CommitRetry(s)
  <2>1. CASE apply[s].attempt < MaxAttempts
    BY <1>8, <2>1 DEF CommitRetry, CommitPcs
  <2>2. CASE ~(apply[s].attempt < MaxAttempts)
    BY <1>8, <2>2, <1>a DEF CommitRetry, CommitPcs
  <2> QED  BY <2>1, <2>2
<1> QED  BY <1>1, <1>2, <1>3, <1>4, <1>5, <1>6, <1>7, <1>8 DEF Apply

LEMMA ApplyWrites ==
  ASSUME TypeInv, NEW s \in Sessions, Apply(s)
  PROVE  UNCHANGED writes \/ (Sequence' = Sequence + 1 /\ writes'[Sequence'].by = "remote")
<1>1. UNCHANGED writes \/ RemoteWrite
  BY DEF Apply, ApplyBegin, ApplyBuildFail, ApplyBuilt, CommitSet, CommitRefused,
         CommitFlush, CommitFlushFail, CommitRetry, ApplyRecord, ApplyDropped
<1> QED  BY <1>1, RemoteWriteAppends, AppendWrite

LEMMA CommitStep == TypeInv /\ CommitInv /\ [Next]_vars => CommitInv'
<1> SUFFICES ASSUME TypeInv, CommitInv, [Next]_vars PROVE CommitInv'
  OBVIOUS
<1>1. ASSUME UNCHANGED <<apply, writes>> PROVE CommitInv'
  BY <1>1 DEF CommitInv, Committing, Sequence
<1>2. ASSUME NEW kind \in Kinds, UserCopy(kind) PROVE CommitInv'
  <2>1. UNCHANGED apply
    BY <1>2 DEF UserCopy
  <2>2. \A s \in Sessions : Committing(s)' => CommitStays(s)
    BY <2>1 DEF Committing, CommitStays
  <2>3. writes'[Sequence'].raced = (\E s \in Sessions : Committing(s))
    BY <1>2, UserCopyAppends, AppendWrite
  <2> QED  BY <2>2, <2>3, CommitFrame
<1>3. ASSUME NEW s \in Sessions, Apply(s) PROVE CommitInv'
  <2>1. CASE ApplyBuilt(s)
    <3>1. apply' = [apply EXCEPT ![s] = [pc |-> "set", before |-> Sequence, attempt |-> 1]]
          /\ UNCHANGED writes /\ Sequence \in Nat /\ apply \in [Sessions -> ApplyType]
      BY <2>1 DEF ApplyBuilt, TypeInv, TypeOK, ApplyType
    <3>2. ASSUME NEW t \in Sessions, t # s PROVE apply'[t] = apply[t]
      BY <3>1, <3>2
    <3>3. apply'[s].before = Sequence
      BY <3>1
    <3> QED  BY <3>1, <3>2, <3>3 DEF CommitInv, Committing, Sequence
  <2>2. CASE ~ApplyBuilt(s)
    <3>1. \A t \in Sessions : Committing(t)' => CommitStays(t)
      BY <1>3, <2>2, ApplySteps DEF Committing, CommitStays
    <3>2. Sequence' # Sequence => writes'[Sequence'].by = "remote"
      BY <1>3, ApplyWrites DEF Sequence
    <3> QED  BY <3>1, <3>2, CommitFrame
  <2> QED  BY <2>1, <2>2
<1>4. ASSUME Restart PROVE CommitInv'
  BY <1>4 DEF Restart, CommitInv, Committing, CommitPcs, ApplyIdle
<1>5. ASSUME Watch \/ Dispatch \/ UNCHANGED vars PROVE UNCHANGED <<apply, writes>>
  BY <1>5 DEF Watch, WatchSkip, WatchBegin, WatchRead, WatchChanged, WatchUnreadable,
              WatchRefuse, WatchCapture, WatchSend, Dispatch, vars
<1> QED  BY <1>1, <1>2, <1>3, <1>4, <1>5 DEF Next, DaemonRestart, ProcessRestart

-----------------------------------------------------------------------------
(* REMOTE_SEQUENCE.                                                        *)

\* A step changes REMOTE_SEQUENCE only to forget it or to record a commit.
LEMMA RemoteSteps ==
  ASSUME [Next]_vars
  PROVE  \/ UNCHANGED remoteSequence
         \/ remoteSequence' = 0
         \/ \E s \in Sessions : ApplyRecord(s)
<1>1. ASSUME Watch \/ Dispatch \/ UNCHANGED vars \/ \E kind \in Kinds : UserCopy(kind)
      PROVE  UNCHANGED remoteSequence
  BY <1>1 DEF Watch, WatchSkip, WatchBegin, WatchRead, WatchChanged, WatchUnreadable,
              WatchRefuse, WatchCapture, WatchSend, Dispatch, vars, UserCopy
<1>2. ASSUME NEW s \in Sessions, Apply(s) PROVE UNCHANGED remoteSequence \/ ApplyRecord(s)
  BY <1>2 DEF Apply, ApplyBegin, ApplyBuildFail, ApplyBuilt, CommitSet, CommitRefused,
              CommitFlush, CommitFlushFail, CommitRetry, ApplyRecord, ApplyDropped
<1>3. ASSUME DaemonRestart \/ ProcessRestart
      PROVE  UNCHANGED remoteSequence \/ remoteSequence' = 0
  BY <1>3 DEF DaemonRestart, ProcessRestart
<1> QED  BY <1>1, <1>2, <1>3 DEF Next

LEMMA RecordSafe ==
  ASSUME TypeInv, CommitInv, NEW s \in Sessions, ApplyRecord(s)
  PROVE  /\ UNCHANGED writes
         /\ \/ UNCHANGED remoteSequence
            \/ /\ remoteSequence' = Sequence
               /\ writes[Sequence].by = "remote" \/ writes[Sequence].raced
<1>1. /\ UNCHANGED writes /\ apply[s].pc = "record"
      /\ remoteSequence' = Recorded(apply[s].before)
  BY DEF ApplyRecord
<1>2. /\ apply[s].before <= Sequence /\ apply[s].before \in Nat /\ Sequence \in Nat
      /\ \A g \in (apply[s].before + 1)..Sequence :
            writes[g].by = "remote" \/ writes[g].raced
  BY <1>1, ConstantsAssumption DEF CommitInv, Committing, CommitPcs, TypeInv, TypeOK
<1>3. CASE apply[s].before = Sequence
  BY <1>1, <1>3 DEF Recorded
<1>4. CASE apply[s].before # Sequence
  <2>1. Sequence \in (apply[s].before + 1)..Sequence
    BY <1>2, <1>4
  <2> QED  BY <1>1, <1>2, <1>4, <2>1 DEF Recorded
<1> QED  BY <1>3, <1>4

LEMMA RemoteStep == TypeInv /\ CommitInv /\ RemoteInv /\ [Next]_vars => RemoteInv'
<1> SUFFICES ASSUME TypeInv, CommitInv, RemoteInv, [Next]_vars PROVE RemoteInv'
  OBVIOUS
<1>1. /\ remoteSequence \in Nat /\ Sequence \in Nat /\ Sequence >= 1
      /\ remoteSequence <= Sequence
      /\ remoteSequence # 0 => \/ writes[remoteSequence].by = "remote"
                               \/ writes[remoteSequence].raced
  BY ConstantsAssumption DEF TypeInv, TypeOK, RemoteInv, SuppressesOwnWrites
<1>2. /\ Sequence' = Sequence \/ Sequence' = Sequence + 1
      /\ \A g \in 1..Sequence : writes'[g] = writes[g]
  BY HistoryGrows
<1>3. CASE UNCHANGED remoteSequence
  <2>1. remoteSequence # 0 => writes'[remoteSequence] = writes[remoteSequence]
    BY <1>1, <1>2
  <2> QED  BY <1>1, <1>2, <1>3, <2>1 DEF RemoteInv, SuppressesOwnWrites
<1>4. CASE remoteSequence' = 0
  BY <1>1, <1>2, <1>4 DEF RemoteInv, SuppressesOwnWrites
<1>5. ASSUME NEW s \in Sessions, ApplyRecord(s), remoteSequence' # remoteSequence
      PROVE  RemoteInv'
  BY <1>1, <1>5, RecordSafe DEF RemoteInv, SuppressesOwnWrites, Sequence
<1> QED  BY <1>3, <1>4, <1>5, RemoteSteps

LEMMA NewestStep == TypeInv /\ CommitInv /\ NewestInv /\ [Next]_vars => NewestInv'
<1> SUFFICES ASSUME TypeInv, CommitInv, NewestInv, [Next]_vars PROVE NewestInv'
  OBVIOUS
<1>0. /\ apply \in [Sessions -> ApplyType] /\ Sequence \in Nat /\ Sequence >= 1
      /\ \A s \in Sessions : apply[s].before \in Nat
  BY ConstantsAssumption DEF TypeInv, TypeOK, ApplyType
<1>1. ASSUME UNCHANGED <<writes, remoteSequence, unrecorded>>,
             \A t \in Sessions : Committing(t) =>
                 Committing(t)' /\ apply'[t].before = apply[t].before
      PROVE  NewestInv'
  BY <1>1 DEF NewestInv, Sequence
<1>2. ASSUME NEW kind \in Kinds, UserCopy(kind) PROVE NewestInv'
  <2>1. writes'[Sequence'].by = "local"
    BY <1>2, UserCopyAppends, AppendWrite
  <2> QED  BY <2>1 DEF NewestInv
<1>3. ASSUME NEW s \in Sessions, Apply(s) PROVE NewestInv'
  <2>1. CASE ApplyBegin(s) \/ ApplyBuildFail(s) \/ ApplyBuilt(s)
    <3>1. ~Committing(s) /\ UNCHANGED <<writes, remoteSequence, unrecorded>>
      BY <2>1 DEF ApplyBegin, ApplyBuildFail, ApplyBuilt, Committing, CommitPcs
    <3>2. \A t \in Sessions \ {s} : apply'[t] = apply[t]
      BY <1>3, ApplySteps
    <3> QED  BY <1>1, <3>1, <3>2 DEF Committing
  <2>2. CASE CommitSet(s) \/ CommitRefused(s) \/ CommitFlush(s) \/ CommitFlushFail(s)
             \/ CommitRetry(s)
    <3>1. ~ApplyBuilt(s) /\ UNCHANGED <<remoteSequence, unrecorded>>
      BY <2>2 DEF CommitSet, CommitRefused, CommitFlush, CommitFlushFail, CommitRetry,
                  ApplyBuilt
    <3>2. apply'[s].pc \in CommitPcs
      BY <2>2, <1>0 DEF CommitSet, CommitRefused, CommitFlush, CommitFlushFail, CommitRetry,
                  Goto, CommitPcs, ApplyType
    <3>3. /\ Committing(s) /\ Committing(s)' /\ apply'[s].before = apply[s].before
          /\ \A t \in Sessions \ {s} : apply'[t] = apply[t]
      BY <1>3, <3>1, <3>2, ApplySteps DEF CommitStays, Committing
    <3>4. CASE UNCHANGED writes
      BY <1>1, <3>1, <3>3, <3>4 DEF Committing
    <3>5. CASE Sequence' = Sequence + 1
      <4>1. apply[s].before <= Sequence
        BY <3>3 DEF CommitInv
      <4>2. apply'[s].before < Sequence'
        BY <1>0, <3>3, <3>5, <4>1
      <4> QED  BY <3>3, <4>2 DEF NewestInv
    <3> QED  BY <1>3, <3>4, <3>5, ApplyWrites
  <2>3. CASE ApplyRecord(s)
    <3>1. /\ UNCHANGED <<writes, unrecorded>>
          /\ remoteSequence' = Recorded(apply[s].before)
          /\ \A t \in Sessions \ {s} : apply'[t] = apply[t]
      BY <1>3, <2>3, ApplySteps DEF ApplyRecord
    <3>2. CASE apply[s].before # Sequence
      BY <3>1, <3>2 DEF Recorded, NewestInv, Sequence
    <3>3. CASE apply[s].before = Sequence
      <4>1. UNCHANGED remoteSequence
        BY <3>1, <3>3 DEF Recorded
      <4> QED  BY <1>0, <3>1, <3>3, <4>1 DEF NewestInv, Committing, Sequence
    <3> QED  BY <3>2, <3>3
  <2>4. CASE ApplyDropped(s)
    <3>1. /\ UNCHANGED <<writes, remoteSequence>> /\ unrecorded' = unrecorded \cup Unfinished
      BY <2>4 DEF ApplyDropped
    <3> QED  BY <1>0, <3>1 DEF NewestInv, Unfinished, RemoteWrites, Sequence
  <2> QED  BY <1>3, <2>1, <2>2, <2>3, <2>4 DEF Apply
<1>4. CASE DaemonRestart
  <2>1. /\ UNCHANGED <<writes, remoteSequence>> /\ unrecorded' = unrecorded \cup Unfinished
    BY <1>4 DEF DaemonRestart, Restart
  <2> QED  BY <1>0, <2>1 DEF NewestInv, Unfinished, RemoteWrites, Sequence
<1>5. CASE ProcessRestart
  <2>1. UNCHANGED writes /\ unrecorded' = RemoteWrites
    BY <1>5 DEF ProcessRestart, Restart
  <2> QED  BY <1>0, <2>1 DEF NewestInv, RemoteWrites, Sequence
<1>6. CASE Watch \/ Dispatch \/ UNCHANGED vars
  <2>1. UNCHANGED <<writes, remoteSequence, unrecorded, apply>>
    BY <1>6 DEF Watch, WatchSkip, WatchBegin, WatchRead, WatchChanged, WatchUnreadable,
                WatchRefuse, WatchCapture, WatchSend, Dispatch, vars
  <2> QED  BY <1>1, <2>1 DEF Committing
<1> QED  BY <1>2, <1>3, <1>4, <1>5, <1>6 DEF Next

-----------------------------------------------------------------------------
(* What the watch loop captures, and what travels in the channel.          *)

WatchInv == ReadingInv /\ SeenInv

\* The capture a step of the watch loop sends, and the others that stay.
LEMMA WatchStep ==
  ASSUME TypeInv, LockInv, NewestInv, WatchInv, [Next]_vars
  PROVE  WatchInv'
<1>0. /\ watch \in WatchType /\ apply \in [Sessions -> ApplyType]
      /\ Sequence \in Nat /\ Sequence >= 1 /\ FormatCount \in Nat
      /\ watch.pc # "idle" => watch.seq \in 1..Sequence
  BY ConstantsAssumption DEF TypeInv, TypeOK, WatchType, ApplyType, WatchTypeInv
<1>1. /\ Sequence' = Sequence \/ Sequence' = Sequence + 1
      /\ \A g \in 1..Sequence : Known(g) => Known(g)'
  BY <1>0, HistoryGrows, KnownStays
<1>2. ASSUME UNCHANGED watch PROVE WatchInv'
  <2>1. ReadingInv'
    BY <1>0, <1>1, <1>2 DEF WatchInv, ReadingInv, Known
  <2>2. watch.pc = "reading" => watch.seq..Sequence \subseteq watch.seq..Sequence'
    BY <1>0, <1>1
  <2>3. SeenInv'
    BY <1>2, <2>2 DEF WatchInv, SeenInv
  <2> QED  BY <2>1, <2>3 DEF WatchInv
<1>3. ASSUME watch' = WatchIdle PROVE WatchInv'
  BY <1>3 DEF WatchInv, ReadingInv, SeenInv, WatchIdle
<1>4. CASE WatchBegin
  <2>1. /\ lock = NoOne /\ Sequence # remoteSequence
        /\ watch' = [pc |-> "reading", seq |-> Sequence, read |-> 0, seen |-> {}]
        /\ UNCHANGED <<writes, unrecorded>>
    BY <1>4 DEF WatchBegin, ShouldCapture
  <2>2. \A s \in Sessions : ~Committing(s)
    BY <2>1, ConstantsAssumption DEF LockInv, Committing, CommitPcs
  <2>3. Known(Sequence)
    <3>1. writes \in Seq(WriteType) /\ Sequence \in 1..Len(writes)
      BY <1>0 DEF TypeInv, TypeOK, WriteType, Sequence
    <3>2. writes[Sequence] \in WriteType
      BY <3>1
    <3> QED  BY <2>1, <2>2, <3>2 DEF NewestInv, Known, WriteType
  <2> QED  BY <2>1, <2>3 DEF WatchInv, ReadingInv, SeenInv, Known, Sequence
<1>5. CASE WatchRead
  <2>1. /\ watch.pc = "reading" /\ watch'.pc = "reading" /\ watch'.seq = watch.seq
        /\ watch'.seen = watch.seen \cup {Sequence}
        /\ UNCHANGED <<writes, unrecorded>>
    BY <1>0, <1>5 DEF WatchRead, WatchType
  <2>2. watch'.seen \subseteq watch.seq..Sequence /\ watch'.seen # {}
    BY <1>0, <2>1 DEF WatchInv, SeenInv
  <2> QED  BY <2>1, <2>2 DEF WatchInv, ReadingInv, SeenInv, Known, Sequence
<1>6. CASE WatchCapture
  <2>1. /\ watch.pc = "reading" /\ watch.read = FormatCount /\ Sequence = watch.seq
        /\ watch'.pc = "sending" /\ watch'.seq = watch.seq /\ watch'.seen = watch.seen
        /\ UNCHANGED <<writes, unrecorded>>
    BY <1>0, <1>6 DEF WatchCapture, WatchType, StillCurrent
  <2>2. watch.seen \subseteq watch.seq..watch.seq /\ watch.seen # {}
    BY <1>0, <2>1, ConstantsAssumption DEF WatchInv, SeenInv
  <2>3. watch.seen = {watch.seq}
    BY <1>0, <2>1, <2>2
  <2> QED  BY <2>1, <2>3 DEF WatchInv, ReadingInv, SeenInv, Known
<1>7. ASSUME NEW s \in Sessions, Apply(s) PROVE UNCHANGED watch
  BY <1>7 DEF Apply, ApplyBegin, ApplyBuildFail, ApplyBuilt, CommitSet, CommitRefused,
              CommitFlush, CommitFlushFail, CommitRetry, ApplyRecord, ApplyDropped
<1>8. ASSUME DaemonRestart \/ ProcessRestart PROVE watch' = WatchIdle
  BY <1>8 DEF DaemonRestart, ProcessRestart, Restart
<1>9. ASSUME WatchChanged \/ WatchUnreadable \/ WatchRefuse \/ WatchSend
      PROVE  watch' = WatchIdle
  BY <1>9 DEF WatchChanged, WatchUnreadable, WatchRefuse, WatchSend
<1>10. ASSUME WatchSkip \/ Dispatch \/ UNCHANGED vars \/ \E kind \in Kinds : UserCopy(kind)
       PROVE  UNCHANGED watch
  BY <1>10 DEF WatchSkip, Dispatch, vars, UserCopy
<1> QED  BY <1>2, <1>3, <1>4, <1>5, <1>6, <1>7, <1>8, <1>9, <1>10 DEF Next, Watch

LEMMA SoundStays ==
  ASSUME TypeInv, [Next]_vars, NEW c, Sound(c)
  PROVE  Sound(c)'
<1>1. c.gen \in 1..Sequence /\ Known(c.gen) /\ c.seen = {c.gen}
  BY DEF Sound
<1>2. Sequence \in Nat /\ (Sequence' = Sequence \/ Sequence' = Sequence + 1)
  BY ConstantsAssumption, HistoryGrows DEF TypeInv, TypeOK
<1>3. Known(c.gen)'
  BY <1>1, KnownStays
<1> QED  BY <1>1, <1>2, <1>3 DEF Sound

\* What the two lists may become, when what is in them stays sound.
LEMMA ChannelStep ==
  ASSUME TypeInv, WatchInv, ChannelInv, [Next]_vars
  PROVE  ChannelInv'
<1>0. queue \in Seq(CaptureType) /\ published \in Seq(CaptureType)
  BY DEF TypeInv, TypeOK
<1>1. /\ \A i \in 1..Len(published) : Sound(published[i])
      /\ \A i \in 1..Len(queue) : Sound(queue[i])
  BY DEF ChannelInv
<1>2. \A c : Sound(c) => Sound(c)'
  BY SoundStays
<1>3. ASSUME UNCHANGED <<published, queue>> PROVE ChannelInv'
  BY <1>1, <1>2, <1>3 DEF ChannelInv
<1>4. ASSUME Restart PROVE ChannelInv'
  <2>1. UNCHANGED published /\ queue' = <<>>
    BY <1>4 DEF Restart
  <2> QED  BY <1>1, <1>2, <2>1 DEF ChannelInv
<1>5. CASE WatchSend
  <2> DEFINE c == CaptureOf(watch)
  <2>1. c.gen = watch.seq /\ c.seen = watch.seen
    BY DEF CaptureOf
  <2>2. watch.pc = "sending" /\ queue' = Append(queue, c) /\ UNCHANGED published
    BY <1>5 DEF WatchSend
  <2>3. Sound(c)
    BY <2>1, <2>2 DEF WatchInv, ReadingInv, SeenInv, TypeInv, WatchTypeInv, Sound
  <2>4. c \in CaptureType
    BY <2>2, ConstantsAssumption DEF CaptureOf, CaptureType, TypeInv, TypeOK, WatchTypeInv
  <2> HIDE DEF c
  <2>5. \A i \in 1..Len(queue') : \E d : d = queue'[i] /\ Sound(d)
    <3>1. ASSUME NEW i \in 1..Len(queue')
          PROVE  queue'[i] = c \/ (i \in 1..Len(queue) /\ queue'[i] = queue[i])
      BY <1>0, <2>2, <2>4
    <3> QED  BY <1>1, <2>3, <3>1
  <2> QED  BY <1>1, <1>2, <2>2, <2>5 DEF ChannelInv
<1>6. CASE Dispatch
  <2>1. queue # <<>> /\ published' = Append(published, Head(queue)) /\ queue' = Tail(queue)
    BY <1>6 DEF Dispatch
  <2>2. Head(queue) \in CaptureType /\ Sound(Head(queue))
    BY <1>0, <1>1, <2>1
  <2>3. \A i \in 1..Len(queue') : \E c : c = queue'[i] /\ Sound(c)
    <3>1. ASSUME NEW i \in 1..Len(queue')
          PROVE  queue'[i] = queue[i + 1] /\ i + 1 \in 1..Len(queue)
      BY <1>0, <2>1
    <3> QED  BY <1>1, <3>1
  <2>4. \A i \in 1..Len(published') : \E c : c = published'[i] /\ Sound(c)
    <3>1. ASSUME NEW i \in 1..Len(published')
          PROVE  \/ published'[i] = Head(queue)
                 \/ i \in 1..Len(published) /\ published'[i] = published[i]
      BY <1>0, <2>1, <2>2
    <3> QED  BY <1>1, <2>2, <3>1
  <2> QED  BY <1>2, <2>3, <2>4 DEF ChannelInv
<1>7. ASSUME NEW s \in Sessions, Apply(s) PROVE UNCHANGED <<published, queue>>
  BY <1>7 DEF Apply, ApplyBegin, ApplyBuildFail, ApplyBuilt, CommitSet, CommitRefused,
              CommitFlush, CommitFlushFail, CommitRetry, ApplyRecord, ApplyDropped
<1>8. ASSUME \/ WatchSkip \/ WatchBegin \/ WatchRead \/ WatchChanged \/ WatchUnreadable
             \/ WatchRefuse \/ WatchCapture \/ UNCHANGED vars
             \/ \E kind \in Kinds : UserCopy(kind)
      PROVE  UNCHANGED <<published, queue>>
  BY <1>8 DEF WatchSkip, WatchBegin, WatchRead, WatchChanged, WatchUnreadable,
              WatchRefuse, WatchCapture, vars, UserCopy
<1> QED
  BY <1>3, <1>4, <1>5, <1>6, <1>7, <1>8 DEF Next, Watch, DaemonRestart, ProcessRestart

-----------------------------------------------------------------------------
(* The inductive invariant and what follows from it.                       *)

IInv == /\ TypeInv /\ LockInv /\ CommitInv /\ RemoteInv /\ NewestInv
        /\ WatchInv /\ ChannelInv

LEMMA InitIInv == Init => IInv
<1> SUFFICES ASSUME Init PROVE IInv
  OBVIOUS
<1>1. TypeInv
  BY InitType
<1>2. PICK k \in Kinds : writes = <<[by |-> "local", kind |-> k, raced |-> FALSE]>>
  BY DEF Init
<1>3. Sequence = 1 /\ writes[Sequence].by = "local"
  BY <1>2 DEF Sequence
<1>4. LockInv
  BY ConstantsAssumption DEF Init, LockInv, WatchIdle, ApplyIdle
<1>5. CommitInv
  BY DEF Init, CommitInv, Committing, CommitPcs, ApplyIdle
<1>6. RemoteInv /\ NewestInv
  BY <1>3 DEF Init, RemoteInv, SuppressesOwnWrites, NewestInv
<1>7. WatchInv
  BY DEF Init, WatchInv, ReadingInv, SeenInv, WatchIdle
<1>8. ChannelInv
  BY DEF Init, ChannelInv
<1> QED  BY <1>1, <1>4, <1>5, <1>6, <1>7, <1>8 DEF IInv

LEMMA NextIInv == IInv /\ [Next]_vars => IInv'
BY NextType, LockStep, CommitStep, RemoteStep, NewestStep, WatchStep, ChannelStep DEF IInv

LEMMA Invariance == Spec => []IInv
BY InitIInv, NextIInv, PTL DEF Spec

\* Every capture on its way is sound.
LEMMA CapturesSound == IInv => \A c \in Captures : Sound(c)
<1> SUFFICES ASSUME IInv, NEW c \in Captures PROVE Sound(c)
  OBVIOUS
<1>1. queue \in Seq(CaptureType) /\ published \in Seq(CaptureType)
  BY DEF IInv, TypeInv, TypeOK
<1>2. CASE \E i \in DOMAIN published : c = published[i]
  BY <1>1, <1>2 DEF IInv, ChannelInv
<1>3. CASE \E i \in DOMAIN queue : c = queue[i]
  BY <1>1, <1>3 DEF IInv, ChannelInv
<1>4. CASE watch.pc = "sending" /\ c = CaptureOf(watch)
  <2>1. c.gen = watch.seq /\ c.seen = watch.seen
    BY <1>4 DEF CaptureOf
  <2> QED  BY <1>4, <2>1
           DEF IInv, WatchInv, ReadingInv, SeenInv, TypeInv, WatchTypeInv, Sound
<1> QED  BY <1>2, <1>3, <1>4 DEF Captures

(* A remote item this program wrote is never captured and sent back, but   *)
(* for the writes whose apply or process was cut short: should_capture_-   *)
(* sequence against REMOTE_SEQUENCE, with both loops under CLIPBOARD_LOCK. *)
THEOREM NoEchoCorrect == Spec => []NoEcho
<1>1. IInv => NoEcho
  BY CapturesSound DEF NoEcho, Sound, Known
<1> QED  BY <1>1, Invariance, PTL

(* What apply leaves in REMOTE_SEQUENCE is a generation it wrote, or one   *)
(* another program wrote while apply was between its two reads.            *)
THEOREM SuppressesOwnWritesCorrect == Spec => []SuppressesOwnWrites
<1>1. IInv => SuppressesOwnWrites
  BY DEF IInv, RemoteInv
<1> QED  BY <1>1, Invariance, PTL

(* The second read of the sequence number in watch keeps every capture to  *)
(* the formats of one generation, whatever is copied during the read.      *)
THEOREM CaptureIsOneGenerationCorrect == Spec => []CaptureIsOneGeneration
<1>1. IInv => CaptureIsOneGeneration
  BY CapturesSound DEF CaptureIsOneGeneration, Sound
<1> QED  BY <1>1, Invariance, PTL

-----------------------------------------------------------------------------
(* The order of the captures.  Those broadcast and those queued form one   *)
(* line: dispatching moves a capture along it, and only watch appends.     *)

Line == published \o queue

\* c was captured before d.
Precedes(c, d) == c.epoch = d.epoch => c.gen < d.gen

\* A capture of this run of the daemon is settled, and is not the one in hand.
Settled(c) ==
  /\ c.epoch <= epoch
  /\ c.epoch = epoch => /\ c.gen <= lastSequence
                        /\ watch.pc = "sending" => c.gen < watch.seq

\* last_sequence never goes back while a daemon runs: a generation being read
\* is newer, the one being sent is the one it was just set to.
LastInv ==
  /\ lastSequence <= Sequence
  /\ watch.pc = "reading" => lastSequence < watch.seq
  /\ watch.pc = "sending" => lastSequence = watch.seq

LineInv ==
  /\ \A i \in 1..Len(Line) : Settled(Line[i])
  /\ \A i, j \in 1..Len(Line) : i < j => Precedes(Line[i], Line[j])

LEMMA LineType ==
  ASSUME TypeInv
  PROVE  Line \in Seq(CaptureType)
BY DEF TypeInv, TypeOK, Line

\* Dispatching takes the head of the queue, which leaves the line as it was.
LEMMA DispatchKeepsLine ==
  ASSUME NEW S, NEW p \in Seq(S), NEW q \in Seq(S), q # <<>>
  PROVE  Append(p, Head(q)) \o Tail(q) = p \o q
<1> DEFINE l == Append(p, Head(q)) \o Tail(q)
           m == p \o q
<1>1. Head(q) \in S /\ Tail(q) \in Seq(S) /\ Len(Tail(q)) = Len(q) - 1 /\ Len(q) > 0
  OBVIOUS
<1>2. Append(p, Head(q)) \in Seq(S) /\ Len(Append(p, Head(q))) = Len(p) + 1
  BY <1>1
<1>3. l \in Seq(S) /\ m \in Seq(S) /\ Len(l) = Len(p) + Len(q) /\ Len(m) = Len(p) + Len(q)
  BY <1>1, <1>2
<1>4. ASSUME NEW i \in 1..(Len(p) + Len(q)) PROVE l[i] = m[i]
  <2>1. CASE i <= Len(p)
    BY <1>1, <1>2, <2>1
  <2>2. CASE i = Len(p) + 1
    BY <1>1, <1>2, <2>2
  <2>3. CASE i > Len(p) + 1
    BY <1>1, <1>2, <2>3
  <2> QED  BY <2>1, <2>2, <2>3
<1> HIDE DEF l, m
<1>5. l = m
  BY <1>3, <1>4
<1> QED  BY <1>5 DEF l, m

\* Sending appends to the queue, and so to the line.
LEMMA SendAppendsToLine ==
  ASSUME NEW S, NEW p \in Seq(S), NEW q \in Seq(S), NEW e \in S
  PROVE  p \o Append(q, e) = Append(p \o q, e)
<1> DEFINE l == p \o Append(q, e)
           m == Append(p \o q, e)
<1>1. Append(q, e) \in Seq(S) /\ Len(Append(q, e)) = Len(q) + 1
  OBVIOUS
<1>2. p \o q \in Seq(S) /\ Len(p \o q) = Len(p) + Len(q)
  OBVIOUS
<1>3. l \in Seq(S) /\ m \in Seq(S) /\ Len(l) = Len(p) + Len(q) + 1 /\ Len(m) = Len(p) + Len(q) + 1
  BY <1>1, <1>2
<1>4. ASSUME NEW i \in 1..(Len(p) + Len(q) + 1) PROVE l[i] = m[i]
  <2>1. CASE i <= Len(p)
    BY <1>1, <1>2, <2>1
  <2>2. CASE i > Len(p) /\ i <= Len(p) + Len(q)
    BY <1>1, <1>2, <2>2
  <2>3. CASE i = Len(p) + Len(q) + 1
    BY <1>1, <1>2, <2>3
  <2> QED  BY <2>1, <2>2, <2>3
<1> HIDE DEF l, m
<1>5. l = m
  BY <1>3, <1>4
<1> QED  BY <1>5 DEF l, m

\* A stop drops what is queued: a part of the line is left.
LEMMA LineStep ==
  ASSUME TypeInv, [Next]_vars
  PROVE  \/ Line' = Line /\ ~WatchSend /\ ~Restart
         \/ WatchSend /\ Line' = Append(Line, CaptureOf(watch))
         \/ Restart /\ Len(Line') <= Len(Line) /\ \A i \in 1..Len(Line') : Line'[i] = Line[i]
<1>0. queue \in Seq(CaptureType) /\ published \in Seq(CaptureType)
  BY DEF TypeInv, TypeOK
<1>1. CASE WatchSend
  <2>1. CaptureOf(watch) \in CaptureType
    BY <1>1, ConstantsAssumption
    DEF WatchSend, CaptureOf, CaptureType, TypeInv, TypeOK, WatchTypeInv
  <2>2. queue' = Append(queue, CaptureOf(watch)) /\ published' = published
    BY <1>1 DEF WatchSend
  <2> QED  BY <1>0, <1>1, <2>1, <2>2, SendAppendsToLine DEF Line
<1>2. CASE Restart
  <2>1. published' = published /\ queue' = <<>>
    BY <1>2 DEF Restart
  <2> QED  BY <1>0, <1>2, <2>1 DEF Line
<1>3. CASE Dispatch
  <2>1. queue # <<>> /\ published' = Append(published, Head(queue)) /\ queue' = Tail(queue)
    BY <1>3 DEF Dispatch
  <2>2. Line' = Line
    BY <1>0, <2>1, DispatchKeepsLine DEF Line
  <2> QED  BY <1>1, <1>2, <2>2
<1>4. ASSUME NEW s \in Sessions, Apply(s) PROVE UNCHANGED <<published, queue>>
  BY <1>4 DEF Apply, ApplyBegin, ApplyBuildFail, ApplyBuilt, CommitSet, CommitRefused,
              CommitFlush, CommitFlushFail, CommitRetry, ApplyRecord, ApplyDropped
<1>5. ASSUME \/ WatchSkip \/ WatchBegin \/ WatchRead \/ WatchChanged \/ WatchUnreadable
             \/ WatchRefuse \/ WatchCapture \/ UNCHANGED vars
             \/ \E kind \in Kinds : UserCopy(kind)
      PROVE  UNCHANGED <<published, queue>>
  BY <1>5 DEF WatchSkip, WatchBegin, WatchRead, WatchChanged, WatchUnreadable,
              WatchRefuse, WatchCapture, vars, UserCopy
<1>6. UNCHANGED <<published, queue>> => Line' = Line
  BY DEF Line
<1> QED
  BY <1>1, <1>2, <1>3, <1>4, <1>5, <1>6 DEF Next, Watch, DaemonRestart, ProcessRestart

\* What a step that is no restart does to the watch loop and last_sequence.
LEMMA LastSteps ==
  ASSUME TypeInv, LastInv, [Next]_vars, ~Restart
  PROVE  /\ LastInv'
         /\ UNCHANGED epoch
         /\ lastSequence <= lastSequence'
         /\ watch'.pc = "sending" =>
              \/ watch.pc = "sending" /\ watch'.seq = watch.seq
              \/ lastSequence < watch'.seq
<1>0. /\ watch \in WatchType /\ Sequence \in Nat /\ lastSequence \in Nat /\ watch.seq \in Nat
      /\ watch.pc # "idle" => watch.seq <= Sequence
  BY ConstantsAssumption DEF TypeInv, TypeOK, WatchType, WatchTypeInv
<1>1. Sequence' \in Nat /\ Sequence <= Sequence'
  BY <1>0, HistoryGrows
<1> USE <1>0, <1>1 DEF LastInv
<1>2. CASE UNCHANGED <<watch, lastSequence, epoch>>
  BY <1>2
<1>3. CASE WatchSkip
  BY <1>3 DEF WatchSkip, LastAfterPoll
<1>4. CASE WatchBegin
  <2>1. /\ watch'.pc = "reading" /\ watch'.seq = Sequence
        /\ lastSequence' = lastSequence /\ epoch' = epoch /\ Sequence # lastSequence
    BY <1>4 DEF WatchBegin, ShouldCapture
  <2> QED  BY <2>1
<1>5. CASE WatchRead
  <2>1. watch'.pc = "reading" /\ watch.pc = "reading" /\ watch'.seq = watch.seq
    BY <1>5 DEF WatchRead, WatchType
  <2>2. UNCHANGED <<lastSequence, epoch>>
    BY <1>5 DEF WatchRead
  <2> QED  BY <2>1, <2>2
<1>6. CASE WatchChanged \/ WatchUnreadable \/ WatchSend
  <2>1. watch'.pc = "idle" /\ lastSequence' = lastSequence /\ epoch' = epoch
    BY <1>6 DEF WatchChanged, WatchUnreadable, WatchSend, WatchIdle
  <2> QED  BY <2>1
<1>7. CASE WatchRefuse
  <2>1. /\ watch'.pc = "idle" /\ lastSequence' = watch.seq /\ epoch' = epoch
        /\ watch.pc = "reading"
    BY <1>7 DEF WatchRefuse, WatchIdle
  <2> QED  BY <2>1
<1>8. CASE WatchCapture
  <2>1. /\ watch'.pc = "sending" /\ watch'.seq = watch.seq /\ watch.pc = "reading"
        /\ lastSequence' = watch.seq /\ epoch' = epoch
    BY <1>8 DEF WatchCapture, WatchType
  <2> QED  BY <2>1
<1>9. ASSUME NEW s \in Sessions, Apply(s) PROVE UNCHANGED <<watch, lastSequence, epoch>>
  BY <1>9 DEF Apply, ApplyBegin, ApplyBuildFail, ApplyBuilt, CommitSet, CommitRefused,
              CommitFlush, CommitFlushFail, CommitRetry, ApplyRecord, ApplyDropped
<1>10. ASSUME Dispatch \/ UNCHANGED vars \/ \E kind \in Kinds : UserCopy(kind)
       PROVE  UNCHANGED <<watch, lastSequence, epoch>>
  BY <1>10 DEF Dispatch, vars, UserCopy
<1> QED
  BY <1>2, <1>3, <1>4, <1>5, <1>6, <1>7, <1>8, <1>9, <1>10
  DEF Next, Watch, DaemonRestart, ProcessRestart

LEMMA OrderStep ==
  ASSUME TypeInv, LastInv, LineInv, [Next]_vars
  PROVE  LastInv' /\ LineInv'
<1>0. /\ Line \in Seq(CaptureType) /\ lastSequence \in Nat /\ epoch \in Nat /\ watch.seq \in Nat
      /\ Sequence \in Nat
      /\ \A i \in 1..Len(Line) : Line[i].gen \in Nat /\ Line[i].epoch \in Nat
  <2>1. /\ Line \in Seq(CaptureType) /\ lastSequence \in Nat /\ epoch \in Nat
        /\ watch.seq \in Nat /\ Sequence \in Nat
    BY LineType, ConstantsAssumption DEF TypeInv, TypeOK
  <2>2. \A c \in CaptureType : c.gen \in Nat /\ c.epoch \in Nat
    BY ConstantsAssumption DEF CaptureType
  <2> QED  BY <2>1, <2>2
<1>1. CASE Restart
  <2>1. /\ lastSequence' = 0 /\ epoch' = epoch + 1 /\ watch'.pc = "idle" /\ Sequence' = Sequence
    BY <1>1 DEF Restart, WatchIdle, Sequence
  <2>2. Len(Line') <= Len(Line) /\ \A i \in 1..Len(Line') : Line'[i] = Line[i]
    BY <1>1, LineStep DEF WatchSend, Restart
  <2>3. Len(Line') \in Nat
    BY <1>0, <1>1 DEF Line, Restart, TypeInv, TypeOK
  <2>4. \A i \in 1..Len(Line') : i \in 1..Len(Line)
    BY <1>0, <2>2, <2>3
  <2>5. LastInv'
    BY <1>0, <2>1 DEF LastInv
  <2>6. \A i \in 1..Len(Line') : Settled(Line[i])'
    <3>1. ASSUME NEW i \in 1..Len(Line') PROVE Line[i].epoch <= epoch
      BY <2>4 DEF LineInv, Settled
    <3> QED  BY <1>0, <2>1, <2>2, <2>4, <3>1 DEF Settled
  <2> QED  BY <2>2, <2>4, <2>5, <2>6 DEF LineInv, Precedes
<1>2. CASE ~Restart
  <2>1. /\ LastInv' /\ epoch' = epoch /\ lastSequence <= lastSequence' /\ lastSequence' \in Nat
        /\ watch'.pc = "sending" =>
             \/ watch.pc = "sending" /\ watch'.seq = watch.seq
             \/ lastSequence < watch'.seq
    <3>1. lastSequence' \in Nat
      BY NextType, ConstantsAssumption DEF TypeInv, TypeOK
    <3> QED  BY <1>2, <3>1, LastSteps
  <2>2. ASSUME NEW c, Settled(c), c.gen \in Nat, c.epoch \in Nat PROVE Settled(c)'
    <3>1. watch'.seq \in Nat
      BY NextType, ConstantsAssumption DEF TypeInv, TypeOK
    <3> QED  BY <1>0, <2>1, <2>2, <3>1 DEF Settled
  <2>3. CASE Line' = Line
    BY <1>0, <2>1, <2>2, <2>3 DEF LineInv
  <2>4. CASE WatchSend /\ Line' = Append(Line, CaptureOf(watch))
    <3>0. PICK c : c = CaptureOf(watch)
      OBVIOUS
    <3>1. /\ c.gen = watch.seq /\ c.epoch = epoch /\ watch.pc = "sending"
          /\ UNCHANGED <<lastSequence, epoch>> /\ watch'.pc = "idle"
      BY <2>4, <3>0 DEF CaptureOf, WatchSend, WatchIdle
    <3>2. Settled(c)' /\ c.gen = lastSequence
      BY <1>0, <3>1 DEF LastInv, Settled
    <3>3. \A i \in 1..Len(Line) : Precedes(Line[i], c)
      BY <3>1 DEF LineInv, Settled, Precedes
    <3>4. c \in CaptureType
      BY <3>0, <3>1, ConstantsAssumption
      DEF CaptureOf, CaptureType, TypeInv, TypeOK, WatchTypeInv
    <3>5. Line' = Append(Line, c)
      BY <2>4, <3>0
    <3>6. /\ Len(Line') = Len(Line) + 1 /\ Line'[Len(Line) + 1] = c
          /\ \A i \in 1..Len(Line) : Line'[i] = Line[i]
      BY <1>0, <3>4, <3>5
    <3>7. ASSUME NEW i \in 1..Len(Line'), i \notin 1..Len(Line) PROVE i = Len(Line) + 1
      BY <1>0, <3>6, <3>7
    <3>8. ASSUME NEW i \in 1..Len(Line') PROVE Settled(Line[i])'
      <4>1. CASE i \in 1..Len(Line)
        <5>1. PICK d : d = Line[i] /\ Settled(d) /\ d.gen \in Nat /\ d.epoch \in Nat
          BY <1>0, <4>1 DEF LineInv
        <5>2. Line'[i] = d /\ Settled(d)'
          BY <2>2, <3>6, <4>1, <5>1
        <5> QED  BY <5>2
      <4>2. CASE i \notin 1..Len(Line)
        BY <3>2, <3>6, <3>7, <4>2
      <4> QED  BY <4>1, <4>2
    <3>9. ASSUME NEW i \in 1..Len(Line'), NEW j \in 1..Len(Line'), i < j
          PROVE  Precedes(Line[i], Line[j])'
      <4>1. i \in 1..Len(Line)
        BY <1>0, <3>6, <3>9
      <4>2. CASE j \in 1..Len(Line)
        BY <3>6, <3>9, <4>1, <4>2 DEF LineInv, Precedes
      <4>3. CASE j \notin 1..Len(Line)
        BY <3>3, <3>6, <3>7, <4>1, <4>3 DEF Precedes
      <4> QED  BY <4>2, <4>3
    <3> QED  BY <2>1, <3>8, <3>9 DEF LineInv
  <2> QED  BY <1>2, <2>3, <2>4, LineStep
<1> QED  BY <1>1, <1>2

LEMMA OrderInvariance == Spec => [](TypeInv /\ LastInv /\ LineInv)
<1>1. Init => LastInv /\ LineInv
  <2> SUFFICES ASSUME Init PROVE LastInv /\ LineInv
    OBVIOUS
  <2>1. Sequence \in Nat
    BY InitType, ConstantsAssumption DEF TypeInv, TypeOK
  <2>2. Line = <<>> /\ watch.pc = "idle" /\ lastSequence = 0
    BY DEF Init, Line, WatchIdle
  <2>3. Len(Line) = 0
    BY <2>2
  <2> QED  BY <2>1, <2>2, <2>3 DEF LastInv, LineInv
<1>2. TypeInv /\ LastInv /\ LineInv /\ [Next]_vars => (TypeInv /\ LastInv /\ LineInv)'
  BY NextType, OrderStep
<1> QED  BY <1>1, <1>2, InitType, PTL DEF Spec

(* Captures reach the broadcast channel in the order of the copies and     *)
(* none twice: last_sequence only grows while a daemon runs, and watch,    *)
(* which alone sends, looks for a new generation after it has sent one.    *)
THEOREM CaptureOrderCorrect == Spec => []CaptureOrder
<1>1. TypeInv /\ LastInv /\ LineInv => CaptureOrder
  <2> SUFFICES ASSUME TypeInv, LastInv, LineInv PROVE CaptureOrder
    OBVIOUS
  <2>1. Line \in Seq(CaptureType)
    BY LineType
  <2>2. CASE watch.pc # "sending"
    <3>1. Line \o <<>> = Line /\ DOMAIN Line = 1..Len(Line)
      BY <2>1
    <3>2. \A i, j \in DOMAIN Line : i < j => Precedes(Line[i], Line[j])
      BY <3>1 DEF LineInv
    <3> QED  BY <2>2, <3>1, <3>2 DEF CaptureOrder, Precedes, Line
  <2>3. CASE watch.pc = "sending"
    <3> DEFINE c == CaptureOf(watch)
    <3>1. c.gen = watch.seq /\ c.epoch = epoch
      BY DEF CaptureOf
    <3>2. c \in CaptureType
      BY <2>3, ConstantsAssumption
      DEF CaptureOf, CaptureType, TypeInv, TypeOK, WatchTypeInv
    <3>3. \A i \in 1..Len(Line) : Precedes(Line[i], c)
      BY <2>3, <3>1 DEF LineInv, Settled, Precedes
    <3> HIDE DEF c
    <3> DEFINE all == Line \o <<c>>
    <3>4. /\ DOMAIN all = 1..(Len(Line) + 1) /\ all[Len(Line) + 1] = c
          /\ \A i \in 1..Len(Line) : all[i] = Line[i]
      BY <2>1, <3>2
    <3> HIDE DEF all
    <3>5. ASSUME NEW i \in DOMAIN all, NEW j \in DOMAIN all, i < j
          PROVE  Precedes(all[i], all[j])
      <4>1. i \in 1..Len(Line) /\ (j \in 1..Len(Line) \/ j = Len(Line) + 1)
        BY <2>1, <3>4, <3>5
      <4> QED  BY <3>3, <3>4, <3>5, <4>1 DEF LineInv
    <3> QED  BY <2>3, <3>5 DEF CaptureOrder, Precedes, all, c, Line
  <2> QED  BY <2>2, <2>3
<1> QED  BY <1>1, OrderInvariance, PTL
=============================================================================
