------------------------------ MODULE Clipboard ------------------------------
(***************************************************************************)
(* The clipboard side of ClipboardShare (src/src/clipboard.rs): the watch  *)
(* loop that captures local changes, the apply path that writes remote     *)
(* items, and what keeps the two apart, the clipboard sequence number.     *)
(*                                                                         *)
(* The daemon is one thread, so its tasks interleave only where they       *)
(* await.  The clipboard belongs to the whole desktop: another program may *)
(* write it between any two calls, so each call is a step of its own.      *)
(*                                                                         *)
(* A GENERATION is the value of GetClipboardSequenceNumber after a write;  *)
(* writes[g] says who wrote generation g.  0 stands for "no generation".   *)
(***************************************************************************)
EXTENDS Naturals, Sequences

CONSTANTS
  Sessions,      \* connections whose read loop may apply a remote item
  Watcher,       \* the watch task, as a holder of CLIPBOARD_LOCK
  NoOne,         \* CLIPBOARD_LOCK is free
  FormatCount,   \* formats capture_view reads one after another
  MaxAttempts,   \* attempts of commit_clipboard_package (5 in the code)
  QueueCap,      \* capacity of the capture channel (64 in the code)
  Kinds,         \* what a local copy may hold, a subset of AllKinds
  \* Bounds of the model, none of them in the code.
  MaxWrites,     \* clipboard generations
  MaxApplies,    \* remote items applied
  MaxUnreadable, \* captures that fail because the clipboard is busy
  MaxRestarts    \* daemon stops and process deaths

AllKinds == {"item", "empty", "huge"}

ASSUME ConstantsAssumption ==
  /\ Watcher \notin Sessions /\ NoOne \notin Sessions /\ Watcher # NoOne
  /\ FormatCount \in Nat \ {0} /\ MaxAttempts \in Nat \ {0}
  /\ QueueCap \in Nat \ {0} /\ Kinds \subseteq AllKinds
  /\ MaxWrites \in Nat \ {0} /\ MaxApplies \in Nat
  /\ MaxUnreadable \in Nat /\ MaxRestarts \in Nat

VARIABLES
  writes,         \* every write so far: who, what, and whether it raced an apply
  remoteSequence, \* REMOTE_SEQUENCE, a static: it outlives the daemon
  lastSequence,   \* last_sequence of watch
  lock,           \* holder of CLIPBOARD_LOCK
  watch,          \* the watch loop: [pc, seq, read, seen]
  apply,          \* the apply call of each session: [pc, before, attempt]
  queue,          \* captures in the channel from watch to the dispatcher
  published,      \* captures the dispatcher has broadcast, in order
  unrecorded,     \* history: remote generations REMOTE_SEQUENCE no longer covers
  epoch,          \* number of restarts so far
  applies, unreadable \* spent budgets

vars == <<writes, remoteSequence, lastSequence, lock, watch, apply, queue,
          published, unrecorded, epoch, applies, unreadable>>

\* GetClipboardSequenceNumber.
Sequence == Len(writes)

WatchIdle == [pc |-> "idle", seq |-> 0, read |-> 0, seen |-> {}]
ApplyIdle == [pc |-> "idle", before |-> 0, attempt |-> 0]

\* Between the two reads of the sequence number that bracket the commit.
CommitPcs == {"set", "flush", "flushFallback", "sleep", "record"}
Committing(s) == apply[s].pc \in CommitPcs

\* Where an apply call awaits, and can be dropped with its connection.
AwaitPcs == {"idle", "building", "sleep"}

CaptureOf(w) == [gen |-> w.seq, seen |-> w.seen, epoch |-> epoch]

Init ==
  /\ writes \in {<<[by |-> "local", kind |-> k, raced |-> FALSE]>> : k \in Kinds}
  /\ remoteSequence = 0
  /\ lastSequence = 0
  /\ lock = NoOne
  /\ watch = WatchIdle
  /\ apply = [s \in Sessions |-> ApplyIdle]
  /\ queue = <<>>
  /\ published = <<>>
  /\ unrecorded = {}
  /\ epoch = 0
  /\ applies = 0
  /\ unreadable = 0

-----------------------------------------------------------------------------
(* The rest of the desktop: the user copies, in any program, at any time.  *)

UserCopy(kind) ==
  /\ Sequence < MaxWrites
  /\ writes' = Append(writes, [by |-> "local", kind |-> kind,
                               raced |-> \E s \in Sessions : Committing(s)])
  /\ UNCHANGED <<remoteSequence, lastSequence, lock, watch, apply, queue,
                 published, unrecorded, epoch, applies, unreadable>>

RemoteWrite ==
  /\ Sequence < MaxWrites
  /\ writes' = Append(writes, [by |-> "remote", kind |-> "item", raced |-> FALSE])

-----------------------------------------------------------------------------
(* watch: every tick reads the sequence number under the lock, captures a  *)
(* new local generation, and reads the number again before trusting it.    *)

\* should_capture_sequence, and the value it leaves in last_sequence.
ShouldCaptureForgetful == Sequence # remoteSequence \* fault: last_sequence ignored
ShouldCapture == Sequence # lastSequence /\ Sequence # remoteSequence
LastAfterPoll == IF Sequence = remoteSequence THEN Sequence ELSE lastSequence

WatchSkip ==
  /\ watch.pc = "idle" /\ lock = NoOne
  /\ ~ShouldCapture
  /\ lastSequence' = LastAfterPoll
  /\ UNCHANGED <<writes, remoteSequence, lock, watch, apply, queue, published,
                 unrecorded, epoch, applies, unreadable>>

WatchBegin ==
  /\ watch.pc = "idle" /\ lock = NoOne
  /\ ShouldCapture
  /\ lock' = Watcher
  /\ watch' = [pc |-> "reading", seq |-> Sequence, read |-> 0, seen |-> {}]
  /\ UNCHANGED <<writes, remoteSequence, lastSequence, apply, queue, published,
                 unrecorded, epoch, applies, unreadable>>

\* One format of capture_view: what it reads is what the clipboard holds now.
WatchRead ==
  /\ watch.pc = "reading" /\ watch.read < FormatCount
  /\ watch' = [watch EXCEPT !.read = @ + 1, !.seen = @ \cup {Sequence}]
  /\ UNCHANGED <<writes, remoteSequence, lastSequence, lock, apply, queue,
                 published, unrecorded, epoch, applies, unreadable>>

StillCurrentUnchecked == TRUE \* fault: no second read of the number
StillCurrent == Sequence = watch.seq

\* The clipboard changed under the read: forget it, the next tick retries.
WatchChanged ==
  /\ watch.pc = "reading" /\ ~StillCurrent
  /\ lock' = NoOne
  /\ watch' = WatchIdle
  /\ UNCHANGED <<writes, remoteSequence, lastSequence, apply, queue, published,
                 unrecorded, epoch, applies, unreadable>>

\* Fault: an unreadable clipboard counts as settled.
WatchUnreadableSettles ==
  /\ watch.pc = "reading" /\ StillCurrent
  /\ unreadable < MaxUnreadable
  /\ unreadable' = unreadable + 1
  /\ lastSequence' = watch.seq
  /\ lock' = NoOne
  /\ watch' = WatchIdle
  /\ UNCHANGED <<writes, remoteSequence, apply, queue, published, unrecorded,
                 epoch, applies>>

\* Busy clipboard or delayed rendering: last_sequence stays, so it is retried.
WatchUnreadable ==
  /\ watch.pc = "reading" /\ StillCurrent
  /\ unreadable < MaxUnreadable
  /\ unreadable' = unreadable + 1
  /\ lock' = NoOne
  /\ watch' = WatchIdle
  /\ UNCHANGED <<writes, remoteSequence, lastSequence, apply, queue, published,
                 unrecorded, epoch, applies>>

\* Too large, or nothing this program syncs: settled, and never sent.
WatchRefuse ==
  /\ watch.pc = "reading" /\ StillCurrent
  /\ \/ writes[watch.seq].kind = "huge"
     \/ writes[watch.seq].kind = "empty" /\ watch.read = FormatCount
  /\ lastSequence' = watch.seq
  /\ lock' = NoOne
  /\ watch' = WatchIdle
  /\ UNCHANGED <<writes, remoteSequence, apply, queue, published, unrecorded,
                 epoch, applies, unreadable>>

WatchCapture ==
  /\ watch.pc = "reading" /\ watch.read = FormatCount /\ StillCurrent
  /\ writes[watch.seq].kind = "item"
  /\ lastSequence' = watch.seq
  /\ lock' = NoOne
  /\ watch' = [watch EXCEPT !.pc = "sending"]
  /\ UNCHANGED <<writes, remoteSequence, apply, queue, published, unrecorded,
                 epoch, applies, unreadable>>

\* sender.send(capture).await waits while the channel is full.
WatchSend ==
  /\ watch.pc = "sending" /\ Len(queue) < QueueCap
  /\ queue' = Append(queue, CaptureOf(watch))
  /\ watch' = WatchIdle
  /\ UNCHANGED <<writes, remoteSequence, lastSequence, lock, apply, published,
                 unrecorded, epoch, applies, unreadable>>

\* The dispatcher task of run_daemon.
Dispatch ==
  /\ queue # <<>>
  /\ published' = Append(published, Head(queue))
  /\ queue' = Tail(queue)
  /\ UNCHANGED <<writes, remoteSequence, lastSequence, lock, watch, apply,
                 unrecorded, epoch, applies, unreadable>>

-----------------------------------------------------------------------------
(* apply: a session's read loop writes a received item.  The calls from    *)
(* "set" to "record" do not await except in "sleep", but other programs    *)
(* run between any two of them.                                            *)

ApplyBegin(s) ==
  /\ apply[s].pc = "idle" /\ lock = NoOne
  /\ applies < MaxApplies
  /\ applies' = applies + 1
  /\ lock' = s
  /\ apply' = [apply EXCEPT ![s].pc = "building"]
  /\ UNCHANGED <<writes, remoteSequence, lastSequence, watch, queue, published,
                 unrecorded, epoch, unreadable>>

\* A format that does not decode, an image that cannot be normalised, a cache
\* file that is gone: the error leaves before the clipboard is touched.
ApplyBuildFail(s) ==
  /\ apply[s].pc = "building"
  /\ lock' = NoOne
  /\ apply' = [apply EXCEPT ![s] = ApplyIdle]
  /\ UNCHANGED <<writes, remoteSequence, lastSequence, watch, queue, published,
                 unrecorded, epoch, applies, unreadable>>

ApplyBuilt(s) ==
  /\ apply[s].pc = "building"
  /\ apply' = [apply EXCEPT ![s] = [pc |-> "set", before |-> Sequence, attempt |-> 1]]
  /\ UNCHANGED <<writes, remoteSequence, lastSequence, lock, watch, queue,
                 published, unrecorded, epoch, applies, unreadable>>

Goto(s, pc) == apply' = [apply EXCEPT ![s].pc = pc]

\* SetContentWithOptions returns true, or false and SetContent succeeds.
CommitSet(s) ==
  /\ apply[s].pc = "set"
  /\ RemoteWrite
  /\ Goto(s, "flush") \/ Goto(s, "flushFallback")
  /\ UNCHANGED <<remoteSequence, lastSequence, lock, watch, queue, published,
                 unrecorded, epoch, applies, unreadable>>

\* Either call is refused: another program holds the clipboard open.
CommitRefused(s) ==
  /\ apply[s].pc = "set"
  /\ Goto(s, "sleep")
  /\ UNCHANGED <<writes, remoteSequence, lastSequence, lock, watch, queue,
                 published, unrecorded, epoch, applies, unreadable>>

\* Flush renders the package; whether that counts as one more write of the
\* clipboard is the system's business.
CommitFlush(s) ==
  /\ apply[s].pc \in {"flush", "flushFallback"}
  /\ RemoteWrite \/ UNCHANGED writes
  /\ Goto(s, "record")
  /\ UNCHANGED <<remoteSequence, lastSequence, lock, watch, queue, published,
                 unrecorded, epoch, applies, unreadable>>

\* Flush fails: the first path gives up with `?`, the fallback path retries.
CommitFlushFail(s) ==
  /\ \/ apply[s].pc = "flush" /\ Goto(s, "record")
     \/ apply[s].pc = "flushFallback" /\ Goto(s, "sleep")
  /\ UNCHANGED <<writes, remoteSequence, lastSequence, lock, watch, queue,
                 published, unrecorded, epoch, applies, unreadable>>

CommitRetry(s) ==
  /\ apply[s].pc = "sleep"
  /\ IF apply[s].attempt < MaxAttempts
     THEN apply' = [apply EXCEPT ![s] = [pc |-> "set", before |-> @.before,
                                         attempt |-> @.attempt + 1]]
     ELSE Goto(s, "record")
  /\ UNCHANGED <<writes, remoteSequence, lastSequence, lock, watch, queue,
                 published, unrecorded, epoch, applies, unreadable>>

\* Faults: record the generation before the commit; record without comparing.
RecordedStale(before) == IF before # Sequence THEN before ELSE remoteSequence
RecordedAlways(before) == Sequence

\* The value apply leaves in REMOTE_SEQUENCE.
Recorded(before) == IF before # Sequence THEN Sequence ELSE remoteSequence

ApplyRecord(s) ==
  /\ apply[s].pc = "record"
  /\ remoteSequence' = Recorded(apply[s].before)
  /\ lock' = NoOne
  /\ apply' = [apply EXCEPT ![s] = ApplyIdle]
  /\ UNCHANGED <<writes, lastSequence, watch, queue, published, unrecorded,
                 epoch, applies, unreadable>>

RemoteWrites == {g \in 1..Sequence : writes[g].by = "remote"}

\* What the apply in progress, if any, has written and not recorded.
Unfinished == {g \in RemoteWrites :
                 \E s \in Sessions : Committing(s) /\ apply[s].before < g}

\* The session's read future is dropped where it awaits: the connection broke,
\* the configuration was reloaded.  The guard releases the lock, nothing else
\* of apply runs.
ApplyDropped(s) ==
  /\ apply[s].pc \in AwaitPcs \ {"idle"}
  /\ unrecorded' = unrecorded \cup Unfinished
  /\ lock' = NoOne
  /\ apply' = [apply EXCEPT ![s] = ApplyIdle]
  /\ UNCHANGED <<writes, remoteSequence, lastSequence, watch, queue, published,
                 epoch, applies, unreadable>>

-----------------------------------------------------------------------------
(* Stops.  run_daemon starts watch with last_sequence = None and an empty  *)
(* channel; REMOTE_SEQUENCE survives when the daemon is a thread of the    *)
(* tray program, and starts at 0 in a new process.                         *)

Restart ==
  /\ epoch < MaxRestarts
  /\ epoch' = epoch + 1
  /\ lastSequence' = 0
  /\ lock' = NoOne
  /\ watch' = WatchIdle
  /\ apply' = [s \in Sessions |-> ApplyIdle]
  /\ queue' = <<>>
  /\ UNCHANGED <<writes, published, applies, unreadable>>

DaemonRestart ==
  /\ \A s \in Sessions : apply[s].pc \in AwaitPcs
  /\ Restart
  /\ unrecorded' = unrecorded \cup Unfinished
  /\ UNCHANGED remoteSequence

ProcessRestart ==
  /\ Restart
  /\ unrecorded' = RemoteWrites
  /\ remoteSequence' = 0

-----------------------------------------------------------------------------

Watch == \/ WatchSkip \/ WatchBegin \/ WatchRead \/ WatchChanged
         \/ WatchUnreadable \/ WatchRefuse \/ WatchCapture \/ WatchSend

Apply(s) == \/ ApplyBegin(s) \/ ApplyBuildFail(s) \/ ApplyBuilt(s)
            \/ CommitSet(s) \/ CommitRefused(s) \/ CommitFlush(s)
            \/ CommitFlushFail(s) \/ CommitRetry(s) \/ ApplyRecord(s)
            \/ ApplyDropped(s)

Next == \/ \E kind \in Kinds : UserCopy(kind)
        \/ Watch
        \/ Dispatch
        \/ \E s \in Sessions : Apply(s)
        \/ DaemonRestart
        \/ ProcessRestart

Spec == Init /\ [][Next]_vars

(* Fairness: a ready task of the single-threaded runtime runs.  The lock   *)
(* is a tokio Mutex, which queues its waiters, so a watch tick that finds  *)
(* it free again and again gets it (SF); a call apply has made returns.    *)
ApplyProgress(s) ==
  \/ ApplyBuildFail(s) \/ ApplyBuilt(s) \/ CommitRefused(s)
  \/ CommitFlushFail(s) \/ CommitRetry(s) \/ ApplyRecord(s)

Fairness ==
  /\ SF_vars(WatchBegin)
  /\ WF_vars(WatchRead)
  /\ WF_vars(WatchChanged)
  /\ WF_vars(WatchRefuse)
  /\ WF_vars(WatchCapture)
  /\ WF_vars(WatchSend)
  /\ WF_vars(Dispatch)
  /\ \A s \in Sessions : WF_vars(ApplyProgress(s))

FairSpec == Spec /\ Fairness

-----------------------------------------------------------------------------
(* Properties.                                                             *)

Captures ==
  {published[i] : i \in DOMAIN published} \cup {queue[i] : i \in DOMAIN queue}
    \cup (IF watch.pc = "sending" THEN {CaptureOf(watch)} ELSE {})

CaptureType == [gen : 1..MaxWrites, seen : SUBSET (1..MaxWrites), epoch : 0..MaxRestarts]

\* Every variable has its type, and the capture channel respects its capacity.
TypeOK ==
  /\ writes \in Seq([by : {"local", "remote"}, kind : AllKinds, raced : BOOLEAN])
  /\ Sequence \in 1..MaxWrites
  /\ remoteSequence \in 0..MaxWrites
  /\ lastSequence \in 0..MaxWrites
  /\ lock \in Sessions \cup {Watcher, NoOne}
  /\ watch \in [pc : {"idle", "reading", "sending"}, seq : 0..MaxWrites,
                read : 0..FormatCount, seen : SUBSET (1..MaxWrites)]
  /\ apply \in [Sessions -> [pc : AwaitPcs \cup CommitPcs, before : 0..MaxWrites,
                             attempt : 0..MaxAttempts]]
  /\ queue \in Seq(CaptureType) /\ Len(queue) <= QueueCap
  /\ published \in Seq(CaptureType)
  /\ unrecorded \subseteq 1..MaxWrites
  /\ epoch \in 0..MaxRestarts
  /\ applies \in 0..MaxApplies
  /\ unreadable \in 0..MaxUnreadable

\* A remote item this program put on the clipboard is not captured and sent
\* back, unless the apply that wrote it was dropped before it recorded the
\* generation or the process that wrote it is gone.
NoEcho ==
  \A c \in Captures : writes[c.gen].by = "local" \/ c.gen \in unrecorded

\* The generation REMOTE_SEQUENCE suppresses is this program's own write, or a
\* local copy made while an apply was between its two reads of the number.
SuppressesOwnWrites ==
  remoteSequence # 0 => \/ writes[remoteSequence].by = "remote"
                        \/ writes[remoteSequence].raced

\* A capture never mixes formats of two generations: everything in it was read
\* from the generation it was captured for, whoever wrote during the read.
CaptureIsOneGeneration == \A c \in Captures : c.seen = {c.gen}

\* Within one run of the daemon, captures are broadcast in the order in which
\* the user made the copies, and no copy is captured twice.
CaptureOrder ==
  LET all == published \o queue
              \o (IF watch.pc = "sending" THEN <<CaptureOf(watch)>> ELSE <<>>)
  IN  \A i, j \in DOMAIN all :
        i < j /\ all[i].epoch = all[j].epoch => all[i].gen < all[j].gen

\* A local copy that stays on the clipboard is broadcast in the end, however
\* often applies, failed reads and restarts get in the way; the exceptions are
\* a copy that raced an apply, and one already broadcast.
LocalCopySynced ==
  \A g \in 1..MaxWrites :
    (Sequence = g /\ writes[g].by = "local" /\ writes[g].kind = "item"
       /\ ~writes[g].raced)
      ~> (Sequence # g \/ \E i \in DOMAIN published : published[i].gen = g)

\* README.md:245: the sequence number suppresses "only changes written by this
\* app".  The code suppresses whatever generation is there after the commit.
SuppressesOnlyOwnWrites == remoteSequence # 0 => writes[remoteSequence].by = "remote"

\* clipboard.rs:49: "Remote writes are suppressed by their actual clipboard
\* generation".  An apply dropped while it waits to retry never records one.
RemoteNeverCaptured == \A c \in Captures : writes[c.gen].by = "local"
=============================================================================
