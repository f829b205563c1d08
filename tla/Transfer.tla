------------------------------- MODULE Transfer -------------------------------
(***************************************************************************)
(* One direction of synchronisation between two paired devices             *)
(* (src/src/network.rs, run_channel and below): captures leave a broadcast *)
(* channel of two slots, each connection sends a manifest and the file     *)
(* chunks through a one-slot queue and the TCP stream, and the receiver    *)
(* assembles them in its cache directory, verifies them and puts them on   *)
(* the clipboard.                                                          *)
(*                                                                         *)
(* The receiver's handler is split where it awaits: there its connection   *)
(* may be dropped.  A file operation it was waiting for is on the blocking *)
(* pool and still runs afterwards.                                         *)
(*                                                                         *)
(* Files are read and sent a unit at a time.  A unit is 0 while the file   *)
(* is as it was when it was captured, and 1 once it was rewritten.         *)
(***************************************************************************)
EXTENDS Naturals, Sequences, FiniteSets, FiniteSetsExt

CONSTANTS
  BroadcastCap,   \* slots of the broadcast channel (2 in the code)
  MaxPending,     \* MAX_PENDING_ITEMS (4 in the code)
  Quota,          \* cache_bytes, in units
  Kinds,          \* kinds of copies, a subset of AllKinds
  \* Bounds of the model, none of them in the code.
  MaxItems, MaxConns, WireCap,
  MaxEvents,      \* copies and faults together
  MaxFaults       \* files changed, broken connections, failed operations, expiries,
                  \* new configurations and restarts

AllKinds == {"text",    \* formats only
             "folder",  \* directories without files
             "file",    \* one file of two units
             "files",   \* a file of one unit and an empty one
             "tooBig",  \* over the sender's size limit
             "refused", \* a file over the receiver's smaller limit
             "bulky"}   \* metadata over the frame limit

ASSUME ConstantsAssumption ==
  /\ Kinds \subseteq AllKinds
  /\ BroadcastCap \in Nat \ {0} /\ MaxPending \in Nat \ {0} /\ Quota \in Nat
  /\ MaxItems \in Nat /\ MaxConns \in Nat /\ WireCap \in Nat \ {0}
  /\ MaxEvents \in Nat /\ MaxFaults \in Nat

Conns == 1..MaxConns
Runs == 0..MaxFaults

\* Declared sizes of the files of a copy.
Sizes(kind) == CASE kind = "file" -> <<2>>
                 [] kind = "files" -> <<1, 0>>
                 [] kind = "refused" -> <<1>>
                 [] OTHER -> <<>>

VARIABLES
  senderConnects, \* the sending device has the smaller id: it opens connections
  published, \* kinds of the captures broadcast so far: item i is published[i]
  source,    \* source[i][f]: what became of file f of item i since its capture
  conns,     \* number of connections made so far
  snd,       \* queue_captures of each connection: [open, next, pc, item, file, offset]
  data,      \* the data channel of each connection, of one slot
  wire,      \* the TCP stream of each connection
  rcv,       \* read_messages of each connection: [open, pc, msg, got]
  incoming,  \* IncomingItems of each connection: item -> [got, ended]
  cache,     \* items that have a cache directory
  kept,      \* items with keep_cache
  cleanup,   \* items whose directory a spawned task is to remove
  detached,  \* operations still on the blocking pool for a dropped handler
  orphaned,  \* history: items a detached operation or a prune_cache left a directory for
  stopped,   \* history: partial items a process that ended left a directory for
  prunes,    \* calls of prune_cache by the runs of the receiver: [pc, todo, found]
  run,       \* the run that waits, or waited, for its prune_cache
  evicted,   \* history: items of which the quota took something since they were verified
  applied,   \* what was put on the clipboard, in order: [conn, item, got]
  faults     \* spent budget

sndVars == <<senderConnects, published, source, snd, data>>
rcvVars == <<rcv, incoming, applied>>
pruneVars == <<prunes, run, evicted, stopped>>
taskVars == <<kept, cleanup, detached, orphaned>>
diskVars == <<cache, taskVars, pruneVars>>
vars == <<sndVars, conns, wire, rcvVars, diskVars, faults>>

Published == Len(published)
SizesOf(i) == Sizes(published[i])
Files(i) == 1..Len(SizesOf(i))

SndClosed == [open |-> FALSE, next |-> 0, pc |-> "wait", item |-> 0, file |-> 0, offset |-> 0]
NoMessage == [type |-> "none", item |-> 0]
RcvClosed == [open |-> FALSE, pc |-> "idle", msg |-> NoMessage, got |-> <<>>]
NoPrune == [pc |-> "none", todo |-> {}, found |-> <<>>]
Manifest(i) == [type |-> "manifest", item |-> i]

StartedPrune == [NoPrune EXCEPT !.pc = "scan", !.todo = cache]

Fault == faults < MaxFaults /\ Published + faults < MaxEvents /\ faults' = faults + 1

Init ==
  /\ senderConnects \in BOOLEAN
  /\ published = <<>> /\ source = <<>>
  /\ conns = 0
  /\ snd = [c \in Conns |-> SndClosed]
  /\ data = [c \in Conns |-> <<>>]
  /\ wire = [c \in Conns |-> <<>>]
  /\ rcv = [c \in Conns |-> RcvClosed]
  /\ incoming = [c \in Conns |-> <<>>]
  /\ cache = {} /\ kept = {} /\ cleanup = {} /\ detached = {} /\ orphaned = {} /\ stopped = {}
  /\ run = 0 /\ prunes = [p \in Runs |-> IF p = run THEN StartedPrune ELSE NoPrune]
  /\ evicted = {}
  /\ applied = <<>>
  /\ faults = 0

-----------------------------------------------------------------------------
(* The user, the file system and the connections.                          *)

Copy(kind) ==
  /\ Published < MaxItems /\ Published + faults < MaxEvents
  /\ published' = Append(published, kind)
  /\ source' = Append(source, [f \in 1..Len(Sizes(kind)) |-> "same"])
  /\ UNCHANGED <<senderConnects, conns, snd, data, wire, rcvVars, diskVars, faults>>

\* Another program changes a copied file before it is sent.
Change(i, f, how) ==
  /\ source[i][f] = "same"
  /\ how = "shorter" => SizesOf(i)[f] > 0
  /\ source' = [source EXCEPT ![i][f] = how]
  /\ Fault
  /\ UNCHANGED <<senderConnects, published, conns, snd, data, wire, rcvVars, diskVars>>

\* Fault: a new subscriber starts at the first capture.
ConnectReplays ==
  /\ conns < MaxConns /\ prunes[run].pc = "none"
  /\ \A c \in Conns : IF senderConnects THEN ~snd[c].open ELSE ~rcv[c].open
  /\ conns' = conns + 1
  /\ snd' = [snd EXCEPT ![conns + 1].open = TRUE, ![conns + 1].next = 1]
  /\ rcv' = [rcv EXCEPT ![conns + 1].open = TRUE]
  /\ UNCHANGED <<senderConnects, published, source, data, wire, incoming, applied, diskVars, faults>>

\* connector_loop opens a connection only when its previous one is closed; the
\* accepting side does not look at the connections it already serves.  A run of
\* the receiver is on the network once its own prune_cache is done.
Connect ==
  /\ conns < MaxConns /\ prunes[run].pc = "none"
  /\ \A c \in Conns : IF senderConnects THEN ~snd[c].open ELSE ~rcv[c].open
  /\ conns' = conns + 1
  /\ snd' = [snd EXCEPT ![conns + 1].open = TRUE, ![conns + 1].next = Published + 1]
  /\ rcv' = [rcv EXCEPT ![conns + 1].open = TRUE]
  /\ UNCHANGED <<senderConnects, published, source, data, wire, incoming, applied, diskVars, faults>>

-----------------------------------------------------------------------------
(* The sender: queue_captures, send_capture and write_messages.            *)

Waiting(c) == snd[c].open /\ snd[c].pc = "wait" /\ snd[c].next <= Published

\* Fault: after a lag only captures still to come are taken.
LaggedToNow(c) ==
  /\ Waiting(c) /\ snd[c].next + BroadcastCap <= Published
  /\ snd' = [snd EXCEPT ![c].next = Published + 1]
  /\ UNCHANGED <<senderConnects, published, source, conns, data, wire, rcvVars, diskVars, faults>>

\* The broadcast channel has overwritten the next capture.
Lagged(c) ==
  /\ Waiting(c) /\ snd[c].next + BroadcastCap <= Published
  /\ snd' = [snd EXCEPT ![c].next = Published - BroadcastCap + 1]
  /\ UNCHANGED <<senderConnects, published, source, conns, data, wire, rcvVars, diskVars, faults>>

Take(c) ==
  /\ Waiting(c) /\ snd[c].next + BroadcastCap > Published
  /\ LET i == snd[c].next IN
       snd' = IF published[i] = "tooBig"
              THEN [snd EXCEPT ![c].next = i + 1]
              ELSE [snd EXCEPT ![c].next = i + 1, ![c].pc = "check", ![c].item = i]
  /\ UNCHANGED <<senderConnects, published, source, conns, data, wire, rcvVars, diskVars, faults>>

Resized == {"longer", "shorter"}

SourcesOK(c) ==
  /\ published[snd[c].item] # "bulky"
  /\ \A f \in Files(snd[c].item) : source[snd[c].item][f] \notin Resized \cup {"gone"}

CheckSources(c) ==
  /\ snd[c].pc = "check" /\ SourcesOK(c)
  /\ snd' = [snd EXCEPT ![c].pc = "manifest"]
  /\ UNCHANGED <<senderConnects, published, source, conns, data, wire, rcvVars, diskVars, faults>>

\* To the first file from the given one on, or to the next capture.
AtFile(s, f) ==
  IF f \in Files(s.item)
  THEN [s EXCEPT !.pc = "open", !.file = f, !.offset = 0]
  ELSE [s EXCEPT !.pc = "wait", !.item = 0, !.file = 0, !.offset = 0]

SendManifest(c) ==
  /\ snd[c].pc = "manifest" /\ data[c] = <<>>
  /\ data' = [data EXCEPT ![c] = <<Manifest(snd[c].item)>>]
  /\ snd' = [snd EXCEPT ![c] = AtFile(@, 1)]
  /\ UNCHANGED <<senderConnects, published, source, conns, wire, rcvVars, diskVars, faults>>

SourceOf(c) == source[snd[c].item][snd[c].file]
DeclaredSize(c) == SizesOf(snd[c].item)[snd[c].file]
ActualSize(c) == CASE SourceOf(c) = "longer" -> DeclaredSize(c) + 1
                   [] SourceOf(c) = "shorter" -> DeclaredSize(c) - 1
                   [] OTHER -> DeclaredSize(c)

OpenSource(c) ==
  /\ snd[c].pc = "open" /\ SourceOf(c) # "gone"
  /\ snd' = [snd EXCEPT ![c].pc = "read"]
  /\ UNCHANGED <<senderConnects, published, source, conns, data, wire, rcvVars, diskVars, faults>>

\* file.read: a unit, or nothing at the end of the file as it is now.
Count(c) == IF snd[c].offset < ActualSize(c) THEN 1 ELSE 0
SizeHolds(c) == /\ snd[c].offset + Count(c) <= DeclaredSize(c)
                /\ Count(c) = 0 => snd[c].offset = DeclaredSize(c)

Chunk(c) == [type |-> "chunk", item |-> snd[c].item, file |-> snd[c].file,
             offset |-> snd[c].offset, eof |-> Count(c) = 0,
             unit |-> IF SourceOf(c) = "rewritten" THEN 1 ELSE 0]

\* Fault: a file ends with its last unit, without a chunk that says so.
AfterChunkNoEof(c) == IF snd[c].offset + 1 >= DeclaredSize(c)
                      THEN AtFile(snd[c], snd[c].file + 1)
                      ELSE [snd[c] EXCEPT !.offset = @ + 1]

\* After the chunk that ends a file comes the next file.
AfterChunk(c) == IF Count(c) = 0 THEN AtFile(snd[c], snd[c].file + 1)
                                 ELSE [snd[c] EXCEPT !.offset = @ + 1]

SendChunk(c) ==
  /\ snd[c].pc = "read" /\ data[c] = <<>> /\ SizeHolds(c)
  /\ data' = [data EXCEPT ![c] = <<Chunk(c)>>]
  /\ snd' = [snd EXCEPT ![c] = AfterChunk(c)]
  /\ UNCHANGED <<senderConnects, published, source, conns, wire, rcvVars, diskVars, faults>>

\* The sending end goes: its futures are dropped and so is what they queued.
CloseSender(c) ==
  /\ snd' = [snd EXCEPT ![c] = SndClosed]
  /\ data' = [data EXCEPT ![c] = <<>>]

\* Fault: the connection goes on with the next capture.
SourceFailsContinues(c) ==
  /\ \/ snd[c].pc = "check" /\ ~SourcesOK(c)
     \/ snd[c].pc = "open" /\ SourceOf(c) = "gone"
     \/ snd[c].pc = "read" /\ ~SizeHolds(c)
  /\ snd' = [snd EXCEPT ![c].pc = "wait"]
  /\ UNCHANGED <<senderConnects, published, source, conns, data, wire, rcvVars, diskVars, faults>>

\* send_capture gives up: queue_captures ends the connection with it.
SourceFails(c) ==
  /\ \/ snd[c].pc = "check" /\ ~SourcesOK(c)
     \/ snd[c].pc = "open" /\ SourceOf(c) = "gone"
     \/ snd[c].pc = "read" /\ ~SizeHolds(c)
  /\ CloseSender(c)
  /\ UNCHANGED <<senderConnects, published, source, conns, wire, rcvVars, diskVars, faults>>

WriteMessage(c) ==
  /\ data[c] # <<>> /\ Len(wire[c]) < WireCap
  /\ wire' = [wire EXCEPT ![c] = Append(@, Head(data[c]))]
  /\ data' = [data EXCEPT ![c] = <<>>]
  /\ UNCHANGED <<senderConnects, published, source, conns, snd, rcvVars, diskVars, faults>>

\* A write fails, a timeout, new configuration: what is in flight may arrive.
SenderBreaks(c) ==
  /\ snd[c].open
  /\ Fault
  /\ CloseSender(c)
  /\ UNCHANGED <<senderConnects, published, source, conns, wire, rcvVars, diskVars>>

SenderReset(c) ==
  /\ snd[c].open /\ ~rcv[c].open
  /\ CloseSender(c)
  /\ UNCHANGED <<senderConnects, published, source, conns, wire, rcvVars, diskVars, faults>>

-----------------------------------------------------------------------------
(* The receiver: read_messages, handle_message and IncomingItem.           *)

\* incoming[c] without the items of a set.
Without(c, items) == [i \in DOMAIN incoming[c] \ items |-> incoming[c][i]]

\* write_chunk's checks against the manifest and what was received before.
WellPlaced(c, m) ==
  LET p == incoming[c][m.item]
      size == SizesOf(m.item)[m.file]
  IN  /\ m.file \notin p.ended
      /\ m.offset = Len(p.got[m.file])
      /\ IF m.eof THEN m.offset = size ELSE m.offset + 1 <= size

\* What handle_message does with a message when the given items are pending.
Disposition(c, m, pending) ==
  IF m.type = "manifest"
  THEN IF published[m.item] = "refused" THEN "ignore"
       ELSE IF published[m.item] = "text" THEN "apply"
       ELSE IF Cardinality(pending) >= MaxPending \/ m.item \in pending THEN "ignore"
       ELSE "mkdir"
  ELSE IF m.item \notin pending THEN "ignore"
       ELSE IF WellPlaced(c, m) THEN "write" ELSE "discard"

\* One message: items without activity for 90 seconds go first, then the
\* handler runs up to its first await.
Receive(c) ==
  /\ rcv[c].open /\ rcv[c].pc = "idle" /\ wire[c] # <<>>
  /\ wire' = [wire EXCEPT ![c] = Tail(@)]
  /\ \E stale \in SUBSET DOMAIN incoming[c] :
       LET m == Head(wire[c])
           what == Disposition(c, m, DOMAIN incoming[c] \ stale)
           dropped == stale \cup (IF what = "discard" THEN {m.item} ELSE {})
       IN  /\ IF stale = {} THEN UNCHANGED faults ELSE Fault
           /\ incoming' = [incoming EXCEPT ![c] = Without(c, dropped)]
           /\ cleanup' = cleanup \cup dropped
           /\ rcv' = IF what \in {"ignore", "discard"} THEN rcv
                     ELSE [rcv EXCEPT ![c].pc = what, ![c].msg = m]
  /\ UNCHANGED <<sndVars, conns, applied, cache, kept, detached, orphaned, pruneVars>>

Item(c) == rcv[c].msg.item

\* Directories that a prune_cache is removing: part of them may be gone.
Evicting == UNION {prunes[p].todo : p \in {q \in Runs : prunes[q].pc = "remove"}}

\* The quota has taken nothing of what is in the item's directory.
Intact(i) == i \in cache \ (evicted \cup Evicting)

Idle(c) == [rcv EXCEPT ![c] = [RcvClosed EXCEPT !.open = TRUE]]

\* create_dir, which fails when the directory is there.
MakeDir(c) ==
  /\ rcv[c].pc = "mkdir" /\ Item(c) \notin cache
  /\ cache' = cache \cup {Item(c)}
  /\ rcv' = [rcv EXCEPT ![c].pc = "mkdirs"]
  /\ UNCHANGED <<sndVars, conns, wire, incoming, applied, taskVars, pruneVars, faults>>

MakeDirFails(c) ==
  /\ rcv[c].pc = "mkdir"
  /\ IF Item(c) \in cache THEN UNCHANGED faults ELSE Fault
  /\ rcv' = Idle(c)
  /\ UNCHANGED <<sndVars, conns, wire, incoming, applied, diskVars>>

NothingReceived(i) == [got |-> [f \in Files(i) |-> <<>>], ended |-> {}]

\* create_dir_all of every entry, which also makes a directory that was taken
\* meanwhile; an item of directories only is complete.
MakeSubdirs(c) ==
  /\ rcv[c].pc = "mkdirs"
  /\ cache' = cache \cup {Item(c)}
  /\ IF published[Item(c)] = "folder"
     THEN /\ rcv' = [rcv EXCEPT ![c].pc = "apply"]
          /\ kept' = kept \cup {Item(c)}
          /\ UNCHANGED incoming
     ELSE /\ rcv' = Idle(c)
          /\ incoming' = [incoming EXCEPT ![c] =
               [i \in DOMAIN @ \cup {Item(c)} |->
                  IF i = Item(c) THEN NothingReceived(i) ELSE @[i]]]
          /\ UNCHANGED kept
  /\ UNCHANGED <<sndVars, conns, wire, applied, cleanup, detached, orphaned, pruneVars, faults>>

MakeSubdirsFails(c) ==
  /\ rcv[c].pc = "mkdirs"
  /\ IF Intact(Item(c)) THEN Fault ELSE UNCHANGED faults
  /\ cleanup' = cleanup \cup {Item(c)}
  /\ rcv' = Idle(c)
  /\ UNCHANGED <<sndVars, conns, wire, incoming, applied, cache, kept, detached, orphaned,
                 pruneVars>>

\* What is pending after the chunk in hand is written.
Received(c) ==
  LET m == rcv[c].msg
      p == incoming[c][m.item]
  IN  IF m.eof THEN [p EXCEPT !.ended = @ \cup {m.file}]
               ELSE [p EXCEPT !.got[m.file] = Append(@, m.unit)]

\* The file is opened, and made when it is not there, in the item's directory.
WriteChunk(c) ==
  /\ rcv[c].pc = "write" /\ Item(c) \in cache
  /\ IF Received(c).ended = Files(Item(c))
     THEN /\ rcv' = [rcv EXCEPT ![c].pc = "verify", ![c].got = Received(c).got]
          /\ incoming' = [incoming EXCEPT ![c] = Without(c, {Item(c)})]
     ELSE /\ rcv' = Idle(c)
          /\ incoming' = [incoming EXCEPT ![c][Item(c)] = Received(c)]
  /\ UNCHANGED <<sndVars, conns, wire, applied, diskVars, faults>>

WriteChunkFails(c) ==
  /\ rcv[c].pc = "write"
  /\ IF Intact(Item(c)) THEN Fault ELSE UNCHANGED faults
  /\ incoming' = [incoming EXCEPT ![c] = Without(c, {Item(c)})]
  /\ cleanup' = cleanup \cup {Item(c)}
  /\ rcv' = Idle(c)
  /\ UNCHANGED <<sndVars, conns, wire, applied, cache, kept, detached, orphaned, pruneVars>>

\* What the files held when they were captured: their sha256 tells them apart.
Captured(i) == [f \in Files(i) |-> [n \in 1..SizesOf(i)[f] |-> 0]]
HashUnchecked(i, got) == TRUE \* fault: a file is trusted once it is complete
HashMatches(i, got) == got = Captured(i)

\* The files on disk, read once more, are what was captured.
Verify(c) ==
  /\ rcv[c].pc = "verify"
  /\ Item(c) \in cache /\ HashMatches(Item(c), rcv[c].got)
  /\ kept' = kept \cup {Item(c)} /\ evicted' = evicted \ {Item(c)}
  /\ rcv' = [rcv EXCEPT ![c].pc = "apply"]
  /\ UNCHANGED <<sndVars, conns, wire, incoming, applied, cache, cleanup, detached, orphaned,
                 prunes, run, stopped, faults>>

\* Fault: a mismatch leaves the directory.
VerifyFailsLeaves(c) ==
  /\ rcv[c].pc = "verify"
  /\ ~HashMatches(Item(c), rcv[c].got) \/ ~Intact(Item(c))
  /\ rcv' = Idle(c)
  /\ UNCHANGED <<sndVars, conns, wire, incoming, applied, diskVars, faults>>

\* They are not, or not all of them are there.
VerifyFails(c) ==
  /\ rcv[c].pc = "verify"
  /\ ~HashMatches(Item(c), rcv[c].got) \/ ~Intact(Item(c))
  /\ cleanup' = cleanup \cup {Item(c)}
  /\ rcv' = Idle(c)
  /\ UNCHANGED <<sndVars, conns, wire, incoming, applied, cache, kept, detached, orphaned,
                 pruneVars, faults>>

OnClipboard(c) == Append(applied, [conn |-> c, item |-> Item(c), got |-> rcv[c].got])

Apply(c) ==
  /\ rcv[c].pc = "apply"
  /\ applied' = OnClipboard(c)
  /\ rcv' = Idle(c)
  /\ UNCHANGED <<sndVars, conns, wire, incoming, diskVars, faults>>

\* The clipboard is busy, an image does not decode: the item is given up.
ApplyFails(c) ==
  /\ rcv[c].pc = "apply"
  /\ Fault
  /\ rcv' = Idle(c)
  /\ UNCHANGED <<sndVars, conns, wire, incoming, applied, diskVars>>

\* Fault: keep_cache is set only after the apply.
OwnedForgetsKeep(c) == DOMAIN incoming[c] \cup
  (IF rcv[c].pc \in {"mkdirs", "verify", "apply"} THEN {Item(c)} ELSE {})

\* Items whose IncomingItem a dropped handler owned and did not keep.
Owned(c) == DOMAIN incoming[c] \cup
            (IF rcv[c].pc \in {"mkdirs", "verify"} THEN {Item(c)} ELSE {})

\* Fault: the handler goes on without its connection.
CloseReceiversHandlersLive(C) ==
  /\ cleanup' = cleanup \cup UNION {Owned(c) : c \in C}
  /\ UNCHANGED detached
  /\ rcv' = [c \in Conns |-> [rcv[c] EXCEPT !.open = @ /\ c \notin C]]
  /\ incoming' = [c \in Conns |-> IF c \in C THEN <<>> ELSE incoming[c]]
  /\ wire' = [c \in Conns |-> IF c \in C THEN <<>> ELSE wire[c]]

\* Receiving ends go: every IncomingItem they held schedules its removal, and
\* the operation a handler was waiting for is left to itself.
CloseReceivers(C) ==
  /\ cleanup' = cleanup \cup UNION {Owned(c) : c \in C}
  /\ detached' = detached \cup
       {<<Item(c), rcv[c].pc>> : c \in {d \in C : rcv[d].pc \in {"mkdir", "mkdirs", "write"}}}
  /\ rcv' = [c \in Conns |-> IF c \in C THEN RcvClosed ELSE rcv[c]]
  /\ incoming' = [c \in Conns |-> IF c \in C THEN <<>> ELSE incoming[c]]
  /\ wire' = [c \in Conns |-> IF c \in C THEN <<>> ELSE wire[c]]

\* At most one of the applies cut short has reached the clipboard.
AppliesCutShort(C) ==
  applied' = applied \/ \E c \in C : rcv[c].pc = "apply" /\ applied' = OnClipboard(c)

ReceiverBreaks(c) ==
  /\ rcv[c].open
  /\ Fault
  /\ CloseReceivers({c})
  /\ AppliesCutShort({c})
  /\ UNCHANGED <<sndVars, conns, cache, kept, orphaned, pruneVars>>

ReceiverEof(c) ==
  /\ rcv[c].open /\ rcv[c].pc = "idle" /\ wire[c] = <<>> /\ ~snd[c].open
  /\ CloseReceivers({c})
  /\ UNCHANGED <<sndVars, conns, applied, cache, kept, orphaned, pruneVars, faults>>

-----------------------------------------------------------------------------
(* Work that outlives its connection.                                      *)

\* The task IncomingItem's Drop spawned: remove_dir_all.
Cleanup(i) ==
  /\ i \in cleanup
  /\ cache' = cache \ {i}
  /\ cleanup' = cleanup \ {i}
  /\ UNCHANGED <<sndVars, conns, wire, rcvVars, kept, detached, orphaned, pruneVars, faults>>

\* create_dir and create_dir_all make the directory when it is not there.
DetachedMakes(i, op) ==
  /\ <<i, op>> \in detached /\ op \in {"mkdir", "mkdirs"}
  /\ detached' = detached \ {<<i, op>>}
  /\ orphaned' = IF i \in cache THEN orphaned ELSE orphaned \cup {i}
  /\ cache' = cache \cup {i}
  /\ UNCHANGED <<sndVars, conns, wire, rcvVars, kept, cleanup, pruneVars, faults>>

\* A chunk written to a directory that is there, or is no longer.
DetachedWrites(i) ==
  /\ <<i, "write">> \in detached
  /\ detached' = detached \ {<<i, "write">>}
  /\ UNCHANGED <<sndVars, conns, wire, rcvVars, cache, kept, cleanup, orphaned, pruneVars, faults>>

\* It creates its file while remove_dir_all runs, whose last step then fails.
DetachedBlocksCleanup(i) ==
  /\ <<i, "write">> \in detached /\ i \in cleanup
  /\ detached' = detached \ {<<i, "write">>}
  /\ cleanup' = cleanup \ {i}
  /\ orphaned' = orphaned \cup {i}
  /\ UNCHANGED <<sndVars, conns, wire, rcvVars, cache, kept, pruneVars, faults>>

\* A prune_cache removes under it what it is removing, and one of them fails.
PruneBlocksCleanup(i) ==
  /\ i \in cleanup \cap Evicting
  /\ cleanup' = cleanup \ {i}
  /\ orphaned' = orphaned \cup {i}
  /\ UNCHANGED <<sndVars, conns, wire, rcvVars, cache, kept, detached, pruneVars, faults>>

-----------------------------------------------------------------------------
(* The cache's quota: network::run prunes the cache before it goes on the  *)
(* network, when the daemon starts and after every new configuration.  The *)
(* run that a new configuration drops leaves its prune_cache behind on the *)
(* blocking pool: it goes on beside the next runs and their connections.   *)

\* run_network_with_reload drops every connection and the run; what they
\* scheduled and what they were waiting for goes on beside the new prune_cache.
Reload ==
  /\ prunes[run].pc # "failed" /\ Fault
  /\ CloseReceivers(Conns) /\ AppliesCutShort(Conns)
  /\ run' = IF prunes[run].pc = "none" THEN run ELSE run + 1
  /\ prunes' = [prunes EXCEPT ![run'] = StartedPrune]
  /\ UNCHANGED <<sndVars, conns, cache, kept, orphaned, evicted, stopped>>

\* The process ends and is started again: what was scheduled is not done.
Restart ==
  /\ Fault
  /\ rcv' = [c \in Conns |-> RcvClosed]
  /\ incoming' = [c \in Conns |-> <<>>] /\ wire' = [c \in Conns |-> <<>>]
  /\ AppliesCutShort(Conns)
  /\ stopped' = stopped \cup (cache \cap (cleanup \cup UNION {Owned(c) : c \in Conns}))
  /\ cleanup' = {} /\ detached' = {}
  /\ evicted' = evicted \cup Evicting
  /\ run' = 0 /\ prunes' = [p \in Runs |-> IF p = 0 THEN StartedPrune ELSE NoPrune]
  /\ UNCHANGED <<sndVars, conns, cache, kept, orphaned>>

\* A complete item of which the quota has taken nothing: its files and their
\* times are what they were when it was completed.
Settled(i) == i \in kept \ (evicted \cup Evicting)

\* An item that is not settled may be anything up to its size.
Declared(i) == MapThenSumSet(LAMBDA f : SizesOf(i)[f], Files(i))
OnDisk(i) == IF Settled(i) THEN {Declared(i)} ELSE 0..Declared(i)
Found(p) == DOMAIN prunes[p].found
Measured(found, items) == MapThenSumSet(LAMBDA i : found[i], items)

\* sort_by_key: items are completed in their order unless connections overlap,
\* and the directory of one that is not may have been touched at any time.
InOrder == ~senderConnects
Newest(p, i) == InOrder => \A j \in Found(p) : Settled(j) => j <= i \* fault: the wrong way round
Oldest(p, i) == InOrder => \A j \in Found(p) : Settled(j) => i <= j

OverQuota(p) == Measured(prunes[p].found, Found(p)) > Quota

\* Another task removes the directory, or has: to walk it or remove it may fail.
Gone(p, i) ==
  \/ i \notin cache \/ i \in cleanup
  \/ \E q \in Runs \ {p} : prunes[q].pc = "remove" /\ i \in prunes[q].todo

\* Something is made in the directory: it may not be empty when it is removed.
Busy(i) == \/ \E c \in Conns : rcv[c].pc \in {"mkdirs", "write"} /\ Item(c) = i
           \/ \E op \in {"mkdirs", "write"} : <<i, op>> \in detached

\* An error of prune_cache ends its run, and with it the daemon, unless the run
\* was dropped: then nobody hears of it.
PruneFails(p) ==
  /\ \/ prunes[p].pc = "scan" /\ \E i \in (prunes[p].todo \cup cache) \ Found(p) : Gone(p, i)
     \/ /\ prunes[p].pc = "remove" /\ prunes[p].todo = {} /\ OverQuota(p)
        /\ \E i \in Found(p) \ cache : Oldest(p, i)
     \/ prunes[p].pc = "remove" /\ \E i \in prunes[p].todo : Gone(p, i) \/ Busy(i)
  /\ prunes' = [prunes EXCEPT ![p] = IF p = run THEN [NoPrune EXCEPT !.pc = "failed"] ELSE NoPrune]
  /\ evicted' = IF prunes[p].pc = "remove" THEN evicted \cup prunes[p].todo ELSE evicted
  /\ UNCHANGED <<sndVars, conns, wire, rcvVars, cache, taskVars, run, stopped, faults>>

\* read_dir may also list what is made meanwhile ...
Measure(p, i) ==
  /\ prunes[p].pc = "scan" /\ i \in cache \ Found(p)
  /\ \E size \in OnDisk(i) :
       prunes' = [prunes EXCEPT ![p].todo = @ \ {i},
                                ![p].found = [j \in DOMAIN @ \cup {i} |-> IF j = i THEN size ELSE @[j]]]
  /\ UNCHANGED <<sndVars, conns, wire, rcvVars, cache, taskVars, run, evicted, stopped, faults>>

\* ... and not what was removed before its turn.
Miss(p, i) ==
  /\ prunes[p].pc = "scan" /\ i \in prunes[p].todo \ cache
  /\ prunes' = [prunes EXCEPT ![p].todo = @ \ {i}]
  /\ UNCHANGED <<sndVars, conns, wire, rcvVars, cache, taskVars, run, evicted, stopped, faults>>

Scanned(p) ==
  /\ prunes[p].pc = "scan" /\ prunes[p].todo = {}
  /\ prunes' = [prunes EXCEPT ![p].pc = "remove"]
  /\ UNCHANGED <<sndVars, conns, wire, rcvVars, cache, taskVars, run, evicted, stopped, faults>>

\* remove_dir_all, which begins ...
TakeOldest(p, i) ==
  /\ prunes[p].pc = "remove" /\ prunes[p].todo = {} /\ OverQuota(p)
  /\ i \in Found(p) \cap cache /\ Oldest(p, i)
  /\ prunes' = [prunes EXCEPT ![p].todo = {i}]
  /\ UNCHANGED <<sndVars, conns, wire, rcvVars, cache, taskVars, run, evicted, stopped, faults>>

\* ... and ends.
Evict(p, i) ==
  /\ prunes[p].pc = "remove" /\ i \in prunes[p].todo
  /\ cache' = cache \ {i} /\ evicted' = evicted \cup {i}
  /\ prunes' = [prunes EXCEPT ![p].todo = {},
                              ![p].found = [j \in DOMAIN @ \ {i} |-> @[j]]]
  /\ UNCHANGED <<sndVars, conns, wire, rcvVars, taskVars, run, stopped, faults>>

Pruned(p) ==
  /\ prunes[p].pc = "remove" /\ prunes[p].todo = {} /\ ~OverQuota(p)
  /\ prunes' = [prunes EXCEPT ![p] = NoPrune]
  /\ UNCHANGED <<sndVars, conns, wire, rcvVars, cache, taskVars, run, evicted, stopped, faults>>

-----------------------------------------------------------------------------

Sender(c) == \/ Lagged(c) \/ Take(c) \/ CheckSources(c) \/ SendManifest(c)
             \/ OpenSource(c) \/ SendChunk(c) \/ SourceFails(c) \/ WriteMessage(c)
             \/ SenderReset(c)

Receiver(c) == \/ Receive(c) \/ MakeDir(c) \/ MakeSubdirs(c) \/ WriteChunk(c)
               \/ MakeDirFails(c) \/ MakeSubdirsFails(c) \/ WriteChunkFails(c)
               \/ Verify(c) \/ VerifyFails(c) \/ Apply(c) \/ ReceiverEof(c)

Failure(c) == SenderBreaks(c) \/ ReceiverBreaks(c) \/ ApplyFails(c)

Background == \/ \E i \in cleanup : Cleanup(i) \/ DetachedBlocksCleanup(i) \/ PruneBlocksCleanup(i)
              \/ \E d \in detached : DetachedMakes(d[1], d[2]) \/ DetachedWrites(d[1])

Pruning(p) == \/ PruneFails(p) \/ Scanned(p) \/ Pruned(p)
              \/ \E i \in cache : Measure(p, i) \/ TakeOldest(p, i)
              \/ \E i \in prunes[p].todo : Miss(p, i) \/ Evict(p, i)

\* No copy is left to make and nothing is under way: the one way the model stops.
Finished ==
  /\ Published = MaxItems \/ Published + faults = MaxEvents
  /\ \A c \in Conns : /\ ~Waiting(c) /\ snd[c].pc = "wait" /\ (snd[c].open <=> rcv[c].open)
                        /\ data[c] = <<>> /\ (rcv[c].open => wire[c] = <<>>)
                        /\ rcv[c].pc = "idle"
  /\ cleanup = {} /\ detached = {} /\ \A p \in Runs : prunes[p].pc \in {"none", "failed"}
  /\ UNCHANGED vars

Next == \/ \E kind \in Kinds : Copy(kind)
        \/ \E i \in 1..Published : \E f \in Files(i) :
             \E how \in {"rewritten", "longer", "shorter", "gone"} : Change(i, f, how)
        \/ Connect
        \/ \E c \in Conns : Sender(c) \/ Receiver(c) \/ Failure(c)
        \/ Background
        \/ Reload \/ Restart \/ \E p \in Runs : Pruning(p)
        \/ Finished

Spec == Init /\ [][Next]_vars

(* Fairness: the tasks of a connection and of the runtime run, TCP moves   *)
(* its bytes, the blocking pool finishes what it was given.                *)
FairSpec ==
  /\ Spec
  /\ \A c \in Conns : WF_vars(Sender(c)) /\ WF_vars(Receiver(c))
  /\ WF_vars(Background) /\ WF_vars(\E p \in Runs : Pruning(p))

-----------------------------------------------------------------------------
(* Properties.                                                             *)

Items == 1..MaxItems

TypeOK ==
  /\ senderConnects \in BOOLEAN
  /\ published \in Seq(Kinds) /\ Published <= MaxItems
  /\ Len(source) = Published
  /\ \A i \in 1..Published : source[i] \in
       [Files(i) -> {"same", "rewritten", "longer", "shorter", "gone"}]
  /\ conns \in 0..MaxConns
  /\ \A c \in Conns :
       /\ snd[c].pc \in {"wait", "check", "manifest", "open", "read"}
       /\ snd[c].pc # "wait" => snd[c].open /\ snd[c].item \in 1..Published
       /\ snd[c].pc \in {"open", "read"} => snd[c].file \in Files(snd[c].item)
       /\ Len(data[c]) <= 1 /\ Len(wire[c]) <= WireCap
       /\ rcv[c].pc \in {"idle", "mkdir", "mkdirs", "write", "verify", "apply"}
       /\ rcv[c].pc # "idle" => rcv[c].open
       /\ rcv[c].pc = "write" => Item(c) \in DOMAIN incoming[c]
       /\ DOMAIN incoming[c] \subseteq Items
  /\ cache \subseteq Items /\ kept \subseteq Items /\ cleanup \subseteq Items
  /\ orphaned \subseteq Items /\ stopped \subseteq Items
  /\ detached \subseteq Items \X {"mkdir", "mkdirs", "write"}
  /\ \A p \in Runs : /\ prunes[p].pc \in {"none", "scan", "remove", "failed"}
                     /\ prunes[p].todo \subseteq Items /\ Found(p) \subseteq Items
                     /\ prunes[p].pc = "failed" => p = run
  /\ evicted \subseteq Items
  /\ run \in 0..faults /\ faults \in 0..MaxFaults

\* What reaches the clipboard is what was copied, whatever happened to the
\* files meanwhile and wherever a transfer was cut.
Verbatim == \A k \in DOMAIN applied :
  LET a == applied[k] IN SizesOf(a.item) # <<>> => a.got = Captured(a.item)

\* One connection holds at most one partial item of an honest peer, so the
\* limit of MAX_PENDING_ITEMS never refuses a manifest.
OnePending == \A c \in Conns :
  Cardinality(DOMAIN incoming[c]) + (IF rcv[c].pc \in {"mkdir", "mkdirs"} THEN 1 ELSE 0) <= 1

\* A directory the clipboard refers to is on disk and nothing is to remove it,
\* but for the quota, and what the quota took is what it took after the item was
\* verified: a transfer it takes under way is not applied as if it were whole.
AppliedStaysOnDisk == \A k \in DOMAIN applied :
  LET i == applied[k].item
  IN  published[i] \in {"folder", "file", "files"} =>
        i \in evicted \/ (i \in cache /\ i \notin cleanup)

\* Every cache directory is complete, still being filled, about to be removed,
\* or was left by an operation that outlived its dropped handler or by a process
\* that ended.
CacheAccounted ==
  cache \subseteq kept \cup cleanup \cup orphaned \cup stopped \cup UNION {Owned(c) : c \in Conns}

\* The directory of a complete item goes only for the quota, and only if a
\* prune_cache found the item, all that are newer and those that are not
\* complete over it, however many of them run and whatever arrives meanwhile.
NewestStay == [][InOrder => \A i \in kept \cap (cache \ cache') : \E p \in Runs :
  /\ prunes[p].pc = "remove" /\ i \in prunes[p].todo
  /\ Measured(prunes[p].found, {j \in Found(p) : j >= i \/ ~Settled(j)}) > Quota]_vars

\* Copies are delivered at most once, and in order unless connections overlap
\* at the receiver: the abstract specification, with its mapping.
Promise == INSTANCE Delivery
  WITH ordered <- ~senderConnects, copied <- Published,
       delivered <- [k \in DOMAIN applied |-> applied[k].item]
PromiseSpec == Promise!Spec

\* A partial item is completed or discarded: no receiver waits for ever for
\* the rest of a transfer.
PendingResolved == \A c \in Conns :
  (DOMAIN incoming[c] # {}) ~> (DOMAIN incoming[c] = {})

Deliverable(kind) == kind \notin {"tooBig", "refused", "bulky"}

\* A copy made while connected arrives, unless something fails, an earlier
\* copy closes the connection, or newer copies overwrite its slot.
EveryCopyArrives == \A c \in Conns, i \in Items :
  (i <= Published /\ Deliverable(published[i]) /\ snd[c].open /\ snd[c].next <= i)
    ~> (\/ \E k \in DOMAIN applied : applied[k].item = i
        \/ faults > 0 \/ ~snd[c].open \/ Published >= i + BroadcastCap)

\* README.md:246: "Changes close old sessions and rebuild connections from
\* the new configuration, so unpairing does not require a manual restart."
ReloadRebuilds == prunes[run].pc # "failed"

\* README.md:214: "Normal disconnects, timeouts, and validation failures clean
\* up partial caches".
NoLeftover ==
  (cleanup = {} /\ detached = {} /\ \A c \in Conns : ~rcv[c].open) => cache \subseteq kept \cup stopped
=============================================================================
