---------------------------- MODULE TransferProofs ----------------------------
(***************************************************************************)
(* Transfer keeps its promises for any number of copies and connections,   *)
(* any kinds, slots, quota and faults.                                     *)
(*                                                                         *)
(* A step is first put as what it does to a sender, a receiver or the disk *)
(* (Step, NextSteps): the invariants are preserved by these few forms.     *)
(* They build on each other: the types (TypeInv); what is on its way over  *)
(* a connection is in order and the receiver keeps pace with it (PaceInv); *)
(* so an item is live over one connection, and applied no more than once   *)
(* (LiveInv); so what is to be completed is neither kept nor removed, and  *)
(* what is kept stays (KeptInv), and where items come in order it comes    *)
(* after all that has a directory (PresentInv), so that what prune_cache   *)
(* takes is the oldest until it is gone (OldestInv).                       *)
(***************************************************************************)
EXTENDS Transfer, FiniteSetTheorems, SequenceTheorems, TLAPS

\* Items that exist, and those a sender goes on with after check_sources.
Made == 1..Published
Sendable == {i \in Made : published[i] \notin {"tooBig", "bulky"}}

FileStates == {"same", "rewritten", "longer", "shorter", "gone"}
Messages ==
  [type : {"manifest"}, item : Sendable] \cup
  {m \in [type : {"chunk"}, item : Sendable, file : Nat, offset : Nat,
          eof : BOOLEAN, unit : {0, 1}] : m.file \in Files(m.item)}

SndType == [open : BOOLEAN, next : Nat, pc : {"wait", "check", "manifest", "open", "read"},
            item : Nat, file : Nat, offset : Nat]
GotType == Seq(Seq({0, 1}))
RcvType == [open : BOOLEAN, pc : {"idle", "mkdir", "mkdirs", "write", "verify", "apply"},
            msg : Messages \cup {NoMessage}, got : GotType]
PendingType == [got : GotType, ended : SUBSET Nat]

CopiesInv ==
  /\ senderConnects \in BOOLEAN
  /\ published \in Seq(Kinds) /\ Published <= MaxItems
  /\ source \in Seq(Seq(FileStates)) /\ Len(source) = Published
  /\ \A i \in Made : source[i] \in [Files(i) -> FileStates]
  /\ conns \in 0..MaxConns
  /\ faults \in 0..MaxFaults

SndInv ==
  /\ snd \in [Conns -> SndType]
  /\ \A c \in Conns :
       /\ snd[c].open => c <= conns /\ snd[c].next \in 1..(Published + 1)
       /\ snd[c].pc # "wait" => /\ snd[c].open /\ snd[c].item \in Made
                                /\ snd[c].item < snd[c].next
                                /\ published[snd[c].item] # "tooBig"
       /\ snd[c].pc \notin {"wait", "check"} => snd[c].item \in Sendable
       /\ snd[c].pc \in {"open", "read"} => snd[c].file \in Files(snd[c].item)

StreamInv ==
  /\ data \in [Conns -> Seq(Messages)] /\ wire \in [Conns -> Seq(Messages)]
  /\ \A c \in Conns :
       /\ Len(data[c]) <= 1 /\ Len(wire[c]) <= WireCap
       /\ ~snd[c].open => data[c] = <<>>
       /\ c > conns => data[c] = <<>> /\ wire[c] = <<>>

RcvInv ==
  /\ rcv \in [Conns -> RcvType] /\ DOMAIN incoming = Conns
  /\ \A c \in Conns :
       /\ rcv[c].open => c <= conns
       /\ rcv[c].pc # "idle" => rcv[c].open /\ rcv[c].msg \in Messages
       /\ rcv[c].pc = "write" => rcv[c].msg.type = "chunk" /\ Item(c) \in DOMAIN incoming[c]
       /\ DOMAIN incoming[c] \subseteq Made
       /\ \A i \in DOMAIN incoming[c] : incoming[c][i] \in PendingType
       /\ ~rcv[c].open => DOMAIN incoming[c] = {}

AppliedType == [conn : Conns, item : Made, got : GotType]

PrunesTyped ==
  /\ DOMAIN prunes = Runs /\ run \in 0..faults
  /\ \A p \in Runs :
       /\ prunes[p] = [pc |-> prunes[p].pc, todo |-> prunes[p].todo, found |-> prunes[p].found]
       /\ prunes[p].pc \in {"none", "scan", "remove", "failed"}
       /\ prunes[p].todo \subseteq Made /\ Found(p) \subseteq Made
       /\ prunes[p].pc = "failed" => p = run
       /\ p > run => prunes[p].pc = "none"
       /\ prunes[p].pc = "remove" => \A i, j \in prunes[p].todo : i = j

DiskInv ==
  /\ cache \subseteq Made /\ kept \subseteq Made /\ cleanup \subseteq Made
  /\ orphaned \subseteq Made /\ stopped \subseteq Made /\ evicted \subseteq Made
  /\ detached \subseteq Made \X {"mkdir", "mkdirs", "write"}
  /\ PrunesTyped
  /\ applied \in Seq(AppliedType)

TypeInv == CopiesInv /\ SndInv /\ StreamInv /\ RcvInv /\ DiskInv

-----------------------------------------------------------------------------
(* Facts about the data.                                                   *)

LEMMA SizesFacts ==
  \A kind \in AllKinds : Sizes(kind) \in Seq(Nat)
BY DEF Sizes, AllKinds

LEMMA FilesFacts ==
  ASSUME CopiesInv, NEW i \in Made
  PROVE  /\ published[i] \in Kinds
         /\ SizesOf(i) \in Seq(Nat)
         /\ Len(SizesOf(i)) \in Nat
         /\ Files(i) = 1..Len(SizesOf(i))
         /\ Files(i) \subseteq Nat
<1>1. published[i] \in Kinds
  BY DEF CopiesInv, Made, Published
<1>2. SizesOf(i) \in Seq(Nat)
  BY <1>1, SizesFacts, ConstantsAssumption DEF SizesOf
<1> QED  BY <1>1, <1>2 DEF Files

LEMMA NoFiles ==
  ASSUME CopiesInv, NEW i \in Made, published[i] \in {"text", "folder"}
  PROVE  Files(i) = {} /\ SizesOf(i) = <<>>
BY DEF Files, SizesOf, Sizes

LEMMA SomeFiles ==
  ASSUME CopiesInv, NEW i \in Made, published[i] \in {"file", "files", "refused"}
  PROVE  1 \in Files(i)
BY DEF Files, SizesOf, Sizes

LEMMA MessageFacts ==
  ASSUME CopiesInv, NEW m \in Messages
  PROVE  /\ m.item \in Made /\ m.item \in Sendable /\ m.item \in Nat /\ m.type \in {"manifest", "chunk"}
         /\ m.type = "manifest" => m = Manifest(m.item)
         /\ m.type = "chunk" => m.file \in Files(m.item) /\ m.eof \in BOOLEAN /\ m.file \in Nat
                                /\ m.unit \in {0, 1}
BY DEF Messages, Sendable, Made, Manifest

LEMMA ManifestType ==
  ASSUME NEW i \in Sendable
  PROVE  Manifest(i) \in Messages
BY DEF Manifest, Messages

\* What depends on the copies alone changes only with them.
LEMMA CopiesSame ==
  ASSUME UNCHANGED published
  PROVE  /\ Published' = Published /\ Made' = Made /\ Sendable' = Sendable
         /\ Messages' = Messages /\ RcvType' = RcvType
         /\ AppliedType' = AppliedType
         /\ \A i : Files(i)' = Files(i) /\ SizesOf(i)' = SizesOf(i)
BY DEF Published, Made, Sendable, Messages, RcvType, AppliedType, Files, SizesOf

LEMMA CopyGrows ==
  ASSUME CopiesInv, NEW kind \in Kinds, Copy(kind)
  PROVE  /\ Published' = Published + 1 /\ Made \subseteq Made' /\ Sendable \subseteq Sendable'
         /\ \A i \in Made : /\ published'[i] = published[i] /\ Files(i)' = Files(i)
                            /\ SizesOf(i)' = SizesOf(i)
<1>1. /\ published \in Seq(Kinds) /\ published' = Append(published, kind)
      /\ Published \in Nat
  BY DEF Copy, CopiesInv, Published
<1>2. Published' = Published + 1 /\ \A i \in Made : published'[i] = published[i]
  BY <1>1 DEF Published, Made
<1>3. Made \subseteq Made'
  BY <1>1, <1>2 DEF Made
<1> QED  BY <1>2, <1>3 DEF Sendable, Files, SizesOf

LEMMA CopyGrowsTypes ==
  ASSUME CopiesInv, NEW kind \in Kinds, Copy(kind)
  PROVE  /\ Messages \subseteq Messages' /\ RcvType \subseteq RcvType'
         /\ AppliedType \subseteq AppliedType'
<1>1. /\ Made \subseteq Made' /\ Sendable \subseteq Sendable'
      /\ \A i \in Made : Files(i)' = Files(i)
  BY CopyGrows
<1>2. Messages \subseteq Messages'
  BY <1>1 DEF Messages, Sendable
<1>3. RcvType \subseteq RcvType'
  BY <1>2 DEF RcvType
<1>4. AppliedType \subseteq AppliedType'
  BY <1>1 DEF AppliedType
<1> QED  BY <1>2, <1>3, <1>4

\* The records of prunes that the code makes.
LEMMA PruneRecords ==
  /\ NoPrune = [pc |-> "none", todo |-> {}, found |-> <<>>]
  /\ StartedPrune = [pc |-> "scan", todo |-> cache, found |-> <<>>]
  /\ [NoPrune EXCEPT !.pc = "failed"] = [pc |-> "failed", todo |-> {}, found |-> <<>>]
  /\ DOMAIN <<>> = {}
<1>1. PICK f : f = <<>>
  OBVIOUS
<1>2. NoPrune = [pc |-> "none", todo |-> {}, found |-> f]
  BY <1>1 DEF NoPrune
<1>3. [NoPrune EXCEPT !.pc = "failed"] = [pc |-> "failed", todo |-> {}, found |-> f]
  BY <1>2
<1>4. StartedPrune = [[NoPrune EXCEPT !.pc = "scan"] EXCEPT !.todo = cache]
  BY DEF StartedPrune
<1>5. StartedPrune = [pc |-> "scan", todo |-> cache, found |-> f]
  BY <1>2, <1>4
<1>6. DOMAIN <<>> = {}
  OBVIOUS
<1> QED  BY <1>1, <1>2, <1>3, <1>5, <1>6

\* What a step of prune_cache makes of its record.
LEMMA PruneFields ==
  ASSUME NEW p \in DOMAIN prunes, NEW todo, NEW found,
         prunes[p] = [pc |-> prunes[p].pc, todo |-> prunes[p].todo, found |-> prunes[p].found]
  PROVE  /\ [prunes EXCEPT ![p].todo = todo]
              = [prunes EXCEPT ![p] = [pc |-> prunes[p].pc, todo |-> todo, found |-> prunes[p].found]]
         /\ [prunes EXCEPT ![p].todo = todo, ![p].found = found]
              = [prunes EXCEPT ![p] = [pc |-> prunes[p].pc, todo |-> todo, found |-> found]]
<1>1. [prunes[p] EXCEPT !.todo = todo] = [pc |-> prunes[p].pc, todo |-> todo, found |-> prunes[p].found]
  OBVIOUS
<1>2. [[prunes[p] EXCEPT !.todo = todo] EXCEPT !.found = found]
        = [pc |-> prunes[p].pc, todo |-> todo, found |-> found]
  <2>1. PICK r : r = [pc |-> prunes[p].pc, todo |-> todo, found |-> prunes[p].found]
    OBVIOUS
  <2>2. [r EXCEPT !.found = found] = [pc |-> prunes[p].pc, todo |-> todo, found |-> found]
    BY <2>1
  <2> QED  BY <1>1, <2>1, <2>2
<1>3. [prunes EXCEPT ![p].todo = todo] = [prunes EXCEPT ![p] = [prunes[p] EXCEPT !.todo = todo]]
  OBVIOUS
<1>4. [prunes EXCEPT ![p].todo = todo, ![p].found = found]
        = [prunes EXCEPT ![p] = [[prunes[p] EXCEPT !.todo = todo] EXCEPT !.found = found]]
  OBVIOUS
<1> QED  BY <1>1, <1>2, <1>3, <1>4

LEMMA InitType == Init => TypeInv
<1> SUFFICES ASSUME Init PROVE TypeInv
  OBVIOUS
<1> USE ConstantsAssumption
<1>1. published = <<>> /\ Published = 0 /\ Made = {}
  BY DEF Init, Published, Made
<1>2. CopiesInv
  <2>1. source \in Seq(Seq(FileStates)) /\ Len(source) = 0 /\ published \in Seq(Kinds)
    BY DEF Init
  <2> QED  BY <1>1, <2>1 DEF Init, CopiesInv
<1>3. SndInv
  <2>1. SndClosed \in SndType /\ SndClosed.open = FALSE /\ SndClosed.pc = "wait"
    BY DEF SndClosed, SndType
  <2> QED  BY <2>1 DEF Init, SndInv
<1>4. StreamInv
  <2>1. <<>> \in Seq(Messages) /\ Len(<<>>) = 0
    OBVIOUS
  <2> QED  BY <2>1 DEF Init, StreamInv
<1>5. RcvInv
  <2>1. <<>> \in GotType
    BY DEF GotType
  <2>2. RcvClosed \in RcvType /\ RcvClosed.open = FALSE /\ RcvClosed.pc = "idle"
    BY <2>1 DEF RcvClosed, RcvType
  <2>3. \A c \in Conns : DOMAIN incoming[c] = {}
    BY DEF Init
  <2> QED  BY <2>2, <2>3 DEF Init, RcvInv
<1>6. DiskInv
  <2>1. /\ NoPrune = [pc |-> "none", todo |-> {}, found |-> <<>>] /\ DOMAIN <<>> = {}
        /\ StartedPrune = [pc |-> "scan", todo |-> {}, found |-> <<>>]
    BY PruneRecords DEF Init
  <2>2. DOMAIN prunes = Runs /\ run = 0 /\ faults = 0
        /\ \A p \in Runs : prunes[p] = IF p = 0 THEN StartedPrune ELSE NoPrune
    BY DEF Init
  <2>3. PrunesTyped
    BY <2>1, <2>2 DEF PrunesTyped, Found
  <2> QED  BY <2>3 DEF Init, DiskInv
<1> QED  BY <1>2, <1>3, <1>4, <1>5, <1>6 DEF TypeInv

-----------------------------------------------------------------------------
(* What a step of a sender does, whichever action it is.                   *)

\* How far the sender or the receiver is once it has handled a message: the
\* item, and the file whose chunks come next, or 0 when the item is complete.
After(m) ==
  LET f == IF m.type = "manifest" THEN 1 ELSE IF m.eof THEN m.file + 1 ELSE m.file
  IN  [item |-> m.item, file |-> IF f \in Files(m.item) THEN f ELSE 0]

SenderStays(c) ==
  /\ UNCHANGED <<senderConnects, published, source, conns, rcv, incoming, applied, diskVars>>
  /\ faults' \in faults..MaxFaults
  /\ snd' \in [Conns -> SndType]
  /\ data' \in [Conns -> Seq(Messages)] /\ wire' \in [Conns -> Seq(Messages)]
  /\ \A d \in Conns \ {c} : snd'[d] = snd[d] /\ data'[d] = data[d] /\ wire'[d] = wire[d]

\* It passes over captures it never sends,
Skips(c) ==
  /\ snd[c].pc = "wait" /\ snd'[c].pc = "wait"
  /\ snd[c].next < snd'[c].next /\ snd'[c].next <= Published + 1

\* takes the next one,
Takes(c) ==
  /\ snd[c].pc = "wait" /\ snd'[c].pc = "check"
  /\ snd[c].next <= Published /\ published[snd[c].next] # "tooBig"
  /\ snd'[c].item = snd[c].next /\ snd'[c].next = snd[c].next + 1

\* checks the sources or opens a file,
Readies(c) ==
  /\ <<snd[c].pc, snd'[c].pc>> \in {<<"check", "manifest">>, <<"open", "read">>}
  /\ snd'[c].item = snd[c].item /\ snd'[c].file = snd[c].file /\ snd'[c].next = snd[c].next
  /\ snd[c].item \in Sendable

Advances(c) ==
  /\ snd[c].open /\ snd'[c].open /\ UNCHANGED <<data, wire>>
  /\ Skips(c) \/ Takes(c) \/ Readies(c)

\* queues the manifest or the chunk it is at,
Emits(c, m) ==
  /\ snd[c].open /\ snd'[c].open /\ UNCHANGED wire
  /\ data[c] = <<>> /\ data'[c] = <<m>>
  /\ m.item = snd[c].item /\ snd'[c].next = snd[c].next
  /\ \/ snd[c].pc = "manifest" /\ m.type = "manifest"
     \/ snd[c].pc = "read" /\ m.type = "chunk" /\ m.file = snd[c].file
  /\ IF After(m).file = 0
     THEN snd'[c].pc = "wait"
     ELSE /\ snd'[c].pc \in {"open", "read"} /\ snd'[c].item = m.item
          /\ snd'[c].file = After(m).file

\* goes, or moves what it queued to the stream.
Shuts(c) == snd'[c] = SndClosed /\ data'[c] = <<>> /\ UNCHANGED wire

Flushes(c) ==
  /\ data[c] # <<>> /\ UNCHANGED snd
  /\ Len(wire[c]) < WireCap
  /\ wire'[c] = Append(wire[c], Head(data[c])) /\ data'[c] = <<>>

SenderStep(c) ==
  /\ SenderStays(c)
  /\ Advances(c) \/ (\E m \in Messages : Emits(c, m)) \/ Shuts(c) \/ Flushes(c)

LEMMA AtFileFacts ==
  ASSUME NEW s \in SndType, NEW f \in Nat
  PROVE  /\ AtFile(s, f) \in SndType
         /\ AtFile(s, f).open = s.open /\ AtFile(s, f).next = s.next
         /\ IF f \in Files(s.item)
            THEN AtFile(s, f).pc = "open" /\ AtFile(s, f).item = s.item /\ AtFile(s, f).file = f
            ELSE AtFile(s, f).pc = "wait"
BY DEF AtFile, SndType

LEMMA SenderSteps ==
  ASSUME TypeInv, NEW c \in Conns, Sender(c) \/ SenderBreaks(c)
  PROVE  SenderStep(c)
<1>0. /\ snd \in [Conns -> SndType] /\ faults \in 0..MaxFaults /\ Published \in Nat
      /\ data \in [Conns -> Seq(Messages)] /\ wire \in [Conns -> Seq(Messages)]
      /\ snd[c] \in SndType /\ BroadcastCap \in Nat \ {0} /\ MaxFaults \in Nat
  BY ConstantsAssumption DEF TypeInv, CopiesInv, SndInv, StreamInv, Published
<1> USE <1>0
<1>1. CASE Lagged(c)
  <2>1. /\ snd[c].open /\ snd[c].pc = "wait" /\ snd[c].next <= Published
        /\ snd[c].next + BroadcastCap <= Published
        /\ snd' = [snd EXCEPT ![c].next = Published - BroadcastCap + 1]
    BY <1>1 DEF Lagged, Waiting
  <2>2. Published - BroadcastCap + 1 \in Nat /\ Published - BroadcastCap + 1 > snd[c].next
        /\ Published - BroadcastCap + 1 <= Published + 1
    BY <2>1 DEF SndType
  <2>3. snd' \in [Conns -> SndType]
    BY <2>1, <2>2 DEF SndType
  <2>4. Skips(c) /\ snd'[c].open
    BY <2>1, <2>2 DEF Skips, SndType
  <2>5. SenderStays(c)
    BY <1>1, <2>1, <2>3 DEF Lagged, SenderStays, rcvVars
  <2> QED  BY <1>1, <2>1, <2>4, <2>5 DEF Lagged, SenderStep, Advances
<1>2. CASE Take(c)
  <2>1. /\ snd[c].open /\ snd[c].pc = "wait" /\ snd[c].next <= Published
        /\ snd[c].next \in Nat /\ snd[c].next + 1 \in Nat
    BY <1>2 DEF Take, Waiting, SndType
  <2>2. CASE published[snd[c].next] = "tooBig"
    <3>1. snd' = [snd EXCEPT ![c].next = snd[c].next + 1]
      BY <1>2, <2>2 DEF Take
    <3>2. snd' \in [Conns -> SndType]
      BY <2>1, <3>1 DEF SndType
    <3>3. Skips(c) /\ snd'[c].open
      BY <2>1, <3>1 DEF Skips, SndType
    <3>4. SenderStays(c)
      BY <1>2, <3>1, <3>2 DEF Take, SenderStays, rcvVars
    <3> QED  BY <1>2, <2>1, <3>3, <3>4 DEF Take, SenderStep, Advances
  <2>3. CASE published[snd[c].next] # "tooBig"
    <3>1. snd' = [snd EXCEPT ![c].next = snd[c].next + 1, ![c].pc = "check", ![c].item = snd[c].next]
      BY <1>2, <2>3 DEF Take
    <3>2. snd' \in [Conns -> SndType]
      BY <2>1, <3>1 DEF SndType
    <3>3. Takes(c) /\ snd'[c].open
      BY <2>1, <2>3, <3>1 DEF Takes, SndType
    <3>4. SenderStays(c)
      BY <1>2, <3>1, <3>2 DEF Take, SenderStays, rcvVars
    <3> QED  BY <1>2, <2>1, <3>3, <3>4 DEF Take, SenderStep, Advances
  <2> QED  BY <2>2, <2>3
<1>3. CASE CheckSources(c) \/ OpenSource(c)
  <2>1. PICK pc \in {"manifest", "read"} : snd' = [snd EXCEPT ![c].pc = pc] /\
           <<snd[c].pc, pc>> \in {<<"check", "manifest">>, <<"open", "read">>}
    BY <1>3 DEF CheckSources, OpenSource
  <2>2. snd' \in [Conns -> SndType]
    BY <2>1 DEF SndType
  <2>3. snd[c].open /\ snd[c].item \in Sendable
    BY <1>3 DEF CheckSources, OpenSource, SourcesOK, TypeInv, SndInv, Sendable
  <2>4. Readies(c) /\ snd'[c].open
    BY <2>1, <2>3 DEF Readies, SndType
  <2>5. SenderStays(c)
    BY <1>3, <2>1, <2>2 DEF CheckSources, OpenSource, SenderStays, rcvVars
  <2> QED  BY <1>3, <2>3, <2>4, <2>5 DEF CheckSources, OpenSource, SenderStep, Advances
<1>4. CASE SendManifest(c)
  <2> DEFINE i == snd[c].item
             m == Manifest(i)
  <2>1. /\ snd[c].pc = "manifest" /\ data[c] = <<>>
        /\ data' = [data EXCEPT ![c] = <<m>>] /\ snd' = [snd EXCEPT ![c] = AtFile(snd[c], 1)]
    BY <1>4 DEF SendManifest
  <2>2. i \in Sendable /\ snd[c].open
    BY <2>1 DEF TypeInv, SndInv
  <2>3. m \in Messages /\ m.type = "manifest" /\ m.item = i
    BY <2>2, ManifestType DEF Manifest
  <2>4. After(m).file = (IF 1 \in Files(i) THEN 1 ELSE 0)
    BY <2>3 DEF After
  <2> HIDE DEF m
  <2>5. snd' \in [Conns -> SndType] /\ data' \in [Conns -> Seq(Messages)]
    BY <2>1, <2>3, AtFileFacts
  <2>6. Emits(c, m)
    BY <1>4, <2>1, <2>2, <2>3, <2>4, AtFileFacts DEF Emits, SendManifest
  <2>7. SenderStays(c)
    BY <1>4, <2>1, <2>5 DEF SendManifest, SenderStays, rcvVars
  <2> QED  BY <2>3, <2>6, <2>7 DEF SenderStep
<1>5. CASE SendChunk(c)
  <2> DEFINE i == snd[c].item
             m == Chunk(c)
  <2>1. /\ snd[c].pc = "read" /\ data[c] = <<>>
        /\ data' = [data EXCEPT ![c] = <<m>>] /\ snd' = [snd EXCEPT ![c] = AfterChunk(c)]
    BY <1>5 DEF SendChunk
  <2>2. i \in Sendable /\ snd[c].open /\ snd[c].file \in Files(i) /\ snd[c].file \in Nat
    BY <2>1 DEF TypeInv, SndInv, SndType
  <2>3. /\ m \in Messages /\ m.type = "chunk" /\ m.item = i /\ m.file = snd[c].file
        /\ m.eof = (Count(c) = 0)
    BY <2>2 DEF Chunk, Messages, SndType
  <2>4. /\ AfterChunk(c) \in SndType /\ AfterChunk(c).open /\ AfterChunk(c).next = snd[c].next
        /\ IF After(m).file = 0
           THEN AfterChunk(c).pc = "wait"
           ELSE /\ AfterChunk(c).pc \in {"open", "read"} /\ AfterChunk(c).item = i
                /\ AfterChunk(c).file = After(m).file
    <3>1. CASE Count(c) = 0
      <4>1. After(m).file = IF snd[c].file + 1 \in Files(i) THEN snd[c].file + 1 ELSE 0
        BY <2>3, <3>1 DEF After
      <4>2. AfterChunk(c) = AtFile(snd[c], snd[c].file + 1)
        BY <3>1 DEF AfterChunk
      <4>3. 0 \notin Files(i)
        BY <2>2, FilesFacts DEF Sendable, TypeInv
      <4>4. snd[c].file + 1 \in Nat
        BY <2>2
      <4>5. /\ AfterChunk(c) \in SndType /\ AfterChunk(c).open
            /\ AfterChunk(c).next = snd[c].next
            /\ IF snd[c].file + 1 \in Files(i)
               THEN /\ AfterChunk(c).pc = "open" /\ AfterChunk(c).item = i
                    /\ AfterChunk(c).file = snd[c].file + 1
               ELSE AfterChunk(c).pc = "wait"
        <5> DEFINE f == snd[c].file + 1
        <5>1. f \in Nat /\ AfterChunk(c) = AtFile(snd[c], f)
          BY <4>2, <4>4
        <5> HIDE DEF f
        <5>2. /\ AtFile(snd[c], f) \in SndType /\ AtFile(snd[c], f).open = snd[c].open
              /\ AtFile(snd[c], f).next = snd[c].next
              /\ IF f \in Files(snd[c].item)
                 THEN /\ AtFile(snd[c], f).pc = "open" /\ AtFile(snd[c], f).item = snd[c].item
                      /\ AtFile(snd[c], f).file = f
                 ELSE AtFile(snd[c], f).pc = "wait"
          BY <5>1, AtFileFacts
        <5> QED  BY <2>2, <5>1, <5>2 DEF f
      <4> QED  BY <4>1, <4>3, <4>5
    <3>2. CASE Count(c) # 0
      <4>1. After(m).file = snd[c].file
        BY <2>2, <2>3, <3>2 DEF After
      <4>2. AfterChunk(c) = [snd[c] EXCEPT !.offset = snd[c].offset + 1]
        BY <3>2 DEF AfterChunk
      <4>3. snd[c].file # 0
        BY <2>2, FilesFacts DEF Sendable, TypeInv
      <4>4. snd[c].offset + 1 \in Nat
        BY DEF SndType
      <4>5. /\ AfterChunk(c) \in SndType /\ AfterChunk(c).open = snd[c].open
            /\ AfterChunk(c).next = snd[c].next /\ AfterChunk(c).pc = snd[c].pc
            /\ AfterChunk(c).item = snd[c].item /\ AfterChunk(c).file = snd[c].file
        BY <4>2, <4>4 DEF SndType
      <4> QED  BY <2>1, <2>2, <4>1, <4>3, <4>5
    <3> QED  BY <3>1, <3>2
  <2> HIDE DEF m
  <2>5. snd' \in [Conns -> SndType] /\ data' \in [Conns -> Seq(Messages)]
    BY <2>1, <2>3, <2>4
  <2>6. Emits(c, m)
    BY <1>5, <2>1, <2>2, <2>3, <2>4 DEF Emits, SendChunk
  <2>7. SenderStays(c)
    BY <1>5, <2>1, <2>5 DEF SendChunk, SenderStays, rcvVars
  <2> QED  BY <2>3, <2>6, <2>7 DEF SenderStep
<1>6. CASE SourceFails(c) \/ SenderBreaks(c) \/ SenderReset(c)
  <2>1. CloseSender(c)
    BY <1>6 DEF SourceFails, SenderBreaks, SenderReset
  <2>2. SndClosed \in SndType
    BY DEF SndClosed, SndType
  <2>3. snd' \in [Conns -> SndType] /\ data' \in [Conns -> Seq(Messages)]
    BY <2>1, <2>2 DEF CloseSender
  <2>4. faults' \in faults..MaxFaults
    BY <1>6 DEF SourceFails, SenderBreaks, SenderReset, Fault
  <2>5. SenderStays(c)
    BY <1>6, <2>1, <2>3, <2>4
    DEF SourceFails, SenderBreaks, SenderReset, CloseSender, SenderStays, rcvVars
  <2>6. Shuts(c)
    BY <1>6, <2>1 DEF SourceFails, SenderBreaks, SenderReset, CloseSender, Shuts
  <2> QED  BY <2>5, <2>6 DEF SenderStep
<1>7. CASE WriteMessage(c)
  <2>1. /\ data[c] # <<>> /\ Len(wire[c]) < WireCap
        /\ wire' = [wire EXCEPT ![c] = Append(wire[c], Head(data[c]))]
        /\ data' = [data EXCEPT ![c] = <<>>] /\ snd' = snd
    BY <1>7 DEF WriteMessage
  <2>2. Head(data[c]) \in Messages
    BY <2>1
  <2>3. data' \in [Conns -> Seq(Messages)] /\ wire' \in [Conns -> Seq(Messages)]
    BY <2>1, <2>2
  <2>4. SenderStays(c)
    BY <1>7, <2>1, <2>3 DEF WriteMessage, SenderStays, rcvVars
  <2> QED  BY <2>1, <2>4 DEF SenderStep, Flushes
<1> QED  BY <1>1, <1>2, <1>3, <1>4, <1>5, <1>6, <1>7 DEF Sender

-----------------------------------------------------------------------------
(* What a step of a receiver that stays open does.                         *)

ReceiverStays(c) ==
  /\ UNCHANGED <<sndVars, conns, orphaned, detached, prunes, run, stopped>>
  /\ faults' \in faults..MaxFaults
  /\ rcv[c].open /\ rcv'[c].open
  /\ rcv' \in [Conns -> RcvType] /\ DOMAIN incoming' = Conns
  /\ \A d \in Conns \ {c} :
       rcv'[d] = rcv[d] /\ incoming'[d] = incoming[d] /\ wire'[d] = wire[d]

Turns(c, from, to) == rcv[c].pc = from /\ rcv'[c].pc = to /\ rcv'[c].msg = rcv[c].msg

\* Nothing but the given items leaves what is pending.
Drops(c, items) ==
  /\ DOMAIN incoming'[c] = DOMAIN incoming[c] \ items
  /\ \A i \in DOMAIN incoming[c] \ items : incoming'[c][i] = incoming[c][i]
  /\ cleanup' = cleanup \cup items

\* It reads a message, and goes on with it or drops it,
Reads(c, m, what, dropped) ==
  /\ rcv[c].pc = "idle" /\ rcv'[c].pc = what /\ (what # "idle" => rcv'[c].msg = m)
  /\ wire[c] # <<>> /\ m = Head(wire[c])
  /\ wire' \in [Conns -> Seq(Messages)] /\ wire'[c] = Tail(wire[c])
  /\ dropped \subseteq DOMAIN incoming[c] /\ Drops(c, dropped)
  /\ what = "mkdir" => m.type = "manifest" /\ published[m.item] \notin {"refused", "text"}
  /\ what = "apply" => m.type = "manifest" /\ published[m.item] = "text"
  /\ what = "write" => m.type = "chunk" /\ m.item \in DOMAIN incoming[c] \ dropped
  /\ what = "idle" => m.type = "manifest" \/ m.item \notin DOMAIN incoming[c] \ dropped
  /\ UNCHANGED <<applied, cache, kept, evicted>>

\* makes the item's directory,
Makes(c) ==
  /\ Turns(c, "mkdir", "mkdirs")
  /\ cache' = cache \cup {Item(c)}
  /\ UNCHANGED <<wire, incoming, applied, kept, cleanup, evicted>>

\* is ready for its chunks,
Opens(c) ==
  /\ rcv[c].pc = "mkdirs" /\ rcv'[c].pc = "idle" /\ published[Item(c)] # "folder"
  /\ DOMAIN incoming'[c] = DOMAIN incoming[c] \cup {Item(c)}
  /\ \A i \in DOMAIN incoming[c] \ {Item(c)} : incoming'[c][i] = incoming[c][i]
  /\ incoming'[c][Item(c)] \in PendingType /\ incoming'[c][Item(c)].ended = {}
  /\ cache' = cache \cup {Item(c)}
  /\ UNCHANGED <<wire, applied, kept, cleanup, evicted>>

\* writes a chunk, one of several,
Writes(c) ==
  /\ rcv[c].pc = "write" /\ rcv'[c].pc = "idle"
  /\ DOMAIN incoming'[c] = DOMAIN incoming[c]
  /\ \A i \in DOMAIN incoming[c] \ {Item(c)} : incoming'[c][i] = incoming[c][i]
  /\ incoming'[c][Item(c)] \in PendingType
  /\ incoming'[c][Item(c)].ended =
       incoming[c][Item(c)].ended \cup (IF rcv[c].msg.eof THEN {rcv[c].msg.file} ELSE {})
  /\ incoming'[c][Item(c)].ended # Files(Item(c))
  /\ UNCHANGED <<wire, applied, cache, kept, cleanup, evicted>>

\* or the last one,
Completes(c) ==
  /\ Turns(c, "write", "verify")
  /\ Files(Item(c)) =
       incoming[c][Item(c)].ended \cup (IF rcv[c].msg.eof THEN {rcv[c].msg.file} ELSE {})
  /\ DOMAIN incoming'[c] = DOMAIN incoming[c] \ {Item(c)}
  /\ \A i \in DOMAIN incoming[c] \ {Item(c)} : incoming'[c][i] = incoming[c][i]
  /\ UNCHANGED <<wire, applied, cache, kept, cleanup, evicted>>

\* keeps what is complete,
Keeps(c) ==
  /\ \/ Turns(c, "mkdirs", "apply") /\ published[Item(c)] = "folder"
        /\ cache' = cache \cup {Item(c)} /\ evicted' = evicted
     \/ Turns(c, "verify", "apply") /\ rcv'[c].got = Captured(Item(c))
        /\ Item(c) \in cache /\ cache' = cache /\ evicted' = evicted \ {Item(c)}
  /\ kept' = kept \cup {Item(c)}
  /\ UNCHANGED <<wire, incoming, applied, cleanup>>

\* puts it on the clipboard,
Applies(c) ==
  /\ rcv[c].pc = "apply" /\ rcv'[c].pc = "idle" /\ applied' = OnClipboard(c)
  /\ UNCHANGED <<wire, incoming, cache, kept, cleanup, evicted>>

\* or gives the item up.
GivesUp(c, items) ==
  /\ rcv[c].pc # "idle" /\ rcv'[c].pc = "idle"
  /\ items = IF rcv[c].pc \in {"mkdirs", "write", "verify"} THEN {Item(c)} ELSE {}
  /\ DOMAIN incoming'[c] = DOMAIN incoming[c] \ (IF rcv[c].pc = "write" THEN items ELSE {})
  /\ \A i \in DOMAIN incoming'[c] : incoming'[c][i] = incoming[c][i]
  /\ cleanup' = cleanup \cup items
  /\ UNCHANGED <<wire, applied, cache, kept, evicted>>

ReceiverStep(c) ==
  /\ ReceiverStays(c)
  /\ \/ \E m \in Messages : \E what \in {"idle", "mkdir", "apply", "write"} :
          \E dropped \in SUBSET DOMAIN incoming[c] : Reads(c, m, what, dropped)
     \/ Makes(c) \/ Opens(c) \/ Writes(c) \/ Completes(c) \/ Keeps(c) \/ Applies(c)
     \/ \E items \in SUBSET {Item(c)} : GivesUp(c, items)

LEMMA IdleFacts ==
  ASSUME TypeInv, NEW c \in Conns, rcv' = Idle(c)
  PROVE  /\ rcv' \in [Conns -> RcvType] /\ rcv'[c].open /\ rcv'[c].pc = "idle"
         /\ \A d \in Conns \ {c} : rcv'[d] = rcv[d]
<1>1. RcvClosed \in RcvType
  BY DEF RcvClosed, RcvType, GotType
<1>2. [RcvClosed EXCEPT !.open = TRUE] \in RcvType /\ [RcvClosed EXCEPT !.open = TRUE].open
      /\ [RcvClosed EXCEPT !.open = TRUE].pc = "idle"
  BY <1>1 DEF RcvType, RcvClosed
<1> QED  BY <1>2 DEF Idle, TypeInv, RcvInv

LEMMA TurnFacts ==
  ASSUME TypeInv, NEW c \in Conns, NEW pc \in {"mkdirs", "verify", "apply"},
         rcv' = [rcv EXCEPT ![c].pc = pc]
  PROVE  /\ rcv' \in [Conns -> RcvType] /\ rcv'[c].open = rcv[c].open /\ rcv'[c].pc = pc
         /\ rcv'[c].msg = rcv[c].msg /\ rcv'[c].got = rcv[c].got
         /\ \A d \in Conns \ {c} : rcv'[d] = rcv[d]
BY DEF TypeInv, RcvInv, RcvType

LEMMA WithoutFacts ==
  ASSUME TypeInv, NEW c \in Conns, NEW items, incoming' = [incoming EXCEPT ![c] = Without(c, items)]
  PROVE  /\ DOMAIN incoming' = Conns
         /\ DOMAIN incoming'[c] = DOMAIN incoming[c] \ items
         /\ \A i \in DOMAIN incoming[c] \ items : incoming'[c][i] = incoming[c][i]
         /\ \A d \in Conns \ {c} : incoming'[d] = incoming[d]
BY DEF TypeInv, RcvInv, Without

LEMMA DispositionFacts ==
  ASSUME NEW c, NEW m, NEW pending
  PROVE  /\ Disposition(c, m, pending) \in {"ignore", "apply", "mkdir", "discard", "write"}
         /\ Disposition(c, m, pending) = "mkdir" =>
              m.type = "manifest" /\ published[m.item] \notin {"refused", "text"}
         /\ Disposition(c, m, pending) = "apply" =>
              m.type = "manifest" /\ published[m.item] = "text"
         /\ Disposition(c, m, pending) \in {"write", "discard"} =>
              m.type # "manifest" /\ m.item \in pending
         /\ Disposition(c, m, pending) = "ignore" => m.type = "manifest" \/ m.item \notin pending
<1>1. CASE m.type = "manifest" /\ published[m.item] = "refused"
  BY <1>1 DEF Disposition
<1>2. CASE m.type = "manifest" /\ published[m.item] = "text"
  BY <1>2 DEF Disposition
<1>3. CASE m.type = "manifest" /\ published[m.item] \notin {"refused", "text"}
  <2>1. Disposition(c, m, pending) =
          IF Cardinality(pending) >= MaxPending \/ m.item \in pending THEN "ignore" ELSE "mkdir"
    BY <1>3 DEF Disposition
  <2> QED  BY <1>3, <2>1
<1>4. CASE m.type # "manifest"
  <2>1. CASE m.item \notin pending
    BY <1>4, <2>1 DEF Disposition
  <2>2. CASE m.item \in pending /\ ~WellPlaced(c, m)
    BY <1>4, <2>2 DEF Disposition
  <2>3. CASE m.item \in pending /\ WellPlaced(c, m)
    BY <1>4, <2>3 DEF Disposition
  <2> QED  BY <2>1, <2>2, <2>3
<1> QED  BY <1>1, <1>2, <1>3, <1>4

LEMMA ReceiveSteps ==
  ASSUME TypeInv, NEW c \in Conns, Receive(c)
  PROVE  ReceiverStep(c)
<1>0. /\ rcv \in [Conns -> RcvType] /\ wire \in [Conns -> Seq(Messages)] /\ faults \in 0..MaxFaults
      /\ MaxFaults \in Nat /\ DOMAIN incoming = Conns
  BY ConstantsAssumption DEF TypeInv, RcvInv, StreamInv, CopiesInv
<1> DEFINE m == Head(wire[c])
<1>1. /\ rcv[c].open /\ rcv[c].pc = "idle" /\ wire[c] # <<>>
      /\ wire' = [wire EXCEPT ![c] = Tail(wire[c])]
      /\ UNCHANGED <<sndVars, conns, applied, cache, kept, detached, orphaned, pruneVars>>
  BY DEF Receive
<1>2. m \in Messages /\ Tail(wire[c]) \in Seq(Messages)
  BY <1>0, <1>1
<1>3. wire' \in [Conns -> Seq(Messages)] /\ wire'[c] = Tail(wire[c])
      /\ \A d \in Conns \ {c} : wire'[d] = wire[d]
  BY <1>0, <1>1, <1>2
<1>4. PICK stale \in SUBSET DOMAIN incoming[c] :
         LET what == Disposition(c, m, DOMAIN incoming[c] \ stale)
             dropped == stale \cup (IF what = "discard" THEN {m.item} ELSE {})
         IN  /\ IF stale = {} THEN UNCHANGED faults ELSE Fault
             /\ incoming' = [incoming EXCEPT ![c] = Without(c, dropped)]
             /\ cleanup' = cleanup \cup dropped
             /\ rcv' = IF what \in {"ignore", "discard"} THEN rcv
                       ELSE [rcv EXCEPT ![c].pc = what, ![c].msg = m]
  BY DEF Receive
<1> DEFINE what == Disposition(c, m, DOMAIN incoming[c] \ stale)
           dropped == stale \cup (IF what = "discard" THEN {m.item} ELSE {})
           pc == IF what \in {"ignore", "discard"} THEN "idle" ELSE what
<1>5. /\ what \in {"ignore", "apply", "mkdir", "discard", "write"}
      /\ what = "mkdir" => m.type = "manifest" /\ published[m.item] \notin {"refused", "text"}
      /\ what = "apply" => m.type = "manifest" /\ published[m.item] = "text"
      /\ what \in {"write", "discard"} =>
           m.type # "manifest" /\ m.item \in DOMAIN incoming[c] \ stale
      /\ what = "ignore" => m.type = "manifest" \/ m.item \notin DOMAIN incoming[c] \ stale
  BY DispositionFacts
<1>6. /\ IF stale = {} THEN UNCHANGED faults ELSE Fault
      /\ incoming' = [incoming EXCEPT ![c] = Without(c, dropped)]
      /\ cleanup' = cleanup \cup dropped
      /\ rcv' = IF what \in {"ignore", "discard"} THEN rcv
                ELSE [rcv EXCEPT ![c].pc = what, ![c].msg = m]
  BY <1>4
<1>7. m.type # "manifest" => m.type = "chunk"
  BY <1>2, MessageFacts DEF TypeInv
<1> HIDE DEF m, what
<1>8. /\ rcv' \in [Conns -> RcvType] /\ rcv'[c].open /\ rcv'[c].pc = pc
      /\ (pc # "idle" => rcv'[c].msg = m)
      /\ \A d \in Conns \ {c} : rcv'[d] = rcv[d]
  <2>1. CASE what \in {"ignore", "discard"}
    BY <1>0, <1>1, <1>6, <2>1
  <2>2. CASE what \in {"apply", "mkdir", "write"}
    <3>1. rcv' = [rcv EXCEPT ![c].pc = what, ![c].msg = m]
      BY <1>6, <2>2
    <3> QED  BY <1>0, <1>1, <1>2, <2>2, <3>1 DEF RcvType
  <2> QED  BY <1>5, <2>1, <2>2
<1>9. dropped \in SUBSET DOMAIN incoming[c]
  BY <1>5
<1> HIDE DEF dropped
<1>10. /\ DOMAIN incoming' = Conns
       /\ Drops(c, dropped)
       /\ \A d \in Conns \ {c} : incoming'[d] = incoming[d]
  BY <1>6, WithoutFacts DEF Drops
<1>11. faults' \in faults..MaxFaults
  BY <1>0, <1>6 DEF Fault
<1>12. ReceiverStays(c) /\ UNCHANGED evicted
  BY <1>1, <1>3, <1>8, <1>10, <1>11 DEF ReceiverStays, pruneVars
<1>13. pc \in {"idle", "mkdir", "apply", "write"}
  BY <1>5
<1>14. pc = "write" => m.item \in DOMAIN incoming[c] \ dropped
  BY <1>5 DEF dropped
<1>15. Reads(c, m, pc, dropped)
  <2>1. /\ pc = "mkdir" => m.type = "manifest" /\ published[m.item] \notin {"refused", "text"}
        /\ pc = "apply" => m.type = "manifest" /\ published[m.item] = "text"
        /\ pc = "write" => m.type = "chunk"
        /\ pc = "idle" => m.type = "manifest" \/ m.item \notin DOMAIN incoming[c] \ dropped
    BY <1>5, <1>7 DEF dropped
  <2>2. m = Head(wire[c])
    BY DEF m
  <2> HIDE DEF pc
  <2> QED  BY <1>1, <1>3, <1>8, <1>9, <1>10, <1>12, <1>14, <2>1, <2>2 DEF Reads
<1> QED  BY <1>2, <1>9, <1>12, <1>13, <1>15 DEF ReceiverStep

LEMMA SeqExcept ==
  ASSUME NEW S, NEW q \in Seq(S), NEW f \in DOMAIN q, NEW e \in S
  PROVE  [q EXCEPT ![f] = e] \in Seq(S)
<1>1. q \in [1..Len(q) -> S] /\ Len(q) \in Nat
  OBVIOUS
<1>2. [q EXCEPT ![f] = e] \in [1..Len(q) -> S]
  BY <1>1
<1> QED  BY <1>1, <1>2

\* Nothing was received yet, and what is received next.
LEMMA NothingReceivedType ==
  ASSUME TypeInv, NEW i \in Made
  PROVE  NothingReceived(i) \in PendingType /\ NothingReceived(i).ended = {}
<1>1. Files(i) = 1..Len(SizesOf(i)) /\ Len(SizesOf(i)) \in Nat
  BY FilesFacts DEF TypeInv
<1>2. <<>> \in Seq({0, 1})
  OBVIOUS
<1>3. [f \in Files(i) |-> <<>>] \in GotType
  BY <1>1, <1>2 DEF GotType
<1> QED  BY <1>3 DEF NothingReceived, PendingType

LEMMA ReceivedType ==
  ASSUME TypeInv, NEW c \in Conns, rcv[c].pc = "write"
  PROVE  /\ Received(c) \in PendingType /\ Received(c).got \in GotType
         /\ Received(c).ended = incoming[c][Item(c)].ended \cup
              (IF rcv[c].msg.eof THEN {rcv[c].msg.file} ELSE {})
<1> DEFINE m == rcv[c].msg
           p == incoming[c][m.item]
<1>1. p \in PendingType /\ m.eof \in BOOLEAN /\ m.file \in Nat /\ m.unit \in {0, 1}
  <2>1. m \in Messages /\ m.type = "chunk" /\ m.item \in DOMAIN incoming[c]
    BY DEF TypeInv, RcvInv, Item
  <2>2. p \in PendingType
    BY <2>1 DEF TypeInv, RcvInv
  <2> QED  BY <2>1, <2>2, MessageFacts DEF TypeInv
<1>2. CASE m.eof
  <2>1. Received(c) = [p EXCEPT !.ended = p.ended \cup {m.file}]
    BY <1>2 DEF Received
  <2> HIDE DEF p, m
  <2>2. Received(c) \in PendingType /\ Received(c).ended = p.ended \cup {m.file}
    BY <1>1, <2>1 DEF PendingType
  <2> QED  BY <1>2, <2>2 DEF p, m, Item, PendingType
<1>3. CASE ~m.eof
  <2> DEFINE u == Append(p.got[m.file], m.unit)
             g == [p.got EXCEPT ![m.file] = u]
  <2>1. Received(c) = [p EXCEPT !.got = g]
    BY <1>3 DEF Received
  <2> HIDE DEF p, m
  <2>2. p.got \in Seq(Seq({0, 1}))
    BY <1>1 DEF PendingType, GotType
  <2>3. g \in GotType
    <3>1. CASE m.file \in DOMAIN p.got
      <4>1. p.got[m.file] \in Seq({0, 1})
        BY <2>2, <3>1
      <4>2. u \in Seq({0, 1})
        BY <1>1, <4>1
      <4> HIDE DEF u
      <4> QED  BY <2>2, <3>1, <4>2, SeqExcept DEF GotType
    <3>2. CASE m.file \notin DOMAIN p.got
      <4>1. g = p.got
        BY <2>2, <3>2
      <4> QED  BY <2>2, <4>1 DEF GotType
    <3> QED  BY <3>1, <3>2
  <2> HIDE DEF g
  <2>4. Received(c) \in PendingType /\ Received(c).ended = p.ended
    BY <1>1, <2>1, <2>3 DEF PendingType
  <2> QED  BY <1>3, <2>4 DEF p, m, Item, PendingType
<1> QED  BY <1>1, <1>2, <1>3

LEMMA HandlerSteps ==
  ASSUME TypeInv, NEW c \in Conns,
         \/ MakeDir(c) \/ MakeSubdirs(c) \/ WriteChunk(c) \/ Verify(c) \/ Apply(c)
         \/ MakeDirFails(c) \/ MakeSubdirsFails(c) \/ WriteChunkFails(c) \/ VerifyFails(c)
         \/ ApplyFails(c)
  PROVE  ReceiverStep(c)
<1>0. /\ rcv \in [Conns -> RcvType] /\ faults \in 0..MaxFaults /\ MaxFaults \in Nat
      /\ DOMAIN incoming = Conns
  BY ConstantsAssumption DEF TypeInv, RcvInv, CopiesInv
<1>1. rcv[c].pc # "idle"
  BY DEF MakeDir, MakeSubdirs, WriteChunk, Verify, Apply, MakeDirFails, MakeSubdirsFails,
         WriteChunkFails, VerifyFails, ApplyFails
<1>2. rcv[c].open /\ rcv[c].msg \in Messages /\ Item(c) \in Made /\ rcv[c].msg.item = Item(c)
  BY <1>1, MessageFacts DEF TypeInv, RcvInv, Item
<1>s. ASSUME rcv' \in [Conns -> RcvType], rcv'[c].open, DOMAIN incoming' = Conns,
             \A d \in Conns \ {c} : rcv'[d] = rcv[d] /\ incoming'[d] = incoming[d],
             UNCHANGED <<sndVars, conns, wire, orphaned, detached, prunes, run, stopped>>,
             faults' = faults \/ Fault
      PROVE  ReceiverStays(c)
  BY <1>0, <1>2, <1>s DEF ReceiverStays, Fault
<1>3. CASE MakeDir(c)
  <2>1. rcv' = [rcv EXCEPT ![c].pc = "mkdirs"] /\ rcv[c].pc = "mkdir"
        /\ cache' = cache \cup {Item(c)}
        /\ UNCHANGED <<sndVars, conns, wire, incoming, applied, kept, cleanup, detached,
                       orphaned, prunes, run, stopped, evicted, faults>>
    BY <1>3 DEF MakeDir, taskVars, pruneVars
  <2>2. ReceiverStays(c)
    BY <1>0, <1>2, <1>s, <2>1, TurnFacts
  <2>3. Makes(c)
    BY <2>1, TurnFacts DEF Makes, Turns
  <2> QED  BY <2>2, <2>3 DEF ReceiverStep
<1>4. CASE MakeSubdirs(c)
  <2>1. /\ rcv[c].pc = "mkdirs" /\ cache' = cache \cup {Item(c)}
        /\ UNCHANGED <<sndVars, conns, wire, applied, cleanup, detached, orphaned, prunes, run,
                       stopped, evicted, faults>>
    BY <1>4 DEF MakeSubdirs, pruneVars
  <2>2. CASE published[Item(c)] = "folder"
    <3>1. /\ rcv' = [rcv EXCEPT ![c].pc = "apply"] /\ kept' = kept \cup {Item(c)}
          /\ UNCHANGED incoming
      BY <1>4, <2>2 DEF MakeSubdirs
    <3>2. ReceiverStays(c)
      BY <1>0, <1>2, <1>s, <2>1, <3>1, TurnFacts
    <3>3. Keeps(c)
      BY <2>1, <2>2, <3>1, TurnFacts DEF Keeps, Turns
    <3> QED  BY <3>2, <3>3 DEF ReceiverStep
  <2>3. CASE published[Item(c)] # "folder"
    <3> DEFINE p == NothingReceived(Item(c))
               ps == [i \in DOMAIN incoming[c] \cup {Item(c)} |->
                        IF i = Item(c) THEN NothingReceived(i) ELSE incoming[c][i]]
    <3>1. /\ rcv' = Idle(c) /\ UNCHANGED kept
          /\ incoming' = [incoming EXCEPT ![c] = ps]
      BY <1>4, <2>3 DEF MakeSubdirs
    <3>2. /\ DOMAIN ps = DOMAIN incoming[c] \cup {Item(c)} /\ ps[Item(c)] = p
          /\ \A i \in DOMAIN incoming[c] \ {Item(c)} : ps[i] = incoming[c][i]
      OBVIOUS
    <3>3. p \in PendingType /\ p.ended = {}
      BY <1>2, NothingReceivedType
    <3> HIDE DEF ps, p
    <3>4. /\ DOMAIN incoming' = Conns /\ incoming'[c] = ps
          /\ \A d \in Conns \ {c} : incoming'[d] = incoming[d]
      BY <1>0, <3>1
    <3>5. ReceiverStays(c)
      BY <1>s, <2>1, <3>1, <3>4, IdleFacts
    <3>6. Opens(c)
      BY <2>1, <2>3, <3>1, <3>2, <3>3, <3>4, IdleFacts DEF Opens
    <3> QED  BY <3>5, <3>6 DEF ReceiverStep
  <2> QED  BY <2>2, <2>3
<1>5. CASE WriteChunk(c)
  <2>1. /\ rcv[c].pc = "write"
        /\ UNCHANGED <<sndVars, conns, wire, applied, diskVars, faults>>
    BY <1>5 DEF WriteChunk
  <2>2. UNCHANGED <<cache, kept, cleanup, detached, orphaned, prunes, run, stopped, evicted>>
    BY <2>1 DEF diskVars, taskVars, pruneVars
  <2>3. /\ Received(c) \in PendingType /\ Received(c).got \in GotType
        /\ Received(c).ended = incoming[c][Item(c)].ended \cup
             (IF rcv[c].msg.eof THEN {rcv[c].msg.file} ELSE {})
    BY <2>1, ReceivedType
  <2>4. CASE Received(c).ended = Files(Item(c))
    <3>1. /\ rcv' = [rcv EXCEPT ![c].pc = "verify", ![c].got = Received(c).got]
          /\ incoming' = [incoming EXCEPT ![c] = Without(c, {Item(c)})]
      BY <1>5, <2>4 DEF WriteChunk
    <3>2. /\ rcv' \in [Conns -> RcvType] /\ rcv'[c].open /\ rcv'[c].pc = "verify"
          /\ rcv'[c].msg = rcv[c].msg /\ \A d \in Conns \ {c} : rcv'[d] = rcv[d]
      BY <1>0, <1>2, <2>3, <3>1 DEF RcvType
    <3>3. ReceiverStays(c)
      BY <1>s, <2>1, <2>2, <3>1, <3>2, WithoutFacts
    <3>4. Completes(c)
      <4>1. /\ DOMAIN incoming'[c] = DOMAIN incoming[c] \ {Item(c)}
            /\ \A i \in DOMAIN incoming[c] \ {Item(c)} : incoming'[c][i] = incoming[c][i]
        BY <3>1, WithoutFacts
      <4>2. Files(Item(c)) =
              incoming[c][Item(c)].ended \cup (IF rcv[c].msg.eof THEN {rcv[c].msg.file} ELSE {})
        BY <2>3, <2>4
      <4>3. UNCHANGED <<wire, applied, cache, kept, cleanup, evicted>>
        BY <2>1, <2>2
      <4> QED  BY <2>1, <3>2, <4>1, <4>2, <4>3 DEF Completes, Turns
    <3> QED  BY <3>3, <3>4 DEF ReceiverStep
  <2>5. CASE Received(c).ended # Files(Item(c))
    <3>1. /\ rcv' = Idle(c)
          /\ incoming' = [incoming EXCEPT ![c][Item(c)] = Received(c)]
      BY <1>5, <2>5 DEF WriteChunk
    <3>2. Item(c) \in DOMAIN incoming[c]
      BY <2>1 DEF TypeInv, RcvInv
    <3>3. /\ DOMAIN incoming' = Conns /\ DOMAIN incoming'[c] = DOMAIN incoming[c]
          /\ incoming'[c][Item(c)] = Received(c)
          /\ \A i \in DOMAIN incoming[c] \ {Item(c)} : incoming'[c][i] = incoming[c][i]
          /\ \A d \in Conns \ {c} : incoming'[d] = incoming[d]
      BY <1>0, <3>1, <3>2
    <3>4. ReceiverStays(c)
      BY <1>s, <2>1, <2>2, <3>1, <3>3, IdleFacts
    <3>5. Writes(c)
      BY <2>1, <2>2, <2>3, <2>5, <3>1, <3>3, IdleFacts DEF Writes
    <3> QED  BY <3>4, <3>5 DEF ReceiverStep
  <2> QED  BY <2>4, <2>5
<1>6. CASE Verify(c)
  <2>1. /\ rcv[c].pc = "verify" /\ Item(c) \in cache /\ HashMatches(Item(c), rcv[c].got)
        /\ kept' = kept \cup {Item(c)} /\ evicted' = evicted \ {Item(c)}
        /\ rcv' = [rcv EXCEPT ![c].pc = "apply"]
        /\ UNCHANGED <<sndVars, conns, wire, incoming, applied, cache, cleanup, detached, orphaned,
                       prunes, run, stopped, faults>>
    BY <1>6 DEF Verify
  <2>2. ReceiverStays(c)
    BY <1>0, <1>2, <1>s, <2>1, TurnFacts
  <2>3. Keeps(c)
    BY <2>1, TurnFacts DEF Keeps, Turns, HashMatches
  <2> QED  BY <2>2, <2>3 DEF ReceiverStep
<1>7. CASE Apply(c)
  <2>1. /\ rcv[c].pc = "apply" /\ applied' = OnClipboard(c) /\ rcv' = Idle(c)
        /\ UNCHANGED <<sndVars, conns, wire, incoming, cache, kept, cleanup, detached, orphaned,
                       prunes, run, stopped, evicted, faults>>
    BY <1>7 DEF Apply, diskVars, taskVars, pruneVars
  <2>2. ReceiverStays(c)
    BY <1>0, <1>s, <2>1, IdleFacts
  <2>3. Applies(c)
    BY <2>1, IdleFacts DEF Applies
  <2> QED  BY <2>2, <2>3 DEF ReceiverStep
<1>8. CASE MakeDirFails(c) \/ ApplyFails(c)
  <2>1. /\ rcv[c].pc \in {"mkdir", "apply"} /\ rcv' = Idle(c) /\ (faults' = faults \/ Fault)
        /\ UNCHANGED <<sndVars, conns, wire, incoming, applied, cache, kept, cleanup, detached,
                       orphaned, prunes, run, stopped, evicted>>
    BY <1>8 DEF MakeDirFails, ApplyFails, diskVars, taskVars, pruneVars
  <2>2. ReceiverStays(c)
    BY <1>0, <1>s, <2>1, IdleFacts
  <2>3. GivesUp(c, {})
    BY <2>1, IdleFacts DEF GivesUp
  <2> QED  BY <2>2, <2>3 DEF ReceiverStep
<1>9. CASE MakeSubdirsFails(c) \/ VerifyFails(c)
  <2>1. /\ rcv[c].pc \in {"mkdirs", "verify"} /\ rcv' = Idle(c) /\ (faults' = faults \/ Fault)
        /\ cleanup' = cleanup \cup {Item(c)}
        /\ UNCHANGED <<sndVars, conns, wire, incoming, applied, cache, kept, detached, orphaned,
                       prunes, run, stopped, evicted>>
    BY <1>9 DEF MakeSubdirsFails, VerifyFails, pruneVars
  <2>2. ReceiverStays(c)
    BY <1>0, <1>s, <2>1, IdleFacts
  <2>3. GivesUp(c, {Item(c)})
    BY <2>1, IdleFacts DEF GivesUp
  <2> QED  BY <2>2, <2>3 DEF ReceiverStep
<1>10. CASE WriteChunkFails(c)
  <2>1. /\ rcv[c].pc = "write" /\ rcv' = Idle(c) /\ (faults' = faults \/ Fault)
        /\ incoming' = [incoming EXCEPT ![c] = Without(c, {Item(c)})]
        /\ cleanup' = cleanup \cup {Item(c)}
        /\ UNCHANGED <<sndVars, conns, wire, applied, cache, kept, detached, orphaned, prunes, run,
                       stopped, evicted>>
    BY <1>10 DEF WriteChunkFails, pruneVars
  <2>2. ReceiverStays(c)
    BY <1>s, <2>1, IdleFacts, WithoutFacts
  <2>3. GivesUp(c, {Item(c)})
    BY <2>1, IdleFacts, WithoutFacts DEF GivesUp
  <2> QED  BY <2>2, <2>3 DEF ReceiverStep
<1> QED  BY <1>3, <1>4, <1>5, <1>6, <1>7, <1>8, <1>9, <1>10

-----------------------------------------------------------------------------
(* What a step that closes receivers does, and the work that outlives them.*)

\* Items of which a prune_cache took something, or is about to.
Taken == evicted \cup Evicting

\* Items with a directory, a prune_cache that lists one, or an operation that
\* may make one.
Present == cache \cup {d[1] : d \in detached} \cup UNION {Found(p) : p \in Runs}

Closes(C) ==
  /\ C \subseteq Conns
  /\ UNCHANGED <<sndVars, conns, cache, kept, orphaned>>
  /\ faults' \in faults..MaxFaults
  /\ rcv' = [c \in Conns |-> IF c \in C THEN RcvClosed ELSE rcv[c]]
  /\ incoming' = [c \in Conns |-> IF c \in C THEN <<>> ELSE incoming[c]]
  /\ wire' = [c \in Conns |-> IF c \in C THEN <<>> ELSE wire[c]]
  /\ \/ UNCHANGED applied
     \/ \E c \in C : rcv[c].pc = "apply" /\ applied' = OnClipboard(c)
  /\ cleanup' \subseteq cleanup \cup UNION {Owned(c) : c \in C}
  /\ cache \cap (cleanup \cup UNION {Owned(c) : c \in C}) \subseteq cleanup' \cup stopped'
  /\ stopped \subseteq stopped' /\ stopped' \subseteq Made
  /\ detached' \subseteq Made \X {"mkdir", "mkdirs", "write"}
  /\ detached' \subseteq detached \/ \E c \in C : rcv[c].open
  /\ evicted \subseteq evicted' /\ evicted' \subseteq Made /\ Taken \subseteq Taken'
  /\ PrunesTyped'
  /\ \A p \in Runs : prunes'[p] = prunes[p] \/ (prunes'[p].pc # "remove" /\ Found(p)' = {})

DiskStep ==
  /\ UNCHANGED <<sndVars, conns, wire, rcvVars, kept, stopped, run, faults>>
  /\ cleanup' \subseteq cleanup /\ detached' \subseteq detached
  /\ cache' \ cache \subseteq orphaned'
  /\ cache' \cap cleanup \subseteq cleanup' \cup orphaned'
  /\ \A i \in cache \ cache' : \/ i \in cleanup
                              \/ /\ i \in evicted'
                                 /\ \E p \in Runs : prunes[p].pc = "remove" /\ i \in prunes[p].todo
  /\ orphaned \subseteq orphaned' /\ orphaned' \subseteq Made
  /\ evicted \subseteq evicted' /\ evicted' \subseteq Made /\ Taken \subseteq Taken'
  /\ Present' \subseteq Present
  /\ PrunesTyped'
  /\ UNCHANGED prunes \/ \E p \in Runs : Pruning(p)

LEMMA OwnedMade ==
  ASSUME TypeInv, NEW c \in Conns
  PROVE  Owned(c) \subseteq Made
<1>1. DOMAIN incoming[c] \subseteq Made
  BY DEF TypeInv, RcvInv
<1>2. rcv[c].pc # "idle" => Item(c) \in Made
  BY MessageFacts DEF TypeInv, RcvInv, Item
<1> QED  BY <1>1, <1>2 DEF Owned

\* A connection that ends leaves prune_cache alone.
LEMMA PrunesStay ==
  ASSUME TypeInv, UNCHANGED <<published, prunes, run>>, faults' \in faults..MaxFaults
  PROVE  /\ PrunesTyped'
         /\ \A p \in Runs : prunes'[p] = prunes[p] /\ Found(p)' = Found(p)
         /\ evicted \subseteq evicted' => Taken \subseteq Taken'
<1>1. Made' = Made /\ faults \in 0..MaxFaults /\ faults' \in Nat /\ faults <= faults' /\ MaxFaults \in Nat
  BY CopiesSame, ConstantsAssumption DEF TypeInv, CopiesInv
<1>2. run' \in 0..faults'
  BY <1>1 DEF TypeInv, DiskInv, PrunesTyped
<1>3. PrunesTyped'
  BY <1>1, <1>2 DEF TypeInv, DiskInv, PrunesTyped, Found
<1> QED  BY <1>3 DEF Found, Taken, Evicting

\* A new prune_cache starts where none runs.
LEMMA PruneStarts ==
  ASSUME TypeInv, Reload
  PROVE  /\ PrunesTyped' /\ Taken \subseteq Taken'
         /\ \A p \in Runs : prunes'[p] = prunes[p] \/ (prunes'[p].pc # "remove" /\ Found(p)' = {})
<1>1. PICK n : n = run'
  OBVIOUS
<1>2. /\ prunes[run].pc # "failed" /\ faults < MaxFaults /\ faults' = faults + 1
      /\ n = (IF prunes[run].pc = "none" THEN run ELSE run + 1) /\ run' = n
      /\ prunes' = [prunes EXCEPT ![n] = StartedPrune]
      /\ UNCHANGED <<published, cache, evicted>>
  BY <1>1 DEF Reload, Fault, sndVars
<1>3. /\ DOMAIN prunes = Runs /\ run \in 0..faults /\ faults \in 0..MaxFaults /\ MaxFaults \in Nat
      /\ cache \subseteq Made /\ Made' = Made
  BY <1>2, ConstantsAssumption, CopiesSame DEF TypeInv, CopiesInv, DiskInv, PrunesTyped
<1>4. n \in 0..faults' /\ n \in Runs /\ n >= run
  BY <1>2, <1>3 DEF Runs
<1>5. prunes[n].pc = "none"
  BY <1>2, <1>3, <1>4 DEF TypeInv, DiskInv, PrunesTyped
<1>6. StartedPrune = [pc |-> "scan", todo |-> cache, found |-> <<>>] /\ DOMAIN <<>> = {}
  BY PruneRecords
<1>7. prunes'[n] = StartedPrune /\ DOMAIN prunes' = Runs /\ \A p \in Runs \ {n} : prunes'[p] = prunes[p]
  BY <1>2, <1>3, <1>4
<1>8. PrunesTyped'
  <2> SUFFICES ASSUME NEW p \in Runs
               PROVE  /\ prunes'[p] = [pc |-> prunes'[p].pc, todo |-> prunes'[p].todo,
                                        found |-> prunes'[p].found]
                      /\ prunes'[p].pc \in {"none", "scan", "remove", "failed"}
                      /\ prunes'[p].todo \subseteq Made /\ DOMAIN prunes'[p].found \subseteq Made
                      /\ prunes'[p].pc = "failed" => p = n
                      /\ p > n => prunes'[p].pc = "none"
                      /\ prunes'[p].pc = "remove" => \A i, j \in prunes'[p].todo : i = j
    BY <1>2, <1>3, <1>4, <1>7 DEF PrunesTyped, Found
  <2>1. CASE p = n
    <3>1. n \in Int /\ ~(n > n)
      BY <1>4
    <3> QED  BY <1>3, <1>6, <1>7, <2>1, <3>1
  <2>2. CASE p # n
    <3>1. prunes'[p] = prunes[p] /\ (p > n => p > run)
      BY <1>3, <1>4, <1>7, <2>2 DEF Runs
    <3>2. prunes[p].pc # "failed"
      BY <1>2, <2>2 DEF TypeInv, DiskInv, PrunesTyped
    <3> QED  BY <3>1, <3>2 DEF TypeInv, DiskInv, PrunesTyped, Found
  <2> QED  BY <2>1, <2>2
<1>9. Taken \subseteq Taken'
  BY <1>2, <1>5, <1>7 DEF Taken, Evicting
<1>10. Found(n)' = {} /\ prunes'[n].pc # "remove"
  BY <1>6, <1>7 DEF Found
<1> QED  BY <1>7, <1>8, <1>9, <1>10

LEMMA CloseSteps ==
  ASSUME TypeInv, (\E c \in Conns : ReceiverBreaks(c) \/ ReceiverEof(c)) \/ Reload \/ Restart
  PROVE  \E C \in SUBSET Conns : Closes(C)
<1>0. /\ faults \in 0..MaxFaults /\ MaxFaults \in Nat /\ cache \subseteq Made
      /\ detached \subseteq Made \X {"mkdir", "mkdirs", "write"} /\ stopped \subseteq Made
      /\ evicted \subseteq Made
  BY ConstantsAssumption DEF TypeInv, CopiesInv, DiskInv
<1>1. ASSUME NEW C \in SUBSET Conns, CloseReceivers(C)
      PROVE  /\ detached' \subseteq Made \X {"mkdir", "mkdirs", "write"}
             /\ detached' \subseteq detached \/ \E c \in C : rcv[c].open
  <2>1. \A c \in C : rcv[c].pc # "idle" => Item(c) \in Made /\ rcv[c].open
    BY MessageFacts DEF TypeInv, RcvInv, Item
  <2>2. {<<Item(c), rcv[c].pc>> : c \in {d \in C : rcv[d].pc \in {"mkdir", "mkdirs", "write"}}}
          \subseteq Made \X {"mkdir", "mkdirs", "write"}
    BY <2>1
  <2> QED  BY <1>0, <1>1, <2>1, <2>2 DEF CloseReceivers
<1>3. ASSUME NEW c \in Conns, ReceiverBreaks(c) \/ ReceiverEof(c)
      PROVE  Closes({c})
  <2>1. /\ CloseReceivers({c}) /\ (applied' = applied \/ AppliesCutShort({c}))
        /\ UNCHANGED <<sndVars, conns, cache, kept, orphaned, prunes, run, evicted, stopped>>
        /\ faults' = faults \/ Fault
    BY <1>3 DEF ReceiverBreaks, ReceiverEof, pruneVars
  <2>2. /\ detached' \subseteq Made \X {"mkdir", "mkdirs", "write"}
        /\ detached' \subseteq detached \/ \E d \in {c} : rcv[d].open
    BY <1>1, <2>1
  <2>3. /\ cleanup' = cleanup \cup UNION {Owned(d) : d \in {c}}
        /\ rcv' = [d \in Conns |-> IF d \in {c} THEN RcvClosed ELSE rcv[d]]
        /\ incoming' = [d \in Conns |-> IF d \in {c} THEN <<>> ELSE incoming[d]]
        /\ wire' = [d \in Conns |-> IF d \in {c} THEN <<>> ELSE wire[d]]
    BY <2>1 DEF CloseReceivers
  <2>4. faults' \in faults..MaxFaults
    BY <1>0, <2>1 DEF Fault
  <2>5. \/ UNCHANGED applied
        \/ \E d \in {c} : rcv[d].pc = "apply" /\ applied' = OnClipboard(d)
    BY <2>1 DEF AppliesCutShort
  <2>6. /\ PrunesTyped' /\ Taken \subseteq Taken'
        /\ \A p \in Runs : prunes'[p] = prunes[p]
    BY <2>1, <2>4, PrunesStay DEF sndVars
  <2> QED  BY <1>0, <2>1, <2>2, <2>3, <2>4, <2>5, <2>6 DEF Closes
<1>4. CASE Reload
  <2>1. /\ CloseReceivers(Conns) /\ AppliesCutShort(Conns) /\ Fault
        /\ UNCHANGED <<sndVars, conns, cache, kept, orphaned, evicted, stopped>>
    BY <1>4 DEF Reload
  <2>2. /\ detached' \subseteq Made \X {"mkdir", "mkdirs", "write"}
        /\ detached' \subseteq detached \/ \E c \in Conns : rcv[c].open
    BY <1>1, <2>1
  <2>3. /\ cleanup' = cleanup \cup UNION {Owned(d) : d \in Conns}
        /\ rcv' = [d \in Conns |-> IF d \in Conns THEN RcvClosed ELSE rcv[d]]
        /\ incoming' = [d \in Conns |-> IF d \in Conns THEN <<>> ELSE incoming[d]]
        /\ wire' = [d \in Conns |-> IF d \in Conns THEN <<>> ELSE wire[d]]
    BY <2>1 DEF CloseReceivers
  <2>4. faults' \in faults..MaxFaults
    BY <1>0, <2>1 DEF Fault
  <2>5. \/ UNCHANGED applied
        \/ \E d \in Conns : rcv[d].pc = "apply" /\ applied' = OnClipboard(d)
    BY <2>1 DEF AppliesCutShort
  <2>6. Closes(Conns)
    BY <1>0, <1>4, <2>1, <2>2, <2>3, <2>4, <2>5, PruneStarts DEF Closes
  <2> QED  BY <2>6
<1>5. CASE Restart
  <2>1. /\ rcv' = [c \in Conns |-> RcvClosed]
        /\ incoming' = [c \in Conns |-> <<>>] /\ wire' = [c \in Conns |-> <<>>]
        /\ AppliesCutShort(Conns) /\ Fault
        /\ stopped' = stopped \cup (cache \cap (cleanup \cup UNION {Owned(c) : c \in Conns}))
        /\ cleanup' = {} /\ detached' = {}
        /\ evicted' = evicted \cup Evicting
        /\ run' = 0 /\ prunes' = [p \in Runs |-> IF p = 0 THEN StartedPrune ELSE NoPrune]
        /\ UNCHANGED <<sndVars, conns, cache, kept, orphaned>>
    BY <1>5 DEF Restart
  <2>2. /\ rcv' = [d \in Conns |-> IF d \in Conns THEN RcvClosed ELSE rcv[d]]
        /\ incoming' = [d \in Conns |-> IF d \in Conns THEN <<>> ELSE incoming[d]]
        /\ wire' = [d \in Conns |-> IF d \in Conns THEN <<>> ELSE wire[d]]
    BY <2>1
  <2>3. faults' \in faults..MaxFaults /\ 0 \in 0..faults'
    BY <1>0, <2>1 DEF Fault
  <2>4. \/ UNCHANGED applied
        \/ \E d \in Conns : rcv[d].pc = "apply" /\ applied' = OnClipboard(d)
    BY <2>1 DEF AppliesCutShort
  <2>5. stopped \subseteq stopped' /\ stopped' \subseteq Made
    BY <1>0, <2>1
  <2>6. /\ StartedPrune = [pc |-> "scan", todo |-> cache, found |-> <<>>] /\ DOMAIN <<>> = {}
        /\ NoPrune = [pc |-> "none", todo |-> {}, found |-> <<>>]
    BY PruneRecords
  <2>7. Made' = Made
    BY <2>1, CopiesSame DEF sndVars
  <2>8. /\ PrunesTyped'
        /\ \A p \in Runs : prunes'[p].pc # "remove" /\ Found(p)' = {}
    <3>1. /\ DOMAIN prunes' = Runs
          /\ \A p \in Runs : prunes'[p] = IF p = 0 THEN StartedPrune ELSE NoPrune
      BY <2>1
    <3>2. \A p \in Runs : p > 0 => prunes'[p] = NoPrune
      BY <3>1 DEF Runs
    <3> QED  BY <1>0, <2>1, <2>3, <2>6, <2>7, <3>1, <3>2 DEF PrunesTyped, Found
  <2>9. evicted' \subseteq Made /\ evicted \subseteq evicted' /\ Taken \subseteq Taken'
    <3>1. Evicting \subseteq Made
      BY DEF Evicting, TypeInv, DiskInv, PrunesTyped
    <3> QED  BY <1>0, <2>1, <3>1 DEF Taken
  <2>10. Closes(Conns)
    BY <1>0, <2>1, <2>2, <2>3, <2>4, <2>5, <2>8, <2>9 DEF Closes
  <2> QED  BY <2>10
<1> QED  BY <1>3, <1>4, <1>5

\* What an action of prune_cache makes of it.
LEMMA PruneChanges ==
  ASSUME TypeInv, NEW p \in Runs, NEW pc \in {"none", "scan", "remove", "failed"},
         NEW todo \in SUBSET Made, NEW found, DOMAIN found \subseteq Made,
         prunes[p].pc # "none",
         prunes' = [prunes EXCEPT ![p] = [pc |-> pc, todo |-> todo, found |-> found]],
         UNCHANGED <<published, run, faults>>,
         pc = "failed" => p = run, pc = "remove" => \A i, j \in todo : i = j
  PROVE  /\ PrunesTyped'
         /\ prunes'[p].pc = pc /\ prunes'[p].todo = todo /\ prunes'[p].found = found
         /\ \A q \in Runs \ {p} : prunes'[q] = prunes[q]
<1>1. Made' = Made
  BY CopiesSame
<1>2. /\ DOMAIN prunes' = Runs /\ prunes'[p] = [pc |-> pc, todo |-> todo, found |-> found]
      /\ \A q \in Runs \ {p} : prunes'[q] = prunes[q]
  BY DEF TypeInv, DiskInv, PrunesTyped
<1>3. ~(p > run)
  BY DEF TypeInv, DiskInv, PrunesTyped
<1>4. \A q \in Runs \ {p} : Found(q)' = Found(q)
  BY <1>2 DEF Found
<1>5. Found(p)' = DOMAIN found
  BY <1>2 DEF Found
<1>6. PrunesTyped'
  BY <1>1, <1>2, <1>3, <1>4, <1>5 DEF TypeInv, DiskInv, PrunesTyped
<1> QED  BY <1>2, <1>4, <1>5, <1>6

LEMMA DiskSteps ==
  ASSUME TypeInv, Background \/ \E p \in Runs : Pruning(p)
  PROVE  DiskStep
<1>0. /\ cache \subseteq Made /\ kept \subseteq Made /\ cleanup \subseteq Made
      /\ orphaned \subseteq Made /\ stopped \subseteq Made /\ evicted \subseteq Made
      /\ detached \subseteq Made \X {"mkdir", "mkdirs", "write"}
      /\ faults \in 0..MaxFaults /\ MaxFaults \in Nat
  BY ConstantsAssumption DEF TypeInv, CopiesInv, DiskInv
<1>1. ASSUME UNCHANGED <<sndVars, conns, wire, rcvVars, kept, pruneVars, faults>>,
             cleanup' \subseteq cleanup, detached' \subseteq detached,
             cache' \ cache \subseteq orphaned', cache' \cap cleanup \subseteq cleanup' \cup orphaned',
             cache \ cache' \subseteq cleanup, cache' \subseteq cache \cup {d[1] : d \in detached},
             orphaned \subseteq orphaned', orphaned' \subseteq Made
      PROVE  DiskStep
  <2>1. UNCHANGED <<published, prunes, run, evicted, stopped>> /\ faults' \in faults..MaxFaults
    BY <1>0, <1>1 DEF sndVars, pruneVars
  <2>2. /\ PrunesTyped' /\ Taken \subseteq Taken'
        /\ \A p \in Runs : Found(p)' = Found(p)
    BY <2>1, PrunesStay
  <2>3. Present' \subseteq Present
    BY <1>1, <2>2 DEF Present
  <2> QED  BY <1>0, <1>1, <2>1, <2>2, <2>3 DEF DiskStep
<1>2. ASSUME NEW i \in cleanup, Cleanup(i) \/ DetachedBlocksCleanup(i) \/ PruneBlocksCleanup(i)
      PROVE  DiskStep
  <2>1. i \in Made
    BY <1>0
  <2> QED  BY <1>0, <1>1, <1>2, <2>1 DEF Cleanup, DetachedBlocksCleanup, PruneBlocksCleanup
<1>3. ASSUME NEW d \in detached, DetachedMakes(d[1], d[2]) \/ DetachedWrites(d[1]) PROVE DiskStep
  <2>1. d[1] \in Made /\ d[1] \in {e[1] : e \in detached}
    BY <1>0
  <2> QED  BY <1>0, <1>1, <1>3, <2>1 DEF DetachedMakes, DetachedWrites
<1>4. ASSUME NEW p \in Runs, NEW pc \in {"none", "scan", "remove", "failed"},
             NEW todo \in SUBSET Made, NEW found, DOMAIN found \subseteq Found(p) \cup cache,
             prunes[p].pc # "none",
             prunes' = [prunes EXCEPT ![p] = [pc |-> pc, todo |-> todo, found |-> found]],
             UNCHANGED <<sndVars, conns, wire, rcvVars, taskVars, run, stopped, faults>>,
             pc = "failed" => p = run, pc = "remove" => \A i, j \in todo : i = j,
             prunes[p].pc = "remove" => prunes[p].todo \subseteq todo \cup evicted',
             prunes[p].pc = "remove" /\ todo # {} => pc = "remove",
             cache' \subseteq cache, evicted \subseteq evicted', evicted' \subseteq Made,
             \A i \in cache \ cache' : i \in evicted' /\ prunes[p].pc = "remove" /\ i \in prunes[p].todo,
             Pruning(p)
      PROVE  DiskStep
  <2>1. DOMAIN found \subseteq Made
    BY <1>0, <1>4 DEF TypeInv, DiskInv, PrunesTyped
  <2>2. /\ PrunesTyped' /\ prunes'[p].pc = pc /\ prunes'[p].todo = todo
        /\ Found(p)' = DOMAIN found
        /\ \A q \in Runs \ {p} : prunes'[q] = prunes[q] /\ Found(q)' = Found(q)
    <3>1. UNCHANGED <<published, run, faults>> /\ todo \in SUBSET Made
      BY <1>4 DEF sndVars
    <3>2. /\ prunes[p].pc # "none" /\ (pc = "failed" => p = run)
          /\ prunes' = [prunes EXCEPT ![p] = [pc |-> pc, todo |-> todo, found |-> found]]
          /\ pc = "remove" => \A i, j \in todo : i = j
      BY <1>4
    <3>3. /\ PrunesTyped'
          /\ prunes'[p].pc = pc /\ prunes'[p].todo = todo /\ prunes'[p].found = found
          /\ \A q \in Runs \ {p} : prunes'[q] = prunes[q]
      BY <2>1, <3>1, <3>2, PruneChanges
    <3> QED  BY <3>3 DEF Found
  <2>3. UNCHANGED <<kept, cleanup, detached, orphaned>>
    BY <1>4 DEF taskVars
  <2>4. Taken \subseteq Taken'
    <3> SUFFICES ASSUME NEW q \in Runs, prunes[q].pc = "remove", NEW i \in prunes[q].todo
                 PROVE  i \in evicted' \/ (prunes'[q].pc = "remove" /\ i \in prunes'[q].todo)
      BY <1>4 DEF Taken, Evicting
    <3> QED  BY <1>4, <2>2
  <2>5. Present' \subseteq Present
    BY <1>4, <2>2, <2>3 DEF Present
  <2> QED  BY <1>0, <1>4, <2>2, <2>3, <2>4, <2>5 DEF DiskStep
<1>5. ASSUME NEW p \in Runs, Pruning(p) PROVE DiskStep
  <2>0. /\ prunes[p] = [pc |-> prunes[p].pc, todo |-> prunes[p].todo, found |-> prunes[p].found]
        /\ prunes[p].todo \subseteq Made /\ Found(p) \subseteq Made /\ DOMAIN prunes = Runs
        /\ DOMAIN <<>> = {} /\ Found(p) = DOMAIN prunes[p].found
        /\ prunes[p].pc = "remove" => \A i, j \in prunes[p].todo : i = j
    BY DEF TypeInv, DiskInv, PrunesTyped, Found
  <2>1. CASE PruneFails(p)
    <3>1. PICK pc \in {"none", "failed"} :
            /\ prunes' = [prunes EXCEPT ![p] = [pc |-> pc, todo |-> {}, found |-> <<>>]]
            /\ pc = "failed" => p = run
      <4>1. CASE p = run
        <5>1. [NoPrune EXCEPT !.pc = "failed"] = [pc |-> "failed", todo |-> {}, found |-> <<>>]
          BY PruneRecords
        <5> QED  BY <2>1, <4>1, <5>1 DEF PruneFails
      <4>2. CASE p # run
        BY <2>1, <4>2, PruneRecords DEF PruneFails
      <4> QED  BY <4>1, <4>2
    <3>2. /\ prunes[p].pc # "none"
          /\ evicted' = IF prunes[p].pc = "remove" THEN evicted \cup prunes[p].todo ELSE evicted
          /\ UNCHANGED <<sndVars, conns, wire, rcvVars, cache, taskVars, run, stopped, faults>>
      BY <2>1 DEF PruneFails
    <3>3. evicted \subseteq evicted' /\ evicted' \subseteq Made
      BY <1>0, <2>0, <3>2
    <3> QED  BY <1>4, <1>5, <2>0, <3>1, <3>2, <3>3
  <2>2. CASE Scanned(p)
    <3>1. /\ prunes[p].pc = "scan" /\ prunes[p].todo = {}
          /\ prunes' = [prunes EXCEPT ![p] = [pc |-> "remove", todo |-> {}, found |-> prunes[p].found]]
          /\ UNCHANGED <<sndVars, conns, wire, rcvVars, cache, taskVars, run, evicted, stopped, faults>>
      <4>1. prunes' = [prunes EXCEPT ![p] = [prunes[p] EXCEPT !.pc = "remove"]]
        BY <2>2 DEF Scanned
      <4>2. prunes[p].todo = {}
        BY <2>2 DEF Scanned
      <4>3. [prunes[p] EXCEPT !.pc = "remove"] = [pc |-> "remove", todo |-> {}, found |-> prunes[p].found]
        BY <2>0, <4>2
      <4> QED  BY <2>2, <4>1, <4>2, <4>3 DEF Scanned
    <3> QED  BY <1>0, <1>4, <1>5, <2>0, <3>1
  <2>3. CASE Pruned(p)
    <3>1. /\ prunes[p].pc = "remove" /\ prunes[p].todo = {}
          /\ prunes' = [prunes EXCEPT ![p] = [pc |-> "none", todo |-> {}, found |-> <<>>]]
          /\ UNCHANGED <<sndVars, conns, wire, rcvVars, cache, taskVars, run, evicted, stopped, faults>>
      BY <2>3 DEF Pruned, NoPrune
    <3> QED  BY <1>0, <1>4, <1>5, <2>0, <3>1
  <2>4. ASSUME NEW i \in cache, Measure(p, i) PROVE DiskStep
    <3>1. PICK size \in OnDisk(i) :
            prunes' = [prunes EXCEPT ![p].todo = @ \ {i},
                         ![p].found = [j \in DOMAIN @ \cup {i} |-> IF j = i THEN size ELSE @[j]]]
      BY <2>4 DEF Measure
    <3>2. PICK found : found = [j \in DOMAIN prunes[p].found \cup {i} |->
                                 IF j = i THEN size ELSE prunes[p].found[j]]
      OBVIOUS
    <3>3. prunes' = [prunes EXCEPT ![p].todo = prunes[p].todo \ {i}, ![p].found = found]
      BY <2>0, <3>1, <3>2
    <3>4. prunes[p].pc = "scan"
          /\ UNCHANGED <<sndVars, conns, wire, rcvVars, cache, taskVars, run, evicted, stopped, faults>>
      BY <2>4 DEF Measure
    <3>5. prunes' = [prunes EXCEPT ![p] = [pc |-> "scan", todo |-> prunes[p].todo \ {i}, found |-> found]]
      <4>1. PICK todo : todo = prunes[p].todo \ {i}
        OBVIOUS
      <4>2. p \in DOMAIN prunes
        BY <2>0
      <4>3. [prunes EXCEPT ![p].todo = todo, ![p].found = found]
              = [prunes EXCEPT ![p] = [pc |-> prunes[p].pc, todo |-> todo, found |-> found]]
        BY <2>0, <4>2, PruneFields
      <4> QED  BY <4>3, <3>3, <3>4, <4>1
    <3>6. DOMAIN found \subseteq Found(p) \cup cache
      BY <2>0, <3>2
    <3> QED  BY <1>0, <1>4, <1>5, <2>0, <3>4, <3>5, <3>6
  <2>5. ASSUME NEW i \in prunes[p].todo, Miss(p, i) PROVE DiskStep
    <3>1. /\ prunes[p].pc = "scan" /\ prunes' = [prunes EXCEPT ![p].todo = prunes[p].todo \ {i}]
          /\ UNCHANGED <<sndVars, conns, wire, rcvVars, cache, taskVars, run, evicted, stopped, faults>>
      BY <2>0, <2>5 DEF Miss
    <3>2. prunes' = [prunes EXCEPT ![p] = [pc |-> "scan", todo |-> prunes[p].todo \ {i},
                                           found |-> prunes[p].found]]
      <4>1. [prunes EXCEPT ![p].todo = prunes[p].todo \ {i}]
              = [prunes EXCEPT ![p] = [pc |-> prunes[p].pc, todo |-> prunes[p].todo \ {i},
                                       found |-> prunes[p].found]]
        BY <2>0, PruneFields
      <4> QED  BY <3>1, <4>1
    <3> QED  BY <1>0, <1>4, <1>5, <2>0, <3>1, <3>2
  <2>6. ASSUME NEW i \in cache, TakeOldest(p, i) PROVE DiskStep
    <3>1. /\ prunes[p].pc = "remove" /\ prunes[p].todo = {}
          /\ prunes' = [prunes EXCEPT ![p].todo = {i}]
          /\ UNCHANGED <<sndVars, conns, wire, rcvVars, cache, taskVars, run, evicted, stopped, faults>>
      BY <2>6 DEF TakeOldest
    <3>2. prunes' = [prunes EXCEPT ![p] = [pc |-> "remove", todo |-> {i}, found |-> prunes[p].found]]
      <4>1. [prunes EXCEPT ![p].todo = {i}]
              = [prunes EXCEPT ![p] = [pc |-> prunes[p].pc, todo |-> {i}, found |-> prunes[p].found]]
        BY <2>0, PruneFields
      <4> QED  BY <3>1, <4>1
    <3>3. {i} \in SUBSET Made /\ \A j, k \in {i} : j = k
      BY <1>0
    <3> QED  BY <1>0, <1>4, <1>5, <2>0, <3>1, <3>2, <3>3
  <2>7. ASSUME NEW i \in prunes[p].todo, Evict(p, i) PROVE DiskStep
    <3>1. PICK found : found = [j \in DOMAIN prunes[p].found \ {i} |-> prunes[p].found[j]]
      OBVIOUS
    <3>2. /\ prunes[p].pc = "remove" /\ cache' = cache \ {i} /\ evicted' = evicted \cup {i}
          /\ prunes' = [prunes EXCEPT ![p].todo = {}, ![p].found = found]
          /\ UNCHANGED <<sndVars, conns, wire, rcvVars, taskVars, run, stopped, faults>>
      BY <2>0, <2>7, <3>1 DEF Evict
    <3>3. prunes' = [prunes EXCEPT ![p] = [pc |-> "remove", todo |-> {}, found |-> found]]
      <4>1. PICK todo : todo = {}
        OBVIOUS
      <4>2. p \in DOMAIN prunes
        BY <2>0
      <4>3. [prunes EXCEPT ![p].todo = todo, ![p].found = found]
              = [prunes EXCEPT ![p] = [pc |-> prunes[p].pc, todo |-> todo, found |-> found]]
        BY <2>0, <4>2, PruneFields
      <4> QED  BY <4>3, <3>2, <4>1
    <3>4. DOMAIN found \subseteq Found(p)
      BY <2>0, <3>1
    <3>5. prunes[p].todo = {i} /\ i \in Made
      BY <2>0, <3>2
    <3> QED  BY <1>0, <1>4, <1>5, <2>0, <3>2, <3>3, <3>4, <3>5
  <2> QED  BY <1>5, <2>1, <2>2, <2>3, <2>4, <2>5, <2>6, <2>7 DEF Pruning
<1> QED  BY <1>2, <1>3, <1>5 DEF Background

-----------------------------------------------------------------------------
(* Every step is one of these, a copy, a change of a file or a connection. *)

Step ==
  \/ \E kind \in Kinds : Copy(kind)
  \/ \E i \in Made : \E f \in Files(i) : \E how \in FileStates : Change(i, f, how)
  \/ Connect
  \/ \E c \in Conns : SenderStep(c) \/ ReceiverStep(c)
  \/ \E C \in SUBSET Conns : Closes(C)
  \/ DiskStep
  \/ UNCHANGED vars

LEMMA NextSteps ==
  ASSUME TypeInv, [Next]_vars
  PROVE  Step
<1>1. ASSUME NEW c \in Conns, Sender(c) \/ Receiver(c) \/ Failure(c) PROVE Step
  <2>1. CASE Sender(c) \/ SenderBreaks(c)
    BY <2>1, SenderSteps DEF Step
  <2>2. CASE Receive(c)
    BY <2>2, ReceiveSteps DEF Step
  <2>3. CASE \/ MakeDir(c) \/ MakeSubdirs(c) \/ WriteChunk(c) \/ Verify(c) \/ Apply(c)
             \/ MakeDirFails(c) \/ MakeSubdirsFails(c) \/ WriteChunkFails(c) \/ VerifyFails(c)
             \/ ApplyFails(c)
    BY <2>3, HandlerSteps DEF Step
  <2>4. CASE ReceiverBreaks(c) \/ ReceiverEof(c)
    BY <2>4, CloseSteps DEF Step
  <2> QED  BY <1>1, <2>1, <2>2, <2>3, <2>4 DEF Receiver, Failure
<1>2. CASE Reload \/ Restart
  BY <1>2, CloseSteps DEF Step
<1>3. CASE Background \/ \E p \in Runs : Pruning(p)
  BY <1>3, DiskSteps DEF Step
<1>4. ASSUME NEW i \in 1..Published, NEW f \in Files(i),
             NEW how \in {"rewritten", "longer", "shorter", "gone"}, Change(i, f, how)
      PROVE  Step
  BY <1>4 DEF Step, Made, FileStates
<1>5. CASE Finished \/ UNCHANGED vars
  BY <1>5 DEF Finished, Step
<1>6. CASE Connect \/ \E kind \in Kinds : Copy(kind)
  BY <1>6 DEF Step
<1> QED  BY <1>1, <1>2, <1>3, <1>4, <1>5, <1>6 DEF Next

-----------------------------------------------------------------------------
(* Type correctness.                                                       *)

\* What a step that makes no copy leaves of the types.
LEMMA TypeFrame ==
  ASSUME TypeInv, UNCHANGED <<senderConnects, published, source, conns>>,
         faults' \in faults..MaxFaults
  PROVE  CopiesInv'
BY CopiesSame DEF TypeInv, CopiesInv

LEMMA SenderType == ASSUME TypeInv, NEW c \in Conns, SenderStep(c) PROVE TypeInv'
<1>0. /\ UNCHANGED <<senderConnects, published, source, conns, rcv, incoming, applied,
                     cache, kept, cleanup, detached, orphaned, prunes, run, evicted, stopped>>
      /\ faults' \in faults..MaxFaults
      /\ snd' \in [Conns -> SndType]
      /\ data' \in [Conns -> Seq(Messages)] /\ wire' \in [Conns -> Seq(Messages)]
      /\ \A d \in Conns \ {c} : snd'[d] = snd[d] /\ data'[d] = data[d] /\ wire'[d] = wire[d]
  BY DEF SenderStep, SenderStays, diskVars, taskVars, pruneVars
<1>1. CopiesInv'
  BY TypeFrame DEF SenderStep, SenderStays
<1>2. RcvInv'
  BY <1>0, CopiesSame DEF TypeInv, RcvInv, Item
<1>3. DiskInv'
  BY <1>0, CopiesSame, PrunesStay DEF TypeInv, DiskInv
<1>4. SndInv' /\ StreamInv'
  <2> SUFFICES ASSUME NEW d \in Conns
               PROVE  /\ snd'[d].open => d <= conns /\ snd'[d].next \in 1..(Published + 1)
                      /\ snd'[d].pc # "wait" => /\ snd'[d].open /\ snd'[d].item \in Made
                                                /\ snd'[d].item < snd'[d].next
                                                /\ published[snd'[d].item] # "tooBig"
                      /\ snd'[d].pc \notin {"wait", "check"} => snd'[d].item \in Sendable
                      /\ snd'[d].pc \in {"open", "read"} => snd'[d].file \in Files(snd'[d].item)
                      /\ Len(data'[d]) <= 1 /\ Len(wire'[d]) <= WireCap
                      /\ ~snd'[d].open => data'[d] = <<>>
                      /\ d > conns => data'[d] = <<>> /\ wire'[d] = <<>>
    BY <1>0, CopiesSame DEF SndInv, StreamInv
  <2>0. /\ snd \in [Conns -> SndType]
        /\ data \in [Conns -> Seq(Messages)] /\ wire \in [Conns -> Seq(Messages)]
        /\ snd[d].open => d <= conns /\ snd[d].next \in 1..(Published + 1)
        /\ snd[d].pc # "wait" => /\ snd[d].open /\ snd[d].item \in Made
                                 /\ snd[d].item < snd[d].next
                                 /\ published[snd[d].item] # "tooBig"
        /\ snd[d].pc \notin {"wait", "check"} => snd[d].item \in Sendable
        /\ snd[d].pc \in {"open", "read"} => snd[d].file \in Files(snd[d].item)
        /\ Len(data[d]) <= 1 /\ Len(wire[d]) <= WireCap
        /\ ~snd[d].open => data[d] = <<>>
        /\ d > conns => data[d] = <<>> /\ wire[d] = <<>>
        /\ Published \in Nat /\ conns \in Nat
    BY DEF TypeInv, SndInv, StreamInv, CopiesInv, Published
  <2>1. CASE d # c
    BY <1>0, <2>0, <2>1
  <2>2. CASE d = c /\ Advances(c)
    <3>1. CASE Skips(c)
      BY <1>0, <2>0, <2>2, <3>1 DEF Advances, Skips, SndType
    <3>2. CASE Takes(c)
      BY <1>0, <2>0, <2>2, <3>2 DEF Advances, Takes, SndType, Made
    <3>3. CASE Readies(c)
      BY <1>0, <2>0, <2>2, <3>3 DEF Advances, Readies, SndType
    <3> QED  BY <2>2, <3>1, <3>2, <3>3 DEF Advances
  <2>3. ASSUME d = c, NEW m \in Messages, Emits(c, m)
        PROVE  /\ snd'[d].open => d <= conns /\ snd'[d].next \in 1..(Published + 1)
               /\ snd'[d].pc # "wait" => /\ snd'[d].open /\ snd'[d].item \in Made
                                         /\ snd'[d].item < snd'[d].next
                                         /\ published[snd'[d].item] # "tooBig"
               /\ snd'[d].pc \notin {"wait", "check"} => snd'[d].item \in Sendable
               /\ snd'[d].pc \in {"open", "read"} => snd'[d].file \in Files(snd'[d].item)
               /\ Len(data'[d]) <= 1 /\ Len(wire'[d]) <= WireCap
               /\ ~snd'[d].open => data'[d] = <<>>
               /\ d > conns => data'[d] = <<>> /\ wire'[d] = <<>>
    <3>1. After(m).file # 0 => After(m).file \in Files(m.item)
      BY DEF After
    <3>2. m.item \in Sendable /\ m.item \in Made /\ published[m.item] # "tooBig"
      BY MessageFacts DEF TypeInv, Sendable
    <3>3. Len(<<m>>) = 1
      OBVIOUS
    <3>4. snd[c].pc # "wait"
      BY <2>3 DEF Emits
    <3>5. /\ snd[c].open /\ snd'[c].open /\ wire' = wire /\ data'[c] = <<m>>
          /\ m.item = snd[c].item /\ snd'[c].next = snd[c].next
      BY <2>3 DEF Emits
    <3>6. Len(data'[c]) <= 1
      BY <3>3, <3>5
    <3>7. m.item < snd'[c].next
      BY <2>0, <2>3, <3>4, <3>5
    <3>k. ~(d > conns)
      <4>1. d \in Nat
        BY ConstantsAssumption DEF Conns
      <4> QED  BY <2>0, <2>3, <3>5, <4>1
    <3>w. Len(wire'[d]) <= WireCap
      BY <2>0, <3>5
    <3>8. CASE After(m).file = 0
      <4>1. snd'[c].pc = "wait"
        BY <2>3, <3>8 DEF Emits
      <4> QED  BY <2>0, <2>3, <3>5, <3>6, <3>k, <3>w, <4>1
    <3>9. CASE After(m).file # 0
      <4>1. /\ snd'[c].pc \in {"open", "read"} /\ snd'[c].item = m.item
            /\ snd'[c].file = After(m).file
        BY <2>3, <3>9 DEF Emits
      <4> QED  BY <2>0, <2>3, <3>1, <3>2, <3>5, <3>6, <3>7, <3>9, <3>k, <3>w, <4>1
    <3> QED  BY <3>8, <3>9
  <2>4. CASE d = c /\ Shuts(c)
    BY <1>0, <2>0, <2>4 DEF Shuts, SndClosed
  <2>5. CASE d = c /\ Flushes(c)
    <3>1. Head(data[c]) \in Messages /\ wire[c] \in Seq(Messages)
      BY <2>0, <2>5 DEF Flushes
    <3>2. Len(wire'[c]) = Len(wire[c]) + 1 /\ Len(<<>>) = 0
      BY <2>5, <3>1 DEF Flushes
    <3>3. Len(wire'[c]) <= WireCap
      BY <2>5, <3>1, <3>2, ConstantsAssumption DEF Flushes
    <3>4. ~(c > conns)
      BY <2>0, <2>5 DEF Flushes
    <3> QED  BY <1>0, <2>0, <2>5, <3>2, <3>3, <3>4 DEF Flushes
  <2> QED  BY <2>1, <2>2, <2>3, <2>4, <2>5 DEF SenderStep
<1> QED  BY <1>1, <1>2, <1>3, <1>4 DEF TypeInv

LEMMA CopyType == ASSUME TypeInv, NEW kind \in Kinds, Copy(kind) PROVE TypeInv'
<1>0. /\ UNCHANGED <<senderConnects, conns, snd, data, wire, rcv, incoming, applied, faults>>
      /\ UNCHANGED <<cache, kept, cleanup, detached, orphaned, prunes, run, evicted, stopped>>
      /\ published \in Seq(Kinds) /\ Published \in Nat /\ Published < MaxItems
      /\ published' = Append(published, kind)
      /\ source' = Append(source, [f \in 1..Len(Sizes(kind)) |-> "same"])
  BY DEF Copy, rcvVars, diskVars, taskVars, pruneVars, TypeInv, CopiesInv, Published
<1>1. /\ Published' = Published + 1 /\ Made \subseteq Made' /\ Sendable \subseteq Sendable'
      /\ \A i \in Made : /\ published'[i] = published[i] /\ Files(i)' = Files(i)
                         /\ SizesOf(i)' = SizesOf(i)
      /\ Messages \subseteq Messages' /\ RcvType \subseteq RcvType'
      /\ AppliedType \subseteq AppliedType'
  BY CopyGrows, CopyGrowsTypes DEF TypeInv
<1>2. CopiesInv'
  <2> DEFINE new == [f \in 1..Len(Sizes(kind)) |-> "same"]
  <2> PICK k \in Nat : k = Published + 1
    BY <1>0
  <2>1. /\ source \in Seq(Seq(FileStates)) /\ Len(source) = Published
        /\ \A i \in Made : source[i] \in [Files(i) -> FileStates]
    BY DEF TypeInv, CopiesInv
  <2>2. Len(Sizes(kind)) \in Nat
    BY SizesFacts, ConstantsAssumption
  <2>3. new \in Seq(FileStates)
    BY <2>2 DEF FileStates
  <2>4. /\ source' \in Seq(Seq(FileStates)) /\ Len(source') = k
        /\ source'[k] = new /\ \A i \in Made : source'[i] = source[i]
    <3>1. source' = Append(source, new)
      BY <1>0
    <3> HIDE DEF new
    <3> QED  BY <1>0, <2>1, <2>3, <3>1 DEF Made
  <2>5. published' \in Seq(Kinds) /\ published'[k] = kind /\ k \in Nat /\ k <= MaxItems
    BY <1>0, ConstantsAssumption DEF Published
  <2>6. Files(k)' = 1..Len(Sizes(kind))
    BY <2>5 DEF Files, SizesOf
  <2>7. new \in [Files(k)' -> FileStates]
    BY <2>6 DEF FileStates
  <2>8. \A i \in Made' : i \in Made \/ i = k
    BY <1>0, <1>1 DEF Made
  <2>9. \A i \in Made' : source'[i] \in [Files(i)' -> FileStates]
    BY <1>1, <2>1, <2>4, <2>7, <2>8
  <2> QED
    BY <1>0, <1>1, <2>4, <2>5, <2>9 DEF TypeInv, CopiesInv
<1>3. SndInv'
  <2>1. \A c \in Conns : snd[c].next \in 1..(Published + 1) => snd[c].next \in 1..(Published' + 1)
    BY <1>0, <1>1
  <2>2. \A c \in Conns : snd[c].item \in Sendable => snd[c].item \in Made
    BY DEF Sendable
  <2> SUFFICES ASSUME NEW c \in Conns
               PROVE  /\ snd[c].open => c <= conns /\ snd[c].next \in 1..(Published' + 1)
                      /\ snd[c].pc # "wait" => /\ snd[c].open /\ snd[c].item \in Made'
                                               /\ snd[c].item < snd[c].next
                                               /\ published'[snd[c].item] # "tooBig"
                      /\ snd[c].pc \notin {"wait", "check"} => snd[c].item \in Sendable'
                      /\ snd[c].pc \in {"open", "read"} => snd[c].file \in Files(snd[c].item)'
    BY <1>0 DEF TypeInv, SndInv
  <2>3. /\ snd[c].open => c <= conns /\ snd[c].next \in 1..(Published + 1)
        /\ snd[c].pc # "wait" => /\ snd[c].open /\ snd[c].item \in Made
                                 /\ snd[c].item < snd[c].next
                                 /\ published[snd[c].item] # "tooBig"
        /\ snd[c].pc \notin {"wait", "check"} => snd[c].item \in Sendable
        /\ snd[c].pc \in {"open", "read"} => snd[c].file \in Files(snd[c].item)
    BY DEF TypeInv, SndInv
  <2> PICK i : i = snd[c].item
    OBVIOUS
  <2>4. i \in Made => Files(i)' = Files(i) /\ published'[i] = published[i] /\ i \in Made'
    BY <1>1
  <2> QED  BY <1>0, <1>1, <2>1, <2>2, <2>3, <2>4
<1>4. StreamInv'
  <2>1. Seq(Messages) \subseteq Seq(Messages')
    BY <1>1
  <2> QED  BY <1>0, <2>1 DEF TypeInv, StreamInv
<1>5. RcvInv'
  BY <1>0, <1>1 DEF TypeInv, RcvInv, Item
<1>6. DiskInv'
  <2>1. Seq(AppliedType) \subseteq Seq(AppliedType')
    BY <1>1
  <2>2. UNCHANGED <<prunes, run, faults>> /\ Made \subseteq Made'
    BY <1>0, <1>1
  <2>3. PrunesTyped'
    BY <2>2 DEF TypeInv, DiskInv, PrunesTyped, Found
  <2>4. \A o \in {"mkdir", "mkdirs", "write"}, k \in Made : <<k, o>> \in Made' \X {"mkdir", "mkdirs", "write"}
    BY <2>2
  <2>5. detached' \subseteq Made' \X {"mkdir", "mkdirs", "write"}
    BY <1>0, <2>2, <2>4 DEF TypeInv, DiskInv
  <2> QED  BY <1>0, <1>1, <2>1, <2>2, <2>3, <2>5 DEF TypeInv, DiskInv
<1> QED  BY <1>2, <1>3, <1>4, <1>5, <1>6 DEF TypeInv

LEMMA ChangeType ==
  ASSUME TypeInv, NEW i \in Made, NEW f \in Files(i), NEW how \in FileStates, Change(i, f, how)
  PROVE  TypeInv'
<1>0. /\ UNCHANGED <<senderConnects, published, conns, snd, data, wire, rcv, incoming, applied>>
      /\ UNCHANGED <<cache, kept, cleanup, detached, orphaned, prunes, run, evicted, stopped>>
      /\ faults' \in faults..MaxFaults
      /\ source' = [source EXCEPT ![i][f] = how]
  BY ConstantsAssumption DEF Change, rcvVars, diskVars, taskVars, pruneVars, Fault, TypeInv, CopiesInv
<1>1. CopiesInv'
  <2>1. /\ source \in Seq(Seq(FileStates)) /\ Len(source) = Published
        /\ \A j \in Made : source[j] \in [Files(j) -> FileStates]
    BY DEF TypeInv, CopiesInv
  <2> DEFINE new == [source[i] EXCEPT ![f] = how]
  <2>2. i \in DOMAIN source /\ source[i] \in Seq(FileStates) /\ f \in DOMAIN source[i]
    BY <2>1 DEF Made, TypeInv, CopiesInv
  <2>3. new \in Seq(FileStates) /\ new \in [Files(i) -> FileStates]
    BY <2>1, <2>2, SeqExcept
  <2>4. source' = [source EXCEPT ![i] = new]
    BY <1>0
  <2> HIDE DEF new
  <2>5. source' \in Seq(Seq(FileStates)) /\ Len(source') = Len(source)
    BY <2>1, <2>2, <2>3, <2>4, SeqExcept
  <2>6. \A j \in Made : source'[j] = IF j = i THEN new ELSE source[j]
    BY <2>1, <2>2, <2>4 DEF Made
  <2> QED  BY <1>0, <2>1, <2>3, <2>5, <2>6, CopiesSame DEF TypeInv, CopiesInv
<1>2. DiskInv'
  BY <1>0, CopiesSame, PrunesStay DEF TypeInv, DiskInv
<1> QED
  BY <1>0, <1>1, <1>2, CopiesSame
  DEF TypeInv, SndInv, StreamInv, RcvInv, Item

LEMMA ConnectType == ASSUME TypeInv, Connect PROVE TypeInv'
<1> PICK n : n = conns + 1
  OBVIOUS
<1>0. /\ UNCHANGED <<senderConnects, published, source, data, wire, incoming, applied, faults>>
      /\ UNCHANGED <<cache, kept, cleanup, detached, orphaned, prunes, run, evicted, stopped>>
      /\ conns' = n /\ conns < MaxConns
      /\ snd' = [snd EXCEPT ![n].open = TRUE, ![n].next = Published + 1]
      /\ rcv' = [rcv EXCEPT ![n].open = TRUE]
  BY DEF Connect, diskVars, taskVars, pruneVars
<1>1. /\ conns \in 0..MaxConns /\ MaxConns \in Nat /\ n \in Conns /\ Published \in Nat
      /\ snd \in [Conns -> SndType] /\ rcv \in [Conns -> RcvType]
  BY <1>0, ConstantsAssumption DEF TypeInv, CopiesInv, SndInv, RcvInv, Published, Conns
<1>2. CopiesInv'
  BY <1>0, <1>1, CopiesSame DEF TypeInv, CopiesInv
<1>3. \A c \in Conns : c <= conns => c <= n
  BY <1>1 DEF Conns
<1>4. /\ snd' \in [Conns -> SndType] /\ rcv' \in [Conns -> RcvType]
      /\ snd'[n].open /\ snd'[n].next = Published + 1 /\ rcv'[n].open
      /\ snd'[n].pc = snd[n].pc /\ rcv'[n].pc = rcv[n].pc
      /\ \A c \in Conns \ {n} : snd'[c] = snd[c] /\ rcv'[c] = rcv[c]
  <2>1. Published + 1 \in Nat
    BY <1>1
  <2>2. /\ snd' \in [Conns -> SndType] /\ snd'[n].open /\ snd'[n].next = Published + 1
        /\ snd'[n].pc = snd[n].pc /\ \A c \in Conns \ {n} : snd'[c] = snd[c]
    <3>1. snd' = [snd EXCEPT ![n] = [@ EXCEPT !.open = TRUE, !.next = Published + 1]]
      BY <1>0, <1>1
    <3>2. snd[n] \in SndType
      BY <1>1
    <3>3. /\ [snd[n] EXCEPT !.open = TRUE, !.next = Published + 1] \in SndType
          /\ [snd[n] EXCEPT !.open = TRUE, !.next = Published + 1].open
          /\ [snd[n] EXCEPT !.open = TRUE, !.next = Published + 1].next = Published + 1
          /\ [snd[n] EXCEPT !.open = TRUE, !.next = Published + 1].pc = snd[n].pc
      BY <2>1, <3>2 DEF SndType
    <3> QED  BY <1>1, <3>1, <3>3
  <2>3. /\ rcv' \in [Conns -> RcvType] /\ rcv'[n].open /\ rcv'[n].pc = rcv[n].pc
        /\ \A c \in Conns \ {n} : rcv'[c] = rcv[c]
    BY <1>0, <1>1 DEF RcvType
  <2> QED  BY <2>2, <2>3
<1>5. ~snd[n].open /\ ~rcv[n].open /\ snd[n].pc = "wait" /\ rcv[n].pc = "idle"
  BY <1>1 DEF TypeInv, SndInv, RcvInv
<1>6. SndInv'
  BY <1>0, <1>1, <1>3, <1>4, <1>5, CopiesSame DEF TypeInv, SndInv
<1>7. StreamInv'
  <2>1. \A c \in Conns : c > n => c > conns
    BY <1>1 DEF Conns
  <2>2. data[n] = <<>>
    BY <1>1, <1>5 DEF TypeInv, StreamInv
  <2> QED  BY <1>0, <1>1, <1>4, <2>1, <2>2, CopiesSame DEF TypeInv, StreamInv
<1>8. RcvInv'
  BY <1>0, <1>1, <1>3, <1>4, <1>5, CopiesSame DEF TypeInv, RcvInv, Item
<1>9. DiskInv'
  <2>1. faults' \in faults..MaxFaults
    BY <1>0, ConstantsAssumption DEF TypeInv, CopiesInv
  <2> QED  BY <1>0, <2>1, CopiesSame, PrunesStay DEF TypeInv, DiskInv
<1> QED  BY <1>2, <1>6, <1>7, <1>8, <1>9 DEF TypeInv

LEMMA ReceiverType == ASSUME TypeInv, NEW c \in Conns, ReceiverStep(c) PROVE TypeInv'
<1>0. /\ UNCHANGED <<sndVars, conns, orphaned, prunes, run, stopped>>
      /\ faults' \in faults..MaxFaults
      /\ UNCHANGED detached
      /\ rcv' \in [Conns -> RcvType] /\ rcv[c].open /\ rcv'[c].open
      /\ DOMAIN incoming' = Conns
      /\ \A d \in Conns \ {c} : rcv'[d] = rcv[d] /\ wire'[d] = wire[d] /\ incoming'[d] = incoming[d]
  BY DEF ReceiverStep, ReceiverStays
<1>1. CopiesInv'
  BY <1>0, TypeFrame DEF sndVars
<1>2. SndInv'
  BY <1>0, CopiesSame DEF TypeInv, SndInv, sndVars
<1>3. Item(c) = rcv[c].msg.item /\ (rcv[c].pc # "idle" => rcv[c].msg \in Messages /\ Item(c) \in Made)
  BY MessageFacts DEF TypeInv, RcvInv, Item
<1>4. StreamInv'
  <2>1. wire' \in [Conns -> Seq(Messages)] /\ Len(wire'[c]) <= WireCap /\ c <= conns
    <3>1. /\ wire \in [Conns -> Seq(Messages)] /\ Len(wire[c]) <= WireCap /\ c <= conns
          /\ WireCap \in Nat
      BY <1>0, ConstantsAssumption DEF TypeInv, StreamInv, RcvInv
    <3>2. CASE UNCHANGED wire
      BY <3>1, <3>2
    <3>3. ASSUME NEW m \in Messages, NEW what, NEW dropped, Reads(c, m, what, dropped)
          PROVE  wire' \in [Conns -> Seq(Messages)] /\ Len(wire'[c]) <= WireCap
      <4>1. wire' \in [Conns -> Seq(Messages)] /\ wire[c] # <<>> /\ wire'[c] = Tail(wire[c])
        BY <3>3 DEF Reads
      <4> QED  BY <3>1, <4>1
    <3> QED
      BY <3>1, <3>2, <3>3
      DEF ReceiverStep, Makes, Opens, Writes, Completes, Keeps, Applies, GivesUp
  <2>2. ~(c > conns)
    BY <2>1, ConstantsAssumption DEF Conns, TypeInv, CopiesInv
  <2> QED  BY <1>0, <2>1, <2>2, CopiesSame DEF TypeInv, StreamInv, sndVars
<1>5. RcvInv'
  <2> SUFFICES /\ rcv'[c].pc # "idle" => rcv'[c].msg \in Messages
               /\ rcv'[c].pc = "write" => rcv'[c].msg.type = "chunk" /\ rcv'[c].msg.item \in DOMAIN incoming'[c]
               /\ DOMAIN incoming'[c] \subseteq Made
               /\ \A i \in DOMAIN incoming'[c] : incoming'[c][i] \in PendingType
    <3>1. c <= conns'
      BY <1>0 DEF TypeInv, RcvInv
    <3>2. Messages' = Messages /\ RcvType' = RcvType /\ Made' = Made
      BY <1>0, CopiesSame DEF sndVars
    <3> QED  BY <1>0, <3>1, <3>2 DEF TypeInv, RcvInv, Item
  <2>0. /\ rcv[c].pc # "idle" => rcv[c].msg \in Messages
        /\ DOMAIN incoming[c] \subseteq Made
        /\ \A i \in DOMAIN incoming[c] : incoming[c][i] \in PendingType
    BY DEF TypeInv, RcvInv
  <2>1. ASSUME NEW m \in Messages, NEW what, NEW dropped, Reads(c, m, what, dropped)
        PROVE  /\ rcv'[c].pc # "idle" => rcv'[c].msg \in Messages
               /\ rcv'[c].pc = "write" => rcv'[c].msg.type = "chunk" /\ rcv'[c].msg.item \in DOMAIN incoming'[c]
               /\ DOMAIN incoming'[c] \subseteq Made
               /\ \A i \in DOMAIN incoming'[c] : incoming'[c][i] \in PendingType
    BY <2>0, <2>1 DEF Reads, Drops
  <2>2. CASE Makes(c) \/ Keeps(c)
    BY <2>0, <2>2 DEF Makes, Keeps, Turns
  <2>3. CASE Opens(c)
    BY <1>3, <2>0, <2>3 DEF Opens
  <2>4. CASE Writes(c)
    BY <2>0, <2>4 DEF Writes
  <2>5. CASE Completes(c)
    BY <2>0, <2>5 DEF Completes, Turns
  <2>6. CASE Applies(c)
    BY <2>0, <2>6 DEF Applies
  <2>7. ASSUME NEW items, GivesUp(c, items)
        PROVE  /\ rcv'[c].pc = "idle" /\ DOMAIN incoming'[c] \subseteq DOMAIN incoming[c]
               /\ \A i \in DOMAIN incoming'[c] : incoming'[c][i] = incoming[c][i]
    BY <2>7 DEF GivesUp
  <2> QED  BY <2>0, <2>1, <2>2, <2>3, <2>4, <2>5, <2>6, <2>7 DEF ReceiverStep
<1>6. DiskInv'
  <2>0. DiskInv /\ Made' = Made /\ AppliedType' = AppliedType
    BY <1>0, CopiesSame DEF TypeInv, sndVars
  <2>1. applied' \in Seq(AppliedType)
    <3>1. applied \in Seq(AppliedType)
      BY <2>0 DEF DiskInv
    <3>2. CASE Applies(c)
      <4>1. [conn |-> c, item |-> Item(c), got |-> rcv[c].got] \in AppliedType
        BY <1>3, <3>2 DEF Applies, AppliedType, TypeInv, RcvInv, RcvType
      <4> QED  BY <3>1, <3>2, <4>1 DEF Applies, OnClipboard
    <3>3. CASE UNCHANGED applied
      BY <3>1, <3>3
    <3> QED
      BY <3>2, <3>3 DEF ReceiverStep, Reads, Makes, Opens, Writes, Completes, Keeps, GivesUp
  <2>2. cache' \subseteq Made /\ kept' \subseteq Made /\ cleanup' \subseteq Made /\ evicted' \subseteq Made
    <3>1. cache \subseteq Made /\ kept \subseteq Made /\ cleanup \subseteq Made
          /\ evicted \subseteq Made
          /\ DOMAIN incoming[c] \subseteq Made
      BY <2>0 DEF DiskInv, TypeInv, RcvInv
    <3>2. ASSUME NEW m \in Messages, NEW what, NEW dropped, Reads(c, m, what, dropped)
          PROVE  cache' \subseteq Made /\ kept' \subseteq Made /\ cleanup' \subseteq Made /\ evicted' \subseteq Made
      BY <3>1, <3>2 DEF Reads, Drops
    <3>3. CASE Makes(c) \/ Opens(c) \/ Writes(c) \/ Completes(c) \/ Applies(c)
      BY <1>3, <3>1, <3>3 DEF Makes, Turns, Opens, Writes, Completes, Applies
    <3>4. CASE Keeps(c)
      BY <1>3, <3>1, <3>4 DEF Keeps, Turns
    <3>5. ASSUME NEW items \in SUBSET {Item(c)}, GivesUp(c, items)
          PROVE  cache' \subseteq Made /\ kept' \subseteq Made /\ cleanup' \subseteq Made /\ evicted' \subseteq Made
      BY <1>3, <3>1, <3>5 DEF GivesUp
    <3> QED  BY <3>2, <3>3, <3>4, <3>5 DEF ReceiverStep
  <2>3. PrunesTyped'
    BY <1>0, PrunesStay DEF sndVars
  <2> QED  BY <1>0, <2>0, <2>1, <2>2, <2>3 DEF DiskInv
<1> QED  BY <1>1, <1>2, <1>4, <1>5, <1>6 DEF TypeInv

LEMMA CloseType == ASSUME TypeInv, NEW C \in SUBSET Conns, Closes(C) PROVE TypeInv'
<1>0. /\ UNCHANGED <<sndVars, conns, cache, kept, orphaned>>
      /\ faults' \in faults..MaxFaults
      /\ rcv' = [c \in Conns |-> IF c \in C THEN RcvClosed ELSE rcv[c]]
      /\ incoming' = [c \in Conns |-> IF c \in C THEN <<>> ELSE incoming[c]]
      /\ wire' = [c \in Conns |-> IF c \in C THEN <<>> ELSE wire[c]]
  BY DEF Closes
<1>1. CopiesInv'
  BY <1>0, TypeFrame DEF sndVars
<1>2. SndInv'
  BY <1>0, CopiesSame DEF TypeInv, SndInv, sndVars
<1>3. StreamInv'
  <2>1. <<>> \in Seq(Messages) /\ Len(<<>>) <= WireCap
    BY ConstantsAssumption
  <2>2. wire' \in [Conns -> Seq(Messages)]
    BY <1>0, <2>1 DEF TypeInv, StreamInv
  <2> QED  BY <1>0, <2>1, <2>2, CopiesSame DEF TypeInv, StreamInv, sndVars
<1>4. RcvInv'
  <2>1. RcvClosed \in RcvType /\ RcvClosed.open = FALSE /\ RcvClosed.pc = "idle" /\ DOMAIN <<>> = {}
    BY DEF RcvClosed, RcvType, GotType
  <2>2. rcv' \in [Conns -> RcvType]
    BY <1>0, <2>1 DEF TypeInv, RcvInv
  <2> QED  BY <1>0, <2>1, <2>2, CopiesSame DEF TypeInv, RcvInv, sndVars, Item
<1>5. DiskInv'
  <2>0. DiskInv /\ Made' = Made /\ AppliedType' = AppliedType
    BY <1>0, CopiesSame DEF TypeInv, sndVars
  <2>1. applied' \in Seq(AppliedType)
    <3>1. CASE UNCHANGED applied
      BY <2>0, <3>1 DEF DiskInv
    <3>2. ASSUME NEW c \in C, rcv[c].pc = "apply", applied' = OnClipboard(c)
          PROVE  applied' \in Seq(AppliedType)
      <4>1. [conn |-> c, item |-> Item(c), got |-> rcv[c].got] \in AppliedType
        BY <3>2, MessageFacts DEF AppliedType, TypeInv, RcvInv, RcvType, Item
      <4> QED  BY <2>0, <3>2, <4>1 DEF OnClipboard, DiskInv
    <3> QED  BY <3>1, <3>2 DEF Closes
  <2>2. cleanup' \subseteq Made
    BY <2>0, OwnedMade DEF Closes, DiskInv
  <2> QED  BY <1>0, <2>0, <2>1, <2>2 DEF DiskInv, Closes
<1> QED  BY <1>1, <1>2, <1>3, <1>4, <1>5 DEF TypeInv

LEMMA DiskType == ASSUME TypeInv, DiskStep PROVE TypeInv'
<1>0. /\ UNCHANGED <<senderConnects, published, source, conns, snd, data, wire, rcv, incoming,
                     applied, kept, stopped, faults>>
      /\ cleanup' \subseteq cleanup /\ detached' \subseteq detached
  BY DEF DiskStep, sndVars, rcvVars
<1>1. cache' \subseteq Made
  BY DEF DiskStep, TypeInv, DiskInv
<1>2. CopiesInv'
  BY <1>0, CopiesSame DEF TypeInv, CopiesInv
<1>3. SndInv' /\ StreamInv'
  BY <1>0, CopiesSame DEF TypeInv, SndInv, StreamInv
<1>4. RcvInv'
  BY <1>0, CopiesSame DEF TypeInv, RcvInv, Item
<1>5. DiskInv'
  BY <1>0, <1>1, CopiesSame DEF TypeInv, DiskInv, DiskStep
<1> QED  BY <1>2, <1>3, <1>4, <1>5 DEF TypeInv

LEMMA StepType == ASSUME TypeInv, Step PROVE TypeInv'
<1>1. CASE UNCHANGED vars
  <2>1. /\ UNCHANGED <<senderConnects, published, source, conns, snd, data, wire, rcv, incoming,
                       applied, kept, stopped, faults>>
        /\ UNCHANGED <<cache, kept, cleanup, detached, orphaned, prunes, run, evicted>>
    BY <1>1 DEF vars, sndVars, rcvVars, diskVars, taskVars, pruneVars
  <2>2. faults' \in faults..MaxFaults
    BY <2>1, ConstantsAssumption DEF TypeInv, CopiesInv
  <2>3. DiskInv'
    BY <2>1, <2>2, CopiesSame, PrunesStay DEF TypeInv, DiskInv
  <2> QED
    BY <2>1, <2>3, CopiesSame
    DEF TypeInv, CopiesInv, SndInv, StreamInv, RcvInv, Item
<1> QED
  BY <1>1, CopyType, ChangeType, ConnectType, SenderType, ReceiverType, CloseType, DiskType DEF Step

LEMMA TypeInvariance == Spec => []TypeInv
<1>1. TypeInv /\ [Next]_vars => TypeInv'
  BY NextSteps, StepType
<1> QED  BY InitType, <1>1, PTL DEF Spec

\* Every variable keeps its type, a handler works only for an open connection
\* (run_channel drops it with its connection), and the partial item a chunk is
\* being written to is there (IncomingItems).
THEOREM TypeCorrect == Spec => []TypeOK
<1>1. TypeInv => TypeOK
  <2> SUFFICES ASSUME TypeInv PROVE TypeOK
    OBVIOUS
  <2>1. Made = 1..Published /\ Made \subseteq Items
    BY ConstantsAssumption DEF TypeInv, CopiesInv, Made, Items, Published
  <2>2. /\ senderConnects \in BOOLEAN /\ published \in Seq(Kinds) /\ Published <= MaxItems
        /\ Len(source) = Published /\ conns \in 0..MaxConns /\ faults \in 0..MaxFaults
        /\ \A i \in 1..Published : source[i] \in
             [Files(i) -> {"same", "rewritten", "longer", "shorter", "gone"}]
    BY <2>1 DEF TypeInv, CopiesInv, FileStates
  <2>3. \A c \in Conns :
          /\ snd[c].pc \in {"wait", "check", "manifest", "open", "read"}
          /\ snd[c].pc # "wait" => snd[c].open /\ snd[c].item \in 1..Published
          /\ snd[c].pc \in {"open", "read"} => snd[c].file \in Files(snd[c].item)
          /\ Len(data[c]) <= 1 /\ Len(wire[c]) <= WireCap
    BY <2>1 DEF TypeInv, SndInv, StreamInv, SndType
  <2>4. \A c \in Conns :
          /\ rcv[c].pc \in {"idle", "mkdir", "mkdirs", "write", "verify", "apply"}
          /\ rcv[c].pc # "idle" => rcv[c].open
          /\ rcv[c].pc = "write" => Item(c) \in DOMAIN incoming[c]
          /\ DOMAIN incoming[c] \subseteq Items
    BY <2>1 DEF TypeInv, RcvInv, RcvType
  <2>5. /\ cache \subseteq Items /\ kept \subseteq Items /\ cleanup \subseteq Items
        /\ orphaned \subseteq Items /\ stopped \subseteq Items
        /\ detached \subseteq Items \X {"mkdir", "mkdirs", "write"}
        /\ evicted \subseteq Items
    BY <2>1 DEF TypeInv, DiskInv
  <2>6. /\ run \in 0..faults
        /\ \A p \in Runs : /\ prunes[p].pc \in {"none", "scan", "remove", "failed"}
                           /\ prunes[p].todo \subseteq Items /\ Found(p) \subseteq Items
                           /\ prunes[p].pc = "failed" => p = run
    BY <2>1 DEF TypeInv, DiskInv, PrunesTyped
  <2> QED  BY <2>2, <2>3, <2>4, <2>5, <2>6 DEF TypeOK
<1> QED  BY TypeInvariance, <1>1, PTL

-----------------------------------------------------------------------------
(* What is in the cache.                                                   *)

\* A step of a receiver accounts for what it owned and for what it makes.
LEMMA OwnedStep ==
  ASSUME TypeInv, NEW c \in Conns, ReceiverStep(c)
  PROVE  /\ cache' \subseteq cache \cup kept' \cup Owned(c)'
         /\ Owned(c) \subseteq kept' \cup cleanup' \cup Owned(c)'
         /\ cache \subseteq cache' /\ kept \subseteq kept' /\ cleanup \subseteq cleanup'
         /\ \A d \in Conns \ {c} : Owned(d)' = Owned(d)
<1>0. \A d \in Conns \ {c} : rcv'[d] = rcv[d] /\ incoming'[d] = incoming[d]
  BY DEF ReceiverStep, ReceiverStays
<1>1. \A d \in Conns \ {c} : Owned(d)' = Owned(d)
  BY <1>0 DEF Owned, Item
<1>2. ASSUME NEW m \in Messages, NEW what, NEW dropped, Reads(c, m, what, dropped)
      PROVE  /\ cache' \subseteq cache \cup kept' \cup Owned(c)'
             /\ Owned(c) \subseteq kept' \cup cleanup' \cup Owned(c)'
             /\ cache \subseteq cache' /\ kept \subseteq kept' /\ cleanup \subseteq cleanup'
  BY <1>2 DEF Reads, Drops, Owned
<1>3. CASE Makes(c)
  BY <1>1, <1>3 DEF Makes, Turns, Owned, Item
<1>4. CASE Opens(c)
  BY <1>1, <1>4 DEF Opens, Owned, Item
<1>5. CASE Writes(c)
  BY <1>1, <1>5 DEF Writes, Owned
<1>6. CASE Completes(c)
  BY <1>1, <1>6 DEF Completes, Turns, Owned, Item
<1>7. CASE Keeps(c)
  BY <1>1, <1>7 DEF Keeps, Turns, Owned, Item
<1>8. CASE Applies(c)
  BY <1>1, <1>8 DEF Applies, Owned
<1>9. ASSUME NEW items, GivesUp(c, items)
      PROVE  /\ cache' \subseteq cache \cup kept' \cup Owned(c)'
             /\ Owned(c) \subseteq kept' \cup cleanup' \cup Owned(c)'
             /\ cache \subseteq cache' /\ kept \subseteq kept' /\ cleanup \subseteq cleanup'
  BY <1>9 DEF GivesUp, Owned
<1> QED  BY <1>1, <1>2, <1>3, <1>4, <1>5, <1>6, <1>7, <1>8, <1>9 DEF ReceiverStep

\* A step of neither a receiver nor the disk leaves what it looks at.
LEMMA OwnedFrame ==
  ASSUME TypeInv, \/ \E kind \in Kinds : Copy(kind)
                  \/ \E i \in Made : \E f \in Files(i) : \E how \in FileStates : Change(i, f, how)
                  \/ Connect
                  \/ \E c \in Conns : SenderStep(c)
                  \/ UNCHANGED vars
  PROVE  /\ UNCHANGED <<cache, kept, cleanup, detached, orphaned, stopped, evicted, prunes, run,
                        incoming, applied>>
         /\ \A c \in Conns : /\ rcv'[c].pc = rcv[c].pc /\ rcv'[c].msg = rcv[c].msg
                             /\ rcv'[c].got = rcv[c].got /\ Owned(c)' = Owned(c)
         /\ Connect \/ UNCHANGED rcv
<1>1. /\ UNCHANGED <<cache, kept, cleanup, detached, orphaned, stopped, evicted, prunes, run,
                      incoming, applied>>
      /\ Connect \/ UNCHANGED rcv
  BY DEF Copy, Change, Connect, SenderStep, SenderStays, vars, diskVars, taskVars, pruneVars, rcvVars
<1>2. \A c \in Conns : /\ rcv'[c].pc = rcv[c].pc /\ rcv'[c].msg = rcv[c].msg
                        /\ rcv'[c].got = rcv[c].got
  <2>1. CASE UNCHANGED rcv
    BY <2>1
  <2>2. CASE Connect
    BY <2>2 DEF Connect, TypeInv, RcvInv, RcvType
  <2> QED  BY <1>1, <2>1, <2>2
<1> QED  BY <1>1, <1>2 DEF Owned, Item

LEMMA AccountedStep == ASSUME TypeInv, CacheAccounted, Step PROVE CacheAccounted'
<1>1. ASSUME NEW c \in Conns, ReceiverStep(c) PROVE CacheAccounted'
  <2>1. orphaned' = orphaned /\ stopped' = stopped
    BY <1>1 DEF ReceiverStep, ReceiverStays, pruneVars
  <2> SUFFICES ASSUME NEW i \in cache'
               PROVE  \/ i \in kept' \cup cleanup' \cup orphaned' \cup stopped'
                      \/ \E d \in Conns : i \in Owned(d)'
    BY DEF CacheAccounted
  <2>2. CASE i \in cache
    <3>1. \/ i \in kept \cup cleanup \cup orphaned \cup stopped
          \/ \E d \in Conns : i \in Owned(d)
      BY <2>2 DEF CacheAccounted
    <3> QED  BY <1>1, <2>1, <3>1, OwnedStep
  <2>3. CASE i \notin cache
    BY <1>1, <2>3, OwnedStep
  <2> QED  BY <2>2, <2>3
<1>2. ASSUME NEW C \in SUBSET Conns, Closes(C) PROVE CacheAccounted'
  <2>1. \A d \in Conns \ C : Owned(d)' = Owned(d)
    BY <1>2 DEF Closes, Owned, Item
  <2> SUFFICES ASSUME NEW i \in cache
               PROVE  \/ i \in kept' \cup cleanup' \cup orphaned' \cup stopped'
                      \/ \E d \in Conns : i \in Owned(d)'
    BY <1>2 DEF CacheAccounted, Closes
  <2>2. \/ i \in kept \cup cleanup \cup orphaned \cup stopped
        \/ \E d \in Conns : i \in Owned(d)
    BY DEF CacheAccounted
  <2>3. CASE i \in cleanup \cup UNION {Owned(d) : d \in C}
    BY <1>2, <2>3 DEF Closes
  <2>4. CASE i \notin cleanup \cup UNION {Owned(d) : d \in C}
    BY <1>2, <2>1, <2>2, <2>4 DEF Closes
  <2> QED  BY <2>3, <2>4
<1>3. CASE DiskStep
  <2>1. \A d \in Conns : Owned(d)' = Owned(d)
    BY <1>3 DEF DiskStep, Owned, Item, rcvVars
  <2> SUFFICES ASSUME NEW i \in cache'
               PROVE  \/ i \in kept' \cup cleanup' \cup orphaned' \cup stopped'
                      \/ \E d \in Conns : i \in Owned(d)'
    BY DEF CacheAccounted
  <2>2. CASE i \in cache
    <3>1. \/ i \in kept \cup cleanup \cup orphaned \cup stopped
          \/ \E d \in Conns : i \in Owned(d)
      BY <2>2 DEF CacheAccounted
    <3> QED  BY <1>3, <2>1, <3>1 DEF DiskStep
  <2>3. CASE i \notin cache
    BY <1>3, <2>3 DEF DiskStep
  <2> QED  BY <2>2, <2>3
<1>4. ASSUME \/ \E kind \in Kinds : Copy(kind)
             \/ \E i \in Made : \E f \in Files(i) : \E how \in FileStates : Change(i, f, how)
             \/ Connect
             \/ \E c \in Conns : SenderStep(c)
             \/ UNCHANGED vars
      PROVE  CacheAccounted'
  <2>1. /\ UNCHANGED <<cache, kept, cleanup, orphaned, stopped>>
        /\ \A c \in Conns : Owned(c)' = Owned(c)
    BY <1>4, OwnedFrame
  <2> QED  BY <2>1 DEF CacheAccounted
<1> QED  BY <1>1, <1>2, <1>3, <1>4 DEF Step

\* Every directory of the cache is complete, owned by a handler, about to be
\* removed by the task IncomingItem's Drop spawned, or was left by an operation on
\* the blocking pool that outlived its handler or by a process that ended.
THEOREM CacheAccountedCorrect == Spec => []CacheAccounted
<1>1. Init => CacheAccounted
  BY DEF Init, CacheAccounted
<1>2. TypeInv /\ CacheAccounted /\ [Next]_vars => CacheAccounted'
  BY NextSteps, AccountedStep
<1> QED  BY TypeInvariance, <1>1, <1>2, PTL DEF Spec

-----------------------------------------------------------------------------
(* What is on its way over a connection, in order, and what the sender is  *)
(* at behind it.                                                           *)

Mark(c) ==
  IF snd[c].pc \in {"open", "read"}
  THEN [type |-> "chunk", item |-> snd[c].item, file |-> snd[c].file]
  ELSE Manifest(IF snd[c].pc = "wait" THEN snd[c].next ELSE snd[c].item)

Line(c) == wire[c] \o data[c]
Coming(c) == IF snd[c].open THEN Append(Line(c), Mark(c)) ELSE Line(c)

Marks == [type : {"manifest"}, item : Nat] \cup [type : {"chunk"}, item : Nat, file : Nat] \cup
         Messages

\* A message may come at all after one has got to p, and may be the next.
Before(p, m) == p.item <= m.item /\ (m.type = "manifest" \/ p.file = 0 => p.item < m.item)
Fits(p, m) == IF m.type = "manifest" THEN p.file = 0 ELSE p.item = m.item /\ p.file = m.file

Ahead(p, q) == \A b \in DOMAIN q : Before(p, q[b]) /\ (b = 1 => Fits(p, q[b]))
Chain(q) == \A a, b \in DOMAIN q : a < b =>
  Before(After(q[a]), q[b]) /\ (b = a + 1 => Fits(After(q[a]), q[b]))

At(c, p) == Ahead(p, Coming(c))
Chained(c) == Chain(Coming(c))

\* One is the place of the other: the sender is about to queue it.
Like(m, k) == m.type = k.type /\ m.item = k.item /\ (m.type = "chunk" => m.file = k.file)

LEMMA ComingType ==
  ASSUME TypeInv, NEW c \in Conns
  PROVE  /\ Line(c) \in Seq(Messages) /\ Mark(c) \in Marks /\ Coming(c) \in Seq(Marks)
<1>1. Line(c) \in Seq(Messages)
  BY DEF Line, TypeInv, StreamInv
<1>2. Mark(c) \in Marks
  BY DEF Mark, Marks, Manifest, TypeInv, SndInv, SndType
<1>3. Seq(Messages) \subseteq Seq(Marks)
  BY DEF Marks
<1> QED  BY <1>1, <1>2, <1>3 DEF Coming

LEMMA ComingTypeNext ==
  ASSUME TypeInv', NEW c \in Conns
  PROVE  Coming(c)' \in Seq(Marks')
<1>1. Line(c)' \in Seq(Messages')
  BY DEF Line, TypeInv, StreamInv
<1>2. Mark(c)' \in Marks'
  BY DEF Mark, Marks, Manifest, TypeInv, SndInv, SndType
<1>3. Seq(Messages') \subseteq Seq(Marks')
  BY DEF Marks
<1> QED  BY <1>1, <1>2, <1>3 DEF Coming

LEMMA MarksFacts ==
  ASSUME CopiesInv, NEW k \in Marks
  PROVE  k.item \in Nat /\ After(k).item = k.item /\ k.type \in {"manifest", "chunk"}
BY MessageFacts DEF Marks, After

LEMMA BeforeTransitive ==
  ASSUME NEW p, NEW m, NEW k, p.item \in Nat, m.item \in Nat, k.item \in Nat,
         Before(p, m), Before(After(m), k)
  PROVE  Before(p, k)
BY DEF Before, After

\* The sender's steps in terms of what is coming.
Bumps(q, r) ==
  /\ Len(r) = Len(q)
  /\ \A b \in 1..Len(q) : \/ r[b] = q[b]
                         \/ /\ b = Len(q) /\ q[b].type = "manifest" /\ r[b].type = "manifest"
                            /\ q[b].item < r[b].item

Extends(q, r) ==
  LET n == Len(q) IN
    /\ n > 0 /\ Len(r) = n + 1
    /\ \A b \in 1..(n - 1) : r[b] = q[b]
    /\ Like(r[n], q[n]) /\ Before(After(r[n]), r[n + 1]) /\ Fits(After(r[n]), r[n + 1])

Cuts(q, r) == Len(r) <= Len(q) /\ \A b \in 1..Len(r) : r[b] = q[b]

LEMMA BumpsKeeps ==
  ASSUME CopiesInv, NEW q \in Seq(Marks), NEW r \in Seq(Marks), Bumps(q, r)
  PROVE  /\ Chain(q) => Chain(r)
         /\ \A p : p.item \in Nat /\ Ahead(p, q) => Ahead(p, r)
<1>1. ASSUME NEW p, p.item \in Nat, NEW b \in 1..Len(q)
      PROVE  (Before(p, q[b]) => Before(p, r[b])) /\ (Fits(p, q[b]) => Fits(p, r[b]))
  <2>1. q[b].item \in Nat /\ r[b].item \in Nat
    BY <1>1, MarksFacts DEF Bumps
  <2> QED  BY <1>1, <2>1 DEF Bumps, Before, Fits
<1>2. DOMAIN r = 1..Len(q) /\ DOMAIN q = 1..Len(q) /\ Len(q) \in Nat
  BY DEF Bumps
<1>3. ASSUME NEW p, p.item \in Nat, Ahead(p, q) PROVE Ahead(p, r)
  BY <1>1, <1>2, <1>3 DEF Ahead
<1>4. ASSUME Chain(q) PROVE Chain(r)
  <2> SUFFICES ASSUME NEW a \in 1..Len(q), NEW b \in 1..Len(q), a < b
               PROVE  Before(After(r[a]), r[b]) /\ (b = a + 1 => Fits(After(r[a]), r[b]))
    BY <1>2 DEF Chain
  <2>1. r[a] = q[a]
    <3>1. a # Len(q)
      <4>1. ASSUME NEW l \in Nat, NEW i \in 1..l, NEW j \in 1..l, i < j PROVE i # l
        BY <4>1
      <4> QED  BY <1>2, <4>1
    <3> QED  BY <3>1 DEF Bumps
  <2>2. After(q[a]).item \in Nat
    BY <1>2, MarksFacts
  <2>3. Before(After(q[a]), q[b]) /\ (b = a + 1 => Fits(After(q[a]), q[b]))
    BY <1>2, <1>4 DEF Chain
  <2> QED  BY <1>1, <2>1, <2>2, <2>3
<1> QED  BY <1>3, <1>4

LEMMA ExtendsKeeps ==
  ASSUME CopiesInv, NEW q \in Seq(Marks), NEW r \in Seq(Marks), Extends(q, r)
  PROVE  /\ Chain(q) => Chain(r)
         /\ \A p : p.item \in Nat /\ Ahead(p, q) => Ahead(p, r)
<1> DEFINE n == Len(q)
<1>1. /\ n \in Nat /\ n > 0 /\ DOMAIN q = 1..n /\ DOMAIN r = 1..(n + 1)
      /\ \A b \in 1..(n - 1) : r[b] = q[b]
      /\ Like(r[n], q[n]) /\ Before(After(r[n]), r[n + 1]) /\ Fits(After(r[n]), r[n + 1])
  BY DEF Extends
<1>2. \A b \in 1..(n + 1) : /\ r[b].item \in Nat /\ After(r[b]).item = r[b].item
                             /\ r[b].type \in {"manifest", "chunk"}
  BY <1>1, MarksFacts
<1> HIDE DEF n
\* After p comes what came, then the new message, then the new mark.
<1>3. ASSUME NEW p, p.item \in Nat, NEW k \in 0..(n - 1), \A b \in (k + 1)..n : Before(p, q[b]),
             Fits(p, q[k + 1])
      PROVE  /\ \A b \in (k + 1)..(n + 1) : Before(p, r[b])
             /\ Fits(p, r[k + 1])
  <2>1. Before(p, q[n])
    BY <1>1, <1>3
  <2>2. Before(p, r[n])
    BY <1>1, <2>1 DEF Before, Like
  <2>3. Before(p, r[n + 1])
    BY <1>1, <1>2, <1>3, <2>2, BeforeTransitive
  <2>4. ASSUME NEW b \in (k + 1)..(n + 1) PROVE Before(p, r[b])
    <3>1. b \in 1..(n - 1) \/ b = n \/ b = n + 1
      BY <1>1, <1>3
    <3> QED  BY <1>1, <1>3, <2>2, <2>3, <3>1
  <2>5. Fits(p, r[k + 1])
    <3>1. CASE k + 1 = n
      BY <1>1, <1>2, <1>3, <3>1 DEF Fits, Like
    <3>2. CASE k + 1 # n
      <4>1. k + 1 \in 1..(n - 1)
        BY <1>1, <1>3, <3>2
      <4> QED  BY <1>1, <1>3, <4>1
    <3> QED  BY <3>1, <3>2
  <2> QED  BY <2>4, <2>5
<1>4. ASSUME NEW p, p.item \in Nat, Ahead(p, q) PROVE Ahead(p, r)
  <2>1. /\ \A b \in 1..n : Before(p, q[b])
        /\ Fits(p, q[1])
    BY <1>1, <1>4 DEF Ahead
  <2>2. /\ \A b \in 1..(n + 1) : Before(p, r[b])
        /\ Fits(p, r[1])
    <3>1. 0 \in 0..(n - 1) /\ 0 + 1 = 1
      BY <1>1
    <3> QED  BY <1>3, <1>4, <2>1, <3>1
  <2> QED  BY <1>1, <2>2 DEF Ahead
<1>5. ASSUME Chain(q) PROVE Chain(r)
  <2> SUFFICES ASSUME NEW a \in 1..(n + 1), NEW b \in 1..(n + 1), a < b
               PROVE  Before(After(r[a]), r[b]) /\ (b = a + 1 => Fits(After(r[a]), r[b]))
    BY <1>1 DEF Chain
  <2>1. CASE a = n
    BY <1>1, <2>1
  <2>2. CASE a # n
    <3>1. a \in 1..(n - 1) /\ r[a] = q[a]
      BY <1>1, <2>2
    <3>2. /\ \A d \in (a + 1)..n : Before(After(q[a]), q[d])
          /\ Fits(After(q[a]), q[a + 1])
      BY <1>1, <1>5, <3>1 DEF Chain
    <3>3. After(q[a]).item \in Nat
      BY <1>2, <3>1
    <3>4. a \in 0..(n - 1) /\ b \in (a + 1)..(n + 1)
      BY <1>1, <3>1
    <3>5. /\ \A d \in (a + 1)..(n + 1) : Before(After(q[a]), r[d])
          /\ Fits(After(q[a]), r[a + 1])
      BY <1>3, <3>2, <3>3, <3>4
    <3> QED  BY <3>1, <3>4, <3>5
  <2> QED  BY <2>1, <2>2
<1> QED  BY <1>4, <1>5

LEMMA CutsKeeps ==
  ASSUME NEW q \in Seq(Marks), NEW r \in Seq(Marks), Cuts(q, r)
  PROVE  /\ Chain(q) => Chain(r)
         /\ \A p : Ahead(p, q) => Ahead(p, r)
<1>1. /\ DOMAIN r = 1..Len(r) /\ DOMAIN q = 1..Len(q) /\ Len(r) \in Nat /\ Len(q) \in Nat
      /\ DOMAIN r \subseteq DOMAIN q /\ \A b \in DOMAIN r : r[b] = q[b]
  BY DEF Cuts
<1>2. ASSUME NEW p, Ahead(p, q) PROVE Ahead(p, r)
  BY <1>1, <1>2 DEF Ahead
<1>3. ASSUME Chain(q) PROVE Chain(r)
  BY <1>1, <1>3 DEF Chain
<1> QED  BY <1>2, <1>3

\* What is left when messages are taken from the front.
LEMMA RestKeeps ==
  ASSUME NEW q \in Seq(Marks), NEW r \in Seq(Marks), NEW n \in Nat, Len(q) = n + Len(r),
         \A b \in 1..Len(r) : r[b] = q[n + b], Chain(q)
  PROVE  /\ Chain(r)
         /\ n > 0 => Ahead(After(q[n]), r)
<1>1. /\ DOMAIN r = 1..Len(r) /\ DOMAIN q = 1..(n + Len(r)) /\ Len(r) \in Nat
  OBVIOUS
<1>2. \A b \in DOMAIN r : n + b \in DOMAIN q /\ r[b] = q[n + b]
  BY <1>1
<1>3. Chain(r)
  <2> SUFFICES ASSUME NEW a \in DOMAIN r, NEW b \in DOMAIN r, a < b
               PROVE  Before(After(r[a]), r[b]) /\ (b = a + 1 => Fits(After(r[a]), r[b]))
    BY DEF Chain
  <2>1. n + a < n + b /\ (b = a + 1 => n + b = (n + a) + 1)
    BY <1>1
  <2> QED  BY <1>2, <2>1 DEF Chain
<1>4. ASSUME n > 0 PROVE Ahead(After(q[n]), r)
  <2> SUFFICES ASSUME NEW b \in DOMAIN r
               PROVE  Before(After(q[n]), r[b]) /\ (b = 1 => Fits(After(q[n]), r[b]))
    BY DEF Ahead
  <2>1. n \in DOMAIN q /\ n < n + b /\ (b = 1 => n + b = n + 1)
    BY <1>1, <1>4
  <2> QED  BY <1>2, <2>1 DEF Chain
<1> QED  BY <1>3, <1>4

LEMMA AfterSame ==
  ASSUME UNCHANGED published
  PROVE  \A m : After(m)' = After(m)
BY CopiesSame DEF After

LEMMA OneElement ==
  ASSUME NEW S, NEW q \in Seq(S), q # <<>>, Len(q) <= 1
  PROVE  q = <<Head(q)>> /\ Head(q) \in S
<1>1. Len(q) \in Nat \ {0}
  BY EmptySeq
<1>2. Len(q) = 1
  BY <1>1
<1> QED  BY <1>2

LEMMA PrefixOfConcat ==
  ASSUME NEW S, NEW s \in Seq(S), NEW t \in Seq(S)
  PROVE  Len(s \o t) >= Len(s) /\ \A b \in 1..Len(s) : (s \o t)[b] = s[b]
<1>1. Len(s) \in Nat /\ Len(t) \in Nat
  OBVIOUS
<1>2. Len(s \o t) = Len(s) + Len(t)
  BY ConcatProperties
<1>3. ASSUME NEW b \in 1..Len(s) PROVE (s \o t)[b] = s[b]
  <2>1. b \in 1..(Len(s) + Len(t)) /\ b <= Len(s)
    BY <1>1
  <2> QED  BY <2>1, ConcatProperties
<1> QED  BY <1>1, <1>2, <1>3

LEMMA SenderComing ==
  ASSUME TypeInv, NEW c \in Conns, SenderStep(c), TypeInv'
  PROVE  \/ Bumps(Coming(c), Coming(c)') \/ Extends(Coming(c), Coming(c)')
         \/ Cuts(Coming(c), Coming(c)')
<1>0. /\ data[c] \in Seq(Messages) /\ wire[c] \in Seq(Messages) /\ Len(data[c]) <= 1
      /\ data'[c] \in Seq(Messages) /\ wire'[c] \in Seq(Messages)
      /\ snd[c] \in SndType /\ snd'[c] \in SndType /\ (~snd[c].open => data[c] = <<>>)
  BY DEF SenderStep, SenderStays, TypeInv, StreamInv, SndInv
<1>5. Line(c) \in Seq(Messages) /\ Mark(c) \in Marks /\ Coming(c) \in Seq(Marks)
  BY ComingType
<1>6. Line(c)' \in Seq(Messages) /\ Mark(c)' \in Marks
  <2>1. Line(c)' = wire'[c] \o data'[c]
    BY DEF Line
  <2>2. Mark(c)' = IF snd'[c].pc \in {"open", "read"}
                   THEN [type |-> "chunk", item |-> snd'[c].item, file |-> snd'[c].file]
                   ELSE Manifest(IF snd'[c].pc = "wait" THEN snd'[c].next ELSE snd'[c].item)
    BY DEF Mark, Manifest
  <2> QED  BY <1>0, <2>1, <2>2 DEF Marks, Manifest, SndType
<1>1. CASE Advances(c)
  <2>1. Line(c)' = Line(c)
    BY <1>0, <1>1 DEF Advances, Line
  <2>2. Coming(c) = Append(Line(c), Mark(c)) /\ Coming(c)' = Append(Line(c), Mark(c)')
    BY <1>1, <2>1 DEF Advances, Coming
  <2>3. \/ Mark(c)' = Mark(c)
        \/ /\ Mark(c).type = "manifest" /\ Mark(c)'.type = "manifest"
           /\ Mark(c).item < Mark(c)'.item
    <3>1. CASE Skips(c)
      BY <3>1 DEF Skips, Mark, Manifest
    <3>2. CASE Takes(c)
      BY <3>2 DEF Takes, Mark
    <3>3. CASE Readies(c)
      BY <3>3 DEF Readies, Mark
    <3> QED  BY <1>1, <3>1, <3>2, <3>3 DEF Advances
  <2> DEFINE q == Coming(c)
               r == Coming(c)'
               n == Len(Line(c)) + 1
  <2>5. /\ Len(q) = n /\ Len(r) = n /\ q[n] = Mark(c) /\ r[n] = Mark(c)'
        /\ \A b \in 1..n : b # n => q[b] = r[b]
    BY <1>5, <1>6, <2>2
  <2> QED  BY <2>3, <2>5 DEF Bumps
<1>2. ASSUME NEW m \in Messages, Emits(c, m) PROVE Extends(Coming(c), Coming(c)')
  <2>1. /\ snd[c].open /\ snd'[c].open /\ wire' = wire /\ data[c] = <<>> /\ data'[c] = <<m>>
        /\ m.item = snd[c].item /\ snd'[c].next = snd[c].next
    BY <1>2 DEF Emits
  <2>2. Line(c) = wire[c] /\ Line(c)' = Append(wire[c], m)
    BY <1>0, <2>1 DEF Line
  <2>3. Coming(c) = Append(wire[c], Mark(c)) /\ Coming(c)' = Append(Append(wire[c], m), Mark(c)')
    BY <2>1, <2>2 DEF Coming
  <2>4. Like(m, Mark(c))
    BY <1>2, <2>1 DEF Emits, Like, Mark, Manifest
  <2>5. Before(After(m), Mark(c)') /\ Fits(After(m), Mark(c)')
    <3>1. After(m).item = m.item /\ m.item \in Nat
      BY MessageFacts DEF After, TypeInv
    <3>2. CASE After(m).file = 0
      <4>1. snd'[c].pc = "wait" /\ snd[c].pc # "wait"
        BY <1>2, <3>2 DEF Emits
      <4>2. m.item < snd'[c].next
        BY <2>1, <4>1 DEF TypeInv, SndInv
      <4>3. Mark(c)' = Manifest(snd'[c].next)
        BY <4>1 DEF Mark, Manifest
      <4>4. snd'[c].next \in Nat
        BY DEF TypeInv, SndInv, SndType
      <4> QED  BY <3>1, <3>2, <4>2, <4>3, <4>4 DEF Before, Fits, Manifest
    <3>3. CASE After(m).file # 0
      <4>1. /\ snd'[c].pc \in {"open", "read"} /\ snd'[c].item = m.item
            /\ snd'[c].file = After(m).file
        BY <1>2, <3>3 DEF Emits
      <4>2. Mark(c)' = [type |-> "chunk", item |-> m.item, file |-> After(m).file]
        BY <4>1 DEF Mark
      <4> QED  BY <3>1, <3>3, <4>2 DEF Before, Fits
    <3> QED  BY <3>2, <3>3
  <2>6. /\ wire[c] \in Seq(Marks) /\ m \in Marks /\ Mark(c) \in Marks /\ Mark(c)' \in Marks
    BY <1>0, <1>5, <1>6 DEF Marks
  <2>7. /\ Len(Coming(c)) = Len(wire[c]) + 1 /\ Coming(c)[Len(wire[c]) + 1] = Mark(c)
        /\ \A b \in 1..Len(wire[c]) : Coming(c)[b] = wire[c][b]
    BY <2>3, <2>6
  <2>8. /\ Len(Coming(c)') = Len(wire[c]) + 2 /\ Coming(c)'[Len(wire[c]) + 1] = m
        /\ Coming(c)'[Len(wire[c]) + 2] = Mark(c)'
        /\ \A b \in 1..Len(wire[c]) : Coming(c)'[b] = wire[c][b]
    BY <2>3, <2>6
  <2>9. Len(wire[c]) \in Nat
    BY <1>0
  <2> QED  BY <2>4, <2>5, <2>7, <2>8, <2>9 DEF Extends
<1>3. CASE Shuts(c)
  <2>1. Line(c)' = wire[c] /\ ~snd'[c].open /\ Coming(c)' = wire[c]
    <3>1. snd'[c] = SndClosed /\ data'[c] = <<>> /\ wire'[c] = wire[c]
      BY <1>3 DEF Shuts
    <3>2. wire[c] \o <<>> = wire[c]
      BY <1>0, ConcatEmptySeq
    <3> QED  BY <3>1, <3>2 DEF SndClosed, Coming, Line
  <2>2. Len(Line(c)) >= Len(wire[c]) /\ \A b \in 1..Len(wire[c]) : Line(c)[b] = wire[c][b]
    BY <1>0, PrefixOfConcat DEF Line
  <2>3. Len(Coming(c)) >= Len(Line(c)) /\ \A b \in 1..Len(Line(c)) : Coming(c)[b] = Line(c)[b]
    BY <1>5 DEF Coming
  <2>4. Len(Coming(c)) \in Nat /\ Len(Line(c)) \in Nat /\ Len(wire[c]) \in Nat
    BY <1>0, <1>5
  <2> HIDE DEF Line, Coming
  <2> QED  BY <2>1, <2>2, <2>3, <2>4 DEF Cuts
<1>4. CASE Flushes(c)
  <2>1. /\ data[c] # <<>> /\ snd' = snd
        /\ wire'[c] = Append(wire[c], Head(data[c])) /\ data'[c] = <<>>
    BY <1>4 DEF Flushes
  <2>2. data[c] = <<Head(data[c])>>
    BY <1>0, <2>1, OneElement
  <2>3. Line(c)' = Line(c)
    <3>1. wire[c] \o <<Head(data[c])>> = Append(wire[c], Head(data[c])) \o <<>>
      BY <1>0, <2>1
    <3> QED  BY <2>1, <2>2, <3>1 DEF Line
  <2>4. Mark(c)' = Mark(c) /\ Coming(c)' = Coming(c)
    BY <2>1, <2>3 DEF Mark, Coming
  <2> QED  BY <1>5, <2>4 DEF Cuts
<1> QED  BY <1>1, <1>2, <1>3, <1>4 DEF SenderStep

LEMMA SenderKeeps ==
  ASSUME TypeInv, NEW c \in Conns, SenderStep(c), TypeInv'
  PROVE  /\ Chained(c) => Chained(c)'
         /\ \A p : p.item \in Nat /\ Ahead(p, Coming(c)) => Ahead(p, Coming(c)')
<1>1. UNCHANGED published
  BY DEF SenderStep, SenderStays
<1>2. Marks' = Marks
  BY <1>1, CopiesSame DEF Marks
<1>3. PICK q \in Seq(Marks) : q = Coming(c)
  BY ComingType
<1>4. PICK r \in Seq(Marks) : r = Coming(c)'
  BY <1>2, ComingTypeNext
<1>5. Chained(c)' <=> Chain(r)
  <2>1. Chained(c)' <=> \A a, b \in DOMAIN r : a < b =>
           Before(After(r[a])', r[b]) /\ (b = a + 1 => Fits(After(r[a])', r[b]))
    BY <1>4 DEF Chained, Chain, Before, Fits, After
  <2> QED  BY <1>1, <2>1, AfterSame DEF Chain
<1>6. Bumps(q, r) \/ Extends(q, r) \/ Cuts(q, r)
  BY <1>1, <1>3, <1>4, SenderComing
<1> QED  BY <1>3, <1>4, <1>5, <1>6, BumpsKeeps, ExtendsKeeps, CutsKeeps DEF Chained, TypeInv

\* What is coming behind what is in the TCP stream.
Behind(c) == data[c] \o (IF snd[c].open THEN <<Mark(c)>> ELSE <<>>)

LEMMA AppendToConcat ==
  ASSUME NEW S, NEW s \in Seq(S), NEW t \in Seq(S), NEW k \in S
  PROVE  Append(s \o t, k) = s \o (t \o <<k>>)
<1>0. s \o t \in Seq(S) /\ <<k>> \in Seq(S)
  BY ConcatProperties
<1>1. PICK st \in Seq(S) : st = s \o t
  BY <1>0
<1>2. PICK l \in Seq(S) : l = <<k>>
  BY <1>0
<1>3. Append(st, k) = st \o l
  BY <1>2, AppendIsConcat
<1>4. (s \o t) \o l = s \o (t \o l)
  BY ConcatAssociative
<1> QED  BY <1>1, <1>2, <1>3, <1>4

LEMMA ComingSplit ==
  ASSUME TypeInv, NEW c \in Conns
  PROVE  /\ wire[c] \in Seq(Marks) /\ Behind(c) \in Seq(Marks)
         /\ Coming(c) = wire[c] \o Behind(c)
<1>1. wire[c] \in Seq(Messages) /\ data[c] \in Seq(Messages)
  BY DEF TypeInv, StreamInv
<1>2. Seq(Messages) \subseteq Seq(Marks)
  BY DEF Marks
<1>3. wire[c] \in Seq(Marks) /\ data[c] \in Seq(Marks) /\ Mark(c) \in Marks
  BY <1>1, <1>2, ComingType
<1>4. CASE snd[c].open
  <2>1. Behind(c) = data[c] \o <<Mark(c)>> /\ Coming(c) = Append(wire[c] \o data[c], Mark(c))
    BY <1>4 DEF Behind, Coming, Line
  <2>2. wire[c] \o data[c] \in Seq(Marks) /\ <<Mark(c)>> \in Seq(Marks)
    BY <1>3
  <2>3. Append(wire[c] \o data[c], Mark(c)) = wire[c] \o (data[c] \o <<Mark(c)>>)
    BY <1>3, AppendToConcat
  <2> QED  BY <1>3, <2>1, <2>2, <2>3, ConcatProperties
<1>5. CASE ~snd[c].open
  <2>1. Behind(c) = data[c] \o <<>> /\ Coming(c) = wire[c] \o data[c]
    BY <1>5 DEF Behind, Coming, Line
  <2> QED  BY <1>3, <2>1, ConcatEmptySeq
<1> QED  BY <1>4, <1>5

LEMMA SuffixOfConcat ==
  ASSUME NEW S, NEW s \in Seq(S), NEW t \in Seq(S)
  PROVE  Len(s \o t) = Len(s) + Len(t) /\ \A b \in 1..Len(t) : (s \o t)[Len(s) + b] = t[b]
<1>1. Len(s) \in Nat /\ Len(t) \in Nat
  OBVIOUS
<1>2. ASSUME NEW b \in 1..Len(t) PROVE (s \o t)[Len(s) + b] = t[b]
  <2>1. Len(s) + b \in 1..(Len(s) + Len(t)) /\ ~(Len(s) + b <= Len(s)) /\ (Len(s) + b) - Len(s) = b
    BY <1>1
  <2> QED  BY <2>1, ConcatProperties
<1> QED  BY <1>2, ConcatProperties

LEMMA TailOfConcat ==
  ASSUME NEW S, NEW s \in Seq(S), NEW t \in Seq(S), s # <<>>
  PROVE  /\ Len(s \o t) = 1 + Len(Tail(s) \o t) /\ (s \o t)[1] = Head(s)
         /\ \A b \in 1..Len(Tail(s) \o t) : (Tail(s) \o t)[b] = (s \o t)[1 + b]
<1>1. Len(s) \in Nat \ {0} /\ Len(t) \in Nat
  BY EmptySeq
<1>2. Tail(s) \in Seq(S) /\ Len(Tail(s)) = Len(s) - 1 /\ \A i \in 1..Len(Tail(s)) : Tail(s)[i] = s[i + 1]
  BY HeadTailProperties
<1>3. Len(s \o t) = Len(s) + Len(t) /\ Len(Tail(s) \o t) = (Len(s) - 1) + Len(t)
  BY <1>2, ConcatProperties
<1>4. (s \o t)[1] = s[1] /\ s[1] = Head(s)
  BY <1>1, PrefixOfConcat
<1>5. ASSUME NEW b \in 1..Len(Tail(s) \o t) PROVE (Tail(s) \o t)[b] = (s \o t)[1 + b]
  <2>1. b \in 1..(Len(Tail(s)) + Len(t)) /\ 1 + b \in 1..(Len(s) + Len(t)) /\ b \in Nat
    BY <1>1, <1>2, <1>3
  <2>2. (Tail(s) \o t)[b] = IF b <= Len(Tail(s)) THEN Tail(s)[b] ELSE t[b - Len(Tail(s))]
    BY <1>2, <2>1, ConcatProperties
  <2>3. (s \o t)[1 + b] = IF 1 + b <= Len(s) THEN s[1 + b] ELSE t[(1 + b) - Len(s)]
    BY <2>1, ConcatProperties
  <2>4. CASE b <= Len(s) - 1
    <3>1. b \in 1..Len(Tail(s)) /\ b + 1 = 1 + b /\ 1 + b <= Len(s)
      BY <1>1, <1>2, <2>1, <2>4
    <3> QED  BY <1>2, <2>2, <2>3, <3>1
  <2>5. CASE ~(b <= Len(s) - 1)
    <3>1. ~(b <= Len(Tail(s))) /\ ~(1 + b <= Len(s)) /\ b - Len(Tail(s)) = (1 + b) - Len(s)
      BY <1>1, <1>2, <2>1, <2>5
    <3> QED  BY <2>2, <2>3, <3>1
  <2> QED  BY <2>4, <2>5
<1> QED  BY <1>1, <1>3, <1>4, <1>5

\* A connection the step does not touch.
LEMMA ComingFrame ==
  ASSUME NEW c, UNCHANGED published, snd'[c] = snd[c], data'[c] = data[c], wire'[c] = wire[c]
  PROVE  Coming(c)' = Coming(c) /\ (Chained(c)' <=> Chained(c))
<1>1. Coming(c)' = Coming(c)
  BY DEF Coming, Line, Mark, Manifest
<1>2. PICK q : q = Coming(c)
  OBVIOUS
<1>3. Chained(c)' <=> \A a, b \in DOMAIN q : a < b =>
         Before(After(q[a])', q[b]) /\ (b = a + 1 => Fits(After(q[a])', q[b]))
  BY <1>1, <1>2 DEF Chained, Chain, Before, Fits, After
<1> QED  BY <1>1, <1>2, <1>3, AfterSame DEF Chained, Chain

LEMMA ReadComing ==
  ASSUME TypeInv, NEW c \in Conns, wire[c] # <<>>, wire'[c] = Tail(wire[c]),
         UNCHANGED <<published, snd, data>>, Chained(c)
  PROVE  /\ 1 \in DOMAIN Coming(c) /\ Coming(c)[1] = Head(wire[c])
         /\ Chained(c)' /\ Ahead(After(Head(wire[c])), Coming(c)')
<1>1. /\ wire[c] \in Seq(Marks) /\ Behind(c) \in Seq(Marks)
      /\ Coming(c) = wire[c] \o Behind(c)
  BY ComingSplit
<1>2. Mark(c)' = Mark(c)
  BY DEF Mark, Manifest
<1>3. Coming(c)' = Tail(wire[c]) \o Behind(c)
  <2>1. Tail(wire[c]) \in Seq(Marks)
    BY <1>1, HeadTailProperties
  <2>2. CASE snd[c].open
    <3>1. Coming(c)' = Append(Tail(wire[c]) \o data[c], Mark(c)) /\ Behind(c) = data[c] \o <<Mark(c)>>
      BY <1>2, <2>2 DEF Coming, Line, Behind
    <3>2. Mark(c) \in Marks /\ data[c] \in Seq(Marks)
      <4>1. data[c] \in Seq(Messages)
        BY DEF TypeInv, StreamInv
      <4>2. Seq(Messages) \subseteq Seq(Marks)
        BY DEF Marks
      <4> QED  BY <4>1, <4>2, ComingType
    <3>3. Append(Tail(wire[c]) \o data[c], Mark(c)) = Tail(wire[c]) \o (data[c] \o <<Mark(c)>>)
      BY <2>1, <3>2, AppendToConcat
    <3> QED  BY <3>1, <3>3
  <2>3. CASE ~snd[c].open
    <3>1. Coming(c)' = Tail(wire[c]) \o data[c] /\ Behind(c) = data[c] \o <<>>
      BY <2>3 DEF Coming, Line, Behind
    <3>2. data[c] \in Seq(Messages)
      BY DEF TypeInv, StreamInv
    <3> QED  BY <3>1, <3>2, ConcatEmptySeq
  <2> QED  BY <2>2, <2>3
<1>4. PICK q \in Seq(Marks) : q = Coming(c)
  BY ComingType
<1>5. PICK r \in Seq(Marks) : r = Coming(c)'
  <2>1. Tail(wire[c]) \in Seq(Marks)
    BY <1>1, HeadTailProperties
  <2>2. Tail(wire[c]) \o Behind(c) \in Seq(Marks)
    BY <1>1, <2>1, ConcatProperties
  <2> QED  BY <1>3, <2>2
<1>6. /\ Len(q) = 1 + Len(r) /\ q[1] = Head(wire[c]) /\ \A b \in 1..Len(r) : r[b] = q[1 + b]
  <2>1. PICK w \in Seq(Marks) : w = wire[c]
    BY <1>1
  <2>2. PICK t \in Seq(Marks) : t = Behind(c)
    BY <1>1
  <2>3. q = w \o t /\ r = Tail(w) \o t /\ w # <<>>
    BY <1>1, <1>3, <1>4, <1>5, <2>1, <2>2
  <2>4. /\ Len(w \o t) = 1 + Len(Tail(w) \o t) /\ (w \o t)[1] = Head(w)
        /\ \A b \in 1..Len(Tail(w) \o t) : (Tail(w) \o t)[b] = (w \o t)[1 + b]
    BY <2>3, TailOfConcat
  <2> QED  BY <2>1, <2>3, <2>4
<1>7. Chain(r) /\ Ahead(After(q[1]), r)
  <2>1. Chain(q)
    BY <1>4 DEF Chained
  <2> QED  BY <1>6, <2>1, RestKeeps
<1>8. 1 \in DOMAIN q
  BY <1>6
<1>9. Chained(c)' <=> \A a, b \in DOMAIN r : a < b =>
         Before(After(r[a])', r[b]) /\ (b = a + 1 => Fits(After(r[a])', r[b]))
  BY <1>5 DEF Chained, Chain, Before, Fits, After
<1> QED  BY <1>4, <1>5, <1>6, <1>7, <1>8, <1>9, AfterSame DEF Chain

LEMMA CloseComing ==
  ASSUME TypeInv, NEW c \in Conns, wire'[c] = <<>>, UNCHANGED <<published, snd, data>>, Chained(c)
  PROVE  Chained(c)'
<1>1. /\ wire[c] \in Seq(Marks) /\ Behind(c) \in Seq(Marks)
      /\ Coming(c) = wire[c] \o Behind(c) /\ data[c] \in Seq(Messages) /\ Mark(c) \in Marks
  BY ComingSplit, ComingType DEF TypeInv, StreamInv
<1>2. Mark(c)' = Mark(c)
  BY DEF Mark, Manifest
<1>3. Coming(c)' = Behind(c)
  <2>1. <<>> \o data[c] = data[c]
    BY <1>1, ConcatEmptySeq
  <2>2. CASE snd[c].open
    <3>1. Coming(c)' = Append(data[c], Mark(c)) /\ Behind(c) = data[c] \o <<Mark(c)>>
      BY <1>2, <2>1, <2>2 DEF Coming, Line, Behind
    <3> QED
      <4>1. Seq(Messages) \subseteq Seq(Marks)
        BY DEF Marks
      <4> QED  BY <1>1, <3>1, <4>1, AppendIsConcat
  <2>3. CASE ~snd[c].open
    BY <1>1, <2>1, <2>3, ConcatEmptySeq DEF Coming, Line, Behind
  <2> QED  BY <2>2, <2>3
<1>4. PICK q \in Seq(Marks) : q = Coming(c)
  BY ComingType
<1>5. PICK r \in Seq(Marks) : r = Coming(c)'
  BY <1>1, <1>3
<1>6. PICK n \in Nat : n = Len(wire[c])
  BY <1>1
<1>7. Len(q) = n + Len(r) /\ \A b \in 1..Len(r) : r[b] = q[n + b]
  BY <1>1, <1>3, <1>4, <1>5, <1>6, SuffixOfConcat
<1>8. Chain(r)
  <2>1. Chain(q)
    BY <1>4 DEF Chained
  <2> QED  BY <1>7, <2>1, RestKeeps
<1>9. Chained(c)' <=> \A a, b \in DOMAIN r : a < b =>
         Before(After(r[a])', r[b]) /\ (b = a + 1 => Fits(After(r[a])', r[b]))
  BY <1>5 DEF Chained, Chain, Before, Fits, After
<1> QED  BY <1>8, <1>9, AfterSame DEF Chain

-----------------------------------------------------------------------------
(* The receiver keeps pace with what is coming: it holds the item whose    *)
(* next chunk comes first, and no other.                                   *)

Handled(c) ==
  /\ \A i, j \in DOMAIN incoming[c] : i = j
  /\ rcv[c].pc \in {"mkdir", "mkdirs", "verify", "apply"} => DOMAIN incoming[c] = {}
  /\ rcv[c].pc \in {"mkdir", "mkdirs"} =>
       rcv[c].msg.type = "manifest" /\ published[Item(c)] \in {"folder", "file", "files"}
  /\ rcv[c].pc = "write" => incoming[c][Item(c)].ended = 1..(rcv[c].msg.file - 1)
  /\ rcv[c].pc \in {"verify", "apply"} => After(rcv[c].msg).file = 0
  /\ rcv[c].pc # "idle" => At(c, After(rcv[c].msg))
  /\ rcv[c].pc = "idle" => \A i \in DOMAIN incoming[c] : \E f \in Files(i) :
       incoming[c][i].ended = 1..(f - 1) /\ At(c, [item |-> i, file |-> f])

LEMMA HandledNext ==
  ASSUME UNCHANGED published, NEW c, NEW m, rcv'[c].pc # "idle" => rcv'[c].msg = m,
         \A i, j \in DOMAIN incoming'[c] : i = j,
         rcv'[c].pc \in {"mkdir", "mkdirs", "verify", "apply"} => DOMAIN incoming'[c] = {},
         rcv'[c].pc \in {"mkdir", "mkdirs"} =>
           m.type = "manifest" /\ published[m.item] \in {"folder", "file", "files"},
         rcv'[c].pc = "write" => incoming'[c][m.item].ended = 1..(m.file - 1),
         rcv'[c].pc \in {"verify", "apply"} => After(m).file = 0,
         rcv'[c].pc # "idle" => Ahead(After(m), Coming(c)'),
         rcv'[c].pc = "idle" => \A i \in DOMAIN incoming'[c] : \E f \in Files(i) :
           incoming'[c][i].ended = 1..(f - 1) /\ Ahead([item |-> i, file |-> f], Coming(c)')
  PROVE  Handled(c)'
<1>1. \A i : Files(i)' = Files(i)
  BY CopiesSame
<1>2. rcv'[c].pc # "idle" => Item(c)' = m.item /\ After(rcv[c].msg)' = After(m)
  BY AfterSame DEF Item, After
<1>3. \A q : At(c, q)' <=> Ahead(q, Coming(c)')
  BY DEF At, Ahead, Before, Fits
<1> QED  BY <1>1, <1>2, <1>3 DEF Handled

LEMMA HandledIdle ==
  ASSUME NEW c, rcv'[c].pc = "idle", DOMAIN incoming'[c] = {}
  PROVE  Handled(c)'
BY DEF Handled

\* What is coming moves on, or copies are made, while the receiver waits.
LEMMA HandledFrame ==
  ASSUME TypeInv, NEW c \in Conns, Handled(c),
         rcv'[c].pc = rcv[c].pc, rcv'[c].msg = rcv[c].msg, incoming'[c] = incoming[c],
         \A i \in Made : Files(i)' = Files(i) /\ published'[i] = published[i],
         \A p : p.item \in Nat /\ Ahead(p, Coming(c)) => Ahead(p, Coming(c)')
  PROVE  Handled(c)'
<1>1. PICK m : m = rcv[c].msg
  OBVIOUS
<1>2. rcv[c].pc # "idle" => m \in Messages /\ m.item \in Made /\ m.item \in Nat
  BY <1>1, MessageFacts DEF TypeInv, RcvInv
<1>3. \A q : At(c, q)' <=> Ahead(q, Coming(c)')
  BY DEF At, Ahead, Before, Fits
<1>4. rcv[c].pc # "idle" => After(rcv[c].msg)' = After(m) /\ After(m).item = m.item /\ Item(c)' = m.item
                            /\ After(rcv[c].msg) = After(m) /\ Item(c) = m.item
  BY <1>1, <1>2 DEF After, Item
<1>5. rcv[c].pc # "idle" => At(c, After(rcv[c].msg))'
  BY <1>1, <1>2, <1>3, <1>4 DEF Handled, At
<1>6. ASSUME rcv[c].pc = "idle", NEW i \in DOMAIN incoming[c]
      PROVE  \E f \in Files(i)' :
               incoming[c][i].ended = 1..(f - 1) /\ Ahead([item |-> i, file |-> f], Coming(c)')
  <2>1. i \in Made /\ i \in Nat
    BY DEF TypeInv, RcvInv, Made
  <2>2. PICK f \in Files(i) :
          incoming[c][i].ended = 1..(f - 1) /\ Ahead([item |-> i, file |-> f], Coming(c))
    BY <1>6 DEF Handled, At
  <2>3. Ahead([item |-> i, file |-> f], Coming(c)')
    <3>1. [item |-> i, file |-> f].item \in Nat
      BY <2>1
    <3> HIDE DEF Coming
    <3> QED  BY <2>2, <3>1
  <2> QED  BY <2>1, <2>2, <2>3
<1>7. rcv[c].pc \in {"mkdir", "mkdirs"} => published'[Item(c)'] = published[Item(c)]
  BY <1>2, <1>4
<1> QED
  BY <1>1, <1>2, <1>3, <1>4, <1>5, <1>6, <1>7 DEF Handled

LEMMA NextFits ==
  ASSUME TypeInv, NEW c \in Conns, Handled(c), Chained(c), rcv[c].pc = "idle", wire[c] # <<>>,
         wire'[c] = Tail(wire[c]), UNCHANGED <<published, snd, data>>, NEW i \in DOMAIN incoming[c]
  PROVE  LET m == Head(wire[c]) IN
           m.type = "chunk" /\ m.item = i /\ incoming[c][i].ended = 1..(m.file - 1)
<1>1. PICK m \in Messages : m = Head(wire[c])
  <2>1. Head(wire[c]) \in Messages
    BY DEF TypeInv, StreamInv
  <2> QED  BY <2>1
<1>2. 1 \in DOMAIN Coming(c) /\ Coming(c)[1] = m
  BY <1>1, ReadComing
<1>3. PICK f \in Files(i) :
        incoming[c][i].ended = 1..(f - 1) /\ Ahead([item |-> i, file |-> f], Coming(c))
  BY DEF Handled, At
<1>4. f # 0
  BY DEF Files
<1>5. Fits([item |-> i, file |-> f], m)
  BY <1>2, <1>3 DEF Ahead
<1>6. m.type \in {"manifest", "chunk"}
  BY MessageFacts DEF TypeInv
<1> QED  BY <1>1, <1>3, <1>4, <1>5, <1>6 DEF Fits

LEMMA EndedBounds ==
  ASSUME NEW k \in Nat, NEW n \in Nat, 1..k = 1..n
  PROVE  k = n
<1>1. k > 0 => k \in 1..n
  OBVIOUS
<1>2. n > 0 => n \in 1..k
  OBVIOUS
<1> QED  BY <1>1, <1>2

\* What is ended once the chunk in hand is written.
LEMMA EndedAfter ==
  ASSUME TypeInv, NEW m \in Messages, m.type = "chunk", NEW ended, ended = 1..(m.file - 1),
         NEW after, after = ended \cup (IF m.eof THEN {m.file} ELSE {})
  PROVE  /\ after = Files(m.item) => After(m).file = 0
         /\ after # Files(m.item) => After(m).file \in Files(m.item) /\ after = 1..(After(m).file - 1)
<1>1. /\ m.item \in Made /\ m.file \in Files(m.item) /\ m.eof \in BOOLEAN
  BY MessageFacts DEF TypeInv
<1>2. PICK n \in Nat : Files(m.item) = 1..n
  BY <1>1, FilesFacts DEF TypeInv
<1>3. m.file \in 1..n
  BY <1>1, <1>2
<1>4. CASE m.eof
  <2>1. after = 1..m.file
    BY <1>3, <1>4
  <2>2. After(m).file = IF m.file + 1 \in 1..n THEN m.file + 1 ELSE 0
    BY <1>2, <1>4 DEF After
  <2>3. CASE m.file = n
    BY <1>2, <1>3, <2>1, <2>2, <2>3
  <2>4. CASE m.file # n
    <3>1. after # 1..n
      BY <1>3, <2>1, <2>4, EndedBounds
    <3>2. m.file + 1 \in 1..n /\ (m.file + 1) - 1 = m.file
      BY <1>3, <2>4
    <3> QED  BY <1>2, <2>1, <2>2, <3>1, <3>2
  <2> QED  BY <2>3, <2>4
<1>5. CASE ~m.eof
  <2>1. after = 1..(m.file - 1)
    BY <1>5
  <2>2. after # 1..n
    BY <1>3, <2>1
  <2>3. After(m).file = m.file
    BY <1>1, <1>5 DEF After
  <2> QED  BY <1>1, <1>2, <2>1, <2>2, <2>3
<1> QED  BY <1>1, <1>4, <1>5

LEMMA ReadHandled ==
  ASSUME TypeInv, NEW c \in Conns, Chained(c), Handled(c), UNCHANGED <<published, snd, data>>,
         NEW m \in Messages, NEW what \in {"idle", "mkdir", "apply", "write"}, NEW dropped,
         Reads(c, m, what, dropped)
  PROVE  Chained(c)' /\ Handled(c)'
<1>1. /\ rcv[c].pc = "idle" /\ rcv'[c].pc = what /\ (what # "idle" => rcv'[c].msg = m)
      /\ wire[c] # <<>> /\ m = Head(wire[c]) /\ wire'[c] = Tail(wire[c])
      /\ DOMAIN incoming'[c] = DOMAIN incoming[c] \ dropped
      /\ \A i \in DOMAIN incoming[c] \ dropped : incoming'[c][i] = incoming[c][i]
      /\ what = "mkdir" => m.type = "manifest" /\ published[m.item] \notin {"refused", "text"}
      /\ what = "apply" => m.type = "manifest" /\ published[m.item] = "text"
      /\ what = "write" => m.type = "chunk" /\ m.item \in DOMAIN incoming[c] \ dropped
      /\ what = "idle" => m.type = "manifest" \/ m.item \notin DOMAIN incoming[c] \ dropped
  BY DEF Reads, Drops
<1>2. Chained(c)' /\ Ahead(After(m), Coming(c)')
  BY <1>1, ReadComing
<1>3. \A i \in DOMAIN incoming[c] :
        m.type = "chunk" /\ m.item = i /\ incoming[c][i].ended = 1..(m.file - 1)
  BY <1>1, NextFits
<1>4. CASE what = "idle"
  <2>1. DOMAIN incoming'[c] = {}
    BY <1>1, <1>3, <1>4
  <2> QED  BY <1>1, <1>2, <1>4, <2>1, HandledIdle
<1>5. CASE what = "mkdir"
  <2>1. DOMAIN incoming'[c] = {}
    BY <1>1, <1>3, <1>5
  <2>2. published[m.item] \in {"folder", "file", "files"}
    <3>1. m.item \in Sendable /\ m.item \in Made
      BY MessageFacts DEF TypeInv
    <3>2. published[m.item] \in AllKinds /\ published[m.item] \notin {"tooBig", "bulky"}
      BY <3>1, FilesFacts, ConstantsAssumption DEF Sendable, TypeInv
    <3> QED  BY <1>1, <1>5, <3>2 DEF AllKinds
  <2> QED  BY <1>1, <1>2, <1>5, <2>1, <2>2, HandledNext
<1>6. CASE what = "apply"
  <2>1. DOMAIN incoming'[c] = {}
    BY <1>1, <1>3, <1>6
  <2>2. After(m).file = 0
    <3>1. m.item \in Made
      BY MessageFacts DEF TypeInv
    <3>2. Files(m.item) = {}
      BY <1>1, <1>6, <3>1, NoFiles DEF TypeInv
    <3> QED  BY <3>2 DEF After
  <2> QED  BY <1>1, <1>2, <1>6, <2>1, <2>2, HandledNext
<1>7. CASE what = "write"
  <2>1. incoming'[c][m.item].ended = 1..(m.file - 1)
    BY <1>1, <1>3, <1>7
  <2>2. \A i, j \in DOMAIN incoming'[c] : i = j
    BY <1>1 DEF Handled
  <2> QED  BY <1>1, <1>2, <1>7, <2>1, <2>2, HandledNext
<1> QED  BY <1>4, <1>5, <1>6, <1>7

LEMMA ReceiverHandled ==
  ASSUME TypeInv, NEW c \in Conns, ReceiverStep(c), Chained(c), Handled(c)
  PROVE  Chained(c)' /\ Handled(c)'
<1>0. /\ UNCHANGED <<published, snd, data>>
      /\ UNCHANGED published
  BY DEF ReceiverStep, ReceiverStays, sndVars
<1>1. ASSUME NEW m \in Messages, NEW what \in {"idle", "mkdir", "apply", "write"}, NEW dropped,
             Reads(c, m, what, dropped)
      PROVE  Chained(c)' /\ Handled(c)'
  BY <1>0, <1>1, ReadHandled
<1>2. CASE wire' = wire /\ rcv[c].pc # "idle"
  <2>1. Coming(c)' = Coming(c) /\ Chained(c)'
    BY <1>0, <1>2, ComingFrame
  <2>2. PICK m \in Messages : m = rcv[c].msg
    BY <1>2 DEF TypeInv, RcvInv
  <2>3. /\ m.item = Item(c) /\ m.item \in Made /\ After(m).item = m.item
        /\ Ahead(After(m), Coming(c)')
    BY <1>2, <2>1, <2>2, MessageFacts DEF Item, After, Handled, At, TypeInv
  <2>4. CASE Makes(c)
    <3>1. rcv[c].pc = "mkdir" /\ rcv'[c].pc = "mkdirs" /\ rcv'[c].msg = m /\ incoming' = incoming
      BY <2>2, <2>4 DEF Makes, Turns
    <3>2. /\ DOMAIN incoming'[c] = {} /\ m.type = "manifest"
          /\ published[m.item] \in {"folder", "file", "files"}
      BY <2>2, <2>3, <3>1 DEF Handled
    <3> QED  BY <1>0, <2>1, <2>3, <3>1, <3>2, HandledNext
  <2>5. CASE Opens(c)
    <3>1. /\ rcv[c].pc = "mkdirs" /\ rcv'[c].pc = "idle" /\ published[m.item] # "folder"
          /\ DOMAIN incoming'[c] = DOMAIN incoming[c] \cup {m.item}
          /\ incoming'[c][m.item].ended = {}
      BY <2>3, <2>5 DEF Opens
    <3>2. /\ DOMAIN incoming[c] = {} /\ m.type = "manifest"
          /\ published[m.item] \in {"folder", "file", "files"}
      BY <2>2, <2>3, <3>1 DEF Handled
    <3>3. 1 \in Files(m.item)
      BY <2>3, <3>1, <3>2, SomeFiles DEF TypeInv
    <3>4. After(m) = [item |-> m.item, file |-> 1]
      BY <3>2, <3>3 DEF After
    <3>5. incoming'[c][m.item].ended = 1..(1 - 1)
      BY <3>1
    <3>6. \A i \in DOMAIN incoming'[c] : i = m.item
      BY <3>1, <3>2
    <3>7. Ahead([item |-> m.item, file |-> 1], Coming(c)')
      BY <2>3, <3>4
    <3>8. Handled(c)'
      BY <1>0, <3>1, <3>3, <3>5, <3>6, <3>7, HandledNext
    <3> QED  BY <2>1, <3>8
  <2>6. ASSUME rcv[c].pc = "write"
        PROVE  /\ m.type = "chunk" /\ DOMAIN incoming[c] = {m.item}
               /\ incoming[c][m.item].ended = 1..(m.file - 1)
    BY <2>2, <2>3, <2>6 DEF Handled, TypeInv, RcvInv
  <2>7. CASE Writes(c)
    <3>1. /\ rcv[c].pc = "write" /\ rcv'[c].pc = "idle" /\ DOMAIN incoming'[c] = {m.item}
          /\ incoming'[c][m.item].ended =
               incoming[c][m.item].ended \cup (IF m.eof THEN {m.file} ELSE {})
          /\ incoming'[c][m.item].ended # Files(m.item)
      BY <2>2, <2>3, <2>6, <2>7 DEF Writes
    <3>2. PICK after : after = incoming'[c][m.item].ended
      OBVIOUS
    <3>3. After(m).file \in Files(m.item) /\ after = 1..(After(m).file - 1)
      BY <2>6, <3>1, <3>2, EndedAfter
    <3>4. After(m) = [item |-> m.item, file |-> After(m).file]
      BY DEF After
    <3>5. PICK f \in Files(m.item) : f = After(m).file
      BY <3>3
    <3>6. Ahead([item |-> m.item, file |-> f], Coming(c)') /\ incoming'[c][m.item].ended = 1..(f - 1)
      BY <2>3, <3>2, <3>3, <3>4, <3>5
    <3>7. Handled(c)'
      BY <1>0, <3>1, <3>6, HandledNext
    <3> QED  BY <2>1, <3>7
  <2>8. CASE Completes(c)
    <3>1. /\ rcv[c].pc = "write" /\ rcv'[c].pc = "verify" /\ rcv'[c].msg = m
          /\ Files(m.item) = incoming[c][m.item].ended \cup (IF m.eof THEN {m.file} ELSE {})
          /\ DOMAIN incoming'[c] = DOMAIN incoming[c] \ {m.item}
      BY <2>2, <2>3, <2>8 DEF Completes, Turns
    <3>2. DOMAIN incoming'[c] = {}
      BY <2>6, <3>1
    <3>3. After(m).file = 0
      BY <2>6, <3>1, EndedAfter
    <3> QED  BY <1>0, <2>1, <2>3, <3>1, <3>2, <3>3, HandledNext
  <2>9. CASE Keeps(c)
    <3>1. /\ rcv[c].pc \in {"mkdirs", "verify"} /\ rcv'[c].pc = "apply" /\ rcv'[c].msg = m
          /\ incoming' = incoming /\ (rcv[c].pc = "mkdirs" => published[m.item] = "folder")
      BY <2>2, <2>3, <2>9 DEF Keeps, Turns
    <3>2. DOMAIN incoming'[c] = {}
      BY <3>1 DEF Handled
    <3>3. After(m).file = 0
      <4>1. CASE rcv[c].pc = "mkdirs"
        <5>1. Files(m.item) = {}
          BY <2>3, <3>1, <4>1, NoFiles DEF TypeInv
        <5> QED  BY <5>1 DEF After
      <4>2. CASE rcv[c].pc = "verify"
        BY <2>2, <4>2 DEF Handled
      <4> QED  BY <3>1, <4>1, <4>2
    <3> QED  BY <1>0, <2>1, <2>3, <3>1, <3>2, <3>3, HandledNext
  <2>10. CASE Applies(c)
    <3>1. rcv'[c].pc = "idle" /\ DOMAIN incoming'[c] = {}
      BY <2>10 DEF Applies, Handled
    <3> QED  BY <2>1, <3>1, HandledIdle
  <2>11. ASSUME NEW items, GivesUp(c, items) PROVE Chained(c)' /\ Handled(c)'
    <3>1. rcv'[c].pc = "idle" /\ DOMAIN incoming'[c] = {}
      <4>1. CASE rcv[c].pc = "write"
        BY <2>3, <2>6, <2>11, <4>1 DEF GivesUp
      <4>2. CASE rcv[c].pc # "write"
        <5>1. rcv[c].pc \in {"mkdir", "mkdirs", "verify", "apply"}
          BY <1>2, <4>2 DEF TypeInv, RcvInv, RcvType
        <5> QED  BY <2>11, <4>2, <5>1 DEF GivesUp, Handled
      <4> QED  BY <4>1, <4>2
    <3> QED  BY <2>1, <3>1, HandledIdle
  <2> QED
    BY <1>2, <2>4, <2>5, <2>7, <2>8, <2>9, <2>10, <2>11 DEF ReceiverStep, Reads
<1>3. CASE ~(wire' = wire /\ rcv[c].pc # "idle")
  BY <1>1, <1>3
  DEF ReceiverStep, Makes, Opens, Writes, Completes, Keeps, Applies, GivesUp, Turns
<1> QED  BY <1>2, <1>3

\* What is coming over every connection is in order, and every receiver
\* keeps pace with it.
PaceInv == \A c \in Conns : Chained(c) /\ Handled(c)

LEMMA PaceFrame ==
  ASSUME TypeInv, NEW c \in Conns, Chained(c), Handled(c), UNCHANGED published,
         rcv'[c] = rcv[c], incoming'[c] = incoming[c],
         snd'[c] = snd[c], data'[c] = data[c], wire'[c] = wire[c]
  PROVE  Chained(c)' /\ Handled(c)'
<1>1. Coming(c)' = Coming(c) /\ Chained(c)'
  BY ComingFrame
<1>2. \A i \in Made : Files(i)' = Files(i) /\ published'[i] = published[i]
  BY CopiesSame
<1>3. \A p : p.item \in Nat /\ Ahead(p, Coming(c)) => Ahead(p, Coming(c)')
  BY <1>1
<1>4. Handled(c)'
  BY <1>2, <1>3, HandledFrame
<1> QED  BY <1>1, <1>4

LEMMA PaceCopy ==
  ASSUME TypeInv, NEW c \in Conns, Chained(c), Handled(c), NEW kind \in Kinds, Copy(kind)
  PROVE  Chained(c)' /\ Handled(c)'
<1>1. UNCHANGED <<snd, data, wire, rcv, incoming>>
  BY DEF Copy, rcvVars
<1>2. Coming(c)' = Coming(c)
  BY <1>1 DEF Coming, Line, Mark, Manifest
<1>3. \A i \in Made : Files(i)' = Files(i) /\ published'[i] = published[i]
  BY CopyGrows DEF TypeInv
<1>4. \A m \in Messages : After(m)' = After(m)
  BY <1>3, MessageFacts DEF After, TypeInv
<1>5. PICK q \in Seq(Marks) : q = Coming(c)
  BY ComingType
<1>6. \A a, b \in DOMAIN q : a < b => q[a] \in Messages
  <2> SUFFICES ASSUME NEW a \in DOMAIN q, NEW b \in DOMAIN q, a < b PROVE q[a] \in Messages
    OBVIOUS
  <2>1. PICK l \in Seq(Messages) : l = Line(c)
    BY ComingType
  <2>2. CASE snd[c].open
    <3>1. q = Append(l, Mark(c))
      BY <1>5, <2>1, <2>2 DEF Coming
    <3> QED  BY <3>1
  <2>3. CASE ~snd[c].open
    <3>1. q = l
      BY <1>5, <2>1, <2>3 DEF Coming
    <3> QED  BY <3>1
  <2> QED  BY <2>2, <2>3
<1>7. Chained(c)' <=> \A a, b \in DOMAIN q : a < b =>
         Before(After(q[a])', q[b]) /\ (b = a + 1 => Fits(After(q[a])', q[b]))
  BY <1>2, <1>5 DEF Chained, Chain, Before, Fits, After
<1>8. Chained(c)'
  BY <1>4, <1>5, <1>6, <1>7 DEF Chained, Chain
<1>9. \A p : p.item \in Nat /\ Ahead(p, Coming(c)) => Ahead(p, Coming(c)')
  BY <1>2
<1>10. Handled(c)'
  BY <1>1, <1>3, <1>9, HandledFrame
<1> QED  BY <1>8, <1>10

LEMMA PaceStep == ASSUME TypeInv, PaceInv, Step, TypeInv' PROVE PaceInv'
<1> SUFFICES ASSUME NEW c \in Conns PROVE Chained(c)' /\ Handled(c)'
  BY DEF PaceInv
<1>0. Chained(c) /\ Handled(c)
  BY DEF PaceInv
<1>1. ASSUME NEW kind \in Kinds, Copy(kind) PROVE Chained(c)' /\ Handled(c)'
  BY <1>0, <1>1, PaceCopy
<1>2. ASSUME NEW i, NEW f, NEW how, Change(i, f, how) PROVE Chained(c)' /\ Handled(c)'
  BY <1>0, <1>2, PaceFrame DEF Change, rcvVars
<1>3. CASE Connect
  <2>1. /\ UNCHANGED <<published, data, wire, incoming>> /\ conns \in Nat
        /\ snd' = [snd EXCEPT ![conns + 1].open = TRUE, ![conns + 1].next = Published + 1]
        /\ rcv' = [rcv EXCEPT ![conns + 1].open = TRUE]
        /\ snd \in [Conns -> SndType] /\ rcv \in [Conns -> RcvType]
    BY <1>3 DEF Connect, TypeInv, CopiesInv, SndInv, RcvInv
  <2>2. CASE c # conns + 1
    BY <1>0, <2>1, <2>2, PaceFrame
  <2>3. CASE c = conns + 1
    <3>1. ~rcv[c].open /\ wire[c] = <<>> /\ data[c] = <<>>
      BY <2>1, <2>3 DEF TypeInv, RcvInv, StreamInv
    <3>2. rcv'[c].pc = "idle" /\ DOMAIN incoming'[c] = {}
      BY <2>1, <3>1 DEF TypeInv, RcvInv, RcvType
    <3>3. Line(c)' = <<>>
      BY <2>1, <3>1 DEF Line
    <3>4. Coming(c)' = <<>> \/ Coming(c)' = <<Mark(c)'>>
      BY <3>3 DEF Coming
    <3>5. \A a, b \in DOMAIN (Coming(c)') : ~(a < b)
      BY <3>4
    <3>6. Chained(c)'
      BY <3>5 DEF Chained, Chain
    <3> QED  BY <3>2, <3>6, HandledIdle
  <2> QED  BY <2>2, <2>3
<1>4. ASSUME NEW d \in Conns, SenderStep(d) PROVE Chained(c)' /\ Handled(c)'
  <2>1. /\ UNCHANGED <<published, rcv, incoming>>
        /\ \A e \in Conns \ {d} : snd'[e] = snd[e] /\ data'[e] = data[e] /\ wire'[e] = wire[e]
    BY <1>4 DEF SenderStep, SenderStays
  <2>2. CASE c = d
    <3>1. /\ Chained(c)' /\ \A p : p.item \in Nat /\ Ahead(p, Coming(c)) => Ahead(p, Coming(c)')
      BY <1>0, <1>4, <2>2, SenderKeeps
    <3>2. \A i \in Made : Files(i)' = Files(i) /\ published'[i] = published[i]
      BY <2>1, CopiesSame
    <3>3. Handled(c)'
      BY <1>0, <2>1, <3>1, <3>2, HandledFrame
    <3> QED  BY <3>1, <3>3
  <2>3. CASE c # d
    BY <1>0, <2>1, <2>3, PaceFrame
  <2> QED  BY <2>2, <2>3
<1>5. ASSUME NEW d \in Conns, ReceiverStep(d) PROVE Chained(c)' /\ Handled(c)'
  <2>1. CASE c = d
    BY <1>0, <1>5, <2>1, ReceiverHandled
  <2>2. CASE c # d
    BY <1>0, <1>5, <2>2, PaceFrame DEF ReceiverStep, ReceiverStays, sndVars
  <2> QED  BY <2>1, <2>2
<1>6. ASSUME NEW C \in SUBSET Conns, Closes(C) PROVE Chained(c)' /\ Handled(c)'
  <2>1. /\ UNCHANGED <<published, snd, data>>
        /\ rcv'[c] = (IF c \in C THEN RcvClosed ELSE rcv[c])
        /\ incoming'[c] = (IF c \in C THEN <<>> ELSE incoming[c])
        /\ wire'[c] = (IF c \in C THEN <<>> ELSE wire[c])
    BY <1>6 DEF Closes, sndVars
  <2>2. CASE c \in C
    <3>1. Chained(c)'
      BY <1>0, <2>1, <2>2, CloseComing
    <3>2. rcv'[c].pc = "idle" /\ DOMAIN incoming'[c] = {}
      BY <2>1, <2>2 DEF RcvClosed
    <3> QED  BY <3>1, <3>2, HandledIdle
  <2>3. CASE c \notin C
    BY <1>0, <2>1, <2>3, PaceFrame
  <2> QED  BY <2>2, <2>3
<1>7. CASE DiskStep \/ UNCHANGED vars
  BY <1>0, <1>7, PaceFrame DEF DiskStep, vars, sndVars, rcvVars
<1> QED  BY <1>1, <1>2, <1>3, <1>4, <1>5, <1>6, <1>7 DEF Step

LEMMA PaceInvariance == Spec => []PaceInv
<1>1. Init => PaceInv
  <2> SUFFICES ASSUME Init, NEW c \in Conns PROVE Chained(c) /\ Handled(c)
    BY DEF PaceInv
  <2>1. /\ wire[c] = <<>> /\ data[c] = <<>> /\ snd[c] = SndClosed /\ rcv[c] = RcvClosed
        /\ incoming[c] = <<>>
    BY DEF Init
  <2>2. Coming(c) = <<>>
    BY <2>1 DEF Coming, Line, SndClosed
  <2>3. DOMAIN incoming[c] = {} /\ rcv[c].pc = "idle"
    BY <2>1 DEF RcvClosed
  <2> QED  BY <2>2, <2>3 DEF Chained, Chain, Handled
<1>2. TypeInv /\ TypeInv' /\ PaceInv /\ [Next]_vars => PaceInv'
  BY NextSteps, PaceStep
<1> QED  BY TypeInvariance, <1>1, <1>2, PTL DEF Spec

\* A connection never holds more than one partial item, whatever was overwritten,
\* broken off or given up, so MAX_PENDING_ITEMS never refuses an honest peer.
THEOREM OnePendingCorrect == Spec => []OnePending
<1>1. TypeInv /\ PaceInv => OnePending
  <2> SUFFICES ASSUME TypeInv, PaceInv, NEW c \in Conns
               PROVE  Cardinality(DOMAIN incoming[c]) +
                        (IF rcv[c].pc \in {"mkdir", "mkdirs"} THEN 1 ELSE 0) <= 1
    BY DEF OnePending
  <2>1. Handled(c)
    BY DEF PaceInv
  <2>2. CASE DOMAIN incoming[c] = {}
    <3>1. Cardinality(DOMAIN incoming[c]) = 0
      BY <2>2, FS_EmptySet
    <3> QED  BY <3>1
  <2>3. CASE DOMAIN incoming[c] # {}
    <3>0. PICK i \in DOMAIN incoming[c] : TRUE
      BY <2>3
    <3>1. DOMAIN incoming[c] = {i}
      BY <2>1, <3>0 DEF Handled
    <3>2. Cardinality(DOMAIN incoming[c]) = 1
      BY <3>1, FS_Singleton
    <3>3. rcv[c].pc \notin {"mkdir", "mkdirs"}
      BY <2>1, <2>3 DEF Handled
    <3> QED  BY <3>2, <3>3
  <2> QED  BY <2>2, <2>3
<1> QED  BY TypeInvariance, PaceInvariance, <1>1, PTL

-----------------------------------------------------------------------------
(* An item goes over one connection, and is gone from it once applied.     *)

\* What a connection may still send of an item: all of it, from its manifest
\* on, or some message.
Unsent(c, i) ==
  \/ snd[c].open /\ i >= snd[c].next
  \/ snd[c].pc \in {"check", "manifest"} /\ i = snd[c].item
  \/ \E a \in DOMAIN Line(c) : Line(c)[a].type = "manifest" /\ Line(c)[a].item = i

Expected(c, i) ==
  \/ snd[c].open /\ i >= snd[c].next
  \/ snd[c].pc # "wait" /\ i = snd[c].item
  \/ \E a \in DOMAIN Line(c) : Line(c)[a].item = i

\* The connection may still put the item on the clipboard.
Live(c, i) ==
  /\ rcv[c].open
  /\ Expected(c, i) \/ i \in DOMAIN incoming[c] \/ (rcv[c].pc # "idle" /\ i = Item(c))

\* The item is not complete at the receiver of the connection.
Unkept(c, i) ==
  /\ rcv[c].open
  /\ \/ Unsent(c, i) \/ i \in DOMAIN incoming[c]
     \/ rcv[c].pc \in {"mkdir", "mkdirs", "write", "verify"} /\ i = Item(c)

LEMMA UnkeptLive ==
  ASSUME NEW c, NEW i, Unkept(c, i)
  PROVE  Live(c, i)
BY DEF Unkept, Live, Unsent, Expected

\* Nothing that is coming is behind what the receiver has got to.
LEMMA AheadFacts ==
  ASSUME TypeInv, NEW c \in Conns, NEW p, p.item \in Nat, Ahead(p, Coming(c))
  PROVE  /\ ~Unsent(c, p.item)
         /\ \A i \in Nat : Expected(c, i) => p.item <= i
         /\ p.file = 0 => \A i \in Nat : Expected(c, i) => p.item < i
<1>1. PICK l \in Seq(Messages) : l = Line(c)
  BY ComingType
<1>2. PICK k \in Marks : k = Mark(c)
  BY ComingType
<1>3. \A a \in DOMAIN l : Before(p, l[a]) /\ l[a].item \in Nat
  <2>1. \A a \in DOMAIN l : l[a] \in Messages
    BY <1>1
  <2>2. CASE snd[c].open
    <3>1. Coming(c) = Append(l, k)
      BY <1>1, <1>2, <2>2 DEF Coming
    <3>2. \A a \in DOMAIN l : a \in DOMAIN Append(l, k) /\ Append(l, k)[a] = l[a]
      BY <1>1, <1>2
    <3> QED  BY <2>1, <3>1, <3>2, MessageFacts DEF Ahead, TypeInv
  <2>3. CASE ~snd[c].open
    <3>1. Coming(c) = l
      BY <1>1, <2>3 DEF Coming
    <3> QED  BY <2>1, <3>1, MessageFacts DEF Ahead, TypeInv
  <2> QED  BY <2>2, <2>3
<1>4. snd[c].open => Before(p, k)
  <2> SUFFICES ASSUME snd[c].open PROVE Before(p, k)
    OBVIOUS
  <2>1. Coming(c) = Append(l, k)
    BY <1>1, <1>2 DEF Coming
  <2>2. Len(l) + 1 \in DOMAIN Append(l, k) /\ Append(l, k)[Len(l) + 1] = k
    BY <1>1, <1>2
  <2> QED  BY <2>1, <2>2 DEF Ahead
<1>5. /\ snd[c].pc # "wait" => snd[c].open /\ snd[c].item < snd[c].next
      /\ snd[c].item \in Nat /\ snd[c].next \in Nat
      /\ snd[c].pc \in {"wait", "check", "manifest", "open", "read"}
  BY DEF TypeInv, SndInv, SndType
<1>6. CASE ~snd[c].open
  BY <1>1, <1>3, <1>5, <1>6 DEF Unsent, Expected, Before
<1>7. CASE snd[c].open /\ snd[c].pc = "wait"
  <2>1. p.item < snd[c].next
    BY <1>2, <1>4, <1>7 DEF Before, Mark, Manifest
  <2> QED  BY <1>1, <1>3, <1>5, <1>7, <2>1 DEF Unsent, Expected, Before
<1>8. CASE snd[c].open /\ snd[c].pc \in {"check", "manifest"}
  <2>1. p.item < snd[c].item
    BY <1>2, <1>4, <1>8 DEF Before, Mark, Manifest
  <2> QED  BY <1>1, <1>3, <1>5, <1>8, <2>1 DEF Unsent, Expected, Before
<1>9. CASE snd[c].open /\ snd[c].pc \in {"open", "read"}
  <2>1. p.item <= snd[c].item /\ (p.file = 0 => p.item < snd[c].item)
    BY <1>2, <1>4, <1>9 DEF Before, Mark
  <2> QED  BY <1>1, <1>3, <1>5, <1>9, <2>1 DEF Unsent, Expected, Before
<1> QED  BY <1>5, <1>6, <1>7, <1>8, <1>9

\* A sender sends no more of anything than it would have.
LEMMA SenderExpects ==
  ASSUME TypeInv, NEW c \in Conns, SenderStep(c), NEW d \in Conns, NEW i \in Nat
  PROVE  (Expected(d, i)' => Expected(d, i)) /\ (Unsent(d, i)' => Unsent(d, i))
<1>1. CASE d # c
  <2>1. snd'[d] = snd[d] /\ data'[d] = data[d] /\ wire'[d] = wire[d]
    BY <1>1 DEF SenderStep, SenderStays
  <2> QED  BY <2>1 DEF Expected, Unsent, Line
<1>2. CASE d = c
  <2>0. /\ data[c] \in Seq(Messages) /\ wire[c] \in Seq(Messages) /\ Len(data[c]) <= 1
        /\ snd[c] \in SndType /\ snd'[c] \in SndType
        /\ snd[c].pc # "wait" => snd[c].open
    BY DEF SenderStep, SenderStays, TypeInv, StreamInv, SndInv
  <2>1. CASE Advances(c)
    <3>1. Line(c)' = Line(c)
      BY <2>1 DEF Advances, Line
    <3>2. CASE Skips(c)
      BY <1>2, <2>0, <2>1, <3>1, <3>2 DEF Advances, Skips, Expected, Unsent, SndType
    <3>3. CASE Takes(c)
      BY <1>2, <2>0, <2>1, <3>1, <3>3 DEF Advances, Takes, Expected, Unsent, SndType
    <3>4. CASE Readies(c)
      BY <1>2, <2>0, <2>1, <3>1, <3>4 DEF Advances, Readies, Expected, Unsent, SndType
    <3> QED  BY <2>1, <3>2, <3>3, <3>4 DEF Advances
  <2>2. ASSUME NEW m \in Messages, Emits(c, m)
        PROVE  (Expected(c, i)' => Expected(c, i)) /\ (Unsent(c, i)' => Unsent(c, i))
    <3>1. /\ snd[c].open /\ snd'[c].open /\ wire' = wire /\ data[c] = <<>> /\ data'[c] = <<m>>
          /\ m.item = snd[c].item /\ snd'[c].next = snd[c].next
          /\ snd[c].pc = "manifest" \/ (snd[c].pc = "read" /\ m.type = "chunk")
          /\ snd'[c].pc = "wait" \/ (snd'[c].pc \in {"open", "read"} /\ snd'[c].item = m.item)
      BY <2>2 DEF Emits
    <3>2. Line(c) = wire[c] /\ Line(c)' = Append(wire[c], m)
      BY <2>0, <3>1 DEF Line
    <3>3. \A a \in DOMAIN (Line(c)') : (a \in DOMAIN Line(c) /\ Line(c)'[a] = Line(c)[a]) \/ Line(c)'[a] = m
      BY <2>0, <3>2
    <3> HIDE DEF Line
    <3> QED  BY <3>1, <3>3 DEF Expected, Unsent
  <2>3. CASE Shuts(c)
    <3>1. snd'[c] = SndClosed /\ Line(c)' = wire[c]
      <4>1. wire[c] \o <<>> = wire[c]
        BY <2>0, ConcatEmptySeq
      <4> QED  BY <2>3, <4>1 DEF Shuts, Line
    <3>2. \A a \in DOMAIN wire[c] : a \in DOMAIN Line(c) /\ Line(c)[a] = wire[c][a]
      <4>1. /\ Len(Line(c)) >= Len(wire[c]) /\ \A b \in 1..Len(wire[c]) : Line(c)[b] = wire[c][b]
            /\ Line(c) \in Seq(Messages)
        BY <2>0, PrefixOfConcat, ComingType DEF Line
      <4>2. DOMAIN wire[c] = 1..Len(wire[c]) /\ DOMAIN Line(c) = 1..Len(Line(c))
            /\ Len(wire[c]) \in Nat /\ Len(Line(c)) \in Nat
        BY <2>0, <4>1
      <4> QED  BY <4>1, <4>2
    <3> QED  BY <1>2, <3>1, <3>2 DEF Expected, Unsent, SndClosed
  <2>4. CASE Flushes(c)
    <3>1. data[c] # <<>> /\ snd' = snd /\ wire'[c] = Append(wire[c], Head(data[c])) /\ data'[c] = <<>>
      BY <2>4 DEF Flushes
    <3>2. data[c] = <<Head(data[c])>>
      BY <2>0, <3>1, OneElement
    <3>3. Line(c)' = Line(c)
      <4>1. wire[c] \o <<Head(data[c])>> = Append(wire[c], Head(data[c])) \o <<>>
        BY <2>0, <3>1
      <4> QED  BY <3>1, <3>2, <4>1 DEF Line
    <3> QED  BY <1>2, <3>1, <3>3 DEF Expected, Unsent
  <2> QED  BY <1>2, <2>1, <2>2, <2>3, <2>4 DEF SenderStep
<1> QED  BY <1>1, <1>2

\* A step that neither sends nor receives over the connection.
LEMMA ExpectsFrame ==
  ASSUME NEW d, NEW i, snd'[d] = snd[d], data'[d] = data[d], wire'[d] = wire[d]
  PROVE  (Expected(d, i)' <=> Expected(d, i)) /\ (Unsent(d, i)' <=> Unsent(d, i))
BY DEF Expected, Unsent, Line

\* What is read is no longer coming.
LEMMA ReadExpects ==
  ASSUME TypeInv, NEW c \in Conns, wire[c] # <<>>, wire'[c] = Tail(wire[c]),
         UNCHANGED <<snd, data>>, NEW i \in Nat
  PROVE  /\ Expected(c, i)' => Expected(c, i)
         /\ Unsent(c, i)' => Unsent(c, i)
         /\ LET m == Head(wire[c]) IN
              Expected(c, m.item) /\ (m.type = "manifest" => Unsent(c, m.item))
<1>1. PICK w \in Seq(Messages) : w = wire[c]
  BY DEF TypeInv, StreamInv
<1>2. PICK t \in Seq(Messages) : t = data[c]
  BY DEF TypeInv, StreamInv
<1>3. Line(c) = w \o t /\ Line(c)' = Tail(w) \o t /\ w # <<>>
  BY <1>1, <1>2 DEF Line
<1>4. /\ Len(w \o t) = 1 + Len(Tail(w) \o t) /\ (w \o t)[1] = Head(w)
      /\ \A b \in 1..Len(Tail(w) \o t) : (Tail(w) \o t)[b] = (w \o t)[1 + b]
  BY <1>3, TailOfConcat
<1>5. Tail(w) \in Seq(Messages)
  BY <1>3, HeadTailProperties
<1>6. PICK q \in Seq(Messages) : q = Line(c)
  BY ComingType
<1>7. Tail(w) \o t \in Seq(Messages)
  BY <1>5, ConcatProperties
<1>8. PICK r \in Seq(Messages) : r = Line(c)'
  BY <1>3, <1>7
<1>9. Len(q) = 1 + Len(r) /\ q[1] = Head(w) /\ \A b \in 1..Len(r) : r[b] = q[1 + b]
  BY <1>3, <1>4, <1>6, <1>8
<1>10. 1 \in DOMAIN q /\ \A b \in DOMAIN r : 1 + b \in DOMAIN q /\ r[b] = q[1 + b]
  BY <1>9
<1>11. \A b \in DOMAIN r : \E a \in DOMAIN q : r[b] = q[a]
  BY <1>10
<1>12. Expected(c, i)' <=> \/ snd[c].open /\ i >= snd[c].next
                           \/ snd[c].pc # "wait" /\ i = snd[c].item
                           \/ \E a \in DOMAIN r : r[a].item = i
  BY <1>8 DEF Expected
<1>13. Unsent(c, i)' <=> \/ snd[c].open /\ i >= snd[c].next
                         \/ snd[c].pc \in {"check", "manifest"} /\ i = snd[c].item
                         \/ \E a \in DOMAIN r : r[a].type = "manifest" /\ r[a].item = i
  BY <1>8 DEF Unsent
<1> QED  BY <1>1, <1>6, <1>9, <1>10, <1>11, <1>12, <1>13 DEF Expected, Unsent

\* Only a new connection makes anything live.
LEMMA LiveShrinks ==
  ASSUME TypeInv, Step, ~Connect, NEW d \in Conns
  PROVE  /\ snd'[d].open => snd[d].open
         /\ rcv'[d].open => rcv[d].open
         /\ \A i \in Nat : Live(d, i)' => Live(d, i)
<1> SUFFICES ASSUME NEW i \in Nat
             PROVE  /\ snd'[d].open => snd[d].open
                    /\ rcv'[d].open => rcv[d].open
                    /\ Live(d, i)' => Live(d, i)
  OBVIOUS
<1>1. ASSUME UNCHANGED <<snd, data, wire, rcv, incoming>>
      PROVE  /\ snd'[d].open => snd[d].open
             /\ rcv'[d].open => rcv[d].open
             /\ Live(d, i)' => Live(d, i)
  BY <1>1, ExpectsFrame DEF Live, Item
<1>2. ASSUME NEW kind, Copy(kind) PROVE UNCHANGED <<snd, data, wire, rcv, incoming>>
  BY <1>2 DEF Copy, rcvVars
<1>3. ASSUME NEW j, NEW f, NEW how, Change(j, f, how) PROVE UNCHANGED <<snd, data, wire, rcv, incoming>>
  BY <1>3 DEF Change, rcvVars
<1>4. ASSUME NEW c \in Conns, SenderStep(c)
      PROVE  /\ snd'[d].open => snd[d].open
             /\ rcv'[d].open => rcv[d].open
             /\ Live(d, i)' => Live(d, i)
  <2>1. UNCHANGED <<rcv, incoming>>
    BY <1>4 DEF SenderStep, SenderStays
  <2>2. snd'[d].open => snd[d].open
    <3>1. CASE d = c
      BY <1>4, <3>1 DEF SenderStep, Advances, Emits, Shuts, Flushes, SndClosed
    <3>2. CASE d # c
      BY <1>4, <3>2 DEF SenderStep, SenderStays
    <3> QED  BY <3>1, <3>2
  <2> QED  BY <1>4, <2>1, <2>2, SenderExpects DEF Live, Item
<1>5. ASSUME NEW c \in Conns, ReceiverStep(c)
      PROVE  /\ snd'[d].open => snd[d].open
             /\ rcv'[d].open => rcv[d].open
             /\ Live(d, i)' => Live(d, i)
  <2>1. /\ UNCHANGED <<snd, data>> /\ rcv[c].open
        /\ \A e \in Conns \ {c} : rcv'[e] = rcv[e] /\ incoming'[e] = incoming[e] /\ wire'[e] = wire[e]
    BY <1>5 DEF ReceiverStep, ReceiverStays, sndVars
  <2>2. CASE d # c
    BY <2>1, <2>2, ExpectsFrame DEF Live, Item
  <2>3. ASSUME d = c, NEW m \in Messages, NEW what, NEW dropped, Reads(c, m, what, dropped)
        PROVE  Live(d, i)' => Live(d, i)
    <3>1. /\ Expected(c, i)' => Expected(c, i)
          /\ Expected(c, m.item)
      BY <2>1, <2>3, ReadExpects DEF Reads
    <3>2. /\ DOMAIN incoming'[c] \subseteq DOMAIN incoming[c]
          /\ rcv'[c].pc # "idle" => rcv'[c].msg = m
      BY <2>3 DEF Reads, Drops
    <3> QED  BY <2>1, <2>3, <3>1, <3>2 DEF Live, Item
  <2>4. CASE d = c /\ wire' = wire
    <3>1. Expected(c, i)' => Expected(c, i)
      BY <2>1, <2>4, ExpectsFrame
    <3>2. CASE Makes(c) \/ Keeps(c)
      BY <2>1, <2>4, <3>1, <3>2 DEF Makes, Keeps, Turns, Live, Item
    <3>3. CASE Opens(c)
      BY <2>1, <2>4, <3>1, <3>3 DEF Opens, Live, Item
    <3>4. CASE Writes(c)
      BY <2>1, <2>4, <3>1, <3>4 DEF Writes, Live, Item
    <3>5. CASE Completes(c)
      BY <2>1, <2>4, <3>1, <3>5 DEF Completes, Turns, Live, Item
    <3>6. CASE Applies(c)
      BY <2>1, <2>4, <3>1, <3>6 DEF Applies, Live, Item
    <3>7. ASSUME NEW items, GivesUp(c, items) PROVE Live(d, i)' => Live(d, i)
      BY <2>1, <2>4, <3>1, <3>7 DEF GivesUp, Live, Item
    <3> QED
      BY <1>5, <2>1, <2>3, <2>4, <3>2, <3>3, <3>4, <3>5, <3>6, <3>7 DEF ReceiverStep
  <2>5. CASE d = c /\ wire' # wire
    BY <1>5, <2>1, <2>3, <2>5
    DEF ReceiverStep, Makes, Opens, Writes, Completes, Keeps, Applies, GivesUp
  <2> QED  BY <2>2, <2>4, <2>5
<1>6. ASSUME NEW C \in SUBSET Conns, Closes(C)
      PROVE  /\ snd'[d].open => snd[d].open
             /\ rcv'[d].open => rcv[d].open
             /\ Live(d, i)' => Live(d, i)
  <2>1. /\ UNCHANGED <<snd, data>>
        /\ rcv'[d] = (IF d \in C THEN RcvClosed ELSE rcv[d])
        /\ incoming'[d] = (IF d \in C THEN <<>> ELSE incoming[d])
        /\ wire'[d] = (IF d \in C THEN <<>> ELSE wire[d])
    BY <1>6 DEF Closes, sndVars
  <2>2. CASE d \in C
    BY <2>1, <2>2 DEF RcvClosed, Live
  <2>3. CASE d \notin C
    BY <2>1, <2>3, ExpectsFrame DEF Live, Item
  <2> QED  BY <2>2, <2>3
<1>7. CASE DiskStep \/ UNCHANGED vars
  BY <1>1, <1>7 DEF DiskStep, vars, sndVars, rcvVars
<1> QED  BY <1>1, <1>2, <1>3, <1>4, <1>5, <1>6, <1>7 DEF Step

\* What a step puts on the clipboard was live, and only over its connection
\* may anything behind it still be.
LEMMA AppliedBy ==
  ASSUME TypeInv, PaceInv, Step, applied' # applied
  PROVE  \E c \in Conns :
           /\ rcv[c].pc = "apply" /\ applied' = OnClipboard(c)
           /\ \A i \in Nat : Live(c, i)' => Item(c) < i
<1>1. PICK c \in Conns : /\ rcv[c].pc = "apply" /\ applied' = OnClipboard(c)
                         /\ \/ ~rcv'[c].open
                            \/ /\ rcv'[c].pc = "idle" /\ UNCHANGED <<snd, data, wire, incoming>>
  <2>1. ASSUME NEW c \in Conns, ReceiverStep(c)
        PROVE  /\ rcv[c].pc = "apply" /\ applied' = OnClipboard(c)
               /\ rcv'[c].pc = "idle" /\ UNCHANGED <<snd, data, wire, incoming>>
    <3>1. Applies(c)
      BY <2>1 DEF ReceiverStep, Reads, Makes, Opens, Writes, Completes, Keeps, GivesUp
    <3> QED  BY <2>1, <3>1 DEF Applies, ReceiverStep, ReceiverStays, sndVars
  <2>2. ASSUME NEW C \in SUBSET Conns, Closes(C)
        PROVE  \E c \in Conns : rcv[c].pc = "apply" /\ applied' = OnClipboard(c) /\ ~rcv'[c].open
    BY <2>2 DEF Closes, RcvClosed
  <2>3. ASSUME NEW C \in SUBSET Conns, Closes(C)
        PROVE  \E c \in Conns : /\ rcv[c].pc = "apply" /\ applied' = OnClipboard(c)
                                /\ \/ ~rcv'[c].open
                                   \/ /\ rcv'[c].pc = "idle" /\ UNCHANGED <<snd, data, wire, incoming>>
    BY <2>2, <2>3
  <2>4. ~DiskStep
    BY DEF DiskStep, rcvVars
  <2> QED  BY <2>1, <2>3, <2>4, OwnedFrame DEF Step
<1>2. PICK m \in Messages : m = rcv[c].msg
  BY <1>1 DEF TypeInv, RcvInv
<1>3. PICK p : p = After(m)
  OBVIOUS
<1>4. /\ DOMAIN incoming[c] = {} /\ p.file = 0 /\ Ahead(p, Coming(c))
      /\ p.item = Item(c) /\ p.item \in Nat
  BY <1>1, <1>2, <1>3, MessageFacts DEF PaceInv, Handled, At, Item, After, TypeInv
<1>5. \A i \in Nat : Expected(c, i) => p.item < i
  BY <1>4, AheadFacts
<1>6. ASSUME NEW i \in Nat, Live(c, i)' PROVE Item(c) < i
  <2>1. rcv'[c].pc = "idle" /\ UNCHANGED <<snd, data, wire, incoming>>
    BY <1>1, <1>6 DEF Live
  <2>2. Expected(c, i)
    BY <1>4, <1>6, <2>1, ExpectsFrame DEF Live
  <2> QED  BY <1>4, <1>5, <2>2
<1> QED  BY <1>1, <1>6

\* What was applied is live no more and, unless connections overlap at the
\* receiver, neither is anything before it.  No item is live twice.
AppliedInv ==
  \A c \in Conns, i \in Nat : Live(c, i) =>
    \A k \in DOMAIN applied : applied[k].item # i /\ (~senderConnects => applied[k].item < i)
OneLiveInv == \A c, d \in Conns, i \in Nat : Live(c, i) /\ Live(d, i) => c = d
OneOpenInv ==
  /\ senderConnects => \A c, d \in Conns : snd[c].open /\ snd[d].open => c = d
  /\ ~senderConnects => \A c, d \in Conns : rcv[c].open /\ rcv[d].open => c = d

LiveInv == AppliedInv /\ OneLiveInv /\ OneOpenInv

\* What a connection is live with, once its sender is closed, was copied.
LEMMA LiveMade ==
  ASSUME TypeInv, NEW c \in Conns, NEW i \in Nat, ~snd[c].open, Live(c, i)
  PROVE  i \in Made
<1>1. \A a \in DOMAIN Line(c) : Line(c)[a] \in Messages
  BY ComingType
<1>2. \A a \in DOMAIN Line(c) : Line(c)[a].item \in Made
  BY <1>1, MessageFacts DEF TypeInv
<1>3. rcv[c].pc # "idle" => Item(c) \in Made
  BY MessageFacts DEF TypeInv, RcvInv, Item
<1> QED  BY <1>2, <1>3 DEF Live, Expected, TypeInv, SndInv, RcvInv

LEMMA AppliedFacts ==
  ASSUME TypeInv
  PROVE  \A k \in DOMAIN applied : /\ applied[k] \in AppliedType /\ applied[k].item \in Made
                                  /\ applied[k].item \in Nat
<1>1. applied \in Seq(AppliedType)
  BY DEF TypeInv, DiskInv
<1>2. \A k \in DOMAIN applied : applied[k] \in AppliedType
  BY <1>1
<1> QED  BY <1>2 DEF AppliedType, Made

LEMMA LiveConnect ==
  ASSUME TypeInv, LiveInv, Connect
  PROVE  LiveInv'
<1> PICK n : n = conns + 1
  OBVIOUS
<1>0. /\ UNCHANGED <<senderConnects, published, data, wire, incoming, applied>>
      /\ conns \in Nat /\ n \in Conns
      /\ \A c \in Conns : IF senderConnects THEN ~snd[c].open ELSE ~rcv[c].open
      /\ snd' = [snd EXCEPT ![n].open = TRUE, ![n].next = Published + 1]
      /\ rcv' = [rcv EXCEPT ![n].open = TRUE]
      /\ snd \in [Conns -> SndType] /\ rcv \in [Conns -> RcvType]
  BY ConstantsAssumption DEF Connect, TypeInv, CopiesInv, SndInv, RcvInv, Conns
<1>1. \A d \in Conns \ {n} : snd'[d] = snd[d] /\ rcv'[d] = rcv[d]
  BY <1>0
<1>2. ~snd[n].open /\ ~rcv[n].open /\ wire[n] = <<>> /\ data[n] = <<>>
  BY <1>0 DEF TypeInv, SndInv, RcvInv, StreamInv
<1>3. /\ rcv[n].pc = "idle" /\ snd[n].pc = "wait" /\ DOMAIN incoming[n] = {}
  BY <1>0, <1>2 DEF TypeInv, SndInv, RcvInv
<1>4. \A d \in Conns \ {n}, i \in Nat : Live(d, i)' => Live(d, i)
  BY <1>0, <1>1, ExpectsFrame DEF Live, Item
<1>5. \A i \in Nat : Live(n, i)' => i >= Published + 1
  <2>1. Line(n)' = <<>>
    BY <1>0, <1>2 DEF Line
  <2>2. snd'[n].next = Published + 1 /\ snd'[n].pc = "wait"
    <3>1. snd'[n] = [snd[n] EXCEPT !.open = TRUE, !.next = Published + 1]
      BY <1>0
    <3>2. snd[n] \in SndType
      BY <1>0
    <3> QED  BY <1>3, <3>1, <3>2 DEF SndType
  <2>3. rcv'[n].pc = "idle"
    BY <1>0, <1>3 DEF RcvType
  <2> QED  BY <1>0, <1>3, <2>1, <2>2, <2>3 DEF Live, Expected
<1>6. Published \in Nat /\ \A i \in Made : i \in Nat /\ i <= Published
  <2>1. Published \in Nat
    BY LenProperties DEF TypeInv, CopiesInv, Published
  <2> QED  BY <2>1 DEF Made
<1>7. \A k \in DOMAIN applied : applied[k].item \in Made
  BY AppliedFacts
<1>8. AppliedInv'
  <2> SUFFICES ASSUME NEW c \in Conns, NEW i \in Nat, Live(c, i)', NEW k \in DOMAIN applied
               PROVE  applied[k].item # i /\ (~senderConnects => applied[k].item < i)
    BY <1>0 DEF AppliedInv
  <2>1. CASE c = n
    BY <1>5, <1>6, <1>7, <2>1
  <2>2. CASE c # n
    BY <1>4, <2>2 DEF LiveInv, AppliedInv
  <2> QED  BY <2>1, <2>2
<1>9. ASSUME NEW d \in Conns \ {n}, NEW i \in Nat, Live(d, i)', Live(n, i)' PROVE FALSE
  <2>1. Live(d, i) /\ rcv[d].open
    BY <1>4, <1>9 DEF Live
  <2>2. ~snd[d].open
    BY <1>0, <2>1
  <2>3. i \in Made
    BY <2>1, <2>2, LiveMade
  <2> QED  BY <1>5, <1>6, <1>9, <2>3
<1>10. OneLiveInv'
  <2> SUFFICES ASSUME NEW c \in Conns, NEW d \in Conns, NEW i \in Nat, Live(c, i)', Live(d, i)'
               PROVE  c = d
    BY DEF OneLiveInv
  <2>1. CASE c # n /\ d # n
    BY <1>4, <2>1 DEF LiveInv, OneLiveInv
  <2> QED  BY <1>9, <2>1
<1>11. OneOpenInv'
  BY <1>0, <1>1 DEF OneOpenInv
<1> QED  BY <1>8, <1>10, <1>11 DEF LiveInv

\* The devices keep their ids.
LEMMA RolesStay == ASSUME Step PROVE UNCHANGED senderConnects
BY DEF Step, Copy, Change, Connect, SenderStep, SenderStays, ReceiverStep, ReceiverStays, Closes,
       DiskStep, vars, sndVars

LEMMA LiveStep == ASSUME TypeInv, PaceInv, LiveInv, Step PROVE LiveInv'
<1>1. CASE Connect
  BY <1>1, LiveConnect
<1>2. CASE ~Connect
  <2>1. \A d \in Conns : /\ snd'[d].open => snd[d].open
                         /\ rcv'[d].open => rcv[d].open
                         /\ \A i \in Nat : Live(d, i)' => Live(d, i)
    BY <1>2, LiveShrinks
  <2>2. senderConnects' = senderConnects
    BY RolesStay
  <2>3. OneOpenInv'
    BY <2>1, <2>2 DEF LiveInv, OneOpenInv
  <2>4. OneLiveInv'
    BY <2>1 DEF LiveInv, OneLiveInv
  <2>5. AppliedInv'
    <3> SUFFICES ASSUME NEW d \in Conns, NEW i \in Nat, Live(d, i)', NEW k \in DOMAIN applied'
                 PROVE  applied'[k].item # i /\ (~senderConnects => applied'[k].item < i)
      BY <2>2 DEF AppliedInv
    <3>1. Live(d, i)
      BY <2>1
    <3>2. CASE applied' = applied
      BY <3>1, <3>2 DEF LiveInv, AppliedInv
    <3>3. CASE applied' # applied
      <4>1. PICK c \in Conns : /\ rcv[c].pc = "apply" /\ applied' = OnClipboard(c)
                               /\ \A j \in Nat : Live(c, j)' => Item(c) < j
        BY <3>3, AppliedBy
      <4>2. applied \in Seq(AppliedType)
        BY DEF TypeInv, DiskInv
      <4>3. \/ k \in DOMAIN applied /\ applied'[k] = applied[k]
            \/ applied'[k].item = Item(c)
        BY <4>1, <4>2 DEF OnClipboard
      <4>4. Item(c) \in Nat /\ rcv[c].open /\ Live(c, Item(c))
        BY <4>1, MessageFacts DEF TypeInv, RcvInv, Item, Live
      <4>5. ASSUME applied'[k].item = Item(c)
            PROVE  applied'[k].item # i /\ (~senderConnects => applied'[k].item < i)
        <5>1. CASE d = c
          <6>1. Item(c) < i
            BY <4>1, <5>1
          <6> QED  BY <4>4, <4>5, <6>1
        <5>2. CASE d # c
          <6>1. i # Item(c)
            BY <3>1, <4>4, <5>2 DEF LiveInv, OneLiveInv
          <6>2. senderConnects
            BY <3>1, <4>4, <5>2 DEF Live, LiveInv, OneOpenInv, TypeInv, CopiesInv
          <6> QED  BY <4>5, <6>1, <6>2
        <5> QED  BY <5>1, <5>2
      <4>6. CASE k \in DOMAIN applied /\ applied'[k] = applied[k]
        BY <3>1, <4>6 DEF LiveInv, AppliedInv
      <4> QED  BY <4>3, <4>5, <4>6
    <3> QED  BY <3>2, <3>3
  <2> QED  BY <2>3, <2>4, <2>5 DEF LiveInv
<1> QED  BY <1>1, <1>2

LEMMA LiveInvariance == Spec => []LiveInv
<1>1. Init => LiveInv
  <2> SUFFICES ASSUME Init PROVE LiveInv
    OBVIOUS
  <2>1. \A c \in Conns : ~snd[c].open /\ ~rcv[c].open
    BY DEF Init, SndClosed, RcvClosed
  <2> QED  BY <2>1 DEF LiveInv, AppliedInv, OneLiveInv, OneOpenInv, Live
<1>2. TypeInv /\ PaceInv /\ LiveInv /\ [Next]_vars => LiveInv'
  BY NextSteps, LiveStep
<1> QED  BY TypeInvariance, PaceInvariance, <1>1, <1>2, PTL DEF Spec

\* The items delivered, as the abstract specification has them.
Delivered == [k \in DOMAIN applied |-> applied[k].item]

LEMMA PromiseStep ==
  ASSUME TypeInv, PaceInv, LiveInv, Step
  PROVE  Promise!Next \/ UNCHANGED <<~senderConnects, Published, Delivered>>
<1>1. CASE applied' = applied
  <2>1. CASE \E kind \in Kinds : Copy(kind)
    <3>1. Published' = Published + 1 /\ senderConnects' = senderConnects
      BY <2>1, CopyGrows DEF Copy, TypeInv
    <3> QED  BY <1>1, <3>1 DEF Promise!Next, Promise!Copy
  <2>2. CASE ~(\E kind \in Kinds : Copy(kind))
    <3>1. UNCHANGED <<senderConnects, published>>
      BY <2>2
      DEF Step, Change, Connect, SenderStep, SenderStays, ReceiverStep, ReceiverStays, Closes,
          DiskStep, vars, sndVars
    <3> QED  BY <1>1, <3>1, CopiesSame DEF Delivered
  <2> QED  BY <2>1, <2>2
<1>2. CASE applied' # applied
  <2>1. PICK c \in Conns : rcv[c].pc = "apply" /\ applied' = OnClipboard(c)
    BY <1>2, AppliedBy
  <2>2. applied \in Seq(AppliedType)
    BY DEF TypeInv, DiskInv
  <2>3. Item(c) \in 1..Published /\ Item(c) \in Nat /\ Live(c, Item(c))
    BY <2>1, MessageFacts DEF TypeInv, RcvInv, Item, Live, Made
  <2>4. \A k \in DOMAIN applied :
          applied[k].item # Item(c) /\ (~senderConnects => applied[k].item < Item(c))
    BY <2>3 DEF LiveInv, AppliedInv
  <2>5. [k \in DOMAIN applied' |-> applied'[k].item] =
          Append([k \in DOMAIN applied |-> applied[k].item], Item(c))
    <3>1. PICK n \in Nat : n = Len(applied) /\ DOMAIN applied = 1..n
      BY <2>2
    <3>2. /\ DOMAIN applied' = 1..(n + 1)
          /\ \A k \in 1..n : applied'[k] = applied[k]
          /\ applied'[n + 1].item = Item(c)
      BY <2>1, <2>2, <3>1 DEF OnClipboard
    <3>3. [k \in 1..n |-> applied[k].item] \in Seq(Nat) /\ Len([k \in 1..n |-> applied[k].item]) = n
      <4>1. \A k \in 1..n : applied[k].item \in Nat
        BY <3>1, AppliedFacts
      <4> QED  BY <4>1
    <3> QED  BY <2>3, <3>1, <3>2, <3>3
  <2>6. UNCHANGED <<senderConnects, Published>>
    <3>1. ~(\E kind \in Kinds : Copy(kind)) /\ ~Connect
      BY <1>2 DEF Copy, Connect, rcvVars
    <3>2. UNCHANGED <<senderConnects, published>>
      BY <3>1
      DEF Step, Change, SenderStep, SenderStays, ReceiverStep, ReceiverStays, Closes,
          DiskStep, vars, sndVars
    <3> QED  BY <3>2, CopiesSame
  <2>7. PICK i : i = Item(c)
    OBVIOUS
  <2>8. Promise!Deliver(i)
    <3>1. \A k \in DOMAIN Delivered : Delivered[k] # i /\ (~senderConnects => Delivered[k] < i)
      BY <2>4, <2>7 DEF Delivered
    <3> QED  BY <2>5, <2>6, <2>7, <3>1 DEF Promise!Deliver, Delivered
  <2> QED  BY <2>3, <2>7, <2>8 DEF Promise!Next
<1> QED  BY <1>1, <1>2

\* The transfer implements Delivery: a copy is put on the clipboard at most once,
\* only after it was made, and in order unless connections overlap at the
\* receiver (queue_captures, read_messages, connector_loop).
THEOREM PromiseKept == Spec => PromiseSpec
<1>1. Init => Promise!Init
  <2> SUFFICES ASSUME Init PROVE Promise!Init
    OBVIOUS
  <2>1. senderConnects \in BOOLEAN /\ Published = 0 /\ applied = <<>>
    BY DEF Init, Published
  <2>2. [k \in DOMAIN applied |-> applied[k].item] = <<>>
    BY <2>1
  <2> QED  BY <2>1, <2>2 DEF Promise!Init
<1>2. TypeInv /\ PaceInv /\ LiveInv /\ [Next]_vars =>
        [Promise!Next]_<<~senderConnects, Published, [k \in DOMAIN applied |-> applied[k].item]>>
  BY PromiseStep, NextSteps DEF Delivered
<1> QED
  BY TypeInvariance, PaceInvariance, LiveInvariance, <1>1, <1>2, PTL
  DEF Spec, PromiseSpec, Promise!Spec

-----------------------------------------------------------------------------
(* What a connection is still to complete is neither kept nor removed, and *)
(* what is kept, as what is applied, stays.                                *)

\* Only a new connection makes anything unkept.
LEMMA UnkeptShrinks ==
  ASSUME TypeInv, Step, ~Connect, NEW d \in Conns
  PROVE  \A i \in Nat : Unkept(d, i)' => Unkept(d, i)
<1> SUFFICES ASSUME NEW i \in Nat PROVE Unkept(d, i)' => Unkept(d, i)
  OBVIOUS
<1>1. ASSUME UNCHANGED <<snd, data, wire, rcv, incoming>> PROVE Unkept(d, i)' => Unkept(d, i)
  BY <1>1, ExpectsFrame DEF Unkept, Item
<1>2. ASSUME NEW kind, Copy(kind) PROVE UNCHANGED <<snd, data, wire, rcv, incoming>>
  BY <1>2 DEF Copy, rcvVars
<1>3. ASSUME NEW j, NEW f, NEW how, Change(j, f, how) PROVE UNCHANGED <<snd, data, wire, rcv, incoming>>
  BY <1>3 DEF Change, rcvVars
<1>4. ASSUME NEW c \in Conns, SenderStep(c) PROVE Unkept(d, i)' => Unkept(d, i)
  <2>1. UNCHANGED <<rcv, incoming>>
    BY <1>4 DEF SenderStep, SenderStays
  <2> QED  BY <1>4, <2>1, SenderExpects DEF Unkept, Item
<1>5. ASSUME NEW c \in Conns, ReceiverStep(c) PROVE Unkept(d, i)' => Unkept(d, i)
  <2>1. /\ UNCHANGED <<snd, data>> /\ rcv[c].open
        /\ \A e \in Conns \ {c} : rcv'[e] = rcv[e] /\ incoming'[e] = incoming[e] /\ wire'[e] = wire[e]
    BY <1>5 DEF ReceiverStep, ReceiverStays, sndVars
  <2>2. CASE d # c
    BY <2>1, <2>2, ExpectsFrame DEF Unkept, Item
  <2>3. ASSUME d = c, NEW m \in Messages, NEW what \in {"idle", "mkdir", "apply", "write"},
               NEW dropped, Reads(c, m, what, dropped)
        PROVE  Unkept(d, i)' => Unkept(d, i)
    <3>1. /\ Unsent(c, i)' => Unsent(c, i)
          /\ m.type = "manifest" => Unsent(c, m.item)
      BY <2>1, <2>3, ReadExpects DEF Reads
    <3>2. /\ DOMAIN incoming'[c] \subseteq DOMAIN incoming[c]
          /\ rcv'[c].pc # "idle" => rcv'[c].msg = m
          /\ rcv'[c].pc = "mkdir" => m.type = "manifest"
          /\ rcv'[c].pc = "write" => m.item \in DOMAIN incoming[c]
          /\ rcv'[c].pc = what
      BY <2>3 DEF Reads, Drops
    <3> QED  BY <2>1, <2>3, <3>1, <3>2 DEF Unkept, Item
  <2>4. CASE d = c /\ wire' = wire
    <3>1. Unsent(c, i)' => Unsent(c, i)
      BY <2>1, <2>4, ExpectsFrame
    <3>2. CASE Makes(c) \/ Keeps(c)
      BY <2>1, <2>4, <3>1, <3>2 DEF Makes, Keeps, Turns, Unkept, Item
    <3>3. CASE Opens(c)
      BY <2>1, <2>4, <3>1, <3>3 DEF Opens, Unkept, Item
    <3>4. CASE Writes(c)
      BY <2>1, <2>4, <3>1, <3>4 DEF Writes, Unkept, Item
    <3>5. CASE Completes(c)
      BY <2>1, <2>4, <3>1, <3>5 DEF Completes, Turns, Unkept, Item
    <3>6. CASE Applies(c)
      BY <2>1, <2>4, <3>1, <3>6 DEF Applies, Unkept, Item
    <3>7. ASSUME NEW items, GivesUp(c, items) PROVE Unkept(d, i)' => Unkept(d, i)
      BY <2>1, <2>4, <3>1, <3>7 DEF GivesUp, Unkept, Item
    <3> QED
      BY <1>5, <2>1, <2>3, <2>4, <3>2, <3>3, <3>4, <3>5, <3>6, <3>7 DEF ReceiverStep
  <2>5. CASE d = c /\ wire' # wire
    BY <1>5, <2>1, <2>3, <2>5
    DEF ReceiverStep, Makes, Opens, Writes, Completes, Keeps, Applies, GivesUp
  <2> QED  BY <2>2, <2>4, <2>5
<1>6. ASSUME NEW C \in SUBSET Conns, Closes(C) PROVE Unkept(d, i)' => Unkept(d, i)
  <2>1. /\ UNCHANGED <<snd, data>>
        /\ rcv'[d] = (IF d \in C THEN RcvClosed ELSE rcv[d])
        /\ incoming'[d] = (IF d \in C THEN <<>> ELSE incoming[d])
        /\ wire'[d] = (IF d \in C THEN <<>> ELSE wire[d])
    BY <1>6 DEF Closes, sndVars
  <2>2. CASE d \in C
    BY <2>1, <2>2 DEF RcvClosed, Unkept
  <2>3. CASE d \notin C
    BY <2>1, <2>3, ExpectsFrame DEF Unkept, Item
  <2> QED  BY <2>2, <2>3
<1>7. CASE DiskStep \/ UNCHANGED vars
  BY <1>1, <1>7 DEF DiskStep, vars, sndVars, rcvVars
<1> QED  BY <1>1, <1>2, <1>3, <1>4, <1>5, <1>6, <1>7 DEF Step

\* A new connection is to complete nothing that was copied before.
LEMMA UnkeptConnect ==
  ASSUME TypeInv, Connect, NEW c \in Conns, NEW i \in Nat, Unkept(c, i)'
  PROVE  Unkept(c, i) \/ i > Published
<1> PICK n : n = conns + 1
  OBVIOUS
<1>0. /\ UNCHANGED <<data, wire, incoming>>
      /\ conns \in Nat /\ n \in Conns
      /\ snd' = [snd EXCEPT ![n].open = TRUE, ![n].next = Published + 1]
      /\ rcv' = [rcv EXCEPT ![n].open = TRUE]
      /\ snd \in [Conns -> SndType] /\ rcv \in [Conns -> RcvType]
  BY ConstantsAssumption DEF Connect, TypeInv, CopiesInv, SndInv, RcvInv, Conns
<1>1. CASE c # n
  <2>1. snd'[c] = snd[c] /\ rcv'[c] = rcv[c]
    BY <1>0, <1>1
  <2> QED  BY <1>0, <2>1, ExpectsFrame DEF Unkept, Item
<1>2. CASE c = n
  <2>1. /\ ~snd[n].open /\ wire[n] = <<>> /\ data[n] = <<>>
        /\ ~rcv[n].open
    BY <1>0 DEF TypeInv, SndInv, RcvInv, StreamInv
  <2>2. rcv[n].pc = "idle" /\ snd[n].pc = "wait" /\ DOMAIN incoming[n] = {}
    BY <1>0, <2>1 DEF TypeInv, SndInv, RcvInv
  <2>3. Line(n)' = <<>>
    BY <1>0, <2>1 DEF Line
  <2>4. snd'[n].next = Published + 1 /\ snd'[n].pc = "wait"
    <3>1. snd'[n] = [snd[n] EXCEPT !.open = TRUE, !.next = Published + 1]
      BY <1>0
    <3>2. snd[n] \in SndType
      BY <1>0
    <3> QED  BY <2>2, <3>1, <3>2 DEF SndType
  <2>5. rcv'[n].pc = "idle"
    BY <1>0, <2>2 DEF RcvType
  <2>6. i >= Published + 1
    BY <1>0, <1>2, <2>2, <2>3, <2>4, <2>5 DEF Unkept, Unsent
  <2>7. Published \in Nat
    BY LenProperties DEF TypeInv, CopiesInv, Published
  <2> QED  BY <2>6, <2>7
<1> QED  BY <1>1, <1>2

UnkeptInv == \A c \in Conns, i \in Nat : Unkept(c, i) => i \notin kept \cup cleanup
KeptOnDisk == kept \cap cleanup = {} /\ kept \subseteq cache \cup evicted
KeptApplied ==
  /\ \A c \in Conns : rcv[c].pc = "apply" => published[Item(c)] = "text" \/ Item(c) \in kept
  /\ \A k \in DOMAIN applied : published[applied[k].item] = "text" \/ applied[k].item \in kept

KeptInv == UnkeptInv /\ KeptOnDisk /\ KeptApplied

LEMMA OwnedUnkept ==
  ASSUME TypeInv, NEW c \in Conns, NEW i \in Owned(c)
  PROVE  i \in Nat /\ Unkept(c, i) /\ rcv[c].open
<1>1. i \in Nat
  BY OwnedMade DEF Made
<1>2. rcv[c].open
  BY DEF TypeInv, RcvInv, Owned
<1> QED  BY <1>1, <1>2 DEF Owned, Unkept

\* What a step of a receiver keeps, or gives up, it had not kept before and is
\* not to complete after.
LEMMA SettledBy ==
  ASSUME TypeInv, PaceInv, NEW c \in Conns, ReceiverStep(c),
         NEW i \in (kept' \cup cleanup') \ (kept \cup cleanup)
  PROVE  i \in Nat /\ Unkept(c, i) /\ ~Unkept(c, i)'
<1>0. /\ UNCHANGED <<published, snd, data>> /\ rcv[c].open /\ Handled(c) /\ Chained(c)
  BY DEF ReceiverStep, ReceiverStays, sndVars, PaceInv
<1>1. ASSUME NEW m \in Messages, NEW what \in {"idle", "mkdir", "apply", "write"},
             NEW dropped \in SUBSET DOMAIN incoming[c], Reads(c, m, what, dropped)
      PROVE  i \in Nat /\ Unkept(c, i) /\ ~Unkept(c, i)'
  <2>1. i \in dropped
    BY <1>1 DEF Reads, Drops
  <2>2. i \in DOMAIN incoming[c] /\ i \in Nat /\ i \in Made
    BY <2>1 DEF TypeInv, RcvInv, Made
  <2>3. m.type = "chunk"
    BY <1>0, <1>1, <2>2, NextFits DEF Reads
  <2>4. PICK f \in Files(i) : Ahead([item |-> i, file |-> f], Coming(c))
    BY <1>0, <1>1, <2>2 DEF Handled, At, Reads
  <2>5. ~Unsent(c, i)
    <3>1. PICK p : p = [item |-> i, file |-> f]
      OBVIOUS
    <3>2. p.item = i /\ Ahead(p, Coming(c))
      BY <2>4, <3>1
    <3> QED  BY <2>2, <3>2, AheadFacts
  <2>6. ~Unsent(c, i)'
    BY <1>0, <1>1, <2>2, <2>5, ReadExpects DEF Reads
  <2>7. /\ DOMAIN incoming'[c] = DOMAIN incoming[c] \ dropped
        /\ rcv'[c].pc = what /\ (what # "idle" => rcv'[c].msg = m)
        /\ what # "mkdir" /\ (what = "write" => m.item \notin dropped)
    BY <1>1, <2>3 DEF Reads, Drops
  <2> QED  BY <1>0, <2>1, <2>2, <2>6, <2>7 DEF Unkept, Item
<1>2. CASE wire' = wire /\ rcv[c].pc # "idle"
  <2>1. PICK m \in Messages : m = rcv[c].msg
    BY <1>2 DEF TypeInv, RcvInv
  <2>2. PICK p : p = After(m)
    OBVIOUS
  <2>3. p.item = Item(c) /\ p.item \in Nat /\ Ahead(p, Coming(c))
    BY <1>0, <1>2, <2>1, <2>2, MessageFacts DEF Handled, At, After, Item, TypeInv
  <2>4. ~Unsent(c, Item(c))
    BY <2>3, AheadFacts
  <2>5. i = Item(c) => ~Unsent(c, i)'
    BY <1>0, <1>2, <2>3, <2>4, ExpectsFrame
  <2>6. CASE Keeps(c)
    <3>1. i = Item(c) /\ rcv[c].pc \in {"mkdirs", "verify"} /\ rcv'[c].pc = "apply"
          /\ incoming' = incoming
      BY <2>6 DEF Keeps, Turns
    <3>2. DOMAIN incoming[c] = {}
      BY <1>0, <3>1 DEF Handled
    <3> QED  BY <1>0, <2>3, <2>5, <3>1, <3>2 DEF Unkept
  <2>7. ASSUME NEW items, GivesUp(c, items) PROVE i \in Nat /\ Unkept(c, i) /\ ~Unkept(c, i)'
    <3>1. /\ i = Item(c) /\ rcv[c].pc \in {"mkdirs", "write", "verify"} /\ rcv'[c].pc = "idle"
          /\ DOMAIN incoming'[c] = DOMAIN incoming[c] \ (IF rcv[c].pc = "write" THEN {i} ELSE {})
      BY <2>7 DEF GivesUp
    <3>2. rcv[c].pc # "write" => DOMAIN incoming[c] = {}
      BY <1>0, <3>1 DEF Handled
    <3> QED  BY <1>0, <2>3, <2>5, <3>1, <3>2 DEF Unkept
  <2>8. ~(Makes(c) \/ Opens(c) \/ Writes(c) \/ Completes(c) \/ Applies(c))
    BY DEF Makes, Opens, Writes, Completes, Applies
  <2>9. ASSUME NEW w \in Messages, NEW what, NEW dropped, Reads(c, w, what, dropped) PROVE FALSE
    BY <1>2, <2>9 DEF Reads
  <2> QED  BY <2>6, <2>7, <2>8, <2>9 DEF ReceiverStep
<1>3. CASE ~(wire' = wire /\ rcv[c].pc # "idle")
  BY <1>1, <1>3
  DEF ReceiverStep, Makes, Opens, Writes, Completes, Keeps, Applies, GivesUp, Turns
<1> QED  BY <1>2, <1>3

LEMMA UnkeptStep ==
  ASSUME TypeInv, PaceInv, LiveInv, UnkeptInv, Step
  PROVE  UnkeptInv'
<1> SUFFICES ASSUME NEW d \in Conns, NEW i \in Nat, Unkept(d, i)'
             PROVE  i \notin kept' \cup cleanup'
  BY DEF UnkeptInv
<1>1. CASE Connect
  <2>1. UNCHANGED <<kept, cleanup>>
    BY <1>1, OwnedFrame
  <2>2. kept \subseteq Made /\ cleanup \subseteq Made /\ (i > Published => i \notin Made)
    BY LenProperties DEF TypeInv, DiskInv, CopiesInv, Published, Made
  <2> QED  BY <1>1, <2>1, <2>2, UnkeptConnect DEF UnkeptInv
<1>2. CASE ~Connect
  <2>1. Unkept(d, i) /\ i \notin kept \cup cleanup
    BY <1>2, UnkeptShrinks DEF UnkeptInv
  <2>2. ASSUME NEW c \in Conns, Unkept(c, i) PROVE c = d
    BY <2>1, <2>2, UnkeptLive DEF LiveInv, OneLiveInv
  <2>3. ASSUME NEW c \in Conns, ReceiverStep(c) PROVE i \notin kept' \cup cleanup'
    BY <2>1, <2>2, <2>3, SettledBy
  <2>4. ASSUME NEW C \in SUBSET Conns, Closes(C) PROVE i \notin kept' \cup cleanup'
    <3>1. d \notin C
      BY <2>4 DEF Closes, RcvClosed, Unkept
    <3>2. \A c \in C : i \notin Owned(c)
      BY <2>2, <3>1, OwnedUnkept
    <3> QED  BY <2>1, <2>4, <3>2 DEF Closes
  <2>5. CASE DiskStep
    BY <2>1, <2>5 DEF DiskStep
  <2> QED  BY <2>1, <2>3, <2>4, <2>5, OwnedFrame DEF Step
<1> QED  BY <1>1, <1>2

\* What a step of a receiver keeps is in the cache.
LEMMA OwnedKeeps ==
  ASSUME TypeInv, NEW c \in Conns, ReceiverStep(c)
  PROVE  /\ kept' \subseteq kept \cup (Owned(c) \cap cache')
         /\ cleanup' \subseteq cleanup \cup Owned(c)
         /\ cache \subseteq cache' /\ evicted \subseteq evicted' \cup cache'
<1>1. cache \subseteq cache'
  BY OwnedStep
<1>2. ASSUME NEW m \in Messages, NEW what \in {"idle", "mkdir", "apply", "write"},
             NEW dropped \in SUBSET DOMAIN incoming[c], Reads(c, m, what, dropped)
      PROVE  /\ kept' = kept /\ evicted' = evicted /\ cleanup' \subseteq cleanup \cup Owned(c)
  BY <1>2 DEF Reads, Drops, Owned
<1>3. CASE Makes(c) \/ Opens(c) \/ Writes(c) \/ Completes(c) \/ Applies(c)
  BY <1>1, <1>3 DEF Makes, Opens, Writes, Completes, Applies
<1>4. CASE Keeps(c)
  BY <1>1, <1>4 DEF Keeps, Turns, Owned
<1>5. ASSUME NEW items, GivesUp(c, items)
      PROVE  /\ kept' = kept /\ evicted' = evicted /\ cleanup' \subseteq cleanup \cup Owned(c)
  BY <1>5 DEF GivesUp, Owned, TypeInv, RcvInv
<1> QED  BY <1>1, <1>2, <1>3, <1>4, <1>5 DEF ReceiverStep

LEMMA KeptOnDiskStep ==
  ASSUME TypeInv, PaceInv, UnkeptInv, KeptOnDisk, Step
  PROVE  KeptOnDisk'
<1>1. \A c \in Conns : Owned(c) \cap (kept \cup cleanup) = {}
  BY OwnedUnkept DEF UnkeptInv
<1>2. ASSUME NEW c \in Conns, ReceiverStep(c) PROVE KeptOnDisk'
  <2>1. kept' \subseteq cache' \cup evicted'
    BY <1>2, OwnedKeeps DEF KeptOnDisk
  <2>2. kept' \cap cleanup' = {}
    <3>1. kept' = kept \/ cleanup' = cleanup
      BY <1>2 DEF ReceiverStep, Reads, Makes, Opens, Writes, Completes, Keeps, Applies, GivesUp
    <3> QED  BY <1>1, <1>2, <3>1, OwnedKeeps DEF KeptOnDisk
  <2> QED  BY <2>1, <2>2 DEF KeptOnDisk
<1>3. ASSUME NEW C \in SUBSET Conns, Closes(C) PROVE KeptOnDisk'
  <2>1. /\ UNCHANGED <<cache, kept>> /\ evicted \subseteq evicted'
        /\ cleanup' \subseteq cleanup \cup UNION {Owned(c) : c \in C}
    BY <1>3 DEF Closes
  <2> QED  BY <1>1, <2>1 DEF KeptOnDisk
<1>4. CASE DiskStep
  <2>1. /\ UNCHANGED kept /\ cleanup' \subseteq cleanup
        /\ evicted \subseteq evicted' /\ cache \ cache' \subseteq cleanup \cup evicted'
    BY <1>4 DEF DiskStep
  <2> QED  BY <2>1 DEF KeptOnDisk
<1>5. ASSUME \/ \E kind \in Kinds : Copy(kind)
             \/ \E i \in Made : \E f \in Files(i) : \E how \in FileStates : Change(i, f, how)
             \/ Connect
             \/ \E c \in Conns : SenderStep(c)
             \/ UNCHANGED vars
      PROVE  KeptOnDisk'
  BY <1>5, OwnedFrame DEF KeptOnDisk
<1> QED  BY <1>2, <1>3, <1>4, <1>5 DEF Step

\* What a step puts on the clipboard, or leaves about to be put there.
LEMMA AppliesFrom ==
  ASSUME TypeInv, Step
  PROVE  /\ \A k \in DOMAIN applied' :
              \/ k \in DOMAIN applied /\ applied'[k] = applied[k]
              \/ \E c \in Conns : /\ rcv[c].pc = "apply"
                                  /\ applied'[k].item = Item(c) /\ applied'[k].got = rcv[c].got
         /\ \A c \in Conns : rcv'[c].pc = "apply" =>
              \/ /\ rcv[c].pc = "apply" /\ rcv'[c].msg = rcv[c].msg /\ rcv'[c].got = rcv[c].got
              \/ /\ published[rcv'[c].msg.item] = "text" /\ UNCHANGED published
              \/ /\ rcv'[c].msg = rcv[c].msg /\ Keeps(c) /\ UNCHANGED published
         /\ kept \subseteq kept'
<1>0. applied \in Seq(AppliedType)
  BY DEF TypeInv, DiskInv
<1>1. ASSUME NEW c \in Conns, applied' = OnClipboard(c), NEW k \in DOMAIN applied'
      PROVE  \/ k \in DOMAIN applied /\ applied'[k] = applied[k]
             \/ applied'[k].item = Item(c) /\ applied'[k].got = rcv[c].got
  BY <1>0, <1>1 DEF OnClipboard
<1>2. ASSUME NEW d \in Conns, ReceiverStep(d)
      PROVE  /\ \A c \in Conns : rcv'[c].pc = "apply" =>
                  \/ /\ rcv[c].pc = "apply" /\ rcv'[c].msg = rcv[c].msg /\ rcv'[c].got = rcv[c].got
                  \/ /\ published[rcv'[c].msg.item] = "text" /\ UNCHANGED published
                  \/ /\ rcv'[c].msg = rcv[c].msg /\ Keeps(c) /\ UNCHANGED published
             /\ kept \subseteq kept'
             /\ \/ applied' = applied
                \/ rcv[d].pc = "apply" /\ applied' = OnClipboard(d)
  <2>1. UNCHANGED published /\ \A c \in Conns \ {d} : rcv'[c] = rcv[c]
    BY <1>2 DEF ReceiverStep, ReceiverStays, sndVars
  <2>2. rcv'[d].pc = "apply" => published[rcv'[d].msg.item] = "text" \/ (rcv'[d].msg = rcv[d].msg /\ Keeps(d))
    BY <1>2
    DEF ReceiverStep, Reads, Makes, Opens, Writes, Completes, Keeps, Applies, GivesUp, Turns
  <2>3. kept \subseteq kept'
    BY <1>2, OwnedStep
  <2>4. applied' = applied \/ (rcv[d].pc = "apply" /\ applied' = OnClipboard(d))
    BY <1>2 DEF ReceiverStep, Reads, Makes, Opens, Writes, Completes, Keeps, Applies, GivesUp
  <2> QED  BY <2>1, <2>2, <2>3, <2>4
<1>3. ASSUME NEW C \in SUBSET Conns, Closes(C)
      PROVE  /\ \A c \in Conns : rcv'[c].pc = "apply" => rcv'[c] = rcv[c]
             /\ kept \subseteq kept'
             /\ \/ applied' = applied
                \/ \E c \in Conns : rcv[c].pc = "apply" /\ applied' = OnClipboard(c)
  BY <1>3 DEF Closes, RcvClosed
<1>4. CASE DiskStep
  BY <1>4 DEF DiskStep, rcvVars
<1>5. CASE \E c \in Conns : ReceiverStep(c)
  BY <1>1, <1>2, <1>5
<1>6. CASE \E C \in SUBSET Conns : Closes(C)
  BY <1>1, <1>3, <1>6
<1> QED  BY <1>4, <1>5, <1>6, OwnedFrame DEF Step

\* What was copied stays what it is.
LEMMA CopiesStay ==
  ASSUME TypeInv, Step
  PROVE  /\ Made \subseteq Made'
         /\ \A i \in Made : /\ published'[i] = published[i] /\ SizesOf(i)' = SizesOf(i)
                            /\ Captured(i)' = Captured(i)
<1>1. CASE \E kind \in Kinds : Copy(kind)
  <2>1. /\ Made \subseteq Made'
        /\ \A i \in Made : /\ published'[i] = published[i] /\ Files(i)' = Files(i)
                           /\ SizesOf(i)' = SizesOf(i)
    BY <1>1, CopyGrows DEF TypeInv
  <2> QED  BY <2>1 DEF Captured
<1>2. CASE ~(\E kind \in Kinds : Copy(kind))
  <2>1. UNCHANGED published
    BY <1>2
    DEF Step, Change, Connect, SenderStep, SenderStays, ReceiverStep, ReceiverStays, Closes,
        DiskStep, vars, sndVars
  <2> QED  BY <2>1, CopiesSame DEF Captured
<1> QED  BY <1>1, <1>2

LEMMA KeptAppliedStep ==
  ASSUME TypeInv, KeptApplied, Step
  PROVE  KeptApplied'
<1>0. \A i \in Made : published'[i] = published[i]
  BY CopiesStay
<1>1. ASSUME NEW c \in Conns, rcv'[c].pc = "apply"
      PROVE  published'[rcv'[c].msg.item] = "text" \/ rcv'[c].msg.item \in kept'
  <2>1. CASE rcv[c].pc = "apply" /\ rcv'[c].msg = rcv[c].msg
    <3>1. Item(c) \in Made
      BY <2>1, MessageFacts DEF TypeInv, RcvInv, Item
    <3> QED  BY <1>0, <2>1, <3>1, AppliesFrom DEF KeptApplied, Item
  <2>2. CASE rcv'[c].msg = rcv[c].msg /\ Keeps(c)
    BY <2>2 DEF Keeps, Item
  <2> QED  BY <1>1, <2>1, <2>2, AppliesFrom
<1>2. ASSUME NEW k \in DOMAIN applied'
      PROVE  published'[applied'[k].item] = "text" \/ applied'[k].item \in kept'
  <2>1. CASE k \in DOMAIN applied /\ applied'[k] = applied[k]
    BY <1>0, <2>1, AppliedFacts, AppliesFrom DEF KeptApplied
  <2>2. ASSUME NEW c \in Conns, rcv[c].pc = "apply", applied'[k].item = Item(c)
        PROVE  published'[applied'[k].item] = "text" \/ applied'[k].item \in kept'
    <3>1. Item(c) \in Made
      BY <2>2, MessageFacts DEF TypeInv, RcvInv, Item
    <3> QED  BY <1>0, <2>2, <3>1, AppliesFrom DEF KeptApplied
  <2> QED  BY <2>1, <2>2, AppliesFrom
<1> QED  BY <1>1, <1>2 DEF KeptApplied, Item

LEMMA KeptInvariance == Spec => []KeptInv
<1>1. Init => KeptInv
  <2> SUFFICES ASSUME Init PROVE KeptInv
    OBVIOUS
  <2>1. /\ \A c \in Conns : ~rcv[c].open /\ rcv[c].pc = "idle" /\ DOMAIN incoming[c] = {}
        /\ kept = {} /\ cleanup = {} /\ applied = <<>>
    BY DEF Init, RcvClosed
  <2> QED  BY <2>1 DEF KeptInv, UnkeptInv, KeptOnDisk, KeptApplied, Unkept
<1>2. TypeInv /\ PaceInv /\ LiveInv /\ KeptInv /\ [Next]_vars => KeptInv'
  BY NextSteps, UnkeptStep, KeptOnDiskStep, KeptAppliedStep DEF KeptInv
<1> QED  BY TypeInvariance, PaceInvariance, LiveInvariance, <1>1, <1>2, PTL DEF Spec

\* The directory of an item on the clipboard stays and nothing is to remove it, but
\* for the quota: keep_cache is set before the item is applied, and no second
\* transfer of an item makes or removes its directory.
THEOREM AppliedStays == Spec => []AppliedStaysOnDisk
<1>1. KeptInv => AppliedStaysOnDisk
  BY DEF KeptInv, KeptOnDisk, KeptApplied, AppliedStaysOnDisk
<1> QED  BY KeptInvariance, <1>1, PTL

-----------------------------------------------------------------------------
(* Where items come in order, nothing is completed before an item that has *)
(* a directory: what is oldest when prune_cache takes it stays so.         *)

PresentInv == InOrder =>
  \A c \in Conns, i \in Nat : Unkept(c, i) => \A k \in Present : k <= i

OldestInv == InOrder =>
  \A p \in Runs : prunes[p].pc = "remove" => \A i \in prunes[p].todo :
    i \in Found(p) /\ OverQuota(p) /\ \A j \in Found(p) : Settled(j) => i <= j

LEMMA PresentMade ==
  ASSUME TypeInv
  PROVE  Present \subseteq Made /\ Present \subseteq Nat
<1>1. \A d \in detached : d[1] \in Made
  BY DEF TypeInv, DiskInv
<1>2. \A p \in Runs : Found(p) \subseteq Made
  BY DEF TypeInv, DiskInv, PrunesTyped
<1>3. Present \subseteq Made
  BY <1>1, <1>2 DEF Present, TypeInv, DiskInv
<1> QED  BY <1>3 DEF Made

\* A receiver makes the directory of the item it handles.
LEMMA PresentBy ==
  ASSUME TypeInv, NEW c \in Conns, ReceiverStep(c), NEW k \in Present' \ Present
  PROVE  k = Item(c) /\ rcv[c].pc \in {"mkdir", "mkdirs"}
<1>1. UNCHANGED <<detached, prunes>>
  BY DEF ReceiverStep, ReceiverStays
<1>2. \A p \in Runs : Found(p)' = Found(p)
  BY <1>1 DEF Found
<1>3. k \in cache' \ cache
  BY <1>1, <1>2 DEF Present
<1> QED
  BY <1>3
  DEF ReceiverStep, Reads, Makes, Opens, Writes, Completes, Keeps, Applies, GivesUp, Turns

\* Its connection is to complete nothing that is behind that item.
LEMMA HandledFirst ==
  ASSUME TypeInv, PaceInv, NEW c \in Conns, rcv[c].pc \in {"mkdir", "mkdirs", "verify"},
         NEW i \in Nat, Unkept(c, i)
  PROVE  Item(c) <= i
<1>1. PICK m \in Messages : m = rcv[c].msg
  BY DEF TypeInv, RcvInv
<1>2. PICK p : p = After(m)
  OBVIOUS
<1>3. /\ DOMAIN incoming[c] = {} /\ p.item = Item(c) /\ p.item \in Nat /\ Ahead(p, Coming(c))
  BY <1>1, <1>2, MessageFacts DEF PaceInv, Handled, At, After, Item, TypeInv
<1>4. Expected(c, i) => p.item <= i
  BY <1>3, AheadFacts
<1>5. Unsent(c, i) => Expected(c, i)
  BY DEF Unsent, Expected
<1> QED  BY <1>3, <1>4, <1>5 DEF Unkept

LEMMA PresentStep ==
  ASSUME TypeInv, PaceInv, LiveInv, PresentInv, Step
  PROVE  PresentInv'
<1> SUFFICES ASSUME ~senderConnects, NEW c \in Conns, NEW i \in Nat, Unkept(c, i)', NEW k \in Present'
             PROVE  k <= i
  BY RolesStay DEF PresentInv, InOrder
<1>1. CASE k \in Present
  <2>1. CASE Unkept(c, i)
    BY <1>1, <2>1 DEF PresentInv, InOrder
  <2>2. CASE ~Unkept(c, i)
    <3>1. i > Published
      BY <2>2, UnkeptShrinks, UnkeptConnect
    <3>2. k \in Made /\ Published \in Nat
      BY <1>1, PresentMade, LenProperties DEF TypeInv, CopiesInv, Published
    <3> QED  BY <3>1, <3>2 DEF Made
  <2> QED  BY <2>1, <2>2
<1>2. CASE k \notin Present
  <2>1. ASSUME NEW d \in Conns, ReceiverStep(d) PROVE k <= i
    <3>1. k = Item(d) /\ rcv[d].pc \in {"mkdir", "mkdirs"} /\ rcv[d].open
      BY <1>2, <2>1, PresentBy DEF TypeInv, RcvInv
    <3>2. Unkept(c, i)
      <4>1. ~Connect
        BY <2>1, <3>1 DEF Connect, ReceiverStep, ReceiverStays, TypeInv, CopiesInv
      <4> QED  BY <4>1, UnkeptShrinks
    <3>3. c = d
      BY <3>1, <3>2 DEF LiveInv, OneOpenInv, Unkept
    <3> QED  BY <3>1, <3>2, <3>3, HandledFirst
  <2>2. ASSUME NEW C \in SUBSET Conns, Closes(C) PROVE FALSE
    <3>1. \A p \in Runs : Found(p)' \subseteq Found(p)
      BY <2>2 DEF Closes, Found
    <3>2. ~(detached' \subseteq detached)
      BY <1>2, <2>2, <3>1 DEF Closes, Present
    <3>3. PICK d \in C : rcv[d].open
      BY <2>2, <3>2 DEF Closes
    <3>4. rcv[c].open /\ c \notin C
      BY <2>2 DEF Closes, RcvClosed, Unkept
    <3> QED  BY <3>3, <3>4 DEF LiveInv, OneOpenInv
  <2>3. ~DiskStep
    BY <1>2 DEF DiskStep
  <2>4. ASSUME \/ \E kind \in Kinds : Copy(kind)
               \/ \E j \in Made : \E f \in Files(j) : \E how \in FileStates : Change(j, f, how)
               \/ Connect
               \/ \E d \in Conns : SenderStep(d)
               \/ UNCHANGED vars
        PROVE  FALSE
    BY <1>2, <2>4, OwnedFrame DEF Present, Found
  <2> QED  BY <2>1, <2>2, <2>3, <2>4 DEF Step
<1> QED  BY <1>1, <1>2

\* An item is settled by the receiver that completes it.
LEMMA SettledStep ==
  ASSUME TypeInv, Step, NEW j, Settled(j)'
  PROVE  \/ Settled(j)
         \/ \E c \in Conns : j \in Nat /\ j = Item(c) /\ Unkept(c, j)
<1>1. \A i : Settled(i) <=> i \in kept \ Taken
  BY DEF Settled, Taken
<1>2. Settled(j)' <=> j \in kept' \ Taken'
  BY DEF Settled, Taken
<1>3. ASSUME NEW c \in Conns, ReceiverStep(c)
      PROVE  Settled(j) \/ (j \in Nat /\ j = Item(c) /\ Unkept(c, j))
  <2>1. UNCHANGED prunes
    BY <1>3 DEF ReceiverStep, ReceiverStays
  <2>2. Evicting' = Evicting
    BY <2>1 DEF Evicting
  <2>3. CASE UNCHANGED <<kept, evicted>>
    BY <1>1, <1>2, <2>2, <2>3 DEF Taken
  <2>4. CASE Keeps(c)
    <3>1. /\ rcv[c].pc \in {"mkdirs", "verify"} /\ kept' = kept \cup {Item(c)}
          /\ evicted \ {Item(c)} \subseteq evicted'
      BY <2>4 DEF Keeps, Turns
    <3>2. Item(c) \in Nat /\ rcv[c].open
      BY <3>1, MessageFacts DEF TypeInv, RcvInv, Item
    <3>3. Unkept(c, Item(c))
      BY <3>1, <3>2 DEF Unkept
    <3> QED  BY <1>1, <1>2, <2>2, <3>1, <3>2, <3>3 DEF Taken
  <2> QED
    BY <1>3, <2>3, <2>4 DEF ReceiverStep, Reads, Makes, Opens, Writes, Completes, Applies, GivesUp
<1>4. ASSUME UNCHANGED kept, Taken \subseteq Taken' PROVE Settled(j)
  BY <1>1, <1>2, <1>4
<1>5. CASE DiskStep \/ \E C \in SUBSET Conns : Closes(C)
  BY <1>4, <1>5 DEF DiskStep, Closes
<1>6. ASSUME \/ \E kind \in Kinds : Copy(kind)
             \/ \E i \in Made : \E f \in Files(i) : \E how \in FileStates : Change(i, f, how)
             \/ Connect
             \/ \E c \in Conns : SenderStep(c)
             \/ UNCHANGED vars
      PROVE  Settled(j)
  BY <1>4, <1>6, OwnedFrame DEF Taken, Evicting
<1> QED  BY <1>3, <1>5, <1>6 DEF Step

\* What prune_cache comes to take is the oldest it found.
LEMMA TakesOldest ==
  ASSUME TypeInv, Step, NEW p \in Runs, prunes'[p] # prunes[p], prunes'[p].pc = "remove",
         NEW i \in prunes'[p].todo
  PROVE  TakeOldest(p, i)
<1>1. \E q \in Runs : Pruning(q)
  <2>1. \A c \in Conns : ReceiverStep(c) => UNCHANGED prunes
    BY DEF ReceiverStep, ReceiverStays
  <2>2. \A C \in SUBSET Conns : ~Closes(C)
    BY DEF Closes
  <2> QED  BY <2>1, <2>2, OwnedFrame DEF Step, DiskStep
<1>2. PICK q \in Runs : Pruning(q)
  BY <1>1
<1>3. DOMAIN prunes = Runs
      /\ prunes[p] = [pc |-> prunes[p].pc, todo |-> prunes[p].todo, found |-> prunes[p].found]
  BY DEF TypeInv, DiskInv, PrunesTyped
<1>4. q = p
  BY <1>2, <1>3
  DEF Pruning, PruneFails, Scanned, Pruned, Measure, Miss, TakeOldest, Evict
<1>5. ~PruneFails(p) /\ ~Pruned(p)
  BY <1>3 DEF PruneFails, Pruned, NoPrune
<1>6. ~Scanned(p)
  <2> SUFFICES ASSUME Scanned(p) PROVE FALSE
    OBVIOUS
  <2>1. prunes'[p].todo = {}
    BY <1>3 DEF Scanned
  <2> QED  BY <2>1
<1>7. ASSUME NEW k, Measure(p, k) \/ Miss(p, k) PROVE FALSE
  <2>1. prunes'[p].pc = "scan"
    BY <1>3, <1>7 DEF Measure, Miss
  <2> QED  BY <2>1
<1>8. ASSUME NEW k, Evict(p, k) PROVE FALSE
  <2>1. prunes'[p].todo = {}
    BY <1>3, <1>8 DEF Evict
  <2> QED  BY <2>1
<1>9. ASSUME NEW k \in cache, TakeOldest(p, k) PROVE k = i
  <2>1. prunes'[p].todo = {k}
    BY <1>3, <1>9 DEF TakeOldest
  <2> QED  BY <2>1
<1> QED  BY <1>2, <1>4, <1>5, <1>6, <1>7, <1>8, <1>9 DEF Pruning

LEMMA OldestStep ==
  ASSUME TypeInv, LiveInv, PresentInv, OldestInv, Step
  PROVE  OldestInv'
<1> SUFFICES ASSUME ~senderConnects, NEW p \in Runs, prunes'[p].pc = "remove", NEW i \in prunes'[p].todo
             PROVE  i \in Found(p)' /\ OverQuota(p)' /\ \A j \in Found(p)' : Settled(j)' => i <= j
  BY RolesStay DEF OldestInv, InOrder
<1>1. /\ prunes'[p].found = prunes[p].found /\ i \in Found(p) /\ OverQuota(p)
      /\ \A j \in Found(p) : Settled(j) => i <= j
  <2>1. CASE prunes'[p] = prunes[p]
    BY <2>1 DEF OldestInv, InOrder
  <2>2. CASE prunes'[p] # prunes[p]
    <3>1. TakeOldest(p, i)
      BY <2>2, TakesOldest
    <3>2. prunes'[p].found = prunes[p].found
      <4>1. DOMAIN prunes = Runs
            /\ prunes[p] = [pc |-> prunes[p].pc, todo |-> prunes[p].todo, found |-> prunes[p].found]
        BY DEF TypeInv, DiskInv, PrunesTyped
      <4> QED  BY <3>1, <4>1 DEF TakeOldest
    <3> QED  BY <3>1, <3>2 DEF TakeOldest, Oldest, InOrder
  <2> QED  BY <2>1, <2>2
<1>2. Found(p)' = Found(p) /\ (OverQuota(p)' <=> OverQuota(p))
  BY <1>1 DEF Found, OverQuota
<1>3. ASSUME NEW j \in Found(p), Settled(j)' PROVE i <= j
  <2>1. CASE Settled(j)
    BY <1>1, <2>1
  <2>2. ASSUME NEW c \in Conns, j \in Nat, Unkept(c, j) PROVE i <= j
    <3>1. i \in Present
      BY <1>1 DEF Present
    <3> QED  BY <2>2, <3>1 DEF PresentInv, InOrder
  <2> QED  BY <1>3, <2>1, <2>2, SettledStep
<1> QED  BY <1>1, <1>2, <1>3

LEMMA OldestInvariance == Spec => [](PresentInv /\ OldestInv)
<1>1. Init => PresentInv /\ OldestInv
  <2> SUFFICES ASSUME Init PROVE PresentInv /\ OldestInv
    OBVIOUS
  <2>1. \A c \in Conns : ~rcv[c].open
    BY DEF Init, RcvClosed
  <2>2. \A p \in Runs : prunes[p].pc # "remove"
    BY DEF Init, StartedPrune, NoPrune
  <2> QED  BY <2>1, <2>2 DEF PresentInv, OldestInv, Unkept
<1>2. TypeInv /\ PaceInv /\ LiveInv /\ PresentInv /\ OldestInv /\ [Next]_vars => (PresentInv /\ OldestInv)'
  BY NextSteps, PresentStep, OldestStep
<1> QED  BY TypeInvariance, PaceInvariance, LiveInvariance, <1>1, <1>2, PTL DEF Spec

\* The directory of a complete item goes only for the quota, and only if a
\* prune_cache found the item, all that are newer and those that are not complete
\* over it, however many of them run beside the connections.
THEOREM NewestStayCorrect == Spec => NewestStay
<1>1. TypeInv /\ KeptInv /\ OldestInv /\ [Next]_vars =>
        (InOrder => \A i \in kept \cap (cache \ cache') : \E p \in Runs :
           /\ prunes[p].pc = "remove" /\ i \in prunes[p].todo
           /\ Measured(prunes[p].found, {j \in Found(p) : j >= i \/ ~Settled(j)}) > Quota)
  <2> SUFFICES ASSUME TypeInv, KeptInv, OldestInv, [Next]_vars, InOrder, NEW i \in kept \cap (cache \ cache')
               PROVE  \E p \in Runs :
                        /\ prunes[p].pc = "remove" /\ i \in prunes[p].todo
                        /\ Measured(prunes[p].found, {j \in Found(p) : j >= i \/ ~Settled(j)}) > Quota
    OBVIOUS
  <2>1. Step
    BY NextSteps
  <2>2. DiskStep
    <3>1. \A c \in Conns : ~ReceiverStep(c)
      BY OwnedStep
    <3>2. \A C \in SUBSET Conns : ~Closes(C)
      BY DEF Closes
    <3> QED  BY <2>1, <3>1, <3>2, OwnedFrame DEF Step
  <2>3. PICK p \in Runs : prunes[p].pc = "remove" /\ i \in prunes[p].todo
    BY <2>2 DEF DiskStep, KeptInv, KeptOnDisk
  <2>4. OverQuota(p) /\ \A j \in Found(p) : Settled(j) => i <= j
    BY <2>3 DEF OldestInv
  <2>5. i \in Nat /\ Found(p) \subseteq Nat
    BY DEF TypeInv, DiskInv, PrunesTyped, Made
  <2>6. {j \in Found(p) : j >= i \/ ~Settled(j)} = Found(p)
    BY <2>4, <2>5
  <2> QED  BY <2>3, <2>4, <2>6 DEF OverQuota
<1> QED  BY TypeInvariance, KeptInvariance, OldestInvariance, <1>1, PTL DEF Spec, NewestStay

-----------------------------------------------------------------------------
(* What is applied is what was copied.                                     *)

VerbatimInv ==
  /\ \A c \in Conns : rcv[c].pc = "apply" /\ SizesOf(Item(c)) # <<>> => rcv[c].got = Captured(Item(c))
  /\ Verbatim

LEMMA VerbatimStep ==
  ASSUME TypeInv, VerbatimInv, Step
  PROVE  VerbatimInv'
<1>0. /\ Made \subseteq Made'
      /\ \A i \in Made : SizesOf(i)' = SizesOf(i) /\ Captured(i)' = Captured(i)
  BY CopiesStay
<1>1. ASSUME NEW c \in Conns, NEW i, i = rcv'[c].msg.item, rcv'[c].pc = "apply", SizesOf(i)' # <<>>
      PROVE  rcv'[c].got = Captured(i)'
  <2>1. CASE rcv[c].pc = "apply" /\ rcv'[c].msg = rcv[c].msg /\ rcv'[c].got = rcv[c].got
    <3>1. i = Item(c) /\ i \in Made
      BY <1>1, <2>1, MessageFacts DEF TypeInv, RcvInv, Item
    <3> QED  BY <1>0, <1>1, <2>1, <3>1 DEF VerbatimInv
  <2>2. CASE published[i] = "text" /\ UNCHANGED published
    <3>1. SizesOf(i)' = SizesOf(i) /\ SizesOf(i) = <<>>
      BY <2>2, CopiesSame DEF SizesOf, Sizes
    <3> QED  BY <1>1, <3>1
  <2>3. CASE rcv'[c].msg = rcv[c].msg /\ Keeps(c) /\ UNCHANGED published
    <3>1. i = Item(c) /\ i \in Made
      BY <1>1, <2>3, MessageFacts DEF TypeInv, RcvInv, Item, Keeps, Turns
    <3>2. published[i] # "folder"
      BY <1>0, <1>1, <3>1 DEF SizesOf, Sizes
    <3> QED  BY <1>0, <2>3, <3>1, <3>2 DEF Keeps
  <2> QED  BY <1>1, <2>1, <2>2, <2>3, AppliesFrom
<1>2. ASSUME NEW k \in DOMAIN applied', NEW i, i = applied'[k].item, SizesOf(i)' # <<>>
      PROVE  applied'[k].got = Captured(i)'
  <2>1. CASE k \in DOMAIN applied /\ applied'[k] = applied[k]
    <3>1. i \in Made /\ i = applied[k].item
      BY <1>2, <2>1, AppliedFacts
    <3> QED  BY <1>0, <1>2, <2>1, <3>1 DEF VerbatimInv, Verbatim
  <2>2. ASSUME NEW c \in Conns, rcv[c].pc = "apply", i = Item(c), applied'[k].got = rcv[c].got
        PROVE  applied'[k].got = Captured(i)'
    <3>1. i \in Made
      BY <2>2, MessageFacts DEF TypeInv, RcvInv, Item
    <3> QED  BY <1>0, <1>2, <2>2, <3>1 DEF VerbatimInv
  <2> QED  BY <1>2, <2>1, <2>2, AppliesFrom
<1>3. ASSUME NEW c \in Conns, rcv'[c].pc = "apply", SizesOf(rcv[c].msg.item)' # <<>>
      PROVE  rcv'[c].got = Captured(rcv[c].msg.item)'
  <2>1. PICK i : i = rcv'[c].msg.item
    OBVIOUS
  <2>2. SizesOf(i)' = SizesOf(rcv[c].msg.item)' /\ Captured(i)' = Captured(rcv[c].msg.item)'
    BY <2>1 DEF SizesOf, Captured, Files
  <2> QED  BY <1>1, <1>3, <2>1, <2>2
<1>4. ASSUME NEW k \in DOMAIN applied', SizesOf(applied[k].item)' # <<>>
      PROVE  applied'[k].got = Captured(applied[k].item)'
  <2>1. PICK i : i = applied'[k].item
    OBVIOUS
  <2>2. SizesOf(i)' = SizesOf(applied[k].item)' /\ Captured(i)' = Captured(applied[k].item)'
    BY <2>1 DEF SizesOf, Captured, Files
  <2> QED  BY <1>2, <1>4, <2>1, <2>2
<1> QED  BY <1>3, <1>4 DEF VerbatimInv, Verbatim, Item

\* What is put on the clipboard is what was captured, wherever the files changed
\* meanwhile and wherever a transfer was cut (IncomingItem's verification).
THEOREM VerbatimCorrect == Spec => []Verbatim
<1>1. Init => VerbatimInv
  <2> SUFFICES ASSUME Init PROVE VerbatimInv
    OBVIOUS
  <2>1. \A c \in Conns : rcv[c].pc = "idle"
    BY DEF Init, RcvClosed
  <2>2. DOMAIN applied = {}
    BY DEF Init
  <2> QED  BY <2>1, <2>2 DEF VerbatimInv, Verbatim
<1>2. TypeInv /\ VerbatimInv /\ [Next]_vars => VerbatimInv'
  BY NextSteps, VerbatimStep
<1>3. VerbatimInv => Verbatim
  BY DEF VerbatimInv
<1> QED  BY TypeInvariance, <1>1, <1>2, <1>3, PTL DEF Spec
=============================================================================
