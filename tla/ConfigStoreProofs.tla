-------------------------- MODULE ConfigStoreProofs --------------------------
(***************************************************************************)
(* Proofs about ConfigStore for any number of callers, peers, identities   *)
(* and crashes.                                                            *)
(*                                                                         *)
(* KeepInv holds of every configuration of the first identity, wherever it *)
(* is: in a file, in a caller's memory, in the daemon.  SoleInv is about   *)
(* callers that come one at a time: what the names lead to at each step of *)
(* the one there is.                                                       *)
(***************************************************************************)
EXTENDS ConfigStore, FiniteSetTheorems, TLAPS

Calls == [pc : Pcs, op : Ops, peer : Peers, config : Configs \cup {Torn},
          handle : {0} \cup Files, creating : BOOLEAN]
WithConfig == Saving \cup {"loaded", "pairing"}

\* Peers nobody gave up are in every configuration of the device's own.
Keeps(config) == config # Torn /\ config.id = 1 => owed \subseteq config.peers
KeepAt(c) == /\ Keeps(call[c].config)
             /\ call[c].pc # "out" /\ call[c].op = "unpair" => call[c].peer \notin owed
             /\ call[c].pc = "pairing" => call[c].op = "pair"
KeepInv ==
  /\ \A f \in Files : Keeps(content[f])
  /\ \A c \in Callers : KeepAt(c)
  /\ running.id = 1 /\ owed \subseteq running.peers

NamesInv == path # 0 => path # tmp

Whole(f) == f # 0 /\ content[f] # Torn
Forgets(config) == gone \cap config.peers = {}

\* The one caller there is.
SoleAt(c) == call[c].pc # "out" =>
  /\ \A d \in Callers : call[d].pc # "out" => d = c
  /\ call[c].op = "pair" => call[c].peer \notin gone
  /\ call[c].pc \in WithConfig => Forgets(call[c].config)
  /\ call[c].pc \in Saving /\ call[c].op = "unpair" /\ ~call[c].creating =>
       call[c].peer \notin call[c].config.peers
  /\ call[c].pc = "fill" => call[c].handle = tmp /\ tmp # 0 /\ content[tmp] = Torn
  /\ call[c].pc \in {"exists", "remove", "rename"} => tmp # 0 /\ content[tmp] = call[c].config
  /\ ids = 1 /\ call[c].pc \in {"read"} \cup (WithConfig \ {"rename"}) => Whole(path)

SoleInv == ~shared =>
  /\ \A c \in Callers : SoleAt(c)
  /\ \A f \in {path, tmp} : Whole(f) => Forgets(content[f])
  /\ ids = 1 => Whole(path) \/ (path = 0 /\ Whole(tmp))

IInv == TypeOK /\ NamesInv /\ KeepInv /\ SoleInv

-----------------------------------------------------------------------------
(* Files and calls.                                                        *)

LEMMA CountFacts == Cardinality(Callers) \in Nat /\ 1 \in Files /\ 0 \notin Files
BY StoreAssumption, FS_CardinalityType DEF Files

\* While there is no config.json.tmp, a file is left for it.
LEMMA UnusedExists ==
  ASSUME tmp = 0 PROVE \E f \in Files : Unused(f)
<1> DEFINE handles == {call[c].handle : c \in Callers}
           used == handles \cup {path}
           n == Cardinality(Callers)
<1>1. n \in Nat
  BY CountFacts
<1>2. IsFiniteSet(handles) /\ Cardinality(handles) <= n
  <2> DEFINE f == [c \in Callers |-> call[c].handle]
  <2>1. f \in Surjection(Callers, handles)
    BY DEF Surjection
  <2> QED  BY <2>1, StoreAssumption, FS_Surjection
<1> HIDE DEF handles
<1>3. IsFiniteSet(used) /\ Cardinality(used) <= n + 1
  BY <1>1, <1>2, FS_AddElement, FS_CardinalityType
<1>4. IsFiniteSet(Files) /\ Cardinality(Files) = n + 2
  BY <1>1, FS_Interval DEF Files
<1>5. ~(Files \subseteq used)
  BY <1>1, <1>3, <1>4, FS_Subset, FS_CardinalityType
<1> QED  BY <1>5, CountFacts DEF Unused, handles

LEMMA IdleFacts ==
  /\ Idle \in Calls /\ Idle.pc = "out" /\ Idle.op = "status" /\ Idle.config = Torn
  /\ Idle.handle = 0 /\ Idle.creating = FALSE
BY StoreAssumption DEF Idle, Calls, Pcs, Ops

LEMMA TypeFacts == TypeOK <=>
  /\ shared \in BOOLEAN /\ content \in [Files -> Configs \cup {Torn}]
  /\ path \in {0} \cup Files /\ tmp \in {0} \cup Files
  /\ call \in [Callers -> Calls]
  /\ \A c \in Callers : call[c].pc \in WithConfig => call[c].config # Torn
  /\ running \in Configs
  /\ ids \in 1..MaxIds /\ gone \subseteq Peers /\ owed \subseteq Peers /\ crashes \in 0..MaxCrashes
BY DEF TypeOK, Calls, WithConfig

\* What a step makes of its caller's record.
At(r, to) == [r EXCEPT !.pc = to]
LEMMA AtFacts ==
  ASSUME NEW r \in Calls, NEW to \in Pcs
  PROVE  /\ At(r, to) \in Calls /\ At(r, to).pc = to /\ At(r, to).op = r.op
         /\ At(r, to).peer = r.peer /\ At(r, to).config = r.config
         /\ At(r, to).handle = r.handle /\ At(r, to).creating = r.creating
BY DEF At, Calls

LEMMA InitIInv == Init => IInv
<1> SUFFICES ASSUME NEW first \in [id : {1}, peers : SUBSET Peers],
                    /\ shared \in BOOLEAN
                    /\ content = [f \in Files |-> IF f = 1 THEN first ELSE Torn]
                    /\ path = 1 /\ tmp = 0
                    /\ call = [c \in Callers |-> Idle]
                    /\ running = first
                    /\ ids = 1 /\ gone = {} /\ owed = first.peers /\ crashes = 0
             PROVE  IInv
  BY DEF Init
<1>1. first \in Configs /\ first.id = 1 /\ first # Torn
  BY StoreAssumption DEF Configs
<1>2. content \in [Files -> Configs \cup {Torn}] /\ content[1] = first
  BY <1>1, CountFacts
<1>3. call \in [Callers -> Calls] /\ \A c \in Callers : call[c] = Idle
  BY IdleFacts
<1>4. TypeOK
  <2>1. owed \subseteq Peers /\ 1 \in 1..MaxIds /\ 0 \in 0..MaxCrashes
    BY <1>1, StoreAssumption
  <2> QED  BY <1>1, <1>2, <1>3, <2>1, CountFacts, IdleFacts
           DEF TypeOK, Calls, Saving
<1>5. KeepInv
  BY <1>1, <1>2, <1>3, IdleFacts DEF KeepInv, KeepAt, Keeps
<1>6. SoleInv
  BY <1>1, <1>2, <1>3, IdleFacts DEF SoleInv, SoleAt, Whole, Forgets
<1> QED  BY <1>4, <1>5, <1>6 DEF IInv, NamesInv

\* A step that changes no more than its caller's record.
LEMMA MoveInv ==
  ASSUME IInv, NEW c \in Callers, NEW r \in Calls, call' = [call EXCEPT ![c] = r],
         UNCHANGED <<shared, content, path, tmp, running, ids, gone, owed>>,
         crashes' \in 0..MaxCrashes, call[c].pc # "out",
         r.pc \in WithConfig => r.config # Torn,
         KeepAt(c)', ~shared => SoleAt(c)'
  PROVE  IInv'
<1>1. /\ call' \in [Callers -> Calls] /\ call'[c] = r
      /\ \A d \in Callers \ {c} : call'[d] = call[d]
  BY TypeFacts DEF IInv
<1>2. TypeOK'
  BY <1>1 DEF IInv, TypeOK, Calls, WithConfig
<1>3. KeepInv'
  <2>1. ASSUME NEW d \in Callers PROVE KeepAt(d)'
    BY <1>1 DEF IInv, KeepInv, KeepAt, Keeps
  <2> QED  BY <2>1 DEF IInv, KeepInv, Keeps
<1>4. SoleInv'
  <2> SUFFICES ASSUME ~shared PROVE SoleInv'
    BY DEF SoleInv
  <2>1. ASSUME NEW d \in Callers \ {c} PROVE call[d].pc = "out"
    BY <2>1 DEF IInv, SoleInv, SoleAt
  <2>2. ASSUME NEW d \in Callers PROVE SoleAt(d)'
    BY <1>1, <2>1 DEF SoleAt
  <2> QED  BY <2>2 DEF IInv, SoleInv, Whole, Forgets
<1> QED  BY <1>2, <1>3, <1>4 DEF IInv, NamesInv

\* Leaving is such a step: an idle caller has nothing to keep.
LEMMA LeaveInv ==
  ASSUME IInv, NEW c \in Callers, Leave(c),
         UNCHANGED <<shared, content, path, tmp, running, ids, gone, owed>>,
         crashes' \in 0..MaxCrashes, call[c].pc # "out"
  PROVE  IInv'
<1>1. call'[c] = Idle
  BY TypeFacts DEF IInv, Leave
<1>2. KeepAt(c)' /\ SoleAt(c)'
  BY <1>1, IdleFacts DEF KeepAt, Keeps, SoleAt
<1> QED  BY <1>1, <1>2, IdleFacts, MoveInv DEF Leave, WithConfig, Saving

\* A step of a caller that only goes on.
LEMMA GoInv ==
  ASSUME IInv, NEW c \in Callers, NEW to \in Pcs, call' = [call EXCEPT ![c].pc = to],
         UNCHANGED <<shared, content, path, tmp, running, ids, gone, owed, crashes>>,
         call[c].pc # "out", to # "out",
         to \in WithConfig => call[c].pc \in WithConfig,
         to \in Saving => call[c].pc \in Saving,
         to # "fill", to = "pairing" => call[c].op = "pair",
         to \in {"exists", "remove", "rename"} => call[c].pc \in {"exists", "remove", "rename"},
         ~shared /\ ids = 1 /\ to \in {"read"} \cup (WithConfig \ {"rename"}) => Whole(path)
  PROVE  IInv'
<1> DEFINE r == At(call[c], to)
<1>1. call[c] \in Calls
  BY TypeFacts DEF IInv
<1>2. /\ r \in Calls /\ r.pc = to /\ r.op = call[c].op
      /\ r.peer = call[c].peer /\ r.config = call[c].config
      /\ r.handle = call[c].handle /\ r.creating = call[c].creating
  BY <1>1, AtFacts
<1>3. call' = [call EXCEPT ![c] = r] /\ call'[c] = r
  BY TypeFacts DEF At, IInv
<1> HIDE DEF r
<1>4. KeepAt(c)'
  BY <1>2, <1>3 DEF IInv, KeepInv, KeepAt, Keeps
<1>5. ASSUME ~shared PROVE SoleAt(c)'
  <2>1. SoleAt(c)
    BY <1>5 DEF IInv, SoleInv
  <2>2. \A d \in Callers \ {c} : call'[d] = call[d]
    BY <1>3, TypeFacts DEF IInv
  <2> QED  BY <1>2, <1>3, <1>5, <2>1, <2>2 DEF SoleAt, Whole, Forgets
<1>6. r.pc \in WithConfig => r.config # Torn
  BY <1>2, TypeFacts DEF IInv
<1>7. crashes' \in 0..MaxCrashes
  BY DEF IInv, TypeOK
<1> QED  BY <1>2, <1>3, <1>4, <1>5, <1>6, <1>7, MoveInv

-----------------------------------------------------------------------------
(* The operations.                                                         *)

LEMMA BeginInv == ASSUME IInv, NEW c \in Callers, Begin(c) PROVE IInv'
<1>1. PICK op \in Ops, p \in Peers :
        /\ call' = [call EXCEPT ![c] = [Idle EXCEPT !.pc = "load", !.op = op, !.peer = p]]
        /\ gone' = IF op = "pair" THEN gone \ {p} ELSE gone
        /\ owed' = IF op = "unpair" THEN owed \ {p} ELSE owed
  BY DEF Begin
<1> DEFINE r == [Idle EXCEPT !.pc = "load", !.op = op, !.peer = p]
<1>2. /\ r \in Calls /\ r.pc = "load" /\ r.op = op /\ r.peer = p /\ r.config = Torn
  <2> DEFINE i == At(Idle, "load")
             o == [i EXCEPT !.op = op]
  <2>1. i \in Calls
    BY IdleFacts, AtFacts DEF Pcs
  <2>2. o \in Calls
    <3> HIDE DEF i
    <3> QED  BY <2>1 DEF Calls
  <2>3. [o EXCEPT !.peer = p] \in Calls
    <3> HIDE DEF o
    <3> QED  BY <2>2 DEF Calls
  <2>4. r = [o EXCEPT !.peer = p]
    BY DEF At
  <2> QED  BY <2>3, <2>4, IdleFacts DEF Idle
<1>3. /\ UNCHANGED <<shared, content, path, tmp, running, ids, crashes>>
      /\ call[c].pc = "out" /\ (shared \/ \A d \in Callers : call[d].pc = "out")
  BY DEF Begin, names
<1> HIDE DEF r
<1>4. /\ call' \in [Callers -> Calls] /\ call'[c] = r
      /\ \A d \in Callers \ {c} : call'[d] = call[d]
  BY <1>1, <1>2, TypeFacts DEF IInv, r
<1>5. gone' \subseteq gone /\ owed' \subseteq owed
  BY <1>1
<1>6. TypeOK'
  BY <1>2, <1>3, <1>4, <1>5 DEF IInv, TypeOK, Calls, Saving
<1>7. KeepInv'
  <2>1. KeepAt(c)'
    <3>1. /\ call'[c].config = Torn /\ call'[c].op = op /\ call'[c].peer = p
          /\ call'[c].pc = "load"
      BY <1>2, <1>4
    <3>2. op = "unpair" => p \notin owed'
      BY <1>1
    <3> QED  BY <3>1, <3>2 DEF KeepAt, Keeps
  <2>2. ASSUME NEW d \in Callers \ {c} PROVE KeepAt(d)'
    BY <1>4, <1>5 DEF IInv, KeepInv, KeepAt, Keeps
  <2> QED  BY <1>3, <1>5, <2>1, <2>2 DEF IInv, KeepInv, Keeps
<1>8. SoleInv'
  <2> SUFFICES ASSUME ~shared PROVE SoleInv'
    BY <1>3 DEF SoleInv
  <2>1. \A d \in Callers \ {c} : call'[d].pc = "out"
    BY <1>3, <1>4
  <2>2. SoleAt(c)'
    BY <1>1, <1>2, <1>4, <2>1 DEF SoleAt, WithConfig, Saving
  <2>3. ASSUME NEW d \in Callers PROVE SoleAt(d)'
    BY <2>1, <2>2 DEF SoleAt
  <2> QED  BY <1>3, <1>5, <2>3 DEF IInv, SoleInv, Whole, Forgets
<1> QED  BY <1>3, <1>6, <1>7, <1>8 DEF IInv, NamesInv

\* What a load, an unpairing and a pairing make of the configuration.
LEMMA ConfigStep ==
  ASSUME IInv, NEW c \in Callers, NEW r \in Calls, call' = [call EXCEPT ![c] = r],
         UNCHANGED <<shared, content, path, tmp, running, ids, gone, owed, crashes>>,
         call[c].pc # "out", r.config # Torn, Keeps(r.config),
         r.pc \in {"loaded", "create"}, r.op = call[c].op, r.peer = call[c].peer,
         r.pc = "create" /\ r.op = "unpair" => r.peer \notin r.config.peers,
         ~shared => Forgets(r.config) /\ (ids = 1 => Whole(path))
  PROVE  IInv'
<1>1. call'[c] = r
  BY TypeFacts DEF IInv
<1>2. KeepAt(c)'
  BY <1>1 DEF IInv, KeepInv, KeepAt, Keeps
<1>3. ASSUME ~shared PROVE SoleAt(c)'
  <2>1. SoleAt(c)
    BY <1>3 DEF IInv, SoleInv
  <2>2. \A d \in Callers \ {c} : call'[d] = call[d]
    BY TypeFacts DEF IInv
  <2> QED  BY <1>1, <1>3, <2>1, <2>2 DEF SoleAt, Whole, Forgets, WithConfig, Saving
<1>4. crashes' \in 0..MaxCrashes
  BY DEF IInv, TypeOK
<1> QED  BY <1>1, <1>2, <1>3, <1>4, MoveInv

LEMMA LoadInv == ASSUME IInv, NEW c \in Callers, Load(c) PROVE IInv'
<1>0. /\ call[c] \in Calls /\ KeepAt(c) /\ (~shared => SoleAt(c))
      /\ content \in [Files -> Configs \cup {Torn}] /\ path \in {0} \cup Files
      /\ crashes \in 0..MaxCrashes /\ ids \in 1..MaxIds /\ MaxIds \in Nat
  BY TypeFacts, StoreAssumption DEF IInv, KeepInv, SoleInv
<1>1. CASE LoadExists(c)
  <2>1. /\ call[c].pc = "load" /\ call' = [call EXCEPT ![c].pc = "read"] /\ path # 0
        /\ UNCHANGED <<shared, content, path, tmp, running, ids, gone, owed, crashes>>
    BY <1>1 DEF LoadExists, Step, names, ghosts
  <2>2. ~shared /\ ids = 1 => Whole(path)
    BY <2>1 DEF IInv, SoleInv
  <2> QED  BY <2>1, <2>2, GoInv DEF Pcs, WithConfig, Saving
<1>2. CASE Read(c)
  <2>1. /\ call[c].pc = "read"
        /\ UNCHANGED <<shared, content, path, tmp, running, ids, gone, owed, crashes>>
    BY <1>2 DEF Read, names, ghosts
  <2>2. CASE path = 0 \/ content[path] = Torn
    BY <1>0, <1>2, <2>1, <2>2, LeaveInv DEF Read
  <2>3. CASE ~(path = 0 \/ content[path] = Torn)
    <3> DEFINE r == [At(call[c], "loaded") EXCEPT !.config = content[path]]
    <3>1. path \in Files /\ content[path] \in Configs /\ Keeps(content[path])
      BY <1>0, <2>3 DEF IInv, KeepInv
    <3>2. At(call[c], "loaded") \in Calls
      BY <1>0, AtFacts DEF Pcs
    <3>3. /\ r \in Calls /\ r.pc = "loaded" /\ r.op = call[c].op
          /\ r.peer = call[c].peer /\ r.config = content[path]
      <4>1. r \in Calls
        <5> DEFINE a == At(call[c], "loaded")
                   k == content[path]
        <5>1. a \in Calls /\ k \in Configs \cup {Torn}
          BY <3>1, <3>2
        <5> HIDE DEF a, k
        <5>2. [a EXCEPT !.config = k] \in Calls
          BY <5>1 DEF Calls
        <5> QED  BY <5>2 DEF a, k
      <4> QED  BY <1>0, <4>1 DEF At, Calls
    <3>4. call' = [call EXCEPT ![c] = r]
      BY <1>2, <2>3, TypeFacts DEF Read, At, IInv
    <3>5. ~shared => Forgets(content[path]) /\ (ids = 1 => Whole(path))
      BY <1>0, <2>1, <3>1, <2>3 DEF IInv, SoleInv, SoleAt, Whole
    <3> HIDE DEF r
    <3> QED  BY <2>1, <2>3, <3>1, <3>3, <3>4, <3>5, ConfigStep
  <2> QED  BY <2>2, <2>3
<1>3. CASE LoadMissing(c)
  <2>1. /\ call[c].pc = "load" /\ path = 0
        /\ UNCHANGED <<shared, content, path, tmp, running, gone, owed, crashes>>
    BY <1>3 DEF LoadMissing, names, ghosts
  <2>2. CASE ~(ids < MaxIds)
    BY <1>0, <1>3, <2>1, <2>2, LeaveInv DEF LoadMissing
  <2>3. CASE ids < MaxIds
    <3> DEFINE new == [id |-> ids + 1, peers |-> {}]
               a == At(call[c], "create")
               b == [a EXCEPT !.creating = TRUE]
               r == [b EXCEPT !.config = new]
    <3>1. new \in Configs /\ new.id # 1 /\ new.peers = {} /\ new # Torn /\ ids' = ids + 1
      BY <1>0, <1>3, <2>3, StoreAssumption DEF Configs, LoadMissing
    <3>2. /\ r \in Calls /\ r.pc = "create" /\ r.op = call[c].op /\ r.creating = TRUE
          /\ r.peer = call[c].peer /\ r.config = new
      <4>1. a \in Calls
        BY <1>0, AtFacts DEF Pcs
      <4>2. b \in Calls
        <5> HIDE DEF a
        <5> QED  BY <4>1 DEF Calls
      <4>3. r \in Calls
        <5> HIDE DEF b, new
        <5> QED  BY <3>1, <4>2 DEF Calls
      <4> QED  BY <1>0, <4>3 DEF At, Calls
    <3>3. call' = [call EXCEPT ![c] = r]
      BY <1>3, <2>3, TypeFacts DEF LoadMissing, At, IInv
    <3> HIDE DEF r, new
    <3>4. /\ call' \in [Callers -> Calls] /\ call'[c] = r
          /\ \A d \in Callers \ {c} : call'[d] = call[d]
      BY <3>2, <3>3, TypeFacts DEF IInv
    <3>5. TypeOK'
      <4>1. ids' \in 1..MaxIds
        BY <1>0, <2>3, <3>1
      <4> QED  BY <2>1, <3>1, <3>2, <3>4, <4>1 DEF IInv, TypeOK, Calls
    <3>6. KeepInv'
      <4>1. KeepAt(c)'
        BY <1>0, <2>1, <3>1, <3>2, <3>4 DEF KeepAt, Keeps
      <4>2. ASSUME NEW d \in Callers \ {c} PROVE KeepAt(d)'
        BY <2>1, <3>4 DEF IInv, KeepInv, KeepAt, Keeps
      <4> QED  BY <2>1, <4>1, <4>2 DEF IInv, KeepInv, Keeps
    <3>7. SoleInv'
      <4> SUFFICES ASSUME ~shared PROVE SoleInv'
        BY <2>1 DEF SoleInv
      <4>1. \A d \in Callers \ {c} : call'[d].pc = "out"
        BY <1>0, <2>1, <3>4 DEF SoleAt
      <4>2. ids' # 1
        BY <1>0, <3>1
      <4>3. SoleAt(c)'
        BY <1>0, <2>1, <3>1, <3>2, <3>4, <4>1, <4>2 DEF SoleAt, Forgets
      <4>4. ASSUME NEW d \in Callers PROVE SoleAt(d)'
        BY <4>1, <4>3 DEF SoleAt
      <4> QED  BY <2>1, <4>2, <4>4 DEF IInv, SoleInv, Whole, Forgets
    <3> QED  BY <2>1, <3>5, <3>6, <3>7 DEF IInv, NamesInv
  <2> QED  BY <2>2, <2>3
<1> QED  BY <1>1, <1>2, <1>3 DEF Load

\* A caller's record with another list of peers.
WithPeers(config, peers) == [config EXCEPT !.peers = peers]
Changed(r, config) == [At(r, "create") EXCEPT !.config = config]

LEMMA ChangedFacts ==
  ASSUME NEW r \in Calls, NEW config \in Configs, NEW peers \in SUBSET Peers
  PROVE  /\ WithPeers(config, peers) \in Configs /\ WithPeers(config, peers).id = config.id
         /\ WithPeers(config, peers).peers = peers
         /\ Changed(r, config) \in Calls /\ Changed(r, config).pc = "create"
         /\ Changed(r, config).op = r.op /\ Changed(r, config).peer = r.peer
         /\ Changed(r, config).config = config
<1>1. /\ WithPeers(config, peers) \in Configs /\ WithPeers(config, peers).id = config.id
      /\ WithPeers(config, peers).peers = peers
  BY DEF WithPeers, Configs
<1>2. Changed(r, config) \in Calls
  <2> DEFINE a == At(r, "create")
  <2>1. a \in Calls
    BY AtFacts DEF Pcs
  <2> HIDE DEF a
  <2>2. [a EXCEPT !.config = config] \in Calls
    BY <2>1 DEF Calls
  <2> QED  BY <2>2 DEF a, Changed
<1>3. /\ Changed(r, config).pc = "create" /\ Changed(r, config).op = r.op
      /\ Changed(r, config).peer = r.peer /\ Changed(r, config).config = config
  BY DEF Changed, At, Calls
<1> QED  BY <1>1, <1>2, <1>3

LEMMA OperateInv == ASSUME IInv, NEW c \in Callers, Operate(c) PROVE IInv'
<1>0. /\ call[c] \in Calls /\ KeepAt(c) /\ (~shared => SoleAt(c)) /\ crashes \in 0..MaxCrashes
      /\ call[c].pc \in {"loaded", "pairing"} /\ call[c].config \in Configs /\ call[c].peer \in Peers
      /\ UNCHANGED <<shared, content, path, tmp, running, ids, gone, owed, crashes>>
  <2>1. /\ call[c].pc \in {"loaded", "pairing"}
        /\ UNCHANGED <<shared, content, path, tmp, running, ids, gone, owed, crashes>>
    BY DEF Operate, StatusDone, Unpair, PairStart, PairFails, PairSucceeds, Step, names, ghosts
  <2>2. call[c] \in Calls /\ call[c].config # Torn /\ crashes \in 0..MaxCrashes
    BY <2>1, TypeFacts DEF IInv, WithConfig
  <2> QED  BY <2>1, <2>2 DEF IInv, KeepInv, SoleInv, Calls
<1>1. ~shared => Forgets(call[c].config) /\ (ids = 1 => Whole(path))
  BY <1>0 DEF SoleAt, WithConfig, Saving
<1>2. CASE StatusDone(c) \/ PairFails(c)
  BY <1>0, <1>2, LeaveInv DEF StatusDone, PairFails
<1>3. CASE PairStart(c)
  BY <1>0, <1>1, <1>3, GoInv DEF PairStart, Step, Pcs, WithConfig, Saving
<1>4. ASSUME NEW peers \in SUBSET Peers,
             call' = [call EXCEPT ![c].pc = "create", ![c].config.peers = peers],
             owed \subseteq call[c].config.peers => owed \subseteq peers,
             call[c].op = "unpair" => call[c].peer \notin peers,
             ~shared => gone \cap peers = {}
      PROVE  IInv'
  <2> DEFINE config == WithPeers(call[c].config, peers)
             r == Changed(call[c], config)
  <2>1. /\ config \in Configs /\ config.id = call[c].config.id /\ config.peers = peers
        /\ config # Torn
    BY <1>0, ChangedFacts, StoreAssumption
  <2>2. call' = [call EXCEPT ![c] = r]
    BY <1>4, TypeFacts DEF Changed, WithPeers, At, IInv
  <2>3. Keeps(config) /\ (~shared => Forgets(config))
    BY <1>0, <1>4, <2>1, StoreAssumption DEF KeepAt, Keeps, Forgets
  <2> HIDE DEF config
  <2>4. /\ r \in Calls /\ r.pc = "create" /\ r.op = call[c].op /\ r.peer = call[c].peer
        /\ r.config = config
    BY <1>0, <2>1, ChangedFacts
  <2> HIDE DEF r
  <2> QED  BY <1>0, <1>1, <1>4, <2>1, <2>2, <2>3, <2>4, ConfigStep
<1>5. CASE Unpair(c)
  <2>1. CASE call[c].peer \in call[c].config.peers
    <3> DEFINE peers == call[c].config.peers \ {call[c].peer}
    <3>1. peers \in SUBSET Peers /\ call[c].op = "unpair"
      BY <1>0, <1>5 DEF Configs, Unpair
    <3>2. call' = [call EXCEPT ![c].pc = "create", ![c].config.peers = peers]
      BY <1>0, <1>5, <2>1, TypeFacts DEF Unpair, IInv
    <3>3. /\ owed \subseteq call[c].config.peers => owed \subseteq peers
          /\ ~shared => gone \cap peers = {}
      BY <1>0, <1>1, <3>1 DEF KeepAt, Forgets
    <3> QED  BY <1>4, <3>1, <3>2, <3>3
  <2>2. CASE call[c].peer \notin call[c].config.peers
    BY <1>0, <1>5, <2>2, LeaveInv DEF Unpair
  <2> QED  BY <2>1, <2>2
<1>6. CASE PairSucceeds(c)
  <2> DEFINE peers == call[c].config.peers \cup {call[c].peer}
  <2>1. peers \in SUBSET Peers /\ call[c].op # "unpair"
    <3>1. call[c].pc = "pairing"
      BY <1>6 DEF PairSucceeds
    <3> QED  BY <1>0, <3>1 DEF Configs, KeepAt
  <2>2. call' = [call EXCEPT ![c].pc = "create", ![c].config.peers = peers]
    BY <1>0, <1>6, TypeFacts DEF PairSucceeds, IInv
  <2>3. ~shared => gone \cap peers = {}
    <3>1. call[c].pc = "pairing"
      BY <1>6 DEF PairSucceeds
    <3> QED  BY <1>0, <1>1, <3>1 DEF KeepAt, SoleAt, Forgets
  <2> QED  BY <1>4, <2>1, <2>2, <2>3
<1> QED  BY <1>2, <1>3, <1>5, <1>6 DEF Operate

-----------------------------------------------------------------------------
(* save, a crash in it, and the daemon's tick.                             *)

\* A step of a save: the caller's record, one file and the names.
LEMMA SaveStep ==
  ASSUME IInv, NEW c \in Callers, NEW r \in Calls, call' = [call EXCEPT ![c] = r],
         content' \in [Files -> Configs \cup {Torn}], path' \in {0} \cup Files,
         tmp' \in {0} \cup Files, gone' \subseteq Peers,
         UNCHANGED <<shared, running, ids, owed, crashes>>, call[c].pc # "out",
         r.pc \in WithConfig => r.config # Torn, \A f \in Files : Keeps(content[f])',
         KeepAt(c)', NamesInv', ~shared => SoleAt(c)',
         ~shared => /\ \A f \in {path', tmp'} : Whole(f)' => Forgets(content[f])'
                    /\ ids = 1 => Whole(path)' \/ (path' = 0 /\ Whole(tmp)')
  PROVE  IInv'
<1>1. /\ call' \in [Callers -> Calls] /\ call'[c] = r
      /\ \A d \in Callers \ {c} : call'[d] = call[d]
  BY TypeFacts DEF IInv
<1>2. TypeOK'
  BY <1>1 DEF IInv, TypeOK, Calls, WithConfig
<1>3. KeepInv'
  <2>1. ASSUME NEW d \in Callers PROVE KeepAt(d)'
    BY <1>1 DEF IInv, KeepInv, KeepAt, Keeps
  <2> QED  BY <2>1 DEF IInv, KeepInv
<1>4. SoleInv'
  <2> SUFFICES ASSUME ~shared PROVE SoleInv'
    BY DEF SoleInv
  <2>1. ASSUME NEW d \in Callers \ {c} PROVE call[d].pc = "out"
    BY <2>1 DEF IInv, SoleInv, SoleAt
  <2>2. ASSUME NEW d \in Callers PROVE SoleAt(d)'
    BY <1>1, <2>1 DEF SoleAt
  <2> QED  BY <2>2 DEF SoleInv
<1> QED  BY <1>2, <1>3, <1>4 DEF IInv

\* What a saver knows of itself, and how its record changes.
LEMMA SaverFacts ==
  ASSUME IInv, NEW c \in Callers, call[c].pc \in Saving
  PROVE  /\ call[c] \in Calls /\ call[c].config \in Configs /\ KeepAt(c)
         /\ call[c].config # Torn /\ call[c].pc # "out"
         /\ ~shared => SoleAt(c) /\ Forgets(call[c].config)
         /\ content \in [Files -> Configs \cup {Torn}] /\ call \in [Callers -> Calls]
         /\ path \in {0} \cup Files /\ tmp \in {0} \cup Files /\ 0 \notin Files
         /\ gone \subseteq Peers /\ NamesInv /\ crashes \in 0..MaxCrashes
<1>1. call[c] \in Calls /\ call[c].config # Torn
  BY TypeFacts DEF IInv, WithConfig
<1> QED  BY <1>1, TypeFacts, CountFacts
         DEF IInv, KeepInv, SoleInv, SoleAt, Calls, WithConfig, Saving

Opened(r, f) == [At(r, "fill") EXCEPT !.handle = f]
Created(r) == [At(r, "loaded") EXCEPT !.creating = FALSE]

LEMMA SaverRecords ==
  ASSUME NEW r \in Calls, NEW f \in {0} \cup Files
  PROVE  /\ Opened(r, f) \in Calls /\ Opened(r, f).pc = "fill" /\ Opened(r, f).op = r.op
         /\ Opened(r, f).peer = r.peer /\ Opened(r, f).config = r.config
         /\ Opened(r, f).creating = r.creating /\ Opened(r, f).handle = f
         /\ Created(r) \in Calls /\ Created(r).pc = "loaded" /\ Created(r).op = r.op
         /\ Created(r).peer = r.peer /\ Created(r).config = r.config
<1>1. Opened(r, f) \in Calls
  <2> DEFINE a == At(r, "fill")
  <2>1. a \in Calls
    BY AtFacts DEF Pcs
  <2> HIDE DEF a
  <2>2. [a EXCEPT !.handle = f] \in Calls
    BY <2>1 DEF Calls
  <2> QED  BY <2>2 DEF a, Opened
<1>2. Created(r) \in Calls
  <2> DEFINE a == At(r, "loaded")
  <2>1. a \in Calls
    BY AtFacts DEF Pcs
  <2> HIDE DEF a
  <2>2. [a EXCEPT !.creating = FALSE] \in Calls
    BY <2>1 DEF Calls
  <2> QED  BY <2>2 DEF a, Created
<1>3. /\ Opened(r, f).pc = "fill" /\ Opened(r, f).op = r.op
      /\ Opened(r, f).peer = r.peer /\ Opened(r, f).config = r.config
      /\ Opened(r, f).creating = r.creating /\ Opened(r, f).handle = f
  BY DEF Opened, At, Calls
<1>4. /\ Created(r).pc = "loaded" /\ Created(r).op = r.op
      /\ Created(r).peer = r.peer /\ Created(r).config = r.config
  BY DEF Created, At, Calls
<1> QED  BY <1>1, <1>2, <1>3, <1>4

LEMMA CreateInv == ASSUME IInv, NEW c \in Callers, Create(c) PROVE IInv'
<1>0. call[c].pc = "create" /\ call[c].pc \in Saving
  BY DEF Create, Saving
<1>1. PICK f \in Files : /\ f # path /\ (tmp # 0 => f = tmp)
                         /\ content' = [content EXCEPT ![f] = Torn]
                         /\ call' = [call EXCEPT ![c].pc = "fill", ![c].handle = f]
                         /\ tmp' = f
  <2> DEFINE f == IF tmp # 0 THEN tmp ELSE CHOOSE g \in Files : Unused(g)
  <2>1. f \in Files /\ f # path /\ (tmp # 0 => f = tmp)
    <3>1. CASE tmp # 0
      BY <1>0, <3>1, SaverFacts DEF NamesInv
    <3>2. CASE tmp = 0
      <4>1. f \in Files /\ Unused(f)
        BY <3>2, UnusedExists
      <4> QED  BY <3>2, <4>1 DEF Unused
    <3> QED  BY <3>1, <3>2
  <2> QED  BY <2>1 DEF Create
<1>2. /\ UNCHANGED <<shared, path, running, ids, gone, owed, crashes>>
      /\ content' \in [Files -> Configs \cup {Torn}] /\ content'[f] = Torn
      /\ \A g \in Files \ {f} : content'[g] = content[g]
  BY <1>0, <1>1, SaverFacts DEF Create, ghosts
<1> DEFINE r == Opened(call[c], f)
<1>3. /\ r \in Calls /\ r.pc = "fill" /\ r.op = call[c].op /\ r.peer = call[c].peer
      /\ r.config = call[c].config /\ r.creating = call[c].creating /\ r.handle = f
  <2>1. call[c] \in Calls
    BY <1>0, SaverFacts
  <2> DEFINE w == call[c]
  <2>2. w \in Calls /\ f \in {0} \cup Files
    BY <2>1
  <2> HIDE DEF w
  <2>3. /\ Opened(w, f) \in Calls /\ Opened(w, f).pc = "fill" /\ Opened(w, f).op = w.op
        /\ Opened(w, f).peer = w.peer /\ Opened(w, f).config = w.config
        /\ Opened(w, f).creating = w.creating /\ Opened(w, f).handle = f
    BY <2>2, SaverRecords
  <2> QED  BY <2>3 DEF w
<1>4. call' = [call EXCEPT ![c] = r] /\ call'[c] = r
  BY <1>0, <1>1, SaverFacts DEF Opened, At
<1> HIDE DEF r
<1>5. (\A g \in Files : Keeps(content[g])') /\ KeepAt(c)' /\ NamesInv'
  <2>1. ASSUME NEW g \in Files PROVE Keeps(content[g])'
    BY <1>2 DEF IInv, KeepInv, Keeps
  <2>2. KeepAt(c)' /\ NamesInv'
    BY <1>0, <1>1, <1>2, <1>3, <1>4, SaverFacts DEF KeepAt, Keeps, NamesInv
  <2> QED  BY <2>1, <2>2
<1>6. ASSUME ~shared
      PROVE  /\ SoleAt(c)'
             /\ \A g \in {path', tmp'} : Whole(g)' => Forgets(content[g])'
             /\ ids = 1 => Whole(path)' \/ (path' = 0 /\ Whole(tmp)')
  <2>1. SoleAt(c) /\ (ids = 1 => Whole(path))
    BY <1>0, <1>6, SaverFacts DEF SoleAt, WithConfig, Saving
  <2>2. Whole(path)' = Whole(path) /\ (Whole(path) => content'[path] = content[path])
    BY <1>0, <1>1, <1>2, SaverFacts DEF Whole
  <2>3. \A d \in Callers \ {c} : call'[d] = call[d]
    BY <1>0, <1>4, SaverFacts
  <2>4. SoleAt(c)'
    BY <1>0, <1>1, <1>2, <1>3, <1>4, <1>6, <2>1, <2>2, <2>3, SaverFacts
    DEF SoleAt, WithConfig, Saving, Forgets
  <2>5. \A g \in {path', tmp'} : Whole(g)' => Forgets(content[g])'
    BY <1>1, <1>2, <1>6, <2>2 DEF IInv, SoleInv, Whole, Forgets
  <2> QED  BY <1>2, <2>1, <2>2, <2>4, <2>5
<1>7. r.config # Torn /\ path' \in {0} \cup Files /\ tmp' \in {0} \cup Files /\ gone' \subseteq Peers
      /\ call[c].pc # "out"
  BY <1>0, <1>1, <1>2, <1>3, SaverFacts
<1> QED  BY <1>2, <1>3, <1>4, <1>5, <1>6, <1>7, SaveStep

LEMMA FillInv == ASSUME IInv, NEW c \in Callers, Fill(c) PROVE IInv'
<1>0. call[c].pc = "fill" /\ call[c].pc \in Saving
  BY DEF Fill, Saving
<1> DEFINE h == call[c].handle
           r == Opened(call[c], 0)
           s == At(r, "exists")
<1>1. PICK text \in {call[c].config} \cup (IF content[h] = Torn THEN {} ELSE {Torn}) :
        content' = [content EXCEPT ![h] = text]
  BY DEF Fill
<1>2. /\ UNCHANGED <<shared, path, tmp, running, ids, gone, owed, crashes>>
      /\ text \in Configs \cup {Torn} /\ Keeps(text)
      /\ content' \in [Files -> Configs \cup {Torn}]
      /\ \A g \in Files : content'[g] = (IF g = h THEN text ELSE content[g])
  BY <1>0, <1>1, SaverFacts DEF Fill, names, ghosts, KeepAt, Keeps
<1>3. /\ s \in Calls /\ s.pc = "exists" /\ s.op = call[c].op /\ s.peer = call[c].peer
      /\ s.config = call[c].config /\ s.creating = call[c].creating
  <2>1. call[c] \in Calls
    BY <1>0, SaverFacts
  <2>2. /\ r \in Calls /\ r.op = call[c].op /\ r.peer = call[c].peer
        /\ r.config = call[c].config /\ r.creating = call[c].creating
    BY <2>1, SaverRecords
  <2> HIDE DEF r
  <2> QED  BY <2>2, AtFacts DEF Pcs
<1>4. call' = [call EXCEPT ![c] = s] /\ call'[c] = s
  <2>1. s = [call[c] EXCEPT !.pc = "exists", !.handle = 0]
    BY <1>0, SaverFacts DEF Opened, At, Calls
  <2>2. call' = [call EXCEPT ![c].pc = "exists", ![c].handle = 0]
    BY DEF Fill
  <2> HIDE DEF s
  <2> QED  BY <1>0, <2>1, <2>2, SaverFacts
<1> HIDE DEF s
<1>5. (\A g \in Files : Keeps(content[g])') /\ KeepAt(c)' /\ NamesInv'
  <2>1. ASSUME NEW g \in Files PROVE Keeps(content[g])'
    BY <1>2 DEF IInv, KeepInv, Keeps
  <2>2. KeepAt(c)' /\ NamesInv'
    BY <1>0, <1>2, <1>3, <1>4, SaverFacts DEF KeepAt, Keeps, NamesInv
  <2> QED  BY <2>1, <2>2
<1>6. ASSUME ~shared
      PROVE  /\ SoleAt(c)'
             /\ \A g \in {path', tmp'} : Whole(g)' => Forgets(content[g])'
             /\ ids = 1 => Whole(path)' \/ (path' = 0 /\ Whole(tmp)')
  <2>1. SoleAt(c) /\ Forgets(call[c].config) /\ (ids = 1 => Whole(path))
        /\ h = tmp /\ tmp \in Files /\ content[tmp] = Torn
    BY <1>0, <1>6, SaverFacts DEF SoleAt, WithConfig, Saving
  <2>2. text = call[c].config /\ content'[tmp] = call[c].config
    BY <1>1, <1>2, <2>1
  <2>3. Whole(path)' = Whole(path) /\ (path # 0 => content'[path] = content[path])
    BY <1>0, <1>2, <2>1, SaverFacts DEF Whole, NamesInv
  <2>4. \A d \in Callers \ {c} : call'[d] = call[d]
    BY <1>0, <1>4, SaverFacts
  <2>5. SoleAt(c)'
    BY <1>0, <1>2, <1>3, <1>4, <1>6, <2>1, <2>2, <2>3, <2>4, SaverFacts
    DEF SoleAt, WithConfig, Saving, Forgets
  <2>6. \A g \in {path', tmp'} : Whole(g)' => Forgets(content[g])'
    BY <1>2, <1>6, <2>1, <2>2, <2>3 DEF IInv, SoleInv, Whole, Forgets
  <2> QED  BY <1>2, <2>1, <2>3, <2>5, <2>6
<1>7. s.config # Torn /\ path' \in {0} \cup Files /\ tmp' \in {0} \cup Files /\ gone' \subseteq Peers
      /\ call[c].pc # "out"
  BY <1>0, <1>2, <1>3, SaverFacts
<1> QED  BY <1>2, <1>3, <1>4, <1>5, <1>6, <1>7, SaveStep

LEMMA RemoveInv == ASSUME IInv, NEW c \in Callers, Remove(c) PROVE IInv'
<1>0. /\ call[c].pc = "remove" /\ call[c].pc \in Saving /\ path' = 0
      /\ UNCHANGED <<shared, content, tmp, running, ids, gone, owed, crashes>>
  BY DEF Remove, Step, Saving, ghosts
<1>1. CASE path = 0
  BY <1>0, <1>1, SaverFacts, LeaveInv DEF Remove
<1>2. CASE path # 0
  <2> DEFINE r == At(call[c], "rename")
  <2>1. /\ r \in Calls /\ r.pc = "rename" /\ r.op = call[c].op /\ r.peer = call[c].peer
        /\ r.config = call[c].config /\ r.creating = call[c].creating
    BY <1>0, SaverFacts, AtFacts DEF Pcs
  <2>2. call' = [call EXCEPT ![c] = r] /\ call'[c] = r
    BY <1>0, <1>2, SaverFacts DEF Remove, Step, At
  <2> HIDE DEF r
  <2>3. (\A g \in Files : Keeps(content[g])') /\ KeepAt(c)' /\ NamesInv'
    BY <1>0, <2>1, <2>2, SaverFacts DEF IInv, KeepInv, KeepAt, Keeps, NamesInv
  <2>4. ASSUME ~shared
        PROVE  /\ SoleAt(c)'
               /\ \A g \in {path', tmp'} : Whole(g)' => Forgets(content[g])'
               /\ ids = 1 => Whole(path)' \/ (path' = 0 /\ Whole(tmp)')
    <3>1. SoleAt(c) /\ Forgets(call[c].config) /\ tmp # 0 /\ content[tmp] = call[c].config
      BY <1>0, <2>4, SaverFacts DEF SoleAt
    <3>2. \A d \in Callers \ {c} : call'[d] = call[d]
      BY <1>0, <2>2, SaverFacts
    <3>3. SoleAt(c)'
      BY <1>0, <2>1, <2>2, <2>4, <3>1, <3>2 DEF SoleAt, WithConfig, Saving, Forgets
    <3> QED  BY <1>0, <2>4, <3>1, <3>3, SaverFacts DEF IInv, SoleInv, Whole, Forgets
  <2>5. r.config # Torn /\ path' \in {0} \cup Files /\ tmp' \in {0} \cup Files /\ gone' \subseteq Peers
        /\ call[c].pc # "out" /\ content' \in [Files -> Configs \cup {Torn}]
    BY <1>0, <2>1, SaverFacts
  <2> QED  BY <1>0, <2>1, <2>2, <2>3, <2>4, <2>5, SaveStep
<1> QED  BY <1>1, <1>2

LEMMA RenameInv == ASSUME IInv, NEW c \in Callers, Rename(c) PROVE IInv'
<1>0. /\ call[c].pc = "rename" /\ call[c].pc \in Saving /\ tmp # 0 /\ path' = tmp /\ tmp' = 0
      /\ UNCHANGED <<shared, content, running, ids, owed, crashes>>
  BY DEF Rename, Saving
<1>1. ASSUME ~shared
      PROVE  SoleAt(c) /\ Forgets(call[c].config) /\ content[tmp] = call[c].config
  BY <1>0, <1>1, SaverFacts DEF SoleAt
<1>2. /\ call[c].pc # "out" /\ content' \in [Files -> Configs \cup {Torn}]
      /\ path' \in {0} \cup Files /\ tmp' \in {0} \cup Files /\ NamesInv'
      /\ \A g \in Files : Keeps(content[g])'
  BY <1>0, SaverFacts DEF NamesInv, IInv, KeepInv, Keeps
<1>3. CASE call[c].creating
  <2> DEFINE r == Created(call[c])
  <2>1. /\ r \in Calls /\ r.pc = "loaded" /\ r.op = call[c].op /\ r.peer = call[c].peer
        /\ r.config = call[c].config /\ r.config # Torn
    <3>1. call[c] \in Calls /\ call[c].config # Torn /\ 0 \in {0} \cup Files
      BY <1>0, SaverFacts
    <3> QED  BY <3>1, SaverRecords
  <2>2. call' = [call EXCEPT ![c] = r] /\ call'[c] = r /\ UNCHANGED gone
    BY <1>0, <1>3, SaverFacts DEF Rename, Created, At
  <2> HIDE DEF r
  <2>3. KeepAt(c)'
    BY <1>0, <2>1, <2>2, SaverFacts DEF KeepAt, Keeps
  <2>4. ASSUME ~shared
        PROVE  /\ SoleAt(c)'
               /\ \A g \in {path', tmp'} : Whole(g)' => Forgets(content[g])'
               /\ ids = 1 => Whole(path)' \/ (path' = 0 /\ Whole(tmp)')
    <3>1. \A d \in Callers \ {c} : call'[d] = call[d]
      BY <1>0, <2>2, SaverFacts
    <3>2. Whole(path)' /\ Forgets(content[path])'
      BY <1>0, <1>1, <2>2, <2>4, SaverFacts DEF Whole, Forgets
    <3>3. SoleAt(c)'
      BY <1>0, <1>1, <2>1, <2>2, <2>4, <3>1, <3>2 DEF SoleAt, WithConfig, Saving, Forgets
    <3> QED  BY <1>0, <3>2, <3>3 DEF Whole
  <2>5. gone' \subseteq Peers
    BY <1>0, <2>2, SaverFacts
  <2> QED  BY <1>0, <1>2, <2>1, <2>2, <2>3, <2>4, <2>5, SaveStep
<1>4. CASE ~call[c].creating
  <2>1. /\ call' = [call EXCEPT ![c] = Idle] /\ call'[c] = Idle
        /\ gone' = IF call[c].op = "unpair" /\ ~shared THEN gone \cup {call[c].peer} ELSE gone
    BY <1>0, <1>4, SaverFacts DEF Rename, Leave
  <2>2. KeepAt(c)' /\ SoleAt(c)'
    BY <2>1, IdleFacts DEF KeepAt, Keeps, SoleAt
  <2>3. ASSUME ~shared
        PROVE  /\ \A g \in {path', tmp'} : Whole(g)' => Forgets(content[g])'
               /\ ids = 1 => Whole(path)' \/ (path' = 0 /\ Whole(tmp)')
    <3>1. gone' \cap call[c].config.peers = {}
      BY <1>0, <1>1, <1>4, <2>1, <2>3 DEF SoleAt, Forgets
    <3>2. Whole(path)' /\ Forgets(content[path])'
      BY <1>0, <1>1, <2>3, <3>1, SaverFacts DEF Whole, Forgets
    <3> QED  BY <1>0, <3>2 DEF Whole
  <2>4. gone' \subseteq Peers /\ call[c].peer \in Peers
    BY <1>0, <2>1, SaverFacts DEF Calls
  <2> QED  BY <1>0, <1>2, <2>1, <2>2, <2>3, <2>4, IdleFacts, SaveStep DEF WithConfig, Saving
<1> QED  BY <1>3, <1>4

LEMMA SaveInv == ASSUME IInv, NEW c \in Callers, Save(c) PROVE IInv'
<1>1. CASE Exists(c)
  <2>1. /\ call[c].pc = "exists" /\ call[c].pc \in Saving
        /\ call' = [call EXCEPT ![c].pc = IF path # 0 THEN "remove" ELSE "rename"]
        /\ UNCHANGED <<shared, content, path, tmp, running, ids, gone, owed, crashes>>
    BY <1>1 DEF Exists, Step, names, ghosts, Saving
  <2>2. ~shared /\ ids = 1 => Whole(path)
    BY <2>1, SaverFacts DEF SoleAt, WithConfig
  <2>3. CASE path # 0
    BY <2>1, <2>2, <2>3, GoInv DEF Pcs, WithConfig, Saving
  <2>4. CASE path = 0
    BY <2>1, <2>2, <2>4, GoInv DEF Pcs, WithConfig, Saving
  <2> QED  BY <2>3, <2>4
<1>2. CASE RenameFails(c)
  <2>1. /\ call[c].pc = "rename" /\ call[c].pc \in Saving /\ Leave(c)
        /\ UNCHANGED <<shared, content, path, tmp, running, ids, gone, owed, crashes>>
    BY <1>2 DEF RenameFails, names, ghosts, Saving
  <2> QED  BY <2>1, SaverFacts, LeaveInv
<1> QED  BY <1>1, <1>2, CreateInv, FillInv, RemoveInv, RenameInv DEF Save

LEMMA CrashInv == ASSUME IInv, NEW c \in Callers, Crash(c) PROVE IInv'
<1>1. /\ call[c].pc \in Saving /\ crashes' = crashes + 1 /\ crashes < MaxCrashes /\ Leave(c)
      /\ UNCHANGED <<shared, content, path, tmp, running, ids, gone, owed>>
  BY DEF Crash, names, ghosts
<1>2. crashes' \in 0..MaxCrashes /\ call[c].pc # "out"
  BY <1>1, SaverFacts, StoreAssumption
<1> QED  BY <1>1, <1>2, LeaveInv

LEMMA TickInv == ASSUME IInv, Tick PROVE IInv'
<1>1. PICK config \in Configs \ {running} :
        OnFile(config) /\ config.id = running.id /\ running' = config
  BY DEF Tick
<1>2. UNCHANGED <<shared, content, path, tmp, call, ids, gone, owed, crashes>>
  BY DEF Tick, names, ghosts
<1>3. running' \in Configs /\ running'.id = 1 /\ owed' \subseteq running'.peers
  <2>1. path \in Files /\ content[path] = config /\ config # Torn
    BY <1>1, TypeFacts, StoreAssumption DEF OnFile, IInv
  <2> QED  BY <1>1, <1>2, <2>1 DEF IInv, KeepInv, Keeps
<1>4. TypeOK' /\ NamesInv'
  BY <1>2, <1>3 DEF IInv, TypeOK, NamesInv
<1>5. KeepInv'
  BY <1>2, <1>3 DEF IInv, KeepInv, KeepAt, Keeps
<1>6. SoleInv'
  BY <1>2 DEF IInv, SoleInv, SoleAt, Whole, Forgets
<1> QED  BY <1>4, <1>5, <1>6 DEF IInv

LEMMA NextIInv == IInv /\ [Next]_vars => IInv'
<1>1. ASSUME IInv, UNCHANGED vars PROVE IInv'
  BY <1>1 DEF vars, IInv, TypeOK, NamesInv, KeepInv, KeepAt, Keeps, SoleInv, SoleAt, Whole, Forgets
<1> QED  BY <1>1, BeginInv, LoadInv, OperateInv, SaveInv, CrashInv, TickInv DEF Next

LEMMA Invariance == Spec => []IInv
BY InitIInv, NextIInv, PTL DEF Spec

(* A caller past the load has a configuration, and files enough.           *)
THEOREM TypeCorrect == Spec => []TypeOK
<1>1. IInv => TypeOK
  BY DEF IInv
<1> QED  BY <1>1, Invariance, PTL

(* The daemon loses no peer nobody unpaired, however savers overlap and    *)
(* die.                                                                    *)
THEOREM DaemonKeepsPeersCorrect == Spec => []DaemonKeepsPeers
<1>1. IInv => DaemonKeepsPeers
  BY DEF IInv, KeepInv, DaemonKeepsPeers
<1> QED  BY <1>1, Invariance, PTL

(* One caller at a time leaves the configuration whole under a name,       *)
(* wherever it dies.                                                       *)
THEOREM RecoverableCorrect == Spec => []Recoverable
<1>1. IInv => Recoverable
  BY DEF IInv, SoleInv, Whole, Recoverable
<1> QED  BY <1>1, Invariance, PTL

(* What one caller at a time unpaired stays unpaired, half-done saves      *)
(* notwithstanding.                                                        *)
THEOREM UnpairedStaysCorrect == Spec => []UnpairedStays
<1>1. IInv => UnpairedStays
  <2> SUFFICES ASSUME IInv, ~shared, NEW p \in gone, NEW config \in Configs, OnFile(config)
               PROVE  p \notin config.peers
    BY DEF UnpairedStays
  <2>1. Whole(path) /\ content[path] = config
    BY StoreAssumption DEF OnFile, Whole
  <2> QED  BY <2>1 DEF IInv, SoleInv, Forgets
<1> QED  BY <1>1, Invariance, PTL
=============================================================================
