----------------------------- MODULE ConfigStore -----------------------------
(***************************************************************************)
(* config.json (src/src/config.rs) as it is shared: the command line, the  *)
(* tray program's commands and its 2 s status poll each load, change and   *)
(* save it with no lock, and the daemon follows it every 500 ms            *)
(* (wait_for_config_change in src/src/service.rs).                         *)
(*                                                                         *)
(* A file is an object with one name or none: a saver writes through the   *)
(* handle it opened, wherever the name went meanwhile.                     *)
(***************************************************************************)
EXTENDS Naturals, FiniteSets

CONSTANTS
  Peers,
  Callers,    \* threads or processes that use the configuration
  Torn,       \* content that does not parse
  MaxIds,     \* bound of the model: identities generated, with the first
  MaxCrashes  \* bound of the model: callers that die half way

Configs == [id : 1..MaxIds, peers : SUBSET Peers]

ASSUME StoreAssumption ==
  /\ Peers # {} /\ IsFiniteSet(Callers) /\ Torn \notin Configs
  /\ MaxIds \in Nat \ {0} /\ MaxCrashes \in Nat

Ops == {"status", "unpair", "pair"}

\* Enough for both names and a handle of every caller; 0 is no file.
Files == 1..(Cardinality(Callers) + 2)

VARIABLES
  shared,  \* callers overlap; otherwise each comes when the last is out
  content, \* what each file holds
  path,    \* the file named config.json
  tmp,     \* the file named config.json.tmp
  call,    \* what each caller does: [pc, op, peer, config, handle, creating]
  running, \* the configuration the daemon runs with
  ids,     \* identities generated
  gone,    \* peers unpaired by a caller alone, with no pairing asked for since
  owed,    \* peers the daemon started with and nobody asked to unpair
  crashes

names == <<path, tmp>>
ghosts == <<gone, owed>>
vars == <<shared, content, path, tmp, call, running, ids, gone, owed, crashes>>

Idle == [pc |-> "out", op |-> "status", peer |-> CHOOSE p \in Peers : TRUE,
         config |-> Torn, handle |-> 0, creating |-> FALSE]

Init ==
  \E first \in [id : {1}, peers : SUBSET Peers] :
    /\ shared \in BOOLEAN
    /\ content = [f \in Files |-> IF f = 1 THEN first ELSE Torn]
    /\ path = 1 /\ tmp = 0
    /\ call = [c \in Callers |-> Idle]
    /\ running = first
    /\ ids = 1 /\ gone = {} /\ owed = first.peers /\ crashes = 0

Step(c, from, to) == /\ call[c].pc = from
                     /\ call' = [call EXCEPT ![c].pc = to]
Leave(c) == call' = [call EXCEPT ![c] = Idle]

-----------------------------------------------------------------------------
(* The operations: load_or_create, then what the caller came for.          *)

Begin(c) ==
  /\ call[c].pc = "out"
  /\ shared \/ \A other \in Callers : call[other].pc = "out"
  /\ \E op \in Ops, p \in Peers :
       /\ call' = [call EXCEPT ![c] = [Idle EXCEPT !.pc = "load", !.op = op, !.peer = p]]
       /\ gone' = IF op = "pair" THEN gone \ {p} ELSE gone
       /\ owed' = IF op = "unpair" THEN owed \ {p} ELSE owed
  /\ UNCHANGED <<shared, content, names, running, ids, crashes>>

\* if !path.exists(): a default configuration, with an identity of its own.
\* Bound of the model: past the last identity its save fails at once.
LoadMissing(c) ==
  /\ call[c].pc = "load" /\ path = 0
  /\ IF ids < MaxIds
     THEN /\ ids' = ids + 1
          /\ call' = [call EXCEPT ![c].pc = "create", ![c].creating = TRUE,
                                  ![c].config = [id |-> ids + 1, peers |-> {}]]
     ELSE Leave(c) /\ UNCHANGED ids
  /\ UNCHANGED <<shared, content, names, running, ghosts, crashes>>

LoadExists(c) ==
  /\ path # 0
  /\ Step(c, "load", "read")
  /\ UNCHANGED <<shared, content, names, running, ids, ghosts, crashes>>

Read(c) ==
  /\ call[c].pc = "read"
  /\ IF path = 0 \/ content[path] = Torn
     THEN Leave(c)
     ELSE call' = [call EXCEPT ![c].pc = "loaded", ![c].config = content[path]]
  /\ UNCHANGED <<shared, content, names, running, ids, ghosts, crashes>>

StatusDone(c) ==
  /\ call[c].pc = "loaded" /\ call[c].op = "status"
  /\ Leave(c)
  /\ UNCHANGED <<shared, content, names, running, ids, ghosts, crashes>>

\* Fault: the peer is removed from the configuration in memory only.
UnpairUnsaved(c) ==
  /\ call[c].pc = "loaded" /\ call[c].op = "unpair"
  /\ Leave(c)
  /\ gone' = gone \cup {call[c].peer}
  /\ UNCHANGED <<shared, content, names, running, ids, owed, crashes>>

\* remove_peer saves only what it changed.
Unpair(c) ==
  /\ call[c].pc = "loaded" /\ call[c].op = "unpair"
  /\ IF call[c].peer \in call[c].config.peers
     THEN call' = [call EXCEPT ![c].pc = "create", ![c].config.peers = @ \ {call[c].peer}]
     ELSE Leave(c)
  /\ UNCHANGED <<shared, content, names, running, ids, ghosts, crashes>>

\* The configuration stays in memory while the pairing runs.
PairStart(c) ==
  /\ call[c].op = "pair"
  /\ Step(c, "loaded", "pairing")
  /\ UNCHANGED <<shared, content, names, running, ids, ghosts, crashes>>

PairFails(c) ==
  /\ call[c].pc = "pairing"
  /\ Leave(c)
  /\ UNCHANGED <<shared, content, names, running, ids, ghosts, crashes>>

\* upsert_peer
PairSucceeds(c) ==
  /\ call[c].pc = "pairing"
  /\ call' = [call EXCEPT ![c].pc = "create", ![c].config.peers = @ \cup {call[c].peer}]
  /\ UNCHANGED <<shared, content, names, running, ids, ghosts, crashes>>

-----------------------------------------------------------------------------
(* save                                                                    *)

Saving == {"create", "fill", "exists", "remove", "rename"}
Unused(f) == f \notin {path, tmp} /\ \A c \in Callers : call[c].handle # f

\* Fault: config.json is written in place.
CreateInPlace(c) ==
  /\ call[c].pc = "create"
  /\ LET f == IF path # 0 THEN path ELSE CHOOSE g \in Files : Unused(g)
     IN  /\ content' = [content EXCEPT ![f] = Torn]
         /\ call' = [call EXCEPT ![c].pc = "fill", ![c].handle = f]
         /\ path' = f
  /\ UNCHANGED <<shared, tmp, running, ids, ghosts, crashes>>

\* fs::write opens config.json.tmp and truncates it ...
Create(c) ==
  /\ call[c].pc = "create"
  /\ LET f == IF tmp # 0 THEN tmp ELSE CHOOSE g \in Files : Unused(g)
     IN  /\ content' = [content EXCEPT ![f] = Torn]
         /\ call' = [call EXCEPT ![c].pc = "fill", ![c].handle = f]
         /\ tmp' = f
  /\ UNCHANGED <<shared, path, running, ids, ghosts, crashes>>

\* ... and writes; over what another wrote meanwhile, a tail of that may stay.
Fill(c) ==
  /\ call[c].pc = "fill"
  /\ LET f == call[c].handle IN
     \E text \in {call[c].config} \cup (IF content[f] = Torn THEN {} ELSE {Torn}) :
       content' = [content EXCEPT ![f] = text]
  /\ call' = [call EXCEPT ![c].pc = "exists", ![c].handle = 0]
  /\ UNCHANGED <<shared, names, running, ids, ghosts, crashes>>

Exists(c) ==
  /\ Step(c, "exists", IF path # 0 THEN "remove" ELSE "rename")
  /\ UNCHANGED <<shared, content, names, running, ids, ghosts, crashes>>

\* remove_file fails when another removed it first.
Remove(c) ==
  /\ IF path # 0 THEN Step(c, "remove", "rename")
                 ELSE call[c].pc = "remove" /\ Leave(c)
  /\ path' = 0
  /\ UNCHANGED <<shared, content, tmp, running, ids, ghosts, crashes>>

\* rename replaces a config.json made meanwhile; it fails with no source.
RenameFails(c) ==
  /\ call[c].pc = "rename" /\ tmp = 0
  /\ Leave(c)
  /\ UNCHANGED <<shared, content, names, running, ids, ghosts, crashes>>

Rename(c) ==
  /\ call[c].pc = "rename" /\ tmp # 0
  /\ path' = tmp /\ tmp' = 0
  /\ IF call[c].creating
     THEN /\ call' = [call EXCEPT ![c].pc = "loaded", ![c].creating = FALSE]
          /\ UNCHANGED gone
     ELSE /\ Leave(c)
          /\ gone' = IF call[c].op = "unpair" /\ ~shared THEN gone \cup {call[c].peer} ELSE gone
  /\ UNCHANGED <<shared, content, running, ids, owed, crashes>>

\* The caller's process is killed between two steps of a save; before one it
\* leaves what a caller leaves that comes for nothing.
Crash(c) ==
  /\ call[c].pc \in Saving \ {"create"} /\ crashes < MaxCrashes
  /\ crashes' = crashes + 1
  /\ Leave(c)
  /\ UNCHANGED <<shared, content, names, running, ids, ghosts>>

-----------------------------------------------------------------------------
(* wait_for_config_change: a tick that reads a configuration of the same   *)
(* identity and another content ends the sessions and starts new ones.     *)

OnFile(config) == path # 0 /\ content[path] = config

\* Fault: the identity is not compared.
TickAnyIdentity ==
  /\ \E config \in Configs \ {running} : OnFile(config) /\ running' = config
  /\ UNCHANGED <<shared, content, names, call, ids, ghosts, crashes>>

\* Fault: a list that became shorter is no change.
TickAdditions ==
  /\ \E config \in Configs :
       /\ OnFile(config) /\ config.id = running.id
       /\ ~(config.peers \subseteq running.peers)
       /\ running' = config
  /\ UNCHANGED <<shared, content, names, call, ids, ghosts, crashes>>

Tick ==
  /\ \E config \in Configs \ {running} :
       OnFile(config) /\ config.id = running.id /\ running' = config
  /\ UNCHANGED <<shared, content, names, call, ids, ghosts, crashes>>

-----------------------------------------------------------------------------

Load(c) == LoadMissing(c) \/ LoadExists(c) \/ Read(c)
Operate(c) == StatusDone(c) \/ Unpair(c) \/ PairStart(c) \/ PairFails(c) \/ PairSucceeds(c)
Save(c) == Create(c) \/ Fill(c) \/ Exists(c) \/ Remove(c) \/ Rename(c) \/ RenameFails(c)

Next == Tick \/ \E c \in Callers : Begin(c) \/ Load(c) \/ Operate(c) \/ Save(c) \/ Crash(c)

Spec == Init /\ [][Next]_vars

(* Fairness: the daemon's timer ticks, and a tick that finds config.json   *)
(* in place reads it.  A caller runs to its end or dies.                   *)
FairSpec ==
  /\ Spec
  /\ WF_vars(Tick)
  /\ \A c \in Callers : WF_vars(Load(c) \/ Operate(c) \/ Save(c))

-----------------------------------------------------------------------------
(* Properties.                                                             *)

Pcs == {"out", "load", "read", "loaded", "pairing", "create", "fill", "exists",
        "remove", "rename"}

\* A caller past the load has a configuration to work with.
TypeOK ==
  /\ shared \in BOOLEAN /\ content \in [Files -> Configs \cup {Torn}]
  /\ path \in {0} \cup Files /\ tmp \in {0} \cup Files
  /\ call \in [Callers -> [pc : Pcs, op : Ops, peer : Peers, config : Configs \cup {Torn},
                           handle : {0} \cup Files, creating : BOOLEAN]]
  /\ \A c \in Callers : call[c].pc \in Saving \cup {"loaded", "pairing"} => call[c].config # Torn
  /\ running \in Configs
  /\ ids \in 1..MaxIds /\ gone \subseteq Peers /\ owed \subseteq Peers /\ crashes \in 0..MaxCrashes

\* The daemon drops the sessions of no peer it started with unless someone asked
\* to unpair it, whatever overlapping savers and crashes make of the file: torn,
\* missing, or another device's (service.rs:346-355).
DaemonKeepsPeers == owed \subseteq running.peers

\* Until a load finds no config.json and makes a new one, the device's
\* configuration is whole under one of its two names, whenever the one caller
\* dies: it can be recovered.
Recoverable == ~shared /\ ids = 1 =>
  \E f \in {path, tmp} : f # 0 /\ content[f] # Torn

\* With one caller at a time, a peer unpaired with success stays out of the file
\* until it is paired again: the last of callers that overlap may write it back.
UnpairedStays == shared \/
  \A p \in gone : \A config \in Configs : OnFile(config) => p \notin config.peers

\* The daemon gets to run with the file's list of peers: a change is followed,
\* an unpairing included, unless the file changes again or is replaced.
DaemonFollows == \A peers \in SUBSET Peers : LET config == [id |-> 1, peers |-> peers] IN
  OnFile(config) ~> (running = config \/ ~OnFile(config) \/ ids > 1)

\* The device keeps its identity: no file in place of a missing one is another
\* device's.
IdentityKept == \A config \in Configs : OnFile(config) => config.id = 1
=============================================================================
