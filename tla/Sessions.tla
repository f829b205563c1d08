------------------------------- MODULE Sessions -------------------------------
(***************************************************************************)
(* The connections between two paired devices: how they are opened and     *)
(* authenticated (src/src/network.rs, run to accept_connection), and how   *)
(* they follow the configuration (run_network_with_reload in               *)
(* src/src/service.rs).                                                    *)
(*                                                                         *)
(* Client has the smaller device id and connects; Server accepts.  A key   *)
(* is the number of the pairing it came from, 0 when the peer is not in    *)
(* the configuration.  A proof verifies if and only if it was made with    *)
(* the verifier's key.                                                     *)
(***************************************************************************)
EXTENDS Naturals, FiniteSets

CONSTANTS
  MaxInbound, \* MAX_INBOUND_CONNECTIONS (16 in the code)
  \* Bounds of the model, none of them in the code.
  Slots,      \* connections that exist at the same time
  MaxKeys,    \* pairings
  MaxUnpairs,
  MaxFaults   \* links that die, ends that fail, daemons restarted

ASSUME SessionsAssumption ==
  /\ MaxInbound \in Nat \ {0} /\ IsFiniteSet(Slots)
  /\ MaxKeys \in Nat \ {0} /\ MaxUnpairs \in Nat /\ MaxFaults \in Nat

Client == "client"
Server == "server"
Devices == {Client, Server}
Other(d) == IF d = Client THEN Server ELSE Client

VARIABLES
  file,    \* the peer's key in each device's config.json
  config,  \* the peer's key in each device's state.config
  end,     \* what each device does with each connection
  keyOf,   \* the key each device's end of a connection uses
  hello,   \* the client's proof under way on each connection, or 0
  reply,   \* the server's
  cut,     \* connections whose link died without a word
  half,    \* the key of a pairing the other device has saved, a device not yet, or 0
  keys, unpairs, faults \* spent budgets

userVars == <<file, half, keys, unpairs>>
connVars == <<end, keyOf, hello, reply, cut>>
vars == <<userVars, connVars, config, faults>>

Init ==
  /\ file = [d \in Devices |-> 1] /\ config = file
  /\ end = [d \in Devices |-> [c \in Slots |-> "closed"]]
  /\ keyOf = [d \in Devices |-> [c \in Slots |-> 0]]
  /\ hello = [c \in Slots |-> 0] /\ reply = [c \in Slots |-> 0]
  /\ cut = {}
  /\ half = [d \in Devices |-> 0] /\ keys = 1 /\ unpairs = 0 /\ faults = 0

Fault == faults < MaxFaults /\ faults' = faults + 1

-----------------------------------------------------------------------------
(* The user.  Each device saves a pairing by itself, the second one when   *)
(* the last message of the pairing reached it (pair_connect, pair_listen). *)

PairFirst(d) ==
  /\ \A e \in Devices : half[e] = 0
  /\ keys < MaxKeys
  /\ keys' = keys + 1 /\ half' = [half EXCEPT ![Other(d)] = keys']
  /\ file' = [file EXCEPT ![d] = keys']
  /\ UNCHANGED <<unpairs, connVars, config, faults>>

PairSecond(d) ==
  /\ half[d] # 0
  /\ file' = [file EXCEPT ![d] = half[d]]
  /\ half' = [half EXCEPT ![d] = 0]
  /\ UNCHANGED <<keys, unpairs, connVars, config, faults>>

PairLost(d) ==
  /\ half[d] # 0
  /\ Fault
  /\ half' = [half EXCEPT ![d] = 0]
  /\ UNCHANGED <<file, keys, unpairs, connVars, config>>

Unpair(d) ==
  /\ file[d] # 0 /\ unpairs < MaxUnpairs
  /\ unpairs' = unpairs + 1
  /\ file' = [file EXCEPT ![d] = 0]
  /\ UNCHANGED <<half, keys, connVars, config, faults>>

-----------------------------------------------------------------------------
(* The configuration of a running daemon.                                  *)

CloseAll(d) == end' = [end EXCEPT ![d] = [c \in Slots |-> "closed"]]

\* Faults: a reload that leaves the connections alone; one that skips a
\* configuration without the peer.
ReloadKeepsSessions(d) ==
  /\ file[d] # config[d]
  /\ config' = [config EXCEPT ![d] = file[d]]
  /\ UNCHANGED <<userVars, connVars, faults>>
ReloadPairedOnly(d) ==
  /\ file[d] # config[d] /\ file[d] # 0
  /\ CloseAll(d)
  /\ config' = [config EXCEPT ![d] = file[d]]
  /\ UNCHANGED <<userVars, keyOf, hello, reply, cut, faults>>

\* The nested LocalSet is dropped with every connector and accepted connection
\* in it, the backlog with the listener; then the configuration is replaced.
Reload(d) ==
  /\ file[d] # config[d]
  /\ CloseAll(d)
  /\ config' = [config EXCEPT ![d] = file[d]]
  /\ UNCHANGED <<userVars, keyOf, hello, reply, cut, faults>>

Restart(d) ==
  /\ Fault
  /\ CloseAll(d)
  /\ config' = [config EXCEPT ![d] = file[d]]
  /\ UNCHANGED <<userVars, keyOf, hello, reply, cut>>

-----------------------------------------------------------------------------
(* Opening a connection.                                                   *)

SetEnd(d, c, to) == end' = [end EXCEPT ![d][c] = to]
Close(d, c) == SetEnd(d, c, "closed")
Free(c) == \A d \in Devices : end[d][c] = "closed"

\* Fault: a connector that dials while its connection is up.
DialAgain(c) ==
  /\ config[Client] # 0 /\ Free(c)
  /\ end' = [end EXCEPT ![Client][c] = "hello", ![Server][c] = "backlog"]
  /\ keyOf' = [keyOf EXCEPT ![Client][c] = config[Client], ![Server][c] = 0]
  /\ hello' = [hello EXCEPT ![c] = config[Client]]
  /\ reply' = [reply EXCEPT ![c] = 0]
  /\ cut' = cut \ {c}
  /\ UNCHANGED <<userVars, config, faults>>

\* The peer's one connector_loop connects, and connect_connection sends its
\* proof; the system queues the connection for the server.
Dial(c) ==
  /\ config[Client] # 0 /\ Free(c)
  /\ \A s \in Slots : end[Client][s] = "closed"
  /\ end' = [end EXCEPT ![Client][c] = "hello", ![Server][c] = "backlog"]
  /\ keyOf' = [keyOf EXCEPT ![Client][c] = config[Client], ![Server][c] = 0]
  /\ hello' = [hello EXCEPT ![c] = config[Client]]
  /\ reply' = [reply EXCEPT ![c] = 0]
  /\ cut' = cut \ {c}
  /\ UNCHANGED <<userVars, config, faults>>

Inbound == {c \in Slots : end[Server][c] \in {"reading", "run"}}

\* try_acquire_owned: with no permit left the connection is dropped.
Accept(c) ==
  /\ end[Server][c] = "backlog"
  /\ SetEnd(Server, c, IF Cardinality(Inbound) < MaxInbound THEN "reading" ELSE "closed")
  /\ UNCHANGED <<userVars, keyOf, hello, reply, cut, config, faults>>

\* Fault: a proof is taken unverified.
VerifiedUnchecked(key, proof) == key # 0
Verified(key, proof) == key # 0 /\ proof = key

\* accept_connection: the peer's key, its proof, then the server's own.
Hello(c) ==
  /\ end[Server][c] = "reading" /\ hello[c] # 0 /\ c \notin cut
  /\ IF Verified(config[Server], hello[c])
     THEN /\ SetEnd(Server, c, "run")
          /\ keyOf' = [keyOf EXCEPT ![Server][c] = config[Server]]
          /\ reply' = [reply EXCEPT ![c] = config[Server]]
     ELSE /\ Close(Server, c)
          /\ UNCHANGED <<keyOf, reply>>
  /\ hello' = [hello EXCEPT ![c] = 0]
  /\ UNCHANGED <<userVars, cut, config, faults>>

\* The rest of connect_connection; the key is the one read before the dial.
Reply(c) ==
  /\ end[Client][c] = "hello" /\ reply[c] # 0 /\ c \notin cut
  /\ SetEnd(Client, c, IF Verified(keyOf[Client][c], reply[c]) THEN "run" ELSE "closed")
  /\ reply' = [reply EXCEPT ![c] = 0]
  /\ UNCHANGED <<userVars, keyOf, hello, cut, config, faults>>

-----------------------------------------------------------------------------
(* Losing a connection.                                                    *)

\* The end of the stream: the other end is gone and its link is up.
Eof(d, c) ==
  /\ end[d][c] \in {"hello", "reading", "run"}
  /\ end[Other(d)][c] = "closed" /\ c \notin cut
  /\ Close(d, c)
  /\ UNCHANGED <<userVars, keyOf, hello, reply, cut, config, faults>>

LinkDies(c) ==
  /\ ~Free(c) /\ c \notin cut
  /\ Fault
  /\ cut' = cut \cup {c}
  /\ UNCHANGED <<userVars, end, keyOf, hello, reply, config>>

\* Fault: the accepting side waits for ever.
TimeoutOfClient(d, c) ==
  /\ d = Client /\ end[d][c] # "closed" /\ c \in cut
  /\ Close(d, c)
  /\ UNCHANGED <<userVars, keyOf, hello, reply, cut, config, faults>>

\* IO_TIMEOUT in the handshake, RECEIVE_TIMEOUT or a failed write later.
Timeout(d, c) ==
  /\ end[d][c] # "closed" /\ c \in cut
  /\ Close(d, c)
  /\ UNCHANGED <<userVars, keyOf, hello, reply, cut, config, faults>>

\* run_channel ends with an error of its own: a source that fails, a full
\* reply queue.
EndFails(d, c) ==
  /\ end[d][c] = "run"
  /\ Fault
  /\ Close(d, c)
  /\ UNCHANGED <<userVars, keyOf, hello, reply, cut, config>>

-----------------------------------------------------------------------------

\* Nothing is under way on any link that is up: the daemons wait.
Settled ==
  /\ \A c \in Slots : c \in cut \/ end[Client][c] = end[Server][c]
  /\ UNCHANGED vars

Connection(c) ==
  \/ Dial(c) \/ Accept(c) \/ Hello(c) \/ Reply(c)
  \/ \E d \in Devices : Eof(d, c) \/ Timeout(d, c)

Next ==
  \/ \E d \in Devices : \/ PairFirst(d) \/ PairSecond(d) \/ PairLost(d)
                        \/ Unpair(d) \/ Reload(d) \/ Restart(d)
  \/ \E c \in Slots : Connection(c) \/ LinkDies(c) \/ \E d \in Devices : EndFails(d, c)
  \/ Settled

Spec == Init /\ [][Next]_vars

\* The steps of a device's task for a connection, and of its timers.
Task(d, c) ==
  \/ d = Client /\ Reply(c)
  \/ d = Server /\ (Accept(c) \/ Hello(c))
  \/ Eof(d, c) \/ Timeout(d, c)

(* Fairness: the daemon's tasks and timers run, and a pairing's last       *)
(* message arrives or is given up.                                         *)
FairSpec ==
  /\ Spec
  /\ \A d \in Devices : /\ WF_vars(PairSecond(d) \/ PairLost(d)) /\ WF_vars(Reload(d))
                        /\ \A c \in Slots : WF_vars(Task(d, c))
  /\ WF_vars(\E c \in Slots : Dial(c))

-----------------------------------------------------------------------------
(* Properties.                                                             *)

\* The number of accepted connections respects its limit.
TypeOK ==
  /\ file \in [Devices -> 0..MaxKeys] /\ config \in [Devices -> 0..MaxKeys]
  /\ end \in [Devices -> [Slots -> {"closed", "hello", "backlog", "reading", "run"}]]
  /\ keyOf \in [Devices -> [Slots -> 0..MaxKeys]]
  /\ hello \in [Slots -> 0..MaxKeys] /\ reply \in [Slots -> 0..MaxKeys]
  /\ cut \subseteq Slots
  /\ half \in [Devices -> 0..MaxKeys] /\ keys \in 1..MaxKeys
  /\ unpairs \in 0..MaxUnpairs /\ faults \in 0..MaxFaults
  /\ Cardinality(Inbound) <= MaxInbound

\* A session uses the key of the configuration the daemon runs with: none
\* outlives a reload, and none begun before it is finished with the old key.
SessionAuthorized == \A d \in Devices, c \in Slots :
  end[d][c] \in {"hello", "run"} => keyOf[d][c] = config[d] /\ config[d] # 0

\* The two ends of a session have the same key: a device paired anew never
\* talks to one that still has the old pairing.
SameKey == \A c \in Slots :
  (\A d \in Devices : end[d][c] = "run") => keyOf[Client][c] = keyOf[Server][c]

\* The devices exchange items over one connection at a time, though the server
\* may hold ends of earlier ones whose loss it has not noticed.
OneConnection == \A c, e \in Slots :
  (\A d \in Devices : end[d][c] = "run" /\ end[d][e] = "run") => c = e

InSession(d) == \E c \in Slots : end[d][c] = "run"

\* A device that is unpaired on either side ends up with no session on both,
\* with nobody restarting anything.
UnpairCuts == \A d \in Devices :
  (file[d] = 0) ~> (file[d] # 0 \/ \A e \in Devices : ~InSession(e))

\* Devices paired with each other get connected, whatever broke before.
PairedConnect ==
  (file[Client] = file[Server] /\ file[Client] # 0)
    ~> (\/ file[Client] # file[Server] \/ file[Client] = 0
        \/ \E c \in Slots : \A d \in Devices : end[d][c] = "run")
=============================================================================
