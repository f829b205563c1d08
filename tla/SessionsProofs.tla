----------------------------- MODULE SessionsProofs ----------------------------
(***************************************************************************)
(* Sessions are authorised, have one key and are one at a time, for every  *)
(* set of connections and every number of pairings and faults.             *)
(*                                                                         *)
(* That both ends of a session have one key needs to know what a reply     *)
(* under way was made with (ReplyInv) and that none is before the server   *)
(* has answered (PendingInv).                                              *)
(***************************************************************************)
EXTENDS Sessions, FiniteSetTheorems, TLAPS

States == {"closed", "hello", "backlog", "reading", "run"}

TypeInv ==
  /\ end \in [Devices -> [Slots -> States]]
  /\ keyOf \in [Devices -> [Slots -> Nat]]
  /\ reply \in [Slots -> Nat] /\ hello \in [Slots -> Nat]
  /\ config \in [Devices -> Nat] /\ file \in [Devices -> Nat]
  /\ half \in [Devices -> Nat] /\ keys \in Nat

\* At most one end of the client is open.
ClientInv == \A c, e \in Slots :
  end[Client][c] # "closed" /\ end[Client][e] # "closed" => c = e

\* The server has not answered on a connection it has not authenticated.
PendingInv == \A c \in Slots :
  end[Server][c] \in {"backlog", "reading"} => reply[c] = 0 /\ end[Client][c] # "run"

\* An answer under way was made with the key of the server's end.
ReplyInv == \A c \in Slots :
  end[Server][c] = "run" /\ reply[c] # 0 => reply[c] = keyOf[Server][c]

IInv ==
  TypeInv /\ SessionAuthorized /\ SameKey /\ ClientInv /\ PendingInv /\ ReplyInv

LEMMA DevicesDiffer == Client # Server /\ Client \in Devices /\ Server \in Devices
  BY DEF Client, Server, Devices

LEMMA InitInv == Init => IInv
  BY DevicesDiffer
  DEF Init, IInv, TypeInv, SessionAuthorized, SameKey, ClientInv, PendingInv, ReplyInv,
      States

\* The user's actions touch neither a connection nor a running configuration.
LEMMA UserInv ==
  ASSUME IInv, NEW d \in Devices,
         PairFirst(d) \/ PairSecond(d) \/ PairLost(d) \/ Unpair(d)
  PROVE  IInv'
<1>1. UNCHANGED <<end, keyOf, hello, reply, config>>
  BY DEF PairFirst, PairSecond, PairLost, Unpair, connVars
<1>2. file' \in [Devices -> Nat] /\ half' \in [Devices -> Nat] /\ keys' \in Nat
  <2>a. /\ file \in [Devices -> Nat] /\ half \in [Devices -> Nat] /\ keys \in Nat
        /\ Other(d) \in Devices /\ half[d] \in Nat
    BY DEF IInv, TypeInv, Other, Devices
  <2>1. CASE PairFirst(d) BY <2>1, <2>a DEF PairFirst
  <2>2. CASE PairSecond(d) BY <2>2, <2>a DEF PairSecond
  <2>3. CASE PairLost(d) BY <2>3, <2>a DEF PairLost
  <2>4. CASE Unpair(d) BY <2>4, <2>a DEF Unpair
  <2> QED BY <2>1, <2>2, <2>3, <2>4
<1>3. TypeInv' BY <1>1, <1>2 DEF IInv, TypeInv
<1>4. SessionAuthorized' /\ SameKey' BY <1>1 DEF IInv, SessionAuthorized, SameKey
<1>5. ClientInv' /\ PendingInv' /\ ReplyInv'
  BY <1>1 DEF IInv, ClientInv, PendingInv, ReplyInv
<1> QED BY <1>3, <1>4, <1>5 DEF IInv

\* A step that only closes ends of connections.
LEMMA ClosesInv ==
  ASSUME IInv, end' \in [Devices -> [Slots -> States]],
         \A d \in Devices, c \in Slots : end'[d][c] \in {end[d][c], "closed"},
         config' \in [Devices -> Nat],
         \A d \in Devices : \/ config'[d] = config[d]
                            \/ \A c \in Slots : end'[d][c] = "closed",
         hello' \in [Slots -> Nat],
         UNCHANGED <<keyOf, reply, file, half, keys>>
  PROVE  IInv'
<1> USE DevicesDiffer
<1>1. TypeInv' BY DEF IInv, TypeInv
<1>2. SessionAuthorized' BY DEF IInv, SessionAuthorized
<1>3. SameKey' BY DEF IInv, SameKey
<1>4. ClientInv' BY DEF IInv, ClientInv
<1>5. PendingInv' BY DEF IInv, PendingInv
<1>6. ReplyInv' BY DEF IInv, ReplyInv
<1> QED BY <1>1, <1>2, <1>3, <1>4, <1>5, <1>6 DEF IInv

LEMMA ReloadInv == ASSUME IInv, NEW d \in Devices, Reload(d) \/ Restart(d) PROVE IInv'
<1>1. /\ end' = [end EXCEPT ![d] = [c \in Slots |-> "closed"]]
      /\ config' = [config EXCEPT ![d] = file[d]]
      /\ UNCHANGED <<keyOf, hello, reply, file, half, keys>>
  BY DEF Reload, Restart, CloseAll, userVars
<1>2. end' \in [Devices -> [Slots -> States]] /\ config' \in [Devices -> Nat]
  BY <1>1 DEF IInv, TypeInv, States
<1>3. hello' \in [Slots -> Nat] BY <1>1 DEF IInv, TypeInv
<1>4. \A b \in Devices, c \in Slots :
        end'[b][c] = IF b = d THEN "closed" ELSE end[b][c]
  BY <1>1 DEF IInv, TypeInv
<1>5. \A b \in Devices : b # d => config'[b] = config[b]
  BY <1>1 DEF IInv, TypeInv
<1> QED BY <1>1, <1>2, <1>3, <1>4, <1>5, ClosesInv

\* What Close leaves of the ends.
LEMMA CloseEnds ==
  ASSUME TypeInv, NEW d \in Devices, NEW c \in Slots, Close(d, c)
  PROVE  /\ end' \in [Devices -> [Slots -> States]]
         /\ \A b \in Devices, e \in Slots : end'[b][e] \in {end[b][e], "closed"}
  BY DEF TypeInv, Close, SetEnd, States

LEMMA LossInv ==
  ASSUME IInv, NEW d \in Devices, NEW c \in Slots,
         Eof(d, c) \/ Timeout(d, c) \/ EndFails(d, c)
  PROVE  IInv'
<1>1. Close(d, c) /\ UNCHANGED <<keyOf, hello, reply, config, file, half, keys>>
  BY DEF Eof, Timeout, EndFails, userVars
<1>2. TypeInv BY DEF IInv
<1>3. hello' \in [Slots -> Nat] /\ config' \in [Devices -> Nat]
  BY <1>1, <1>2 DEF TypeInv
<1> QED BY <1>1, <1>2, <1>3, CloseEnds, ClosesInv

LEMMA DialInv == ASSUME IInv, NEW c \in Slots, Dial(c) PROVE IInv'
<1> USE DevicesDiffer
<1>1. /\ config[Client] # 0 /\ \A s \in Slots : end[Client][s] = "closed"
      /\ end' = [end EXCEPT ![Client][c] = "hello", ![Server][c] = "backlog"]
      /\ keyOf' = [keyOf EXCEPT ![Client][c] = config[Client], ![Server][c] = 0]
      /\ hello' = [hello EXCEPT ![c] = config[Client]]
      /\ reply' = [reply EXCEPT ![c] = 0]
      /\ UNCHANGED <<file, half, keys, config>>
  BY DEF Dial, userVars
<1>2. TypeInv' BY <1>1 DEF IInv, TypeInv, States
<1>3. /\ \A e \in Slots : end'[Client][e] = IF e = c THEN "hello" ELSE end[Client][e]
      /\ \A e \in Slots : end'[Server][e] = IF e = c THEN "backlog" ELSE end[Server][e]
  BY <1>1 DEF IInv, TypeInv
<1>4. /\ \A e \in Slots : keyOf'[Client][e] = IF e = c THEN config[Client] ELSE keyOf[Client][e]
      /\ \A e \in Slots : keyOf'[Server][e] = IF e = c THEN 0 ELSE keyOf[Server][e]
      /\ \A e \in Slots : reply'[e] = IF e = c THEN 0 ELSE reply[e]
  BY <1>1 DEF IInv, TypeInv
<1>a. /\ \A s \in Slots : end[Client][s] = "closed"
      /\ config[Client] # 0 /\ config' = config
  BY <1>1
<1>5. SessionAuthorized'
  <2> SUFFICES ASSUME NEW d \in Devices, NEW e \in Slots, end'[d][e] \in {"hello", "run"}
               PROVE  keyOf'[d][e] = config'[d] /\ config'[d] # 0
    BY DEF SessionAuthorized
  <2>1. CASE d = Client BY <2>1, <1>a, <1>3, <1>4
  <2>2. CASE d = Server
    <3>1. end'[Server][e] \in {"hello", "run"} BY <2>2
    <3>2. e # c /\ end[Server][e] \in {"hello", "run"} BY <3>1, <1>3
    <3>3. keyOf[Server][e] = config[Server] /\ config[Server] # 0
      BY <3>2 DEF IInv, SessionAuthorized
    <3> QED BY <2>2, <3>2, <3>3, <1>a, <1>4
  <2> QED BY <2>1, <2>2 DEF Devices
<1>6. \A e \in Slots : end'[Client][e] # "run" BY <1>a, <1>3
<1>7. SameKey' BY <1>6 DEF SameKey
<1>8. ClientInv' BY <1>a, <1>3 DEF ClientInv
<1>9. PendingInv'
  <2> SUFFICES ASSUME NEW e \in Slots, end'[Server][e] \in {"backlog", "reading"}
               PROVE  reply'[e] = 0
    BY <1>6 DEF PendingInv
  <2>1. CASE e = c BY <2>1, <1>4
  <2>2. CASE e # c BY <2>2, <1>3, <1>4 DEF IInv, PendingInv
  <2> QED BY <2>1, <2>2
<1>10. ReplyInv' BY <1>3, <1>4 DEF IInv, ReplyInv
<1> QED BY <1>2, <1>5, <1>7, <1>8, <1>9, <1>10 DEF IInv

\* What one end's step leaves of the others.
LEMMA SetEndInv ==
  ASSUME IInv, NEW d \in Devices, NEW c \in Slots, NEW to \in States, SetEnd(d, c, to)
  PROVE  /\ end' \in [Devices -> [Slots -> States]]
         /\ \A b \in Devices, e \in Slots :
              end'[b][e] = IF b = d /\ e = c THEN to ELSE end[b][e]
  BY DEF IInv, TypeInv, SetEnd

LEMMA AcceptInv == ASSUME IInv, NEW c \in Slots, Accept(c) PROVE IInv'
<1> USE DevicesDiffer
<1>1. PICK to \in {"reading", "closed"} : SetEnd(Server, c, to) BY DEF Accept
<1>2. end[Server][c] = "backlog" /\ UNCHANGED <<keyOf, hello, reply, config, file, half, keys>>
  BY DEF Accept, userVars
<1>3. /\ end' \in [Devices -> [Slots -> States]]
      /\ \A b \in Devices, e \in Slots :
           end'[b][e] = IF b = Server /\ e = c THEN to ELSE end[b][e]
  BY <1>1, SetEndInv DEF States
<1>4. TypeInv' BY <1>2, <1>3 DEF IInv, TypeInv
<1>5. SessionAuthorized' BY <1>2, <1>3 DEF IInv, SessionAuthorized
<1>6. SameKey' BY <1>2, <1>3 DEF IInv, SameKey
<1>7. ClientInv' BY <1>3 DEF IInv, ClientInv
<1>8. PendingInv' BY <1>2, <1>3 DEF IInv, PendingInv
<1>9. ReplyInv' BY <1>2, <1>3 DEF IInv, ReplyInv
<1> QED BY <1>4, <1>5, <1>6, <1>7, <1>8, <1>9 DEF IInv

LEMMA HelloInv == ASSUME IInv, NEW c \in Slots, Hello(c) PROVE IInv'
<1> USE DevicesDiffer
<1>a. /\ end[Server][c] = "reading" /\ hello' = [hello EXCEPT ![c] = 0]
      /\ UNCHANGED <<config, file, half, keys>>
  BY DEF Hello, userVars
<1>b. hello' \in [Slots -> Nat] /\ config' \in [Devices -> Nat]
  BY <1>a DEF IInv, TypeInv
<1>1. CASE Verified(config[Server], hello[c])
  <2>1. /\ SetEnd(Server, c, "run") /\ config[Server] # 0
        /\ keyOf' = [keyOf EXCEPT ![Server][c] = config[Server]]
        /\ reply' = [reply EXCEPT ![c] = config[Server]]
    BY <1>1 DEF Hello, Verified
  <2>2. /\ end' \in [Devices -> [Slots -> States]]
        /\ \A b \in Devices, e \in Slots :
             end'[b][e] = IF b = Server /\ e = c THEN "run" ELSE end[b][e]
    BY <2>1, SetEndInv DEF States
  <2>3. /\ \A b \in Devices, e \in Slots :
             keyOf'[b][e] = IF b = Server /\ e = c THEN config[Server] ELSE keyOf[b][e]
        /\ \A e \in Slots : reply'[e] = IF e = c THEN config[Server] ELSE reply[e]
    BY <2>1 DEF IInv, TypeInv
  <2>4. TypeInv' BY <1>a, <1>b, <2>1, <2>2 DEF IInv, TypeInv
  <2>5. SessionAuthorized' BY <1>a, <2>1, <2>2, <2>3 DEF IInv, SessionAuthorized
  <2>6. SameKey'
    BY <1>a, <2>2, <2>3 DEF IInv, SameKey, PendingInv
  <2>7. ClientInv' BY <2>2 DEF IInv, ClientInv
  <2>8. PendingInv' BY <2>2, <2>3 DEF IInv, PendingInv
  <2>9. ReplyInv' BY <2>2, <2>3 DEF IInv, ReplyInv
  <2> QED BY <2>4, <2>5, <2>6, <2>7, <2>8, <2>9 DEF IInv
<1>2. CASE ~Verified(config[Server], hello[c])
  <2>1. Close(Server, c) /\ UNCHANGED <<keyOf, reply>> BY <1>2 DEF Hello
  <2>2. TypeInv BY DEF IInv
  <2> QED BY <2>1, <2>2, <1>a, <1>b, CloseEnds, ClosesInv
<1> QED BY <1>1, <1>2

LEMMA ReplyStep == ASSUME IInv, NEW c \in Slots, Reply(c) PROVE IInv'
<1> USE DevicesDiffer
<1>a. /\ end[Client][c] = "hello" /\ reply[c] # 0 /\ reply' = [reply EXCEPT ![c] = 0]
      /\ UNCHANGED <<keyOf, hello, config, file, half, keys>>
  BY DEF Reply, userVars
<1>b. \A e \in Slots : reply'[e] = IF e = c THEN 0 ELSE reply[e]
  BY <1>a DEF IInv, TypeInv
<1>1. PICK to \in {"run", "closed"} :
        SetEnd(Client, c, to) /\ (to = "run" => reply[c] = keyOf[Client][c])
  BY DEF Reply, Verified
<1>2. /\ end' \in [Devices -> [Slots -> States]]
      /\ \A b \in Devices, e \in Slots :
           end'[b][e] = IF b = Client /\ e = c THEN to ELSE end[b][e]
  BY <1>1, SetEndInv DEF States
<1>3. TypeInv' BY <1>a, <1>2 DEF IInv, TypeInv
<1>4. SessionAuthorized' BY <1>a, <1>2 DEF IInv, SessionAuthorized
<1>5. SameKey' BY <1>a, <1>1, <1>2 DEF IInv, SameKey, ReplyInv, Devices
<1>6. ClientInv' BY <1>a, <1>2 DEF IInv, ClientInv
<1>7. PendingInv' BY <1>a, <1>b, <1>2 DEF IInv, PendingInv
<1>8. ReplyInv' BY <1>a, <1>b, <1>2 DEF IInv, ReplyInv
<1> QED BY <1>3, <1>4, <1>5, <1>6, <1>7, <1>8 DEF IInv

LEMMA NextInv == ASSUME IInv, [Next]_vars PROVE IInv'
<1>1. CASE UNCHANGED vars
  BY <1>1 DEF vars, userVars, connVars, IInv, TypeInv, SessionAuthorized, SameKey,
              ClientInv, PendingInv, ReplyInv
<1>2. CASE \E d \in Devices : \/ PairFirst(d) \/ PairSecond(d) \/ PairLost(d)
                              \/ Unpair(d) \/ Reload(d) \/ Restart(d)
  BY <1>2, UserInv, ReloadInv
<1>3. CASE \E c \in Slots : Connection(c)
  BY <1>3, DialInv, AcceptInv, HelloInv, ReplyStep, LossInv DEF Connection
<1>4. CASE \E c \in Slots : LinkDies(c)
  <2>1. UNCHANGED <<end, keyOf, hello, reply, config, file, half, keys>>
    BY <1>4 DEF LinkDies, userVars
  <2> QED BY <2>1 DEF IInv, TypeInv, SessionAuthorized, SameKey, ClientInv, PendingInv, ReplyInv
<1>5. CASE \E c \in Slots, d \in Devices : EndFails(d, c) BY <1>5, LossInv
<1>6. CASE Settled BY <1>6, <1>1 DEF Settled
<1> QED BY <1>1, <1>2, <1>3, <1>4, <1>5, <1>6 DEF Next

LEMMA Invariance == Spec => []IInv
  BY InitInv, NextInv, PTL DEF Spec

\* No session outlives the configuration it was opened under, nor is finished
\* under another (run_network_with_reload drops the LocalSet before it replaces
\* state.config).
THEOREM SessionAuthorizedCorrect == Spec => []SessionAuthorized
<1>1. IInv => SessionAuthorized BY DEF IInv
<1> QED BY <1>1, Invariance, PTL

\* The two ends of a session have the same key, however pairings succeed on one
\* device and not on the other (connect_connection, accept_connection).
THEOREM SameKeyCorrect == Spec => []SameKey
<1>1. IInv => SameKey BY DEF IInv
<1> QED BY <1>1, Invariance, PTL

\* The devices have one session at a time, though the server may hold ends of
\* earlier ones (connector_loop).
THEOREM OneConnectionCorrect == Spec => []OneConnection
<1>1. IInv => OneConnection
  BY DevicesDiffer DEF IInv, ClientInv, OneConnection
<1> QED BY <1>1, Invariance, PTL
-----------------------------------------------------------------------------
(* The rest of the type invariant: keys and budgets within their bounds,   *)
(* and the accepted connections within MaxInbound.                         *)

Bounded ==
  /\ file \in [Devices -> 0..MaxKeys] /\ config \in [Devices -> 0..MaxKeys]
  /\ end \in [Devices -> [Slots -> States]]
  /\ keyOf \in [Devices -> [Slots -> 0..MaxKeys]]
  /\ hello \in [Slots -> 0..MaxKeys] /\ reply \in [Slots -> 0..MaxKeys]
  /\ cut \subseteq Slots
  /\ half \in [Devices -> 0..MaxKeys] /\ keys \in 1..MaxKeys
  /\ unpairs \in 0..MaxUnpairs /\ faults \in 0..MaxFaults

Permits == Cardinality(Inbound) <= MaxInbound

LEMMA BoundedInit == Init => Bounded /\ Permits
<1> SUFFICES ASSUME Init PROVE Bounded /\ Permits
  OBVIOUS
<1>1. 0 \in 0..MaxKeys /\ 1 \in 0..MaxKeys /\ 1 \in 1..MaxKeys
  BY SessionsAssumption
<1>2. 0 \in 0..MaxUnpairs /\ 0 \in 0..MaxFaults
  BY SessionsAssumption
<1>3. Bounded
  BY <1>1, <1>2 DEF Init, Bounded, States
<1>4. Inbound = {}
  BY DevicesDiffer DEF Init, Inbound
<1> QED
  BY <1>3, <1>4, FS_EmptySet, SessionsAssumption DEF Permits

LEMMA BoundedUser ==
  ASSUME Bounded, NEW d \in Devices,
         \/ PairFirst(d) \/ PairSecond(d) \/ PairLost(d)
         \/ Unpair(d) \/ Reload(d) \/ Restart(d)
  PROVE  Bounded'
<1>a. 0 \in 0..MaxKeys /\ Other(d) \in Devices
  BY SessionsAssumption DEF Other, Devices
<1>1. CASE PairFirst(d)
  <2>1. keys' \in 1..MaxKeys /\ keys' \in 0..MaxKeys
    BY <1>1, SessionsAssumption DEF PairFirst, Bounded
  <2> QED  BY <1>1, <1>a, <2>1 DEF PairFirst, Bounded, connVars
<1>2. CASE PairSecond(d)
  BY <1>2, <1>a DEF PairSecond, Bounded, connVars
<1>3. CASE PairLost(d)
  <2>1. faults' \in 0..MaxFaults
    BY <1>3, SessionsAssumption DEF PairLost, Fault, Bounded
  <2> QED  BY <1>3, <1>a, <2>1 DEF PairLost, Bounded, connVars
<1>4. CASE Unpair(d)
  <2>1. unpairs' \in 0..MaxUnpairs
    BY <1>4, SessionsAssumption DEF Unpair, Bounded
  <2> QED  BY <1>4, <1>a, <2>1 DEF Unpair, Bounded, connVars
<1>5. CASE Reload(d)
  BY <1>5 DEF Reload, CloseAll, Bounded, States, userVars
<1>6. CASE Restart(d)
  <2>1. faults' \in 0..MaxFaults
    BY <1>6, SessionsAssumption DEF Restart, Fault, Bounded
  <2> QED  BY <1>6, <2>1 DEF Restart, CloseAll, Bounded, States, userVars
<1> QED
  BY <1>1, <1>2, <1>3, <1>4, <1>5, <1>6

LEMMA BoundedConnection ==
  ASSUME Bounded, NEW c \in Slots,
         Connection(c) \/ LinkDies(c) \/ (\E d \in Devices : EndFails(d, c))
  PROVE  Bounded'
<1> USE DevicesDiffer
<1>a. 0 \in 0..MaxKeys /\ config[Client] \in 0..MaxKeys /\ config[Server] \in 0..MaxKeys
  BY SessionsAssumption DEF Bounded
<1>1. CASE Dial(c)
  BY <1>1, <1>a DEF Dial, Bounded, States, userVars
<1>2. CASE Accept(c)
  BY <1>2 DEF Accept, SetEnd, Bounded, States, userVars
<1>3. CASE Hello(c)
  <2>1. PICK to \in {"run", "closed"} : SetEnd(Server, c, to)
    BY <1>3 DEF Hello, Close
  <2>2. keyOf' \in [Devices -> [Slots -> 0..MaxKeys]] /\ reply' \in [Slots -> 0..MaxKeys]
    <3>1. CASE Verified(config[Server], hello[c])
      <4>1. /\ keyOf' = [keyOf EXCEPT ![Server][c] = config[Server]]
            /\ reply' = [reply EXCEPT ![c] = config[Server]]
        BY <1>3, <3>1 DEF Hello
      <4>2. keyOf \in [Devices -> [Slots -> 0..MaxKeys]] /\ reply \in [Slots -> 0..MaxKeys]
        BY DEF Bounded
      <4> DEFINE k == config[Server]
      <4>3. k \in 0..MaxKeys  BY <1>a
      <4> HIDE DEF k
      <4> QED  BY <4>1, <4>2, <4>3 DEF k
    <3>2. CASE ~Verified(config[Server], hello[c])
      BY <1>3, <3>2 DEF Hello, Bounded
    <3> QED  BY <3>1, <3>2
  <2>3. end' \in [Devices -> [Slots -> States]]
    BY <2>1 DEF SetEnd, Bounded, States
  <2> QED  BY <1>3, <1>a, <2>2, <2>3 DEF Hello, Bounded, userVars
<1>4. CASE Reply(c)
  BY <1>4, <1>a DEF Reply, SetEnd, Bounded, States, userVars
<1>5. ASSUME NEW d \in Devices, Eof(d, c) \/ Timeout(d, c) PROVE Bounded'
  BY <1>5 DEF Eof, Timeout, Close, SetEnd, Bounded, States, userVars
<1>6. ASSUME NEW d \in Devices, EndFails(d, c) PROVE Bounded'
  <2>1. faults' \in 0..MaxFaults
    BY <1>6, SessionsAssumption DEF EndFails, Fault, Bounded
  <2> QED  BY <1>6, <2>1 DEF EndFails, Close, SetEnd, Bounded, States, userVars
<1>7. CASE LinkDies(c)
  <2>1. faults' \in 0..MaxFaults
    BY <1>7, SessionsAssumption DEF LinkDies, Fault, Bounded
  <2> QED  BY <1>7, <2>1 DEF LinkDies, Bounded, userVars
<1> QED
  BY <1>1, <1>2, <1>3, <1>4, <1>5, <1>6, <1>7 DEF Connection

\* A step after which the server has no more accepted connections.
LEMMA PermitsKept == ASSUME Permits, Inbound' \subseteq Inbound PROVE Permits'
<1>1. IsFiniteSet(Inbound)
  BY SessionsAssumption, FS_Subset DEF Inbound
<1>2. IsFiniteSet(Inbound') /\ Cardinality(Inbound') <= Cardinality(Inbound)
  BY <1>1, FS_Subset
<1>3. Cardinality(Inbound) \in Nat /\ Cardinality(Inbound') \in Nat
  BY <1>1, <1>2, FS_CardinalityType
<1> QED
  BY <1>2, <1>3, SessionsAssumption DEF Permits

\* Only Accept adds one, while a permit is left.
LEMMA PermitsNext == ASSUME Bounded, Permits, [Next]_vars PROVE Permits'
<1> USE DevicesDiffer
<1>1. CASE UNCHANGED vars
  BY <1>1 DEF vars, connVars, Permits, Inbound
<1>2. ASSUME NEW d \in Devices,
             \/ PairFirst(d) \/ PairSecond(d) \/ PairLost(d)
             \/ Unpair(d) \/ Reload(d) \/ Restart(d)
      PROVE  Permits'
  <2>1. Inbound' \subseteq Inbound
    BY <1>2 DEF Inbound, PairFirst, PairSecond, PairLost, Unpair, Reload, Restart,
                CloseAll, connVars, Bounded
  <2> QED  BY <2>1, PermitsKept
<1>3. ASSUME NEW c \in Slots,
             \/ Dial(c) \/ Hello(c) \/ Reply(c) \/ LinkDies(c)
             \/ \E d \in Devices : Eof(d, c) \/ Timeout(d, c) \/ EndFails(d, c)
      PROVE  Permits'
  <2>1. Inbound' \subseteq Inbound
    BY <1>3 DEF Inbound, Dial, Hello, Reply, LinkDies, Eof, Timeout, EndFails, Close,
                SetEnd, Bounded
  <2> QED  BY <2>1, PermitsKept
<1>4. ASSUME NEW c \in Slots, Accept(c) PROVE Permits'
  <2>1. CASE Cardinality(Inbound) < MaxInbound
    <3>1. Inbound' = Inbound \cup {c} /\ c \notin Inbound
      BY <1>4, <2>1 DEF Inbound, Accept, SetEnd, Bounded
    <3>2. IsFiniteSet(Inbound)
      BY SessionsAssumption, FS_Subset DEF Inbound
    <3>3. Cardinality(Inbound') = Cardinality(Inbound) + 1
      BY <3>1, <3>2, FS_AddElement
    <3>4. Cardinality(Inbound) \in Nat
      BY <3>2, FS_CardinalityType
    <3> QED  BY <2>1, <3>3, <3>4, SessionsAssumption DEF Permits
  <2>2. CASE ~(Cardinality(Inbound) < MaxInbound)
    <3>1. Inbound' \subseteq Inbound
      BY <1>4, <2>2 DEF Inbound, Accept, SetEnd, Bounded
    <3> QED  BY <3>1, PermitsKept
  <2> QED  BY <2>1, <2>2
<1> QED
  BY <1>1, <1>2, <1>3, <1>4 DEF Next, Connection, Settled

\* Every variable keeps its type, and the server never serves more than
\* MaxInbound connections (the permits of accept_loop).
THEOREM TypeCorrect == Spec => []TypeOK
<1>1. Bounded /\ Permits /\ [Next]_vars => (Bounded /\ Permits)'
  <2> SUFFICES ASSUME Bounded, Permits, [Next]_vars PROVE Bounded'
    BY PermitsNext
  <2>1. CASE UNCHANGED vars
    BY <2>1 DEF vars, userVars, connVars, Bounded
  <2>2. CASE Next
    BY <2>1, <2>2, BoundedUser, BoundedConnection DEF Next, Settled
  <2> QED  BY <2>1, <2>2
<1>2. Bounded /\ Permits => TypeOK
  BY DEF Bounded, Permits, TypeOK, States
<1> QED
  BY BoundedInit, <1>1, <1>2, PTL DEF Spec
=============================================================================
