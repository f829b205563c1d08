--------------------------- MODULE PairingExchange ---------------------------
(***************************************************************************)
(* The pairing protocol (pair_listen_with_ready and pair_connect in        *)
(* src/src/network.rs): one device listens on the pairing port and takes   *)
(* one connection, the other connects; intro and reply carry the SPAKE2    *)
(* messages, reply and finish a proof of the key, and each device saves    *)
(* the other with that key.                                                *)
(*                                                                         *)
(* The key of an exchange is the same on both sides when both used the     *)
(* same code, and a proof of another key does not verify: a code stands    *)
(* for the key it makes.                                                   *)
(***************************************************************************)
EXTENDS Naturals

CONSTANTS
  Calls,     \* pairing calls of the listening device
  Codes, NoCode,
  NoCall,    \* the pairing port is free
  \* Bounds of the model, none of them in the code.
  MaxConns,  \* connections made
  MaxFaults  \* saves that fail, connecting programs that are killed

VARIABLES
  listen, \* each call of the listening device: [pc, code, conn]
  port,   \* the call that has the pairing port bound
  dial,   \* the connecting device's call: [pc, code, conn]
  conns,  \* number of connections made
  link,   \* each connection, see NewLink
  faults

exchangeVars == <<listen, port, dial, conns, link, faults>>

Conns == 1..MaxConns
NotPairing == [pc |-> "out", code |-> NoCode, conn |-> 0]

NewLink == [server |-> "waiting", \* then "open" when accepted, "closed"
            client |-> "open",    \* then "closed"
            intro |-> FALSE,      \* the intro is written
            reply |-> NoCode,     \* key of the proof in the reply
            finish |-> NoCode,    \* key of the proof in the finish
            kept |-> {},          \* history: the sides that saved the key
            hurt |-> FALSE]       \* history: a side gave up or lost its save
NoLink == [NewLink EXCEPT !.server = "closed", !.client = "closed"]

ExchangeInit ==
  /\ listen = [t \in Calls |-> NotPairing]
  /\ port = NoCall
  /\ dial = NotPairing
  /\ conns = 0 /\ link = [n \in Conns |-> NoLink]
  /\ faults = 0

Fault == faults < MaxFaults /\ faults' = faults + 1

-----------------------------------------------------------------------------
(* pair_listen_with_ready                                                  *)

Listen(t) ==
  /\ listen[t].pc = "out"
  /\ \E code \in Codes :
       listen' = [listen EXCEPT ![t] = [NotPairing EXCEPT !.pc = "bind", !.code = code]]
  /\ UNCHANGED <<port, dial, conns, link, faults>>

Bind(t) ==
  /\ listen[t].pc = "bind"
  /\ IF port = NoCall
     THEN port' = t /\ listen' = [listen EXCEPT ![t].pc = "accept"]
     ELSE UNCHANGED port /\ listen' = [listen EXCEPT ![t].pc = "ended"]
  /\ UNCHANGED <<dial, conns, link, faults>>

Waiting == {n \in Conns : link[n].server = "waiting"}

Accept(t) ==
  /\ listen[t].pc = "accept"
  /\ \E n \in Waiting :
       /\ \A m \in Waiting : n <= m
       /\ link' = [link EXCEPT ![n].server = "open"]
       /\ listen' = [listen EXCEPT ![t].pc = "intro", ![t].conn = n]
  /\ UNCHANGED <<port, dial, conns, faults>>

\* The call goes to pc: its connection is closed, and with its listening socket
\* those nobody accepted.
ServerEnds(t, pc, hurt, kept) ==
  /\ listen' = [listen EXCEPT ![t] = [NotPairing EXCEPT !.pc = pc]]
  /\ port' = IF port = t THEN NoCall ELSE port
  /\ link' = [n \in Conns |->
       CASE n = listen[t].conn ->
              [link[n] EXCEPT !.server = "closed", !.hurt = @ \/ hurt, !.kept = @ \cup kept]
         [] n # listen[t].conn /\ port = t /\ n \in Waiting -> [link[n] EXCEPT !.server = "closed"]
         [] OTHER -> link[n]]
  /\ UNCHANGED <<dial, conns>>

ReadIntro(t) ==
  /\ listen[t].pc = "intro" /\ link[listen[t].conn].intro
  /\ link' = [link EXCEPT ![listen[t].conn].reply = listen[t].code]
  /\ listen' = [listen EXCEPT ![t].pc = "finish"]
  /\ UNCHANGED <<port, dial, conns, faults>>

ReadFinish(t) ==
  /\ listen[t].pc = "finish"
  /\ LET finish == link[listen[t].conn].finish IN
       /\ finish # NoCode
       /\ IF finish = listen[t].code
          THEN listen' = [listen EXCEPT ![t].pc = "save"] /\ UNCHANGED <<port, dial, conns, link>>
          ELSE ServerEnds(t, "ended", FALSE, {})
  /\ UNCHANGED faults

SaveServer(t) ==
  /\ listen[t].pc = "save"
  /\ ServerEnds(t, "ended", FALSE, {"server"})
  /\ UNCHANGED faults

SaveServerFails(t) ==
  /\ listen[t].pc = "save" /\ Fault
  /\ ServerEnds(t, "ended", TRUE, {})

\* The other end closed without the message this one waits for.
ServerEof(t) ==
  /\ LET l == link[listen[t].conn] IN
       \/ listen[t].pc = "intro" /\ l.client = "closed" /\ ~l.intro
       \/ listen[t].pc = "finish" /\ l.client = "closed" /\ l.finish = NoCode
  /\ ServerEnds(t, "ended", FALSE, {})
  /\ UNCHANGED faults

\* Fault: only the wait for a connection has a limit.
ListenExpiresFirst(t) ==
  /\ listen[t].pc = "accept"
  /\ ServerEnds(t, "ended", TRUE, {})
  /\ UNCHANGED faults

\* 300 seconds without a connection, 30 without a message.
ListenExpires(t) ==
  /\ listen[t].pc \in {"accept", "intro", "finish"}
  /\ ServerEnds(t, "ended", TRUE, {})
  /\ UNCHANGED faults

\* Fault: the work goes on until it has dealt with its connection.
DropLingers(t) ==
  /\ listen[t].pc # "out"
  /\ IF listen[t].pc \in {"bind", "ended"} THEN ServerEnds(t, "out", TRUE, {})
     ELSE UNCHANGED <<listen, port, dial, conns, link>>
  /\ UNCHANGED faults

\* The call is dropped where it awaits.
Drop(t) ==
  /\ listen[t].pc # "out"
  /\ ServerEnds(t, "out", TRUE, {})
  /\ UNCHANGED faults

Leave(t) ==
  /\ listen[t].pc = "ended"
  /\ listen' = [listen EXCEPT ![t].pc = "out"]
  /\ UNCHANGED <<port, dial, conns, link, faults>>

-----------------------------------------------------------------------------
(* pair_connect, which the automatic pairing repeats while it fails        *)

Connect ==
  /\ dial.pc = "out" /\ conns < MaxConns /\ port # NoCall
  /\ \E code \in Codes : dial' = [pc |-> "intro", code |-> code, conn |-> conns + 1]
  /\ link' = [link EXCEPT ![conns + 1] = NewLink]
  /\ conns' = conns + 1
  /\ UNCHANGED <<listen, port, faults>>

SendIntro ==
  /\ dial.pc = "intro"
  /\ link' = [link EXCEPT ![dial.conn].intro = TRUE]
  /\ dial' = [dial EXCEPT !.pc = "reply"]
  /\ UNCHANGED <<listen, port, conns, faults>>

ClientEnds(hurt, kept) ==
  /\ dial' = NotPairing
  /\ link' = [link EXCEPT ![dial.conn].client = "closed", ![dial.conn].hurt = @ \/ hurt,
                          ![dial.conn].kept = @ \cup kept]
  /\ UNCHANGED <<listen, port, conns>>

\* Fault: the proof in the reply is not verified.
ReadReplyUnverified ==
  /\ dial.pc = "reply" /\ link[dial.conn].reply # NoCode
  /\ link' = [link EXCEPT ![dial.conn].finish = dial.code]
  /\ dial' = [dial EXCEPT !.pc = "save"]
  /\ UNCHANGED <<listen, port, conns, faults>>

\* A reply may still be read, and the finish be written, when the other end is
\* closed.
ReadReply ==
  /\ dial.pc = "reply" /\ link[dial.conn].reply # NoCode
  /\ IF link[dial.conn].reply = dial.code
     THEN /\ link' = [link EXCEPT ![dial.conn].finish = dial.code]
          /\ dial' = [dial EXCEPT !.pc = "save"]
          /\ UNCHANGED <<listen, port, conns>>
     ELSE ClientEnds(FALSE, {})
  /\ UNCHANGED faults

\* Fault: a device that is paired already keeps the key it has.
SaveClientSkips ==
  /\ dial.pc = "save"
  /\ ClientEnds(FALSE, IF \E n \in Conns : "client" \in link[n].kept THEN {} ELSE {"client"})
  /\ UNCHANGED faults

SaveClient ==
  /\ dial.pc = "save"
  /\ ClientEnds(FALSE, {"client"})
  /\ UNCHANGED faults

\* The save fails, or the program is killed, wherever it is.
ClientDies ==
  /\ dial.pc # "out" /\ Fault
  /\ ClientEnds(TRUE, {})

ClientReset ==
  /\ dial.pc \in {"intro", "reply"} /\ link[dial.conn].server = "closed"
  /\ ClientEnds(FALSE, {})
  /\ UNCHANGED faults

ReplyExpires ==
  /\ dial.pc = "reply"
  /\ ClientEnds(TRUE, {})
  /\ UNCHANGED faults

-----------------------------------------------------------------------------

Serve(t) == \/ Bind(t) \/ Accept(t) \/ ReadIntro(t) \/ ReadFinish(t) \/ SaveServer(t)
            \/ ServerEof(t)

Dial == \/ Connect \/ SendIntro \/ ReadReply \/ SaveClient \/ ClientDies \/ ClientReset
        \/ ReplyExpires

-----------------------------------------------------------------------------
(* Properties.                                                             *)

ExchangeTypeOK ==
  /\ listen \in [Calls -> [pc : {"out", "bind", "accept", "intro", "finish", "save", "ended"},
                           code : Codes \cup {NoCode}, conn : {0} \cup Conns]]
  /\ \A t \in Calls : listen[t].pc \in {"intro", "finish", "save"} =>
       listen[t].conn # 0 /\ link[listen[t].conn].server = "open"
  /\ port \in Calls \cup {NoCall}
  /\ dial \in [pc : {"out", "intro", "reply", "save"}, code : Codes \cup {NoCode},
               conn : {0} \cup Conns]
  /\ conns \in 0..MaxConns /\ faults \in 0..MaxFaults
  /\ link \in [Conns -> [server : {"waiting", "open", "closed"}, client : {"open", "closed"},
                         intro : BOOLEAN, reply : Codes \cup {NoCode},
                         finish : Codes \cup {NoCode}, kept : SUBSET {"server", "client"},
                         hurt : BOOLEAN]]

\* A device saves a key only when the other has proved that it made the same:
\* both used the same code, and the listening device saves no key that the
\* connecting one did not verify.
SameKey == \A n \in Conns : link[n].kept # {} =>
  link[n].reply # NoCode /\ link[n].reply = link[n].finish

\* Unless a side gave up or lost its save, an exchange that is over has paired
\* both devices or neither.
BothOrNeither == \A n \in Conns :
  link[n].server = "closed" /\ link[n].client = "closed" /\ ~link[n].hurt =>
    link[n].kept \in {{}, {"server", "client"}}
=============================================================================
