---------------------------- MODULE PairingProofs ----------------------------
(***************************************************************************)
(* Proofs about Pairing for any number of calls, codes and connections.    *)
(*                                                                         *)
(* Every step of the composition is one of the coordinator or leaves it    *)
(* alone, so what is proved of the coordinator holds here.  The exchange   *)
(* keeps the keys of a connection in step with where its two calls are     *)
(* (CallInv, DialInv, LinkInv); WorkInv ties the two together: a call is   *)
(* in an exchange exactly while the coordinator lets it work.              *)
(***************************************************************************)
EXTENDS Pairing, PairingCoordinatorProofs

Conns == Exchange!Conns
Serving == {"intro", "finish", "save"}

Places == [pc : {"out", "bind", "accept", "intro", "finish", "save", "ended"},
           code : Codes \cup {NoCode}, conn : {0} \cup Conns]
DialPlaces == [pc : {"out", "intro", "reply", "save"}, code : Codes \cup {NoCode},
               conn : {0} \cup Conns]
Links == [server : {"waiting", "open", "closed"}, client : {"open", "closed"},
          intro : BOOLEAN, reply : Codes \cup {NoCode}, finish : Codes \cup {NoCode},
          kept : SUBSET {"server", "client"}, hurt : BOOLEAN]

ShapeInv ==
  /\ listen \in [Tasks -> Places] /\ port \in Tasks \cup {NoOne} /\ dial \in DialPlaces
  /\ conns \in 0..MaxConns /\ faults \in 0..MaxFaults /\ link \in [Conns -> Links]

\* Where a call is tells how far its connection is.
CallAt(t) ==
  /\ listen[t].pc \notin Serving => listen[t].conn = 0
  /\ listen[t].pc \notin {"out", "ended"} => listen[t].code \in Codes
  /\ listen[t].pc \in Serving =>
       /\ listen[t].conn \in Conns /\ link[listen[t].conn].server = "open"
       /\ \A u \in Tasks : listen[u].conn = listen[t].conn => u = t
  /\ listen[t].pc = "intro" => link[listen[t].conn].reply = NoCode
  /\ listen[t].pc \in {"finish", "save"} => link[listen[t].conn].reply = listen[t].code
  /\ listen[t].pc = "save" => link[listen[t].conn].finish = listen[t].code
CallInv == \A t \in Tasks : CallAt(t)

DialInv == dial.pc # "out" =>
  /\ dial.conn \in 1..conns /\ dial.code \in Codes /\ link[dial.conn].client = "open"
  /\ dial.pc = "save" => link[dial.conn].finish = dial.code

\* A finish echoes the reply and is written on the way to a save; a connection
\* closed after its reply was saved, was hurt, or never got a finish.
LinkAt(n) ==
  /\ n > conns => link[n] = Exchange!NoLink
  /\ link[n].server = "waiting" => link[n].reply = NoCode
  /\ link[n].finish # NoCode =>
       /\ link[n].reply = link[n].finish
       /\ "client" \in link[n].kept \/ link[n].hurt \/ (dial.pc = "save" /\ dial.conn = n)
  /\ link[n].kept # {} => link[n].finish # NoCode
  /\ link[n].server = "closed" /\ ~link[n].hurt /\ link[n].reply # NoCode =>
       "server" \in link[n].kept \/ (link[n].client = "closed" /\ link[n].finish = NoCode)
LinkInv == \A n \in Conns : LinkAt(n)

\* The port is bound by a call that waits for a connection or has it.
PortInv == port # NoOne => listen[port].pc \in {"accept"} \cup Serving

ExchangeInv == ShapeInv /\ CallInv /\ DialInv /\ LinkInv /\ PortInv

\* A call is in an exchange exactly while the coordinator lets it work.
WorkInv == \A t \in Tasks : listen[t].pc # "out" <=> Working(t)

-----------------------------------------------------------------------------
(* The coordinator in the composition.                                     *)

LEMMA NextRefines == PairingNext => [Next]_vars
<1>1. ASSUME NEW t \in Autos, AutoCall(t) PROVE Next
  BY <1>1 DEF AutoCall, Next, Automatic
<1>2. ASSUME NEW t \in Manuals, UserCall(t) PROVE Next
  BY <1>2 DEF UserCall, Next, Manual
<1>3. Work => UNCHANGED vars
  BY DEF Work
<1> QED  BY <1>1, <1>2, <1>3 DEF PairingNext

(* Pairing as the program runs it is what the coordinator allows.          *)
THEOREM PairingRefines == PairingSpec => Spec
<1>1. PairingInit => Init
  BY DEF PairingInit
<1>2. [PairingNext]_pairingVars => [Next]_vars
  BY NextRefines DEF pairingVars
<1> QED  BY <1>1, <1>2, PTL DEF PairingSpec, Spec

(* Once the user asked, no automatic pairing starts, whatever the exchange *)
(* does.                                                                   *)
THEOREM UserComesFirst == PairingSpec => []UserFirst
BY PairingRefines, UserFirstCorrect, PTL

-----------------------------------------------------------------------------
(* The exchange.                                                           *)

LEMMA LinkShapes ==
  /\ Exchange!NoLink \in Links /\ Exchange!NewLink \in Links
  /\ Exchange!NoLink.server = "closed" /\ Exchange!NoLink.client = "closed"
  /\ Exchange!NewLink.server = "waiting" /\ Exchange!NewLink.client = "open"
  /\ Exchange!NoLink.reply = NoCode /\ Exchange!NoLink.finish = NoCode
  /\ Exchange!NewLink.reply = NoCode /\ Exchange!NewLink.finish = NoCode
  /\ Exchange!NoLink.kept = {} /\ Exchange!NewLink.kept = {}
BY DEF Exchange!NoLink, Exchange!NewLink, Links

LEMMA OutShape ==
  /\ Exchange!NotPairing \in Places /\ Exchange!NotPairing \in DialPlaces
  /\ Exchange!NotPairing.pc = "out" /\ Exchange!NotPairing.conn = 0
BY DEF Exchange!NotPairing, Places, DialPlaces

LEMMA ExchangeInit == PairingInit => ExchangeInv /\ WorkInv
<1> SUFFICES ASSUME PairingInit PROVE ExchangeInv /\ WorkInv
  OBVIOUS
<1>1. /\ listen = [t \in Tasks |-> Exchange!NotPairing] /\ port = NoOne
      /\ dial = Exchange!NotPairing /\ conns = 0 /\ faults = 0
      /\ link = [n \in Conns |-> Exchange!NoLink] /\ pc = [t \in Tasks |-> "out"]
  BY DEF PairingInit, Init, Exchange!ExchangeInit, Conns
<1>2. ShapeInv
  BY <1>1, LinkShapes, OutShape, PairingAssumption DEF ShapeInv
<1>3. CallInv /\ DialInv /\ PortInv /\ WorkInv
  BY <1>1, OutShape DEF CallInv, CallAt, DialInv, PortInv, WorkInv, Working, Serving
<1>4. LinkInv
  BY <1>1, LinkShapes DEF LinkInv, LinkAt
<1> QED  BY <1>2, <1>3, <1>4 DEF ExchangeInv

\* A connection that the listening device closes.
Shut(l, hurt, kept) == [l EXCEPT !.server = "closed", !.hurt = @ \/ hurt, !.kept = @ \cup kept]

LEMMA ShutLink ==
  ASSUME NEW l \in Links, NEW hurt \in BOOLEAN, NEW kept \in SUBSET {"server", "client"}
  PROVE  /\ Shut(l, hurt, kept) \in Links /\ Shut(l, hurt, kept).server = "closed"
         /\ Shut(l, hurt, kept).client = l.client /\ Shut(l, hurt, kept).reply = l.reply
         /\ Shut(l, hurt, kept).finish = l.finish
         /\ Shut(l, hurt, kept).hurt = (l.hurt \/ hurt)
         /\ Shut(l, hurt, kept).kept = l.kept \cup kept
<1> USE DEF Shut
<1>1. Shut(l, hurt, kept) \in Links
  <2> DEFINE s == [l EXCEPT !.server = "closed"]
             h == [s EXCEPT !.hurt = @ \/ hurt]
  <2>1. s \in Links
    BY DEF Links
  <2>2. h \in Links
    <3> HIDE DEF s
    <3>1. (s.hurt \/ hurt) \in BOOLEAN
      OBVIOUS
    <3> QED  BY <2>1, <3>1 DEF Links
  <2>3. [h EXCEPT !.kept = @ \cup kept] \in Links
    <3> HIDE DEF h
    <3> QED  BY <2>2 DEF Links
  <2> QED  BY <2>3
<1>2. /\ Shut(l, hurt, kept).server = "closed"
      /\ Shut(l, hurt, kept).client = l.client /\ Shut(l, hurt, kept).reply = l.reply
      /\ Shut(l, hurt, kept).finish = l.finish
      /\ Shut(l, hurt, kept).hurt = (l.hurt \/ hurt)
      /\ Shut(l, hurt, kept).kept = l.kept \cup kept
  BY DEF Links
<1> QED  BY <1>1, <1>2

\* A call's end as seen by its own connection and the others.
LEMMA ServerEnds ==
  ASSUME ExchangeInv, NEW t \in Tasks, NEW where \in {"out", "ended"},
         NEW hurt \in BOOLEAN, NEW kept \in SUBSET {"server", "client"},
         Exchange!ServerEnds(t, where, hurt, kept), faults' \in 0..MaxFaults,
         listen[t].pc # "out",
         kept # {} => kept = {"server"} /\ listen[t].pc = "save",
         ~hurt /\ kept = {} /\ listen[t].pc \in Serving =>
           \/ link[listen[t].conn].reply = NoCode
           \/ /\ link[listen[t].conn].client = "closed" /\ link[listen[t].conn].finish = NoCode
  PROVE  ExchangeInv' /\ listen'[t].pc = where /\ \A u \in Tasks \ {t} : listen'[u] = listen[u]
<1> DEFINE place == [Exchange!NotPairing EXCEPT !.pc = where]
           m == listen[t].conn
<1>0. /\ ShapeInv /\ CallInv /\ DialInv /\ LinkInv /\ PortInv
      /\ listen[t] \in Places /\ \A n \in Conns : link[n] \in Links
      /\ MaxConns \in Nat /\ NoCode \notin Codes /\ NoOne \notin Tasks
  BY PairingAssumption, TasksAssumption DEF ExchangeInv, ShapeInv, Tasks
<1>1. place \in Places /\ place.pc = where /\ place.conn = 0
  BY DEF Exchange!NotPairing, Places
<1>2. /\ listen' = [listen EXCEPT ![t] = place]
      /\ port' = IF port = t THEN NoOne ELSE port
      /\ UNCHANGED <<dial, conns>>
  BY DEF Exchange!ServerEnds
<1> HIDE DEF place
<1>3. /\ listen' \in [Tasks -> Places] /\ listen'[t] = place
      /\ \A u \in Tasks \ {t} : listen'[u] = listen[u]
  BY <1>0, <1>1, <1>2 DEF ShapeInv
<1>4. ASSUME NEW n \in Conns
      PROVE  /\ link'[n] \in Links /\ link'[n].client = link[n].client
             /\ link'[n].reply = link[n].reply /\ link'[n].finish = link[n].finish
             /\ IF n = m
                THEN /\ link'[n].server = "closed" /\ link'[n].hurt = (link[n].hurt \/ hurt)
                     /\ link'[n].kept = link[n].kept \cup kept
                ELSE /\ link'[n].hurt = link[n].hurt /\ link'[n].kept = link[n].kept
                     /\ \/ link'[n] = link[n]
                        \/ link[n].server = "waiting" /\ link'[n].server = "closed"
  <2>1. link'[n] =
          CASE n = m ->
                 [link[n] EXCEPT !.server = "closed", !.hurt = @ \/ hurt, !.kept = @ \cup kept]
            [] n # m /\ port = t /\ n \in Exchange!Waiting ->
                 [link[n] EXCEPT !.server = "closed"]
            [] OTHER -> link[n]
    BY DEF Exchange!ServerEnds, Conns
  <2>2. CASE n = m
    <3>1. link'[n] = Shut(link[n], hurt, kept)
      BY <2>1, <2>2 DEF Shut
    <3> QED  BY <1>0, <2>2, <3>1, ShutLink
  <2>3. CASE n # m /\ port = t /\ n \in Exchange!Waiting
    BY <1>0, <2>1, <2>3 DEF Links, Exchange!Waiting
  <2>4. CASE n # m /\ ~(port = t /\ n \in Exchange!Waiting)
    BY <1>0, <2>1, <2>4 DEF Links
  <2> QED  BY <2>2, <2>3, <2>4
<1>5. ShapeInv'
  <2>1. link' \in [Conns -> Links]
    BY <1>4 DEF Exchange!ServerEnds, Conns
  <2> QED  BY <1>0, <1>2, <1>3, <2>1 DEF ShapeInv
<1>6. CallInv'
  <2>1. CallAt(t)'
    BY <1>1, <1>3 DEF CallAt, Serving
  <2>2. ASSUME NEW u \in Tasks \ {t} PROVE CallAt(u)'
    <3>1. CallAt(u) /\ listen'[u] = listen[u]
      BY <1>0, <1>3 DEF CallInv
    <3>2. ASSUME listen[u].pc \in Serving
          PROVE  /\ link'[listen[u].conn] = link[listen[u].conn]
                 /\ \A w \in Tasks : listen'[w].conn = listen[u].conn => w = u
      <4>1. /\ listen[u].conn \in Conns /\ link[listen[u].conn].server = "open"
            /\ \A w \in Tasks : listen[w].conn = listen[u].conn => w = u
        BY <3>1, <3>2 DEF CallAt
      <4>2. listen[u].conn # m /\ 0 \notin Conns
        BY <4>1 DEF Conns, Exchange!Conns
      <4> QED  BY <1>1, <1>3, <1>4, <4>1, <4>2
    <3> QED  BY <3>1, <3>2 DEF CallAt, Serving
  <2> QED  BY <2>1, <2>2 DEF CallInv
<1>7. DialInv'
  BY <1>0, <1>2, <1>4 DEF DialInv, ShapeInv, Conns, Exchange!Conns
<1>8. LinkInv'
  <2> SUFFICES ASSUME NEW n \in Conns PROVE LinkAt(n)'
    BY DEF LinkInv
  <2>1. CASE n = m
    <3>1. /\ listen[t].pc \in Serving /\ CallAt(t) /\ LinkAt(n) /\ link[n].server = "open"
      BY <1>0, <2>1 DEF LinkInv, CallInv, CallAt, Conns, Exchange!Conns
    <3>2. ~(n > conns)
      BY <3>1, LinkShapes DEF LinkAt
    <3>3. kept # {} => kept = {"server"} /\ link[n].finish # NoCode
      BY <1>0, <2>1, <3>1 DEF CallAt
    <3> QED  BY <1>2, <1>4, <2>1, <3>1, <3>2, <3>3 DEF LinkAt
  <2>2. CASE n # m
    BY <1>0, <1>2, <1>4, <2>2, LinkShapes DEF LinkInv, LinkAt
  <2> QED  BY <2>1, <2>2
<1>9. PortInv'
  BY <1>0, <1>1, <1>2, <1>3 DEF PortInv, ShapeInv
<1> QED  BY <1>1, <1>3, <1>5, <1>6, <1>7, <1>8, <1>9 DEF ExchangeInv

\* Places a call moves to.
AtBind(code) == [Exchange!NotPairing EXCEPT !.pc = "bind", !.code = code]
Moved(p, where) == [p EXCEPT !.pc = where]
Taken(p, where, n) == [p EXCEPT !.pc = where, !.conn = n]

LEMMA PlaceFacts ==
  /\ \A code \in Codes : /\ AtBind(code) \in Places /\ AtBind(code).pc = "bind"
                         /\ AtBind(code).code = code /\ AtBind(code).conn = 0
  /\ \A p \in Places, where \in {"out", "accept", "intro", "finish", "save", "ended"} :
       /\ Moved(p, where) \in Places /\ Moved(p, where).pc = where
       /\ Moved(p, where).code = p.code /\ Moved(p, where).conn = p.conn
  /\ \A p \in Places, where \in Serving, n \in Conns :
       /\ Taken(p, where, n) \in Places /\ Taken(p, where, n).pc = where
       /\ Taken(p, where, n).code = p.code /\ Taken(p, where, n).conn = n
<1>1. ASSUME NEW code \in Codes
      PROVE  /\ AtBind(code) \in Places /\ AtBind(code).pc = "bind"
             /\ AtBind(code).code = code /\ AtBind(code).conn = 0
  BY DEF AtBind, Places, Exchange!NotPairing
<1>2. ASSUME NEW p \in Places,
             NEW where \in {"out", "accept", "intro", "finish", "save", "ended"}
      PROVE  /\ Moved(p, where) \in Places /\ Moved(p, where).pc = where
             /\ Moved(p, where).code = p.code /\ Moved(p, where).conn = p.conn
  BY DEF Moved, Places
<1>3. ASSUME NEW p \in Places, NEW where \in Serving, NEW n \in Conns
      PROVE  /\ Taken(p, where, n) \in Places /\ Taken(p, where, n).pc = where
             /\ Taken(p, where, n).code = p.code /\ Taken(p, where, n).conn = n
  <2>1. Taken(p, where, n) = [Moved(p, where) EXCEPT !.conn = n]
    BY DEF Taken, Moved
  <2>2. Moved(p, where) \in Places
    BY <1>2 DEF Serving
  <2>3. Taken(p, where, n) \in Places
    BY <2>1, <2>2 DEF Places
  <2> QED  BY <2>3 DEF Taken, Places
<1> QED  BY <1>1, <1>2, <1>3

\* A call without a connection moves on.
LEMMA CallMoves ==
  ASSUME ExchangeInv, NEW t \in Tasks, listen[t].pc \notin {"accept"} \cup Serving, NEW p \in Places,
         listen' = [listen EXCEPT ![t] = p], p.pc \notin Serving, p.conn = 0,
         p.pc \notin {"out", "ended"} => p.code \in Codes,
         port' = port \/ (port' = t /\ p.pc = "accept"),
         UNCHANGED <<dial, conns, link, faults>>
  PROVE  ExchangeInv' /\ listen'[t].pc = p.pc /\ \A u \in Tasks \ {t} : listen'[u] = listen[u]
<1>1. /\ listen' \in [Tasks -> Places] /\ listen'[t] = p
      /\ \A u \in Tasks \ {t} : listen'[u] = listen[u]
  BY DEF ExchangeInv, ShapeInv
<1>2. ShapeInv' /\ DialInv' /\ LinkInv'
  BY <1>1 DEF ExchangeInv, ShapeInv, DialInv, LinkInv, LinkAt
<1>3. CallInv'
  <2> SUFFICES ASSUME NEW u \in Tasks PROVE CallAt(u)'
    BY DEF CallInv
  <2>1. CASE u = t
    BY <1>1, <2>1 DEF CallAt, Serving
  <2>2. CASE u # t
    BY <1>1, <2>2 DEF ExchangeInv, CallInv, CallAt, Serving, Conns, Exchange!Conns
  <2> QED  BY <2>1, <2>2
<1>4. PortInv'
  <2>1. CASE port' = t
    BY <1>1, <2>1 DEF ExchangeInv, PortInv
  <2>2. CASE port' # t
    BY <1>1, <2>2 DEF ExchangeInv, ShapeInv, PortInv
  <2> QED  BY <2>1, <2>2
<1> QED  BY <1>1, <1>2, <1>3, <1>4 DEF ExchangeInv

LEMMA ListenStep ==
  ASSUME ExchangeInv, NEW t \in Tasks, Exchange!Listen(t)
  PROVE  ExchangeInv' /\ listen'[t].pc # "out" /\ \A u \in Tasks \ {t} : listen'[u] = listen[u]
<1>1. PICK code \in Codes :
        listen' = [listen EXCEPT ![t] = [Exchange!NotPairing EXCEPT !.pc = "bind", !.code = code]]
  BY DEF Exchange!Listen
<1>2. listen' = [listen EXCEPT ![t] = AtBind(code)]
  BY <1>1 DEF AtBind
<1>3. listen[t].pc = "out" /\ UNCHANGED <<port, dial, conns, link, faults>>
  BY DEF Exchange!Listen
<1>4. /\ AtBind(code) \in Places /\ AtBind(code).pc = "bind"
      /\ AtBind(code).code = code /\ AtBind(code).conn = 0
  BY PlaceFacts
<1> QED  BY <1>2, <1>3, <1>4, CallMoves DEF Serving

\* A call that never starts, and one that is over.
LEMMA LeaveStep ==
  ASSUME ExchangeInv, NEW t \in Tasks, NEW where \in {"out", "ended"},
         listen[t].pc \in {"out", "ended"},
         listen' = [listen EXCEPT ![t].pc = where],
         UNCHANGED <<port, dial, conns, link, faults>>
  PROVE  ExchangeInv' /\ listen'[t].pc = where /\ \A u \in Tasks \ {t} : listen'[u] = listen[u]
<1>1. listen[t] \in Places /\ listen[t].conn = 0
  BY DEF ExchangeInv, ShapeInv, CallInv, CallAt, Serving
<1>2. listen' = [listen EXCEPT ![t] = Moved(listen[t], where)]
  BY DEF ExchangeInv, ShapeInv, Moved
<1>3. /\ Moved(listen[t], where) \in Places /\ Moved(listen[t], where).pc = where
      /\ Moved(listen[t], where).conn = 0
  BY <1>1, PlaceFacts
<1> QED  BY <1>1, <1>2, <1>3, CallMoves DEF Serving

LEMMA BindStep ==
  ASSUME ExchangeInv, NEW t \in Tasks, Exchange!Bind(t)
  PROVE  ExchangeInv' /\ listen'[t].pc # "out" /\ \A u \in Tasks \ {t} : listen'[u] = listen[u]
<1>1. /\ listen[t] \in Places /\ listen[t].pc = "bind" /\ listen[t].conn = 0
      /\ listen[t].code \in Codes /\ UNCHANGED <<dial, conns, link, faults>>
  BY DEF ExchangeInv, ShapeInv, CallInv, CallAt, Serving, Exchange!Bind
<1>2. CASE port = NoOne
  <2>1. port' = t /\ listen' = [listen EXCEPT ![t] = Moved(listen[t], "accept")]
    BY <1>2 DEF Exchange!Bind, Moved, ExchangeInv, ShapeInv
  <2> DEFINE p == Moved(listen[t], "accept")
  <2>2. p \in Places /\ p.pc = "accept" /\ p.conn = 0 /\ p.code \in Codes
    BY <1>1, PlaceFacts
  <2> HIDE DEF p
  <2> QED  BY <1>1, <2>1, <2>2, CallMoves DEF Serving, p
<1>3. CASE port # NoOne
  <2>1. port' = port /\ listen' = [listen EXCEPT ![t] = Moved(listen[t], "ended")]
    BY <1>3 DEF Exchange!Bind, Moved, ExchangeInv, ShapeInv
  <2> DEFINE p == Moved(listen[t], "ended")
  <2>2. p \in Places /\ p.pc = "ended" /\ p.conn = 0 /\ p.code \in Codes
    BY <1>1, PlaceFacts
  <2> HIDE DEF p
  <2> QED  BY <1>1, <2>1, <2>2, CallMoves DEF Serving, p
<1> QED  BY <1>2, <1>3

LEMMA DropStep ==
  ASSUME ExchangeInv, NEW t \in Tasks, Exchange!Drop(t)
  PROVE  ExchangeInv' /\ listen'[t].pc = "out" /\ \A u \in Tasks \ {t} : listen'[u] = listen[u]
<1>1. /\ listen[t].pc # "out" /\ Exchange!ServerEnds(t, "out", TRUE, {})
      /\ faults' \in 0..MaxFaults
  BY DEF Exchange!Drop, ExchangeInv, ShapeInv
<1> QED  BY <1>1, ServerEnds

\* The link of one connection changes: where a call and the other device are
\* is the matter of the step.
LEMMA LinkMoves ==
  ASSUME ShapeInv, NEW n \in Conns, NEW l \in Links, link' = [link EXCEPT ![n] = l]
  PROVE  /\ link' \in [Conns -> Links] /\ link'[n] = l
         /\ \A k \in Conns \ {n} : link'[k] = link[k]
BY DEF ShapeInv

Accepted(l) == [l EXCEPT !.server = "open"]
Replied(l, code) == [l EXCEPT !.reply = code]

LEMMA LinkFacts ==
  /\ \A l \in Links : /\ Accepted(l) \in Links /\ Accepted(l).server = "open"
                      /\ Accepted(l).client = l.client /\ Accepted(l).reply = l.reply
                      /\ Accepted(l).finish = l.finish /\ Accepted(l).kept = l.kept
                      /\ Accepted(l).hurt = l.hurt
  /\ \A l \in Links, code \in Codes :
       /\ Replied(l, code) \in Links /\ Replied(l, code).reply = code
       /\ Replied(l, code).server = l.server /\ Replied(l, code).client = l.client
       /\ Replied(l, code).finish = l.finish /\ Replied(l, code).kept = l.kept
       /\ Replied(l, code).hurt = l.hurt
<1>1. ASSUME NEW l \in Links
      PROVE  /\ Accepted(l) \in Links /\ Accepted(l).server = "open"
             /\ Accepted(l).client = l.client /\ Accepted(l).reply = l.reply
             /\ Accepted(l).finish = l.finish /\ Accepted(l).kept = l.kept
             /\ Accepted(l).hurt = l.hurt
  BY DEF Accepted, Links
<1>2. ASSUME NEW l \in Links, NEW code \in Codes
      PROVE  /\ Replied(l, code) \in Links /\ Replied(l, code).reply = code
             /\ Replied(l, code).server = l.server /\ Replied(l, code).client = l.client
             /\ Replied(l, code).finish = l.finish /\ Replied(l, code).kept = l.kept
             /\ Replied(l, code).hurt = l.hurt
  BY DEF Replied, Links
<1> QED  BY <1>1, <1>2

LEMMA AcceptStep ==
  ASSUME ExchangeInv, NEW t \in Tasks, Exchange!Accept(t)
  PROVE  ExchangeInv' /\ listen'[t].pc # "out" /\ \A u \in Tasks \ {t} : listen'[u] = listen[u]
<1>1. PICK n \in Exchange!Waiting :
        /\ link' = [link EXCEPT ![n].server = "open"]
        /\ listen' = [listen EXCEPT ![t].pc = "intro", ![t].conn = n]
  BY DEF Exchange!Accept
<1>2. /\ n \in Conns /\ link[n].server = "waiting" /\ listen[t] \in Places /\ link[n] \in Links
      /\ listen[t].pc = "accept" /\ listen[t].code \in Codes
      /\ UNCHANGED <<port, dial, conns, faults>>
      /\ ShapeInv /\ CallInv /\ DialInv /\ LinkInv /\ PortInv /\ 0 \notin Conns
  BY <1>1 DEF Exchange!Waiting, Exchange!Accept, Conns, Exchange!Conns, ExchangeInv, ShapeInv,
              CallInv, CallAt
<1>3. /\ listen' = [listen EXCEPT ![t] = Taken(listen[t], "intro", n)]
      /\ link' = [link EXCEPT ![n] = Accepted(link[n])]
  BY <1>1, <1>2 DEF Taken, Accepted, ShapeInv
<1>4. /\ listen' \in [Tasks -> Places] /\ \A u \in Tasks \ {t} : listen'[u] = listen[u]
      /\ listen'[t].pc = "intro" /\ listen'[t].code = listen[t].code /\ listen'[t].conn = n
  <2>1. LET p == Taken(listen[t], "intro", n) IN
          p \in Places /\ p.pc = "intro" /\ p.code = listen[t].code /\ p.conn = n
    BY <1>2, PlaceFacts DEF Serving
  <2> QED  BY <1>2, <1>3, <2>1 DEF ShapeInv
<1>5. /\ link' \in [Conns -> Links] /\ \A k \in Conns \ {n} : link'[k] = link[k]
      /\ link'[n].server = "open" /\ link'[n].client = link[n].client
      /\ link'[n].reply = link[n].reply /\ link'[n].finish = link[n].finish
      /\ link'[n].kept = link[n].kept /\ link'[n].hurt = link[n].hurt
  <2>1. LET l == Accepted(link[n]) IN
          /\ l \in Links /\ l.server = "open" /\ l.client = link[n].client
          /\ l.reply = link[n].reply /\ l.finish = link[n].finish
          /\ l.kept = link[n].kept /\ l.hurt = link[n].hurt
    BY <1>2, LinkFacts
  <2> QED  BY <1>2, <1>3, <2>1, LinkMoves
<1>6. ShapeInv'
  BY <1>2, <1>4, <1>5 DEF ShapeInv
<1>7. LinkAt(n) /\ link[n].reply = NoCode /\ ~(n > conns)
  BY <1>2, LinkShapes DEF LinkInv, LinkAt
<1>8. ASSUME NEW u \in Tasks \ {t} PROVE listen[u].conn # n
  BY <1>2 DEF CallInv, CallAt
<1>9. CallInv'
  <2>1. CallAt(t)'
    BY <1>2, <1>4, <1>5, <1>7, <1>8 DEF CallAt, Serving
  <2>2. ASSUME NEW u \in Tasks \ {t} PROVE CallAt(u)'
    BY <1>2, <1>4, <1>5, <1>8 DEF CallInv, CallAt, Serving
  <2> QED  BY <2>1, <2>2 DEF CallInv
<1>10. DialInv'
  <2>1. dial.pc # "out" => dial.conn \in Conns
    BY <1>2, PairingAssumption DEF DialInv, ShapeInv, Conns, Exchange!Conns
  <2> QED  BY <1>2, <1>5, <2>1 DEF DialInv
<1>11. LinkInv'
  <2>1. LinkAt(n)'
    BY <1>2, <1>5, <1>7 DEF LinkAt
  <2>2. ASSUME NEW k \in Conns \ {n} PROVE LinkAt(k)'
    BY <1>2, <1>5 DEF LinkInv, LinkAt
  <2> QED  BY <2>1, <2>2 DEF LinkInv
<1>12. PortInv'
  BY <1>2, <1>4 DEF PortInv, ShapeInv, Serving
<1> QED  BY <1>4, <1>6, <1>9, <1>10, <1>11, <1>12 DEF ExchangeInv

\* A call that serves a connection writes the reply, or verifies the finish.
LEMMA ReadIntroStep ==
  ASSUME ExchangeInv, NEW t \in Tasks, Exchange!ReadIntro(t)
  PROVE  ExchangeInv' /\ listen'[t].pc # "out" /\ \A u \in Tasks \ {t} : listen'[u] = listen[u]
<1>0. PICK n \in Conns, code \in Codes : n = listen[t].conn /\ code = listen[t].code
  BY DEF Exchange!ReadIntro, ExchangeInv, CallInv, CallAt, Serving
<1>1. /\ listen[t].conn = n /\ listen[t].code = code /\ link[n].server = "open" /\ listen[t] \in Places /\ link[n] \in Links
      /\ listen[t].pc = "intro" /\ link[n].reply = NoCode
      /\ UNCHANGED <<port, dial, conns, faults>> /\ NoCode \notin Codes
      /\ ShapeInv /\ CallInv /\ DialInv /\ LinkInv /\ PortInv /\ 0 \notin Conns
  BY <1>0, PairingAssumption DEF Exchange!ReadIntro, Conns, Exchange!Conns, ExchangeInv, ShapeInv,
              CallInv, CallAt, Serving
<1>2. /\ listen' = [listen EXCEPT ![t] = Moved(listen[t], "finish")]
      /\ link' = [link EXCEPT ![n] = Replied(link[n], code)]
  BY <1>1 DEF Exchange!ReadIntro, Moved, Replied, ShapeInv
<1>3. /\ listen' \in [Tasks -> Places] /\ \A u \in Tasks \ {t} : listen'[u] = listen[u]
      /\ listen'[t].pc = "finish" /\ listen'[t].code = code /\ listen'[t].conn = n
  <2>1. LET p == Moved(listen[t], "finish") IN
          p \in Places /\ p.pc = "finish" /\ p.code = code /\ p.conn = n
    BY <1>1, PlaceFacts
  <2> QED  BY <1>1, <1>2, <2>1 DEF ShapeInv
<1>4. /\ link' \in [Conns -> Links] /\ \A k \in Conns \ {n} : link'[k] = link[k]
      /\ link'[n].server = "open" /\ link'[n].client = link[n].client
      /\ link'[n].reply = code /\ link'[n].finish = link[n].finish
      /\ link'[n].kept = link[n].kept /\ link'[n].hurt = link[n].hurt
  <2>1. LET l == Replied(link[n], code) IN
          /\ l \in Links /\ l.server = "open" /\ l.client = link[n].client
          /\ l.reply = code /\ l.finish = link[n].finish
          /\ l.kept = link[n].kept /\ l.hurt = link[n].hurt
    BY <1>1, LinkFacts
  <2> QED  BY <1>1, <1>2, <2>1, LinkMoves
<1>5. ShapeInv'
  BY <1>1, <1>3, <1>4 DEF ShapeInv
<1>6. LinkAt(n) /\ link[n].finish = NoCode /\ ~(n > conns) /\ n # 0
  BY <1>1, LinkShapes DEF LinkInv, LinkAt
<1>7. ASSUME NEW u \in Tasks \ {t} PROVE listen[u].conn # n
  BY <1>1 DEF CallInv, CallAt, Serving
<1>8. CallInv'
  <2>1. CallAt(t)'
    BY <1>1, <1>3, <1>4, <1>7 DEF CallAt, Serving
  <2>2. ASSUME NEW u \in Tasks \ {t} PROVE CallAt(u)'
    BY <1>1, <1>3, <1>4, <1>7 DEF CallInv, CallAt, Serving
  <2> QED  BY <2>1, <2>2 DEF CallInv
<1>9. DialInv'
  <2>1. dial.pc # "out" => dial.conn \in Conns
    BY <1>1, PairingAssumption DEF DialInv, ShapeInv, Conns, Exchange!Conns
  <2> QED  BY <1>1, <1>4, <2>1 DEF DialInv
<1>10. LinkInv'
  <2>1. LinkAt(n)'
    BY <1>1, <1>4, <1>6 DEF LinkAt
  <2>2. ASSUME NEW k \in Conns \ {n} PROVE LinkAt(k)'
    BY <1>1, <1>4 DEF LinkInv, LinkAt
  <2> QED  BY <2>1, <2>2 DEF LinkInv
<1>11. PortInv'
  BY <1>1, <1>3 DEF PortInv, ShapeInv, Serving
<1> QED  BY <1>3, <1>5, <1>8, <1>9, <1>10, <1>11 DEF ExchangeInv

LEMMA ReadFinishStep ==
  ASSUME ExchangeInv, NEW t \in Tasks, Exchange!ReadFinish(t)
  PROVE  ExchangeInv' /\ listen'[t].pc # "out" /\ \A u \in Tasks \ {t} : listen'[u] = listen[u]
<1> DEFINE n == listen[t].conn
<1>1. /\ n \in Conns /\ listen[t] \in Places /\ listen[t].pc = "finish"
      /\ listen[t].code \in Codes /\ link[n].reply = listen[t].code
      /\ link[n].finish # NoCode /\ LinkAt(n) /\ UNCHANGED faults
      /\ ShapeInv /\ CallInv /\ DialInv /\ LinkInv /\ PortInv
  BY DEF Exchange!ReadFinish, ExchangeInv, ShapeInv, CallInv, CallAt, LinkInv, Serving
<1>2. link[n].finish = listen[t].code
  BY <1>1 DEF LinkAt
<1>3. /\ listen' = [listen EXCEPT ![t] = Moved(listen[t], "save")]
      /\ UNCHANGED <<port, dial, conns, link>>
  BY <1>1, <1>2 DEF Exchange!ReadFinish, Moved, ShapeInv
<1>4. /\ listen' \in [Tasks -> Places] /\ \A u \in Tasks \ {t} : listen'[u] = listen[u]
      /\ listen'[t].pc = "save" /\ listen'[t].code = listen[t].code /\ listen'[t].conn = n
  BY <1>1, <1>3, PlaceFacts DEF ShapeInv
<1>5. CallInv'
  <2>1. CallAt(t)'
    BY <1>1, <1>2, <1>3, <1>4 DEF CallInv, CallAt, Serving
  <2>2. ASSUME NEW u \in Tasks \ {t} PROVE CallAt(u)'
    BY <1>1, <1>3, <1>4 DEF CallInv, CallAt, Serving
  <2> QED  BY <2>1, <2>2 DEF CallInv
<1>6. ShapeInv' /\ DialInv' /\ LinkInv' /\ PortInv'
  BY <1>1, <1>3, <1>4 DEF ShapeInv, DialInv, LinkInv, LinkAt, PortInv, Serving
<1> QED  BY <1>4, <1>5, <1>6 DEF ExchangeInv

\* The other ways an exchange ends for the listening device.
LEMMA EndStep ==
  ASSUME ExchangeInv, NEW t \in Tasks,
         \/ Exchange!SaveServer(t) \/ Exchange!SaveServerFails(t)
         \/ Exchange!ServerEof(t) \/ Exchange!ListenExpires(t)
  PROVE  ExchangeInv' /\ listen'[t].pc # "out" /\ \A u \in Tasks \ {t} : listen'[u] = listen[u]
<1>1. faults \in 0..MaxFaults /\ MaxFaults \in Nat /\ CallAt(t)
  BY PairingAssumption DEF ExchangeInv, ShapeInv, CallInv
<1>2. CASE Exchange!SaveServer(t)
  BY <1>1, <1>2, ServerEnds DEF Exchange!SaveServer
<1>3. CASE Exchange!SaveServerFails(t)
  <2>1. faults' \in 0..MaxFaults
    BY <1>1, <1>3 DEF Exchange!SaveServerFails, Exchange!Fault
  <2> QED  BY <1>3, <2>1, ServerEnds DEF Exchange!SaveServerFails
<1>4. CASE Exchange!ServerEof(t)
  <2>1. /\ listen[t].pc \in {"intro", "finish"} /\ Exchange!ServerEnds(t, "ended", FALSE, {})
        /\ \/ link[listen[t].conn].reply = NoCode
           \/ /\ link[listen[t].conn].client = "closed" /\ link[listen[t].conn].finish = NoCode
        /\ UNCHANGED faults
    BY <1>1, <1>4 DEF Exchange!ServerEof, CallAt
  <2> QED  BY <1>1, <2>1, ServerEnds
<1>5. CASE Exchange!ListenExpires(t)
  BY <1>1, <1>5, ServerEnds DEF Exchange!ListenExpires
<1> QED  BY <1>2, <1>3, <1>4, <1>5

\* What the connecting device does to a connection.
Introduced(l) == [l EXCEPT !.intro = TRUE]
Finished(l, code) == [l EXCEPT !.finish = code]
Left(l, hurt, kept) == [l EXCEPT !.client = "closed", !.hurt = @ \/ hurt, !.kept = @ \cup kept]

LEMMA IntroducedLink ==
  ASSUME NEW l \in Links
  PROVE  /\ Introduced(l) \in Links /\ Introduced(l).server = l.server
         /\ Introduced(l).client = l.client /\ Introduced(l).reply = l.reply
         /\ Introduced(l).finish = l.finish /\ Introduced(l).kept = l.kept
         /\ Introduced(l).hurt = l.hurt
BY DEF Introduced, Links

LEMMA FinishedLink ==
  ASSUME NEW l \in Links, NEW code \in Codes
  PROVE  /\ Finished(l, code) \in Links /\ Finished(l, code).server = l.server
         /\ Finished(l, code).client = l.client /\ Finished(l, code).reply = l.reply
         /\ Finished(l, code).finish = code /\ Finished(l, code).kept = l.kept
         /\ Finished(l, code).hurt = l.hurt
BY DEF Finished, Links

LEMMA LeftLink ==
  ASSUME NEW l \in Links, NEW hurt \in BOOLEAN, NEW kept \in SUBSET {"server", "client"}
  PROVE  /\ Left(l, hurt, kept) \in Links /\ Left(l, hurt, kept).client = "closed"
         /\ Left(l, hurt, kept).server = l.server /\ Left(l, hurt, kept).reply = l.reply
         /\ Left(l, hurt, kept).finish = l.finish
         /\ Left(l, hurt, kept).hurt = (l.hurt \/ hurt)
         /\ Left(l, hurt, kept).kept = l.kept \cup kept
<1> USE DEF Left
<1>1. Left(l, hurt, kept) \in Links
  <2> DEFINE s == [l EXCEPT !.client = "closed"]
             h == [s EXCEPT !.hurt = @ \/ hurt]
  <2>1. s \in Links
    BY DEF Links
  <2>2. h \in Links
    <3> HIDE DEF s
    <3>1. (s.hurt \/ hurt) \in BOOLEAN
      OBVIOUS
    <3> QED  BY <2>1, <3>1 DEF Links
  <2>3. [h EXCEPT !.kept = @ \cup kept] \in Links
    <3> HIDE DEF h
    <3> QED  BY <2>2 DEF Links
  <2> QED  BY <2>3
<1>2. /\ Left(l, hurt, kept).client = "closed"
      /\ Left(l, hurt, kept).server = l.server /\ Left(l, hurt, kept).reply = l.reply
      /\ Left(l, hurt, kept).finish = l.finish
      /\ Left(l, hurt, kept).hurt = (l.hurt \/ hurt)
      /\ Left(l, hurt, kept).kept = l.kept \cup kept
  BY DEF Links
<1> QED  BY <1>1, <1>2

\* The listening device's calls see a finish that echoes their reply, at most.
LEMMA DialKeeps ==
  ASSUME CallInv, PortInv, UNCHANGED <<listen, port>>,
         \A k \in Conns : link[k].server = "open" =>
           /\ link'[k].server = "open" /\ link'[k].reply = link[k].reply
           /\ link'[k].finish \in {link[k].finish, link[k].reply}
  PROVE  CallInv' /\ PortInv'
BY DEF CallInv, CallAt, PortInv, Serving

LEMMA ConnectStep == ASSUME ExchangeInv, Exchange!Connect PROVE ExchangeInv' /\ UNCHANGED listen
<1>1. /\ dial.pc = "out" /\ conns < MaxConns /\ conns' = conns + 1
      /\ link' = [link EXCEPT ![conns + 1] = Exchange!NewLink]
      /\ UNCHANGED <<listen, port, faults>>
      /\ ShapeInv /\ CallInv /\ DialInv /\ LinkInv /\ PortInv
  BY DEF Exchange!Connect, ExchangeInv
<1>2. PICK code \in Codes : dial' = [pc |-> "intro", code |-> code, conn |-> conns + 1]
  BY DEF Exchange!Connect
<1>3. /\ conns \in Nat /\ conns' \in 0..MaxConns /\ conns + 1 \in Conns
  BY <1>1, PairingAssumption DEF ShapeInv, Conns, Exchange!Conns
<1>4. dial' \in DialPlaces /\ dial'.pc = "intro" /\ dial'.code = code /\ dial'.conn = conns + 1
  BY <1>2, <1>3 DEF DialPlaces
<1>5. PICK n \in Conns : n = conns + 1
  BY <1>3
<1>6. /\ link' \in [Conns -> Links] /\ link'[n] = Exchange!NewLink
      /\ \A k \in Conns \ {n} : link'[k] = link[k]
  BY <1>1, <1>5, LinkShapes DEF ShapeInv
<1>7. link[n] = Exchange!NoLink
  BY <1>1, <1>3, <1>5 DEF LinkInv, LinkAt
<1>8. ShapeInv'
  BY <1>1, <1>3, <1>4, <1>6 DEF ShapeInv
<1>9. CallInv' /\ PortInv'
  BY <1>1, <1>6, <1>7, LinkShapes, DialKeeps
<1>10. DialInv'
  BY <1>1, <1>3, <1>4, <1>5, <1>6, LinkShapes DEF DialInv
<1>11. LinkInv'
  <2>1. LinkAt(n)'
    BY <1>1, <1>3, <1>5, <1>6, LinkShapes DEF LinkAt
  <2>2. ASSUME NEW k \in Conns \ {n} PROVE LinkAt(k)'
    BY <1>1, <1>3, <1>6 DEF LinkInv, LinkAt, Conns, Exchange!Conns
  <2> QED  BY <2>1, <2>2 DEF LinkInv
<1> QED  BY <1>1, <1>8, <1>9, <1>10, <1>11 DEF ExchangeInv

LEMMA ClientEnds ==
  ASSUME ExchangeInv, NEW hurt \in BOOLEAN, NEW kept \in SUBSET {"server", "client"},
         Exchange!ClientEnds(hurt, kept), dial.pc # "out", faults' \in 0..MaxFaults,
         kept # {} => dial.pc = "save",
         dial.pc = "save" => hurt \/ "client" \in kept
  PROVE  ExchangeInv' /\ UNCHANGED listen
<1>0. PICK n \in Conns : n = dial.conn
  BY PairingAssumption DEF ExchangeInv, ShapeInv, DialInv, Conns, Exchange!Conns
<1>1. /\ dial' = Exchange!NotPairing /\ UNCHANGED <<listen, port, conns>>
      /\ link' = [link EXCEPT ![n].client = "closed", ![n].hurt = @ \/ hurt,
                              ![n].kept = @ \cup kept]
      /\ ShapeInv /\ CallInv /\ DialInv /\ LinkInv /\ PortInv /\ link[n] \in Links
      /\ NoCode \notin Codes
  BY <1>0, PairingAssumption DEF Exchange!ClientEnds, ExchangeInv, ShapeInv
<1>2. link' = [link EXCEPT ![n] = Left(link[n], hurt, kept)]
  BY <1>1 DEF Left, ShapeInv
<1>3. /\ link' \in [Conns -> Links] /\ \A k \in Conns \ {n} : link'[k] = link[k]
      /\ link'[n].client = "closed" /\ link'[n].server = link[n].server
      /\ link'[n].reply = link[n].reply /\ link'[n].finish = link[n].finish
      /\ link'[n].hurt = (link[n].hurt \/ hurt) /\ link'[n].kept = link[n].kept \cup kept
  <2>1. LET l == Left(link[n], hurt, kept) IN
          /\ l \in Links /\ l.client = "closed" /\ l.server = link[n].server
          /\ l.reply = link[n].reply /\ l.finish = link[n].finish
          /\ l.hurt = (link[n].hurt \/ hurt) /\ l.kept = link[n].kept \cup kept
    BY <1>1, LeftLink
  <2> QED  BY <1>1, <1>2, <2>1, LinkMoves
<1>4. ShapeInv' /\ DialInv'
  BY <1>1, <1>3, OutShape DEF ShapeInv, DialInv
<1>5. CallInv' /\ PortInv'
  BY <1>1, <1>3, DialKeeps
<1>6. LinkInv'
  <2>1. LinkAt(n)'
    <3>1. LinkAt(n) /\ ~(n > conns) /\ (dial.pc = "save" => link[n].finish # NoCode)
      <4>1. n \in 1..conns /\ conns \in Nat
        BY <1>0, <1>1, PairingAssumption DEF DialInv, ShapeInv
      <4> QED  BY <1>0, <1>1, <4>1 DEF LinkInv, DialInv
    <3> QED  BY <1>0, <1>1, <1>3, <3>1 DEF LinkAt
  <2>2. ASSUME NEW k \in Conns \ {n} PROVE LinkAt(k)'
    BY <1>0, <1>1, <1>3 DEF LinkInv, LinkAt
  <2> QED  BY <2>1, <2>2 DEF LinkInv
<1> QED  BY <1>1, <1>4, <1>5, <1>6 DEF ExchangeInv

LEMMA SendIntroStep ==
  ASSUME ExchangeInv, Exchange!SendIntro PROVE ExchangeInv' /\ UNCHANGED listen
<1>0. PICK n \in Conns : n = dial.conn
  BY PairingAssumption
  DEF Exchange!SendIntro, ExchangeInv, ShapeInv, DialInv, Conns, Exchange!Conns
<1>1. /\ dial.pc = "intro" /\ dial' = [dial EXCEPT !.pc = "reply"]
      /\ link' = [link EXCEPT ![n] = Introduced(link[n])]
      /\ UNCHANGED <<listen, port, conns, faults>>
      /\ ShapeInv /\ CallInv /\ DialInv /\ LinkInv /\ PortInv /\ link[n] \in Links
  BY <1>0 DEF Exchange!SendIntro, Introduced, ExchangeInv, ShapeInv
<1>2. /\ dial' \in DialPlaces /\ dial'.pc = "reply" /\ dial'.code = dial.code
      /\ dial'.conn = dial.conn
  BY <1>1 DEF ShapeInv, DialPlaces
<1>3. /\ link' \in [Conns -> Links] /\ \A k \in Conns \ {n} : link'[k] = link[k]
      /\ link'[n].server = link[n].server /\ link'[n].client = link[n].client
      /\ link'[n].reply = link[n].reply /\ link'[n].finish = link[n].finish
      /\ link'[n].kept = link[n].kept /\ link'[n].hurt = link[n].hurt
  <2>1. LET l == Introduced(link[n]) IN
          /\ l \in Links /\ l.server = link[n].server /\ l.client = link[n].client
          /\ l.reply = link[n].reply /\ l.finish = link[n].finish
          /\ l.kept = link[n].kept /\ l.hurt = link[n].hurt
    BY <1>1, IntroducedLink
  <2> QED  BY <1>1, <2>1, LinkMoves
<1>4. n \in 1..conns /\ conns \in Nat /\ link[n].client = "open"
  BY <1>0, <1>1, PairingAssumption DEF DialInv, ShapeInv
<1>5. ShapeInv' /\ DialInv'
  BY <1>0, <1>1, <1>2, <1>3, <1>4 DEF ShapeInv, DialInv
<1>6. CallInv' /\ PortInv'
  BY <1>1, <1>3, DialKeeps
<1>7. LinkInv'
  <2>1. LinkAt(n)'
    <3>1. LinkAt(n) /\ ~(n > conns)
      BY <1>1, <1>4 DEF LinkInv
    <3> QED  BY <1>1, <1>2, <1>3, <3>1 DEF LinkAt
  <2>2. ASSUME NEW k \in Conns \ {n} PROVE LinkAt(k)'
    BY <1>1, <1>2, <1>3 DEF LinkInv, LinkAt
  <2> QED  BY <2>1, <2>2 DEF LinkInv
<1> QED  BY <1>1, <1>5, <1>6, <1>7 DEF ExchangeInv

LEMMA ReadReplyStep ==
  ASSUME ExchangeInv, Exchange!ReadReply PROVE ExchangeInv' /\ UNCHANGED listen
<1>0. PICK n \in Conns, code \in Codes : n = dial.conn /\ code = dial.code
  BY PairingAssumption
  DEF Exchange!ReadReply, ExchangeInv, ShapeInv, DialInv, Conns, Exchange!Conns
<1>1. /\ dial.pc = "reply" /\ UNCHANGED faults /\ NoCode \notin Codes /\ faults \in 0..MaxFaults
      /\ ShapeInv /\ CallInv /\ DialInv /\ LinkInv /\ PortInv /\ link[n] \in Links
  BY <1>0, PairingAssumption DEF Exchange!ReadReply, ExchangeInv, ShapeInv
<1>2. CASE link[n].reply # code
  BY <1>0, <1>1, <1>2, ClientEnds DEF Exchange!ReadReply
<1>3. CASE link[n].reply = code
  <2>1. /\ dial' = [dial EXCEPT !.pc = "save"]
        /\ link' = [link EXCEPT ![n] = Finished(link[n], code)]
        /\ UNCHANGED <<listen, port, conns>>
    BY <1>0, <1>1, <1>3 DEF Exchange!ReadReply, Finished, ShapeInv
  <2>2. /\ dial' \in DialPlaces /\ dial'.pc = "save" /\ dial'.code = code /\ dial'.conn = n
    BY <1>0, <1>1, <2>1 DEF ShapeInv, DialPlaces
  <2>3. /\ link' \in [Conns -> Links] /\ \A k \in Conns \ {n} : link'[k] = link[k]
        /\ link'[n].server = link[n].server /\ link'[n].client = link[n].client
        /\ link'[n].reply = code /\ link'[n].finish = code
        /\ link'[n].kept = link[n].kept /\ link'[n].hurt = link[n].hurt
    <3>1. LET l == Finished(link[n], code) IN
            /\ l \in Links /\ l.server = link[n].server /\ l.client = link[n].client
            /\ l.reply = code /\ l.finish = code
            /\ l.kept = link[n].kept /\ l.hurt = link[n].hurt
      BY <1>1, <1>3, FinishedLink
    <3> QED  BY <1>1, <2>1, <3>1, LinkMoves
  <2>4. n \in 1..conns /\ conns \in Nat /\ link[n].client = "open"
    BY <1>0, <1>1, PairingAssumption DEF DialInv, ShapeInv
  <2>5. ShapeInv' /\ DialInv'
    BY <1>0, <1>1, <2>1, <2>2, <2>3, <2>4 DEF ShapeInv, DialInv
  <2>6. CallInv' /\ PortInv'
    BY <1>1, <1>3, <2>1, <2>3, DialKeeps
  <2>7. LinkInv'
    <3>1. LinkAt(n)'
      <4>1. LinkAt(n) /\ ~(n > conns)
        BY <1>1, <2>4 DEF LinkInv
      <4> QED  BY <1>0, <1>1, <1>3, <2>1, <2>2, <2>3, <2>4, <4>1 DEF LinkAt
    <3>2. ASSUME NEW k \in Conns \ {n} PROVE LinkAt(k)'
      BY <1>1, <2>1, <2>2, <2>3 DEF LinkInv, LinkAt
    <3> QED  BY <3>1, <3>2 DEF LinkInv
  <2> QED  BY <2>1, <2>5, <2>6, <2>7 DEF ExchangeInv
<1> QED  BY <1>2, <1>3

LEMMA DialStep == ASSUME ExchangeInv, Exchange!Dial PROVE ExchangeInv' /\ UNCHANGED listen
<1>0. faults \in 0..MaxFaults /\ MaxFaults \in Nat
  BY PairingAssumption DEF ExchangeInv, ShapeInv
<1>1. CASE Exchange!SaveClient
  BY <1>0, <1>1, ClientEnds DEF Exchange!SaveClient
<1>2. CASE Exchange!ClientDies
  <2>1. faults' \in 0..MaxFaults
    BY <1>0, <1>2 DEF Exchange!ClientDies, Exchange!Fault
  <2> QED  BY <1>2, <2>1, ClientEnds DEF Exchange!ClientDies
<1>3. CASE Exchange!ClientReset
  BY <1>0, <1>3, ClientEnds DEF Exchange!ClientReset
<1>4. CASE Exchange!ReplyExpires
  BY <1>0, <1>4, ClientEnds DEF Exchange!ReplyExpires
<1> QED
  BY <1>1, <1>2, <1>3, <1>4, ConnectStep, SendIntroStep, ReadReplyStep DEF Exchange!Dial

-----------------------------------------------------------------------------
(* The composition.                                                        *)

LEMMA WorkStep ==
  ASSUME ExchangeInv, WorkInv, Work PROVE ExchangeInv' /\ WorkInv'
<1>0. UNCHANGED pc
  BY DEF Work, vars
<1>1. ASSUME NEW t \in Tasks,
             Exchange!Serve(t) \/ Exchange!SaveServerFails(t) \/ Exchange!ListenExpires(t)
      PROVE  /\ ExchangeInv' /\ listen'[t].pc # "out" /\ listen[t].pc # "out"
             /\ \A u \in Tasks \ {t} : listen'[u] = listen[u]
  <2>1. listen[t].pc # "out"
    BY <1>1 DEF Exchange!Serve, Exchange!Bind, Exchange!Accept, Exchange!ReadIntro,
                Exchange!ReadFinish, Exchange!SaveServer, Exchange!ServerEof,
                Exchange!SaveServerFails, Exchange!ListenExpires
  <2> QED  BY <1>1, <2>1, BindStep, AcceptStep, ReadIntroStep, ReadFinishStep, EndStep
           DEF Exchange!Serve
<1>2. CASE Exchange!Dial
  BY <1>0, <1>2, DialStep DEF WorkInv, Working
<1> QED  BY <1>0, <1>1, <1>2 DEF Work, WorkInv, Working

\* The call of the coordinator and its exchange begin and end together.
LEMMA AutoCallStep ==
  ASSUME ExchangeInv, WorkInv, TypeOK, NEW t \in Autos, AutoCall(t)
  PROVE  ExchangeInv' /\ WorkInv'
<1> USE DEF AutoPcs
<1>0. /\ t \in Tasks /\ pc \in [Tasks -> AutoPcs \cup ManualPcs] /\ pc[t] \in AutoPcs
      /\ listen[t].pc # "out" <=> Working(t)
  BY DEF Tasks, TypeOK, WorkInv
<1>1. ASSUME Same PROVE ExchangeInv' /\ listen' = listen
  BY <1>1 DEF Same, exchangeVars, ExchangeInv, ShapeInv, CallInv, CallAt, DialInv, LinkInv,
              LinkAt, PortInv
<1>2. ASSUME NEW where, Goto(t, where), ExchangeInv',
             \A u \in Tasks \ {t} : listen'[u] = listen[u],
             listen'[t].pc # "out" <=> where \in {"autoWork", "manualWork"}
      PROVE  ExchangeInv' /\ WorkInv'
  <2>1. pc'[t] = where /\ \A u \in Tasks \ {t} : pc'[u] = pc[u]
    BY <1>0, <1>2 DEF Goto
  <2> QED  BY <1>0, <1>2, <2>1 DEF WorkInv, Working
<1>3. CASE (Subscribe(t) \/ AutoLock(t) \/ AutoCheck(t) \/ AutoLeave(t)) /\ Same
  <2>1. listen[t].pc = "out"
    BY <1>0, <1>3 DEF Subscribe, AutoLock, AutoCheck, AutoLeave, Working
  <2>2. CASE requested.value
    BY <1>1, <1>2, <1>3, <2>1, <2>2 DEF Subscribe, AutoLock, AutoCheck, AutoLeave
  <2>3. CASE ~requested.value
    BY <1>1, <1>2, <1>3, <2>1, <2>3 DEF Subscribe, AutoLock, AutoCheck, AutoLeave
  <2> QED  BY <2>2, <2>3
<1>4. CASE AutoStart(t) /\ Exchange!Listen(t)
  BY <1>0, <1>2, <1>4, ListenStep DEF AutoStart
<1>5. CASE AutoStart(t) /\ NothingToDo(t)
  <2>1. listen[t].pc = "out"
    BY <1>0, <1>5 DEF AutoStart, Working
  <2>2. ExchangeInv' /\ listen'[t].pc = "ended" /\ \A u \in Tasks \ {t} : listen'[u] = listen[u]
    BY <1>0, <1>5, <2>1, LeaveStep DEF NothingToDo
  <2> QED  BY <1>2, <1>5, <2>2 DEF AutoStart
<1>6. CASE AutoFinish(t) /\ Exchange!Leave(t)
  <2>1. ExchangeInv' /\ listen'[t].pc = "out" /\ \A u \in Tasks \ {t} : listen'[u] = listen[u]
    BY <1>0, <1>6, LeaveStep DEF Exchange!Leave
  <2> QED  BY <1>2, <1>6, <2>1 DEF AutoFinish
<1>7. CASE (AutoCancel(t) \/ AutoDropped(t)) /\ DropWork(t)
  <2>1. ExchangeInv' /\ listen'[t].pc = "out" /\ \A u \in Tasks \ {t} : listen'[u] = listen[u]
    BY <1>0, <1>1, <1>7, DropStep DEF DropWork
  <2>2. CASE active = t
    BY <1>2, <1>7, <2>1, <2>2 DEF AutoCancel, AutoDropped
  <2>3. CASE active # t
    BY <1>2, <1>7, <2>1, <2>3 DEF AutoCancel, AutoDropped
  <2> QED  BY <2>2, <2>3
<1> QED  BY <1>3, <1>4, <1>5, <1>6, <1>7 DEF AutoCall

LEMMA UserCallStep ==
  ASSUME ExchangeInv, WorkInv, TypeOK, NEW t \in Manuals, UserCall(t)
  PROVE  ExchangeInv' /\ WorkInv'
<1> USE DEF ManualPcs
<1>0. /\ t \in Tasks /\ pc \in [Tasks -> AutoPcs \cup ManualPcs] /\ pc[t] \in ManualPcs
      /\ listen[t].pc # "out" <=> Working(t)
  BY DEF Tasks, TypeOK, WorkInv
<1>1. ASSUME Same PROVE ExchangeInv' /\ listen' = listen
  BY <1>1 DEF Same, exchangeVars, ExchangeInv, ShapeInv, CallInv, CallAt, DialInv, LinkInv,
              LinkAt, PortInv
<1>2. ASSUME NEW where, Goto(t, where), ExchangeInv',
             \A u \in Tasks \ {t} : listen'[u] = listen[u],
             listen'[t].pc # "out" <=> where \in {"autoWork", "manualWork"}
      PROVE  ExchangeInv' /\ WorkInv'
  <2>1. pc'[t] = where /\ \A u \in Tasks \ {t} : pc'[u] = pc[u]
    BY <1>0, <1>2 DEF Goto
  <2> QED  BY <1>0, <1>2, <2>1 DEF WorkInv, Working
<1>3. CASE ManualRefused(t) /\ Same
  BY <1>1, <1>3 DEF ManualRefused, vars, WorkInv, Working
<1>4. CASE (\/ ManualTry(t) \/ Request(t) \/ ManualDropped(t)
            \/ ManualUnlock(t) \/ Reset(t) \/ ManualLeave(t)) /\ Same
  <2>1. listen[t].pc = "out"
    BY <1>0, <1>4
    DEF ManualTry, Request, ManualDropped, ManualUnlock, Reset, ManualLeave, Working
  <2> QED  BY <1>1, <1>2, <1>4, <2>1
           DEF ManualTry, Request, ManualDropped, ManualUnlock, Reset, ManualLeave
<1>5. CASE ManualLock(t) /\ Exchange!Listen(t)
  BY <1>0, <1>2, <1>5, ListenStep DEF ManualLock
<1>6. CASE ManualEnd(t) /\ Exchange!Leave(t)
  <2>1. ExchangeInv' /\ listen'[t].pc = "out" /\ \A u \in Tasks \ {t} : listen'[u] = listen[u]
    BY <1>0, <1>6, LeaveStep DEF Exchange!Leave
  <2> QED  BY <1>2, <1>6, <2>1 DEF ManualEnd
<1>7. CASE ManualEnd(t) /\ Exchange!Drop(t)
  BY <1>0, <1>2, <1>7, DropStep DEF ManualEnd
<1> QED  BY <1>3, <1>4, <1>5, <1>6, <1>7 DEF UserCall

LEMMA PairingInvariance == PairingSpec => [](TypeOK /\ OnePairing /\ ExchangeInv /\ WorkInv)
<1>1. TypeOK /\ ExchangeInv /\ WorkInv /\ [PairingNext]_pairingVars => ExchangeInv' /\ WorkInv'
  <2>1. ASSUME ExchangeInv, WorkInv, UNCHANGED pairingVars PROVE ExchangeInv' /\ WorkInv'
    BY <2>1 DEF pairingVars, exchangeVars, vars, ExchangeInv, ShapeInv, CallInv, CallAt,
                DialInv, LinkInv, LinkAt, PortInv, WorkInv, Working
  <2> QED  BY <2>1, AutoCallStep, UserCallStep, WorkStep DEF PairingNext
<1>2. IInv => TypeOK
  BY DEF IInv
<1>3. PairingInit => ExchangeInv /\ WorkInv
  BY ExchangeInit
<1> QED  BY <1>1, <1>2, <1>3, PairingRefines, Invariance, OnePairingCorrect, PTL DEF PairingSpec

(* Whatever calls are made, dropped or killed, a call is in an exchange    *)
(* only while the coordinator lets it work.                                *)
THEOREM PairingTypeCorrect == PairingSpec => []PairingTypeOK
<1>1. TypeOK /\ ExchangeInv /\ WorkInv => PairingTypeOK
  BY DEF PairingTypeOK, ExchangeInv, ShapeInv, CallInv, CallAt, WorkInv, Serving, Places,
         DialPlaces, Links, Conns, Exchange!ExchangeTypeOK, Exchange!Conns
<1> QED  BY <1>1, PairingInvariance, PTL

(* The port is free for whoever is let to pair, however the call before it *)
(* ended.                                                                  *)
THEOREM PortFreeCorrect == PairingSpec => []PortFree
<1>1. OnePairing /\ ExchangeInv /\ WorkInv => PortFree
  BY DEF ExchangeInv, ShapeInv, PortInv, WorkInv, OnePairing, PortFree, Serving
<1> QED  BY <1>1, PairingInvariance, PTL

(* Neither device saves a key the other has not proved to have.            *)
THEOREM SameKeyCorrect == PairingSpec => []SameKey
<1>1. ExchangeInv => SameKey
  BY DEF ExchangeInv, LinkInv, LinkAt, SameKey, Exchange!SameKey, Conns
<1> QED  BY <1>1, PairingInvariance, PTL

(* A pairing nobody cut short pairs both devices or neither.               *)
THEOREM BothOrNeitherCorrect == PairingSpec => []BothOrNeither
<1>1. ExchangeInv => BothOrNeither
  <2> SUFFICES ASSUME ExchangeInv, NEW n \in Conns, link[n].server = "closed",
                      link[n].client = "closed", ~link[n].hurt
               PROVE  link[n].kept \in {{}, {"server", "client"}}
    BY DEF BothOrNeither, Exchange!BothOrNeither, Conns
  <2>1. link[n].kept \subseteq {"server", "client"} /\ LinkAt(n)
    BY DEF ExchangeInv, ShapeInv, Links, LinkInv
  <2>2. ~(dial.pc = "save" /\ dial.conn = n)
    BY DEF ExchangeInv, DialInv
  <2>3. link[n].kept # {} => "client" \in link[n].kept /\ "server" \in link[n].kept
    BY <2>1, <2>2 DEF LinkAt
  <2> QED  BY <2>1, <2>3
<1> QED  BY <1>1, PairingInvariance, PTL
=============================================================================
