------------------------- MODULE SasayakiAgreement -------------------------
(***************************************************************************)
(* What two clients have in common, proved: that both ends of a contact    *)
(* come from one handshake and are not ahead of each other (PeersAgree),   *)
(* that every thread has a thread state of its own (ThreadsAreFresh), and  *)
(* that mailboxes are in order (MailboxInOrder).                           *)
(*                                                                         *)
(* Everything a client has of another one goes back to what that one has   *)
(* in its database at this moment: the row of the contact that a handshake *)
(* message was sent for, the conversation that a text was sent in.  A      *)
(* client writes both before it sends, and what it executes later keeps    *)
(* them, as long as contacts are not deleted.                              *)
(***************************************************************************)
EXTENDS SasayakiDelivery, FiniteSets, FiniteSetTheorems

-----------------------------------------------------------------------------
(* Mailboxes are in order *)

\* A request that the hub may still serve is on the connection in use.
OnlyInUse ==
    \A k \in Conns : conn[k].up /\ conn[k].req # Null => hubConn[conn[k].owner] = k

\* The texts of a mailbox are in the order in which they were typed.
BoxOrdered(box, n) ==
    /\ \A i \in DOMAIN box : LET x == box[i].content IN
          x.kind = "aead" => x.from \in Clients /\ x.text.no <= n[x.from]
    /\ \A i, j \in DOMAIN box :
          LET x == box[i].content    y == box[j].content IN
          (i < j /\ x.kind = "aead" /\ y.kind = "aead" /\ x.from = y.from) =>
              x.text.no < y.text.no

\* The text ct of c was typed after all texts of c in the mailbox.
ComesAfter(c, ct, box) ==
    \A i \in DOMAIN box : LET x == box[i].content IN
        x.kind = "aead" /\ x.from = c => x.text.no < ct.text.no

Newest(c, ct, boxes, n) ==
    /\ ct.from = c /\ ct.text.no <= n[c]
    /\ \A p \in Clients : ComesAfter(c, ct, boxes[p])

BoxesOrdered == \A p \in Clients : BoxOrdered(pending[p], draws)
WiresOrdered ==
    \A k \in Conns : conn[k].up /\ Texting(conn[k].req) =>
        Newest(conn[k].owner, conn[k].req.content, pending, draws)
AsksOrdered ==
    \A c \in Clients, w \in Workers : Texting(op[c][w].ask) /\ CanAsk(c) =>
        Newest(c, op[c][w].ask.content, pending, draws)

Ordered == ConnsOwned /\ OnlyInUse /\ BoxesOrdered /\ WiresOrdered /\ AsksOrdered

\* What OneCall, the types and the connections give to every step.
LEMMA OrderedTypes ==
    ASSUME IInv
    PROVE  /\ pending \in [Clients -> Seq(Msgs)]
           /\ draws \in [Clients -> Nat]
           /\ op \in [Clients -> [Workers -> Calls]]
           /\ conn \in [Conns -> Wires]
           /\ hubConn \in [Clients -> Conns \cup {Null}]
  BY MaxDrawsAssumption DEF IInv, TypeOK

\* A text that was typed just now is newer than all that was sent.
LEMMA TypedNewest ==
    ASSUME NEW boxes, NEW n \in [Clients -> Nat], NEW m \in [Clients -> Nat],
           \A p \in Clients : BoxOrdered(boxes[p], n),
           NEW c \in Clients, NEW ct, ct.from = c, ct.text.no = n[c] + 1, m[c] = n[c] + 1,
           \A p \in Clients : \A i \in DOMAIN boxes[p] :
              boxes[p][i].content.kind = "aead" => boxes[p][i].content.text.no \in Nat
    PROVE  Newest(c, ct, boxes, m)
<1>1. ASSUME NEW p \in Clients PROVE ComesAfter(c, ct, boxes[p])
  <2>1. BoxOrdered(boxes[p], n)
    OBVIOUS
  <2>2. ASSUME NEW i \in DOMAIN boxes[p], boxes[p][i].content.kind = "aead",
               boxes[p][i].content.from = c
        PROVE  boxes[p][i].content.text.no < ct.text.no
    <3>1. boxes[p][i].content.text.no <= n[c] /\ boxes[p][i].content.text.no \in Nat
      BY <2>1, <2>2 DEF BoxOrdered
    <3> QED
      BY <3>1
  <2> QED
    BY <2>2 DEF ComesAfter
<1> QED
  BY <1>1 DEF Newest

\* More draws change nothing.
LEMMA MoreDraws ==
    ASSUME NEW n \in [Clients -> Nat], NEW m \in [Clients -> Nat],
           \A q \in Clients : n[q] <= m[q]
    PROVE  /\ \A c \in Clients : \A ct \in Contents : \A boxes :
                 ct.kind = "aead" /\ Newest(c, ct, boxes, n) => Newest(c, ct, boxes, m)
           /\ \A box \in Seq(Msgs) : BoxOrdered(box, n) => BoxOrdered(box, m)
<1>1. \A ct \in Contents : ct.kind = "aead" => ct.text.no \in Nat
  BY ContentsKinds DEF Texts
<1>2. ASSUME NEW c \in Clients, NEW ct \in Contents, NEW boxes, ct.kind = "aead",
             Newest(c, ct, boxes, n)
      PROVE  Newest(c, ct, boxes, m)
  <2>1. ct.text.no \in Nat /\ ct.text.no <= n[c] /\ n[c] <= m[c]
    BY <1>1, <1>2 DEF Newest
  <2>2. ct.text.no <= m[c]
    BY <2>1
  <2> QED
    BY <1>2, <2>2 DEF Newest
<1>3. ASSUME NEW box \in Seq(Msgs), BoxOrdered(box, n) PROVE BoxOrdered(box, m)
  <2>1. ASSUME NEW i \in DOMAIN box, box[i].content.kind = "aead"
        PROVE  box[i].content.from \in Clients /\ box[i].content.text.no <= m[box[i].content.from]
    <3>1. box[i] \in Msgs
      OBVIOUS
    <3>2. box[i].content \in Contents
      BY <3>1 DEF Msgs, H!Messages
    <3>3. box[i].content.text.no \in Nat
      BY <1>1, <2>1, <3>2
    <3>4. box[i].content.from \in Clients /\ box[i].content.text.no <= n[box[i].content.from]
      BY <1>3, <2>1 DEF BoxOrdered
    <3>5. n[box[i].content.from] <= m[box[i].content.from]
      BY <3>4
    <3> QED
      BY <3>3, <3>4, <3>5
  <2> QED
    BY <1>3, <2>1 DEF BoxOrdered
<1> QED
  BY <1>2, <1>3

\* What the texts of a mailbox have.
LEMMA BoxTexts ==
    ASSUME NEW box \in Seq(Msgs), NEW i \in DOMAIN box, box[i].content.kind = "aead"
    PROVE  box[i].content.text.no \in Nat
<1>1. box[i] \in Msgs
  OBVIOUS
<1>2. box[i].content \in Contents
  BY <1>1 DEF Msgs, H!Messages
<1> QED
  BY <1>2, ContentsKinds DEF Texts

\* A message joins a mailbox: it is the newest of its sender's.
LEMMA BoxAppended ==
    ASSUME NEW n, NEW box \in Seq(Msgs), BoxOrdered(box, n), NEW m \in Msgs,
           m.content.kind = "aead" =>
              /\ m.content.from \in Clients /\ m.content.text.no <= n[m.content.from]
              /\ ComesAfter(m.content.from, m.content, box),
           NEW new, IsAppended(box, m, new)
    PROVE  /\ BoxOrdered(new, n)
           /\ \A c, ct : /\ ComesAfter(c, ct, box)
                         /\ m.content.kind = "aead" => m.content.from # c
                         => ComesAfter(c, ct, new)
<1>1. /\ Len(box) \in Nat /\ DOMAIN box = 1 .. Len(box)
      /\ DOMAIN new = DOMAIN box \cup {Len(box) + 1} /\ new[Len(box) + 1] = m
      /\ \A i \in DOMAIN box : new[i] = box[i]
  BY DEF IsAppended
<1>2. ASSUME NEW i \in DOMAIN new PROVE i \in DOMAIN box \/ (i = Len(box) + 1 /\ new[i] = m)
  BY <1>1
<1>3. ASSUME NEW i \in DOMAIN new, NEW j \in DOMAIN new, i < j PROVE i \in DOMAIN box
  BY <1>1, <1>3
<1>4. ASSUME NEW i \in DOMAIN new, new[i].content.kind = "aead"
      PROVE  /\ new[i].content.from \in Clients
             /\ new[i].content.text.no <= n[new[i].content.from]
  BY <1>1, <1>2, <1>4 DEF BoxOrdered
<1>5. ASSUME NEW i \in DOMAIN new, NEW j \in DOMAIN new, i < j,
             new[i].content.kind = "aead", new[j].content.kind = "aead",
             new[i].content.from = new[j].content.from
      PROVE  new[i].content.text.no < new[j].content.text.no
  <2>1. i \in DOMAIN box /\ new[i] = box[i]
    BY <1>1, <1>3, <1>5
  <2>2. CASE j \in DOMAIN box
    BY <1>1, <1>5, <2>1, <2>2 DEF BoxOrdered
  <2>3. CASE new[j] = m
    BY <1>5, <2>1, <2>3 DEF ComesAfter
  <2> QED
    BY <1>2, <2>2, <2>3
<1>6. BoxOrdered(new, n)
  BY <1>4, <1>5 DEF BoxOrdered
<1>7. ASSUME NEW c, NEW ct, ComesAfter(c, ct, box),
             m.content.kind = "aead" => m.content.from # c
      PROVE  ComesAfter(c, ct, new)
  BY <1>1, <1>2, <1>7 DEF ComesAfter
<1> QED
  BY <1>6, <1>7

\* The oldest message leaves a mailbox.
LEMMA BoxShortened ==
    ASSUME NEW n, NEW box \in Seq(Msgs), BoxOrdered(box, n), box # <<>>
    PROVE  /\ BoxOrdered(Tail(box), n)
           /\ \A c, ct : ComesAfter(c, ct, box) => ComesAfter(c, ct, Tail(box))
<1> DEFINE new == Tail(box)
<1>1. \A i \in DOMAIN new : i + 1 \in DOMAIN box /\ new[i] = box[i + 1] /\ i \in Nat
  OBVIOUS
<1>2. \A i, j \in DOMAIN new : i < j => i + 1 < j + 1
  BY <1>1
<1> HIDE DEF new
<1>3. BoxOrdered(new, n)
  <2>1. ASSUME NEW i \in DOMAIN new, new[i].content.kind = "aead"
        PROVE  /\ new[i].content.from \in Clients
               /\ new[i].content.text.no <= n[new[i].content.from]
    BY <1>1, <2>1 DEF BoxOrdered
  <2>2. ASSUME NEW i \in DOMAIN new, NEW j \in DOMAIN new, i < j,
               new[i].content.kind = "aead", new[j].content.kind = "aead",
               new[i].content.from = new[j].content.from
        PROVE  new[i].content.text.no < new[j].content.text.no
    <3>1. i + 1 < j + 1 /\ i + 1 \in DOMAIN box /\ j + 1 \in DOMAIN box
      BY <1>1, <1>2, <2>2
    <3>2. new[i] = box[i + 1] /\ new[j] = box[j + 1]
      BY <1>1
    <3> QED
      BY <2>2, <3>1, <3>2 DEF BoxOrdered
  <2> QED
    BY <2>1, <2>2 DEF BoxOrdered
<1>4. \A c, ct : ComesAfter(c, ct, box) => ComesAfter(c, ct, new)
  BY <1>1 DEF ComesAfter
<1> QED
  BY <1>3, <1>4 DEF new

\* The hub serves a request.
LEMMA ServedOrdered ==
    ASSUME NEW n, NEW boxes \in [Clients -> Seq(Msgs)],
           \A p \in Clients : BoxOrdered(boxes[p], n),
           NEW who \in Clients, NEW req \in Reqs, req # Null,
           Texting(req) => Newest(who, req.content, boxes, n),
           NEW new, new = H!Served(boxes, who, req)
    PROVE  /\ \A p \in Clients : BoxOrdered(new[p], n)
           /\ \A c, ct : Newest(c, ct, boxes, n) /\ (Texting(req) => c # who) =>
                 Newest(c, ct, new, n)
<1>1. CASE req.type = "SendMessage"
  <2> DEFINE m == [from |-> who, convo |-> req.convo, content |-> req.content]
             box == boxes[req.to]
  <2>1. req.to \in Clients /\ req.convo \in Draws /\ req.content \in Contents
    BY <1>1 DEF Reqs, H!Requests
  <2>2. m \in Msgs /\ box \in Seq(Msgs) /\ m.content = req.content
    BY <2>1 DEF Msgs, H!Messages
  <2>3. m.content.kind = "aead" =>
           /\ Texting(req) /\ m.content.from = who
           /\ m.content.text.no <= n[who] /\ ComesAfter(who, m.content, box)
    BY <1>1, <2>1, <2>2 DEF Texting, Newest
  <2>4. new = boxes \/ new = [boxes EXCEPT ![req.to] = Append(box, m)]
    BY <1>1 DEF H!Served, H!handleSendMessage
  <2>5. CASE new = boxes
    BY <2>5
  <2>6. CASE new = [boxes EXCEPT ![req.to] = Append(box, m)]
    <3>1. /\ IsAppended(box, m, new[req.to])
          /\ \A p \in Clients \ {req.to} : new[p] = boxes[p]
      BY <2>1, <2>6 DEF IsAppended
    <3>2. BoxOrdered(box, n)
      BY <2>1
    <3> HIDE DEF m, box
    <3>3. /\ BoxOrdered(new[req.to], n)
          /\ \A c, ct : /\ ComesAfter(c, ct, box)
                        /\ m.content.kind = "aead" => m.content.from # c
                        => ComesAfter(c, ct, new[req.to])
      BY <2>2, <2>3, <3>1, <3>2, BoxAppended
    <3>4. \A p \in Clients : BoxOrdered(new[p], n)
      BY <3>1, <3>3
    <3>5. ASSUME NEW c, NEW ct, Newest(c, ct, boxes, n), Texting(req) => c # who
          PROVE  Newest(c, ct, new, n)
      <4>1. ComesAfter(c, ct, new[req.to])
        BY <2>1, <2>3, <3>3, <3>5 DEF Newest, box
      <4>2. \A p \in Clients : ComesAfter(c, ct, new[p])
        BY <3>1, <3>5, <4>1 DEF Newest
      <4> QED
        BY <3>5, <4>2 DEF Newest
    <3> QED
      BY <3>4, <3>5
  <2> QED
    BY <2>4, <2>5, <2>6
<1>2. CASE req.type # "SendMessage"
  <2> DEFINE box == boxes[who]
  <2>1. \/ new = boxes
        \/ box # <<>> /\ new = [boxes EXCEPT ![who] = Tail(box)]
    BY <1>2 DEF H!Served, H!handleGetNextMessage
  <2>2. CASE new = boxes
    BY <2>2
  <2>3. CASE box # <<>> /\ new = [boxes EXCEPT ![who] = Tail(box)]
    <3>1. /\ new[who] = Tail(box) /\ box \in Seq(Msgs) /\ BoxOrdered(box, n)
          /\ \A p \in Clients \ {who} : new[p] = boxes[p]
      BY <2>3
    <3> HIDE DEF box
    <3>2. /\ BoxOrdered(new[who], n)
          /\ \A c, ct : ComesAfter(c, ct, box) => ComesAfter(c, ct, new[who])
      BY <2>3, <3>1, BoxShortened
    <3>3. \A c, ct : Newest(c, ct, boxes, n) => Newest(c, ct, new, n)
      BY <3>1, <3>2 DEF Newest, box
    <3> QED
      BY <3>1, <3>2, <3>3
  <2> QED
    BY <2>1, <2>2, <2>3
<1> QED
  BY <1>1, <1>2

\* A call begins; a text that it is to send is typed in it.
LEMMA BeginOrdered ==
    ASSUME IInv, IInv', Ordered, NEW c \in Clients, NEW w \in Workers, NEW call,
           Begin(c, w, call), \A q \in Clients \ {c} : draws'[q] = draws[q],
           draws[c] <= draws'[c],
           Texting(call.ask) => /\ draws'[c] = draws[c] + 1
                                /\ call.ask.content.from = c
                                /\ call.ask.content.text.no = draws[c] + 1
    PROVE  Ordered'
<1>1. /\ op' = [op EXCEPT ![c][w] = call]
      /\ UNCHANGED <<db, hubConn, conn, pending, sent>>
      /\ \A v \in Workers : op[c][v] = Idle
  BY DEF Begin, MutexFree
<1>2. /\ \A q \in Clients \ {c} : op'[q] = op[q]
      /\ \A v \in Workers \ {w} : op'[c][v] = Idle
      /\ op'[c][w] = call
  BY <1>1, OrderedTypes
<1>3. /\ draws \in [Clients -> Nat] /\ draws' \in [Clients -> Nat]
      /\ \A q \in Clients : draws[q] <= draws'[q]
      /\ pending \in [Clients -> Seq(Msgs)]
  <2>1. draws' \in [Clients -> Nat]
    BY MaxDrawsAssumption DEF IInv, TypeOK
  <2>2. \A q \in Clients : draws[q] <= draws'[q]
    <3>1. \A q \in Clients : draws[q] \in Nat
      BY OrderedTypes
    <3> QED
      BY <3>1
  <2> QED
    BY <2>1, <2>2, OrderedTypes
<1>4. \A p \in Clients : BoxOrdered(pending[p], draws)
  BY DEF Ordered, BoxesOrdered
<1>5. BoxesOrdered'
  <2>1. \A p \in Clients : BoxOrdered(pending[p], draws')
    BY <1>3, <1>4, MoreDraws
  <2> QED
    BY <1>1, <2>1 DEF BoxesOrdered
<1>6. ASSUME NEW q \in Clients, NEW req \in Reqs \cup {Null}, Texting(req),
             Newest(q, req.content, pending, draws)
      PROVE  Newest(q, req.content, pending, draws')
  <2>1. req.content \in Contents /\ req.content.kind = "aead"
    BY <1>6 DEF Texting, Reqs, H!Requests
  <2> QED
    BY <1>3, <1>6, <2>1, MoreDraws
<1>7. WiresOrdered'
  <2>1. ASSUME NEW k \in Conns, conn[k].up, Texting(conn[k].req)
        PROVE  Newest(conn[k].owner, conn[k].req.content, pending, draws')
    <3>1. conn[k].req \in Reqs \cup {Null} /\ conn[k].req # Null
      BY <2>1, OrderedTypes DEF Wires, Texting
    <3>2. conn[k].owner \in Clients
      BY <3>1 DEF IInv, RequestsOwned
    <3> QED
      BY <1>6, <2>1, <3>1, <3>2 DEF Ordered, WiresOrdered
  <2> QED
    BY <1>1, <2>1 DEF WiresOrdered
<1>8. AsksOrdered'
  <2>1. \A q \in Clients : CanAsk(q)' <=> CanAsk(q)
    BY <1>1 DEF CanAsk, Exchanging
  <2>2. ~Texting(Idle.ask)
    BY DEF Idle, Call, Texting
  <2>3. ASSUME NEW q \in Clients \ {c}, NEW v \in Workers, Texting(op[q][v].ask), CanAsk(q)
        PROVE  Newest(q, op[q][v].ask.content, pending, draws')
    <3>1. op[q][v].ask \in Reqs \cup {Null}
      BY OrderedTypes DEF Calls
    <3> QED
      BY <1>6, <2>3, <3>1 DEF Ordered, AsksOrdered
  <2>4. ASSUME Texting(call.ask) PROVE Newest(c, call.ask.content, pending, draws')
    <3>1. \A p \in Clients : \A i \in DOMAIN pending[p] :
             pending[p][i].content.kind = "aead" => pending[p][i].content.text.no \in Nat
      BY <1>3, BoxTexts
    <3> QED
      BY <1>3, <1>4, <2>4, <3>1, TypedNewest
  <2> QED
    BY <1>1, <1>2, <2>1, <2>2, <2>3, <2>4 DEF AsksOrdered
<1> QED
  BY <1>1, <1>5, <1>7, <1>8 DEF Ordered, ConnsOwned, OnlyInUse

\* Each call types its text with the draw that it makes.
LEMMA CallsOrdered ==
    ASSUME IInv, IInv', Ordered, NEW c \in Clients, NEW w \in Workers, NEW p \in Clients,
           \/ aliceAddContact(c, w, p)
           \/ bobAcceptContact(c, w, p)
           \/ doDeleteContact(c, w, p)
           \/ \E size \in Sizes :
                 \/ sendNewThread(c, w, p, size)
                 \/ \E id \in Draws : sendInConvo(c, w, id, p, size)
           \/ getNextMessage(c, w)
    PROVE  Ordered'
<1>1. ASSUME NEW call, Begin(c, w, call), Draw(c),
             Texting(call.ask) => /\ call.ask.content.from = c
                                  /\ call.ask.content.text.no = draws[c] + 1
      PROVE  Ordered'
  <2>1. draws' = [draws EXCEPT ![c] = draws[c] + 1] /\ draws \in [Clients -> Nat]
    BY <1>1, OrderedTypes DEF Draw
  <2>2. /\ draws'[c] = draws[c] + 1 /\ draws[c] <= draws'[c]
        /\ \A q \in Clients \ {c} : draws'[q] = draws[q]
    BY <2>1
  <2> QED
    BY <1>1, <2>2, BeginOrdered
<1>2. ASSUME NEW call, Begin(c, w, call), UNCHANGED draws, ~Texting(call.ask)
      PROVE  Ordered'
  <2>1. draws[c] <= draws'[c]
    <3>1. draws[c] \in Nat
      BY OrderedTypes
    <3> QED
      BY <1>2, <3>1
  <2> QED
    BY <1>2, <2>1, BeginOrdered
<1>3. \A writes, ask, after : Call(writes, ask, after).ask = ask
  BY DEF Call
<1>4. CASE aliceAddContact(c, w, p)
  <2>1. ~Texting(H!SendMessage(p, Fresh(c), FirstHandshakeMessage(Fresh(c)), "hex" \in Mended))
    BY TextsAsked DEF FirstHandshakeMessage
  <2>2. /\ Draw(c)
        /\ Begin(c, w, Call(<<addContact(p, Fresh(c))>>,
                            H!SendMessage(p, Fresh(c),
                                          FirstHandshakeMessage(Fresh(c)),
                                          "hex" \in Mended), <<>>))
    BY <1>4 DEF aliceAddContact
  <2> QED
    BY <1>1, <1>3, <2>1, <2>2
<1>5. CASE bobAcceptContact(c, w, p)
  <2> DEFINE blob == db[c].contacts[p].blob
             ask == IF "forward" \in Mended
                    THEN H!SendMessage(p, Fresh(c), SecondHandshakeMessage(blob, Fresh(c)), TRUE)
                    ELSE Null
             ws == <<finalizeContact(p, ThreadState(blob.init, Fresh(c), "responder"),
                                        ThreadState(blob.init, Fresh(c), "initiator"))>>
  <2>1. ~Texting(ask)
    BY TextsAsked DEF SecondHandshakeMessage
  <2>2. Draw(c) /\ Begin(c, w, Call(ws, ask, <<>>))
    BY <1>5 DEF bobAcceptContact
  <2> HIDE DEF ask, ws
  <2> QED
    BY <1>1, <1>3, <2>1, <2>2
<1>6. CASE doDeleteContact(c, w, p)
  <2>1. Begin(c, w, Call(<<deleteContact(p)>>, Null, <<>>)) /\ UNCHANGED draws
    BY <1>6 DEF doDeleteContact
  <2> QED
    BY <1>2, <1>3, <2>1, TextsAsked
<1>7. CASE getNextMessage(c, w)
  <2>1. Begin(c, w, Call(<<>>, H!GetNextMessage, <<>>)) /\ UNCHANGED draws
    BY <1>7 DEF getNextMessage
  <2> QED
    BY <1>2, <1>3, <2>1, TextsAsked
<1>8. ASSUME NEW size, NEW s, NEW id
      PROVE  LET ct == encryptMessage(s, id, c, p, Typed(c, size)) IN
             Texting(ToHub(id, ct)) => /\ ToHub(id, ct).content.from = c
                                       /\ ToHub(id, ct).content.text.no = draws[c] + 1
  <2>1. LET ct == encryptMessage(s, id, c, p, Typed(c, size)) IN
        ct.from = c /\ ct.text.no = draws[c] + 1
    BY DEF encryptMessage, Typed
  <2> QED
    BY <2>1, TextsAsked
<1>9. ASSUME NEW size \in Sizes, sendNewThread(c, w, p, size) PROVE Ordered'
  <2> DEFINE id == Fresh(c)
             s1 == InitiatorThread(db[c].contacts[p].c1)
             ask == ToHub(id, encryptMessage(s1, id, c, p, Typed(c, size)))
  <2>1. Draw(c) /\ \E ws : Begin(c, w, Call(ws, ask, <<>>))
    BY <1>9 DEF sendNewThread
  <2>2. Texting(ask) => ask.content.from = c /\ ask.content.text.no = draws[c] + 1
    BY <1>8
  <2> HIDE DEF ask
  <2> QED
    BY <1>1, <1>3, <2>1, <2>2
<1>10. ASSUME NEW size \in Sizes, NEW id \in Draws, sendInConvo(c, w, id, p, size)
       PROVE  Ordered'
  <2> DEFINE s1 == db[c].convos[id].c1
             ask == ToHub(id, encryptMessage(s1, id, c, p, Typed(c, size)))
  <2>1. Draw(c) /\ \E ws, after : Begin(c, w, Call(ws, ask, after))
    BY <1>10 DEF sendInConvo
  <2>2. Texting(ask) => ask.content.from = c /\ ask.content.text.no = draws[c] + 1
    BY <1>8
  <2> HIDE DEF ask
  <2> QED
    BY <1>1, <1>3, <2>1, <2>2
<1> QED
  BY <1>4, <1>5, <1>6, <1>7, <1>9, <1>10

\* Nothing but the ends of calls: what is left to ask was left to ask before.
LEMMA StillOrdered ==
    ASSUME IInv, Ordered, UNCHANGED <<draws, pending>>, ConnsOwned', OnlyInUse',
           \A q \in Clients, v \in Workers : Texting(op'[q][v].ask) /\ CanAsk(q)' =>
              op'[q][v].ask = op[q][v].ask /\ CanAsk(q),
           \A k \in Conns : conn'[k].up /\ Texting(conn'[k].req) =>
              /\ conn[k].up /\ conn'[k].req = conn[k].req
              /\ conn'[k].owner = conn[k].owner
    PROVE  Ordered'
<1>1. BoxesOrdered'
  BY DEF Ordered, BoxesOrdered
<1>2. WiresOrdered'
  BY DEF Ordered, WiresOrdered
<1>3. AsksOrdered'
  <2>1. AsksOrdered
    BY DEF Ordered
  <2> QED
    BY <2>1 DEF AsksOrdered
<1> QED
  BY <1>1, <1>2, <1>3 DEF Ordered

\* A statement is executed.
LEMMA WriteOrdered ==
    ASSUME IInv, Ordered, NEW c \in Clients, NEW w \in Workers, Write(c, w)
    PROVE  Ordered'
<1>1. /\ UNCHANGED <<draws, hubConn, conn, pending, sent>>
      /\ \/ op' = [op EXCEPT ![c][w] = Idle]
         \/ op' = [op EXCEPT ![c][w] = [op[c][w] EXCEPT !.writes = Tail(op[c][w].writes)]]
  BY DEF Write
<1>2. \A q \in Clients, v \in Workers : op'[q][v].ask = op[q][v].ask \/ op'[q][v] = Idle
  <2> DEFINE rest == [op[c][w] EXCEPT !.writes = Tail(op[c][w].writes)]
  <2>1. op[c][w] \in Calls /\ op \in [Clients -> [Workers -> Calls]]
    BY OrderedTypes
  <2>2. rest.ask = op[c][w].ask
    BY <2>1 DEF Calls
  <2>3. op' = [op EXCEPT ![c][w] = Idle] \/ op' = [op EXCEPT ![c][w] = rest]
    BY <1>1
  <2> HIDE DEF rest
  <2> QED
    BY <2>1, <2>2, <2>3
<1>3. ~Texting(Idle.ask)
  BY DEF Idle, Call, Texting
<1>4. \A q \in Clients : CanAsk(q)' <=> CanAsk(q)
  BY <1>1 DEF CanAsk, Exchanging
<1>5. ConnsOwned' /\ OnlyInUse'
  BY <1>1 DEF Ordered, ConnsOwned, OnlyInUse
<1> QED
  BY <1>1, <1>2, <1>3, <1>4, <1>5, StillOrdered

\* The request goes out.
LEMMA AskOrdered ==
    ASSUME IInv, Secrets, Ordered, NEW c \in Clients, NEW w \in Workers, Ask(c, w)
    PROVE  Ordered'
<1> DEFINE ask == op[c][w].ask
<1>0. /\ op \in [Clients -> [Workers -> Calls]] /\ conn \in [Conns -> Wires]
      /\ hubConn \in [Clients -> Conns \cup {Null}]
      /\ ask # Null
      /\ UNCHANGED <<db, op, draws, pending>>
  BY OrderedTypes DEF Ask, AtHub
<1>1. PICK k \in Conns :
         /\ IF hubConn[c] = Null THEN conn[k].owner = Null
            ELSE k = hubConn[c] /\ conn[k].up
         /\ hubConn' = [hubConn EXCEPT ![c] = k]
         /\ conn' = [conn EXCEPT ![k] = [owner |-> c, up |-> TRUE, req |-> ask, res |-> Null]]
  BY DEF Ask
<1>2. /\ conn[k].owner \in {c, Null} /\ hubConn[c] \in {k, Null}
      /\ \A q \in Clients \ {c} : hubConn'[q] = hubConn[q]
      /\ \A l \in Conns \ {k} : conn'[l] = conn[l]
      /\ hubConn'[c] = k /\ conn'[k].req = ask /\ conn'[k].res = Null
      /\ conn'[k].owner = c /\ k # Null
  BY <1>0, <1>1, WireAssumption DEF Ordered, ConnsOwned
<1>3. CanAsk(c) /\ ~CanAsk(c)'
  <2>1. CanAsk(c)
    BY DEF Ask, CanAsk
  <2>2. ~CanAsk(c)'
    BY <1>0, <1>2 DEF CanAsk, Exchanging
  <2> QED
    BY <2>1, <2>2
<1>4. \A q \in Clients \ {c} : CanAsk(q)' <=> CanAsk(q)
  <2>1. ConnsOwned
    BY DEF Ordered
  <2>2. \A q \in Clients : hubConn[q] \in Conns \cup {Null}
    BY <1>0
  <2> QED
    BY <1>2, <2>1, <2>2, OthersAsk
<1>5. ConnsOwned'
  <2>1. ASSUME NEW q \in Clients \ {c}, hubConn[q] # Null PROVE conn'[hubConn[q]].owner = q
    <3>1. hubConn[q] \in Conns /\ conn[hubConn[q]].owner = q
      BY <1>0, <2>1 DEF Ordered, ConnsOwned
    <3>2. hubConn[q] # k
      BY <1>2, <3>1, WireAssumption
    <3> QED
      BY <1>2, <3>1, <3>2
  <2> QED
    BY <1>2, <2>1 DEF ConnsOwned
<1>6. OnlyInUse'
  <2>1. ASSUME NEW l \in Conns \ {k}, conn[l].up, conn[l].req # Null
        PROVE  hubConn'[conn[l].owner] = l
    <3>1. hubConn[conn[l].owner] = l /\ conn[l].owner \in Clients
      BY <2>1 DEF Ordered, OnlyInUse, IInv, RequestsOwned
    <3>2. conn[l].owner # c
      BY <1>2, <3>1, WireAssumption
    <3> QED
      BY <1>2, <3>1, <3>2
  <2> QED
    BY <1>2, <2>1 DEF OnlyInUse
<1>7. WiresOrdered'
  <2>1. Texting(ask) => Newest(c, ask.content, pending, draws)
    BY <1>3 DEF Ordered, AsksOrdered
  <2> QED
    BY <1>0, <1>2, <2>1 DEF Ordered, WiresOrdered
<1>8. AsksOrdered'
  <2>1. AsksOrdered
    BY DEF Ordered
  <2> QED
    BY <1>0, <1>3, <1>4, <2>1 DEF AsksOrdered
<1> QED
  BY <1>0, <1>5, <1>6, <1>7, <1>8 DEF Ordered, BoxesOrdered

\* The answer comes in, or the client sees that the hub went down.
LEMMA EndOrdered ==
    ASSUME IInv, Secrets, Ordered, NEW c \in Clients, NEW w \in Workers,
           Receive(c, w) \/ ConnReset(c, w)
    PROVE  Ordered'
<1>0. /\ op \in [Clients -> [Workers -> Calls]] /\ conn \in [Conns -> Wires]
      /\ hubConn \in [Clients -> Conns \cup {Null}]
  BY OrderedTypes
<1>1. /\ op[c][w] # Idle /\ AtHub(c, w)
      /\ \A v \in Workers \ {w} : op[c][v] = Idle
  <2>1. AtHub(c, w)
    BY DEF Receive, ConnReset, GiveUp
  <2>2. op[c][w] # Idle
    BY <2>1 DEF AtHub, Idle, Call
  <2> QED
    BY <2>1, <2>2 DEF Secrets, OneCall
<1>2. Idle.ask = Null /\ \A ws : Call(ws, Null, <<>>).ask = Null
  BY DEF Idle, Call
<1>3. CASE Receive(c, w)
  <2> DEFINE k == hubConn[c]
  <2>1. /\ k # Null /\ k \in Conns
        /\ conn' = [conn EXCEPT ![k] = [conn[k] EXCEPT !.res = Null]]
        /\ \E new : op' = [op EXCEPT ![c][w] = new] /\ new.ask = Null
        /\ UNCHANGED <<draws, hubConn, pending>>
    BY <1>0, <1>2, <1>3 DEF Receive, Exchanging
  <2>2. /\ \A q \in Clients \ {c} : op'[q] = op[q]
        /\ \A v \in Workers : op'[c][v].ask = Null
    BY <1>0, <1>1, <1>2, <2>1
  <2>3. /\ conn[k].owner = c /\ \A l \in Conns \ {k} : conn'[l] = conn[l]
        /\ conn'[k].req = conn[k].req /\ conn'[k].up = conn[k].up
        /\ conn'[k].owner = conn[k].owner
    <3>1. conn[k].owner = c /\ conn[k] \in Wires
      BY <1>0, <2>1 DEF Ordered, ConnsOwned
    <3>2. /\ [conn[k] EXCEPT !.res = Null].req = conn[k].req
          /\ [conn[k] EXCEPT !.res = Null].up = conn[k].up
          /\ [conn[k] EXCEPT !.res = Null].owner = conn[k].owner
      BY <3>1 DEF Wires
    <3> QED
      BY <1>0, <2>1, <3>1, <3>2
  <2>4. \A q \in Clients \ {c} : CanAsk(q)' <=> CanAsk(q)
    <3>1. ConnsOwned
      BY DEF Ordered
    <3>2. \A q \in Clients : hubConn[q] \in Conns \cup {Null} /\ hubConn'[q] = hubConn[q]
      BY <1>0, <2>1
    <3> HIDE DEF k
    <3> QED
      BY <2>1, <2>3, <3>1, <3>2, OthersAsk
  <2>5. \A l \in Conns : /\ conn'[l].req = conn[l].req /\ conn'[l].up = conn[l].up
                         /\ conn'[l].owner = conn[l].owner
    BY <2>3
  <2>6. ConnsOwned' /\ OnlyInUse'
    BY <1>0, <2>1, <2>5 DEF Ordered, ConnsOwned, OnlyInUse
  <2>7. \A q \in Clients, v \in Workers : Texting(op'[q][v].ask) /\ CanAsk(q)' =>
           op'[q][v].ask = op[q][v].ask /\ CanAsk(q)
    BY <2>2, <2>4, TextsAsked
  <2> HIDE DEF k
  <2> QED
    BY <2>1, <2>5, <2>6, <2>7, StillOrdered
<1>4. CASE ConnReset(c, w)
  <2>1. /\ op' = [op EXCEPT ![c][w] = Idle]
        /\ hubConn' = [hubConn EXCEPT ![c] = Null]
        /\ ~conn[hubConn[c]].up
        /\ UNCHANGED <<draws, conn, pending>>
    BY <1>4 DEF ConnReset, GiveUp
  <2>2. /\ \A q \in Clients \ {c} : op'[q] = op[q] /\ hubConn'[q] = hubConn[q]
        /\ \A v \in Workers : op'[c][v] = Idle
        /\ hubConn'[c] = Null
    BY <1>0, <1>1, <2>1
  <2>3. ConnsOwned'
    BY <2>1, <2>2 DEF Ordered, ConnsOwned
  <2>4. OnlyInUse'
    <3>1. ASSUME NEW k \in Conns, conn[k].up, conn[k].req # Null
          PROVE  hubConn'[conn[k].owner] = k
      <4>1. conn[k].owner \in Clients /\ hubConn[conn[k].owner] = k
        BY <3>1 DEF Ordered, OnlyInUse, IInv, RequestsOwned
      <4>2. conn[k].owner # c
        BY <2>1, <3>1, <4>1
      <4> QED
        BY <2>2, <4>1, <4>2
    <3> QED
      BY <2>1, <3>1 DEF OnlyInUse
  <2>5. \A q \in Clients, v \in Workers : Texting(op'[q][v].ask) /\ CanAsk(q)' =>
           op'[q][v].ask = op[q][v].ask /\ CanAsk(q)
    <3>1. \A q \in Clients \ {c} : CanAsk(q)' <=> CanAsk(q)
      BY <2>1, <2>2 DEF CanAsk, Exchanging
    <3> QED
      BY <1>2, <2>2, <3>1, TextsAsked
  <2> QED
    BY <2>1, <2>3, <2>4, <2>5, StillOrdered
<1> QED
  BY <1>3, <1>4

\* A step of the hub.  The text that it appends is the newest of its sender, who
\* has no other one under way.
LEMMA HubOrdered ==
    ASSUME IInv, Ordered,
           \/ \E k \in Conns : handleClient(k) \/ hangUp(k)
           \/ hubRestart
    PROVE  Ordered'
<1>0. /\ conn \in [Conns -> Wires] /\ hubConn \in [Clients -> Conns \cup {Null}]
      /\ pending \in [Clients -> Seq(Msgs)]
      /\ UNCHANGED <<op, draws, hubConn>>
  BY OrderedTypes DEF handleClient, hangUp, hubRestart
<1>1. ASSUME NEW k \in Conns, handleClient(k) PROVE Ordered'
  <2> DEFINE who == conn[k].owner
             req == conn[k].req
             res == H!Answer(pending, who, req)
             new == [conn[k] EXCEPT !.req = Null, !.res = res]
  <2>1. /\ conn' = [conn EXCEPT ![k] = new] /\ pending' = H!Served(pending, who, req)
        /\ conn[k].up
    BY <1>1 DEF handleClient
  <2>2. conn'[k] = new /\ \A l \in Conns \ {k} : conn'[l] = conn[l]
    BY <1>0, <2>1
  <2>3. who \in Clients /\ req \in Reqs /\ req # Null
    BY <1>0, <1>1 DEF handleClient, IInv, RequestsOwned, Wires
  <2>4. res \in Resps /\ res # Null
    BY <2>3, AnswerType, WireAssumption
  <2>5. new.req = Null /\ new.res = res /\ new.owner = who
    BY <1>0 DEF Wires
  <2>6. hubConn[who] = k /\ k # Null
    BY <2>1, <2>3, WireAssumption DEF Ordered, OnlyInUse
  <2>7. Texting(req) => Newest(who, req.content, pending, draws)
    BY <2>1 DEF Ordered, WiresOrdered
  <2>8. \A p \in Clients : BoxOrdered(pending[p], draws)
    BY DEF Ordered, BoxesOrdered
  <2> HIDE DEF who, req, res, new
  <2>9. /\ \A p \in Clients : BoxOrdered(pending'[p], draws)
        /\ \A c, ct : Newest(c, ct, pending, draws) /\ (Texting(req) => c # who) =>
              Newest(c, ct, pending', draws)
    <3> DEFINE boxes == pending'
    <3>1. boxes = H!Served(pending, who, req)
      BY <2>1
    <3> HIDE DEF boxes
    <3>2. /\ \A p \in Clients : BoxOrdered(boxes[p], draws)
          /\ \A c, ct : Newest(c, ct, pending, draws) /\ (Texting(req) => c # who) =>
                Newest(c, ct, boxes, draws)
      BY <1>0, <2>3, <2>7, <2>8, <3>1, ServedOrdered
    <3> QED
      BY <3>2 DEF boxes
  <2>10. ~CanAsk(who) /\ \A q \in Clients : CanAsk(q)' => CanAsk(q)
    BY <1>0, <2>2, <2>3, <2>4, <2>5, <2>6 DEF CanAsk, Exchanging, req
  <2>11. ConnsOwned'
    <3>1. \A l \in Conns : conn'[l].owner = conn[l].owner
      BY <2>2, <2>5 DEF who
    <3> QED
      BY <1>0, <3>1 DEF Ordered, ConnsOwned
  <2>12. OnlyInUse'
    BY <1>0, <2>2, <2>5 DEF Ordered, OnlyInUse
  <2>13. BoxesOrdered'
    BY <1>0, <2>9 DEF BoxesOrdered
  <2>14. WiresOrdered'
    <3>1. ASSUME NEW l \in Conns \ {k}, conn[l].up, Texting(conn[l].req)
          PROVE  Newest(conn[l].owner, conn[l].req.content, pending', draws)
      <4>1. Newest(conn[l].owner, conn[l].req.content, pending, draws)
        BY <3>1 DEF Ordered, WiresOrdered
      <4>2. conn[l].owner # who
        BY <2>6, <3>1 DEF Ordered, OnlyInUse, Texting
      <4> QED
        BY <2>9, <4>1, <4>2
    <3> QED
      BY <1>0, <2>2, <2>5, <3>1, TextsAsked DEF WiresOrdered
  <2>15. AsksOrdered'
    <3>1. ASSUME NEW q \in Clients, NEW v \in Workers, Texting(op[q][v].ask), CanAsk(q)'
          PROVE  Newest(q, op[q][v].ask.content, pending', draws)
      <4>1. Newest(q, op[q][v].ask.content, pending, draws) /\ q # who
        BY <2>10, <3>1 DEF Ordered, AsksOrdered
      <4> QED
        BY <2>9, <4>1
    <3> QED
      BY <1>0, <3>1 DEF AsksOrdered
  <2> QED
    BY <2>11, <2>12, <2>13, <2>14, <2>15 DEF Ordered
<1>2. ASSUME NEW k \in Conns, hangUp(k) PROVE Ordered'
  <2>1. /\ conn' = [conn EXCEPT ![k] = NoConn] /\ UNCHANGED pending
        /\ conn[k].owner # Null /\ hubConn[conn[k].owner] # k
    BY <1>2 DEF hangUp
  <2>2. /\ conn'[k] = NoConn /\ \A l \in Conns \ {k} : conn'[l] = conn[l]
        /\ ~NoConn.up /\ NoConn.req = Null
    BY <1>0, <2>1 DEF NoConn
  <2>3. \A c \in Clients : hubConn[c] # Null => hubConn[c] # k /\ hubConn[c] \in Conns
    BY <1>0, <2>1 DEF Ordered, ConnsOwned
  <2>4. \A q \in Clients : CanAsk(q)' <=> CanAsk(q)
    BY <1>0, <2>2, <2>3 DEF CanAsk, Exchanging
  <2>5. ConnsOwned' /\ OnlyInUse'
    BY <1>0, <2>2, <2>3 DEF Ordered, ConnsOwned, OnlyInUse
  <2> QED
    BY <1>0, <2>1, <2>2, <2>4, <2>5, StillOrdered
<1>3. CASE hubRestart
  <2>1. /\ conn' = [k \in Conns |-> [conn[k] EXCEPT !.up = FALSE, !.req = Null]]
        /\ pending' = [c \in Clients |-> <<>>]
    BY <1>3 DEF hubRestart
  <2>2. \A k \in Conns : ~conn'[k].up /\ conn'[k].req = Null /\ conn'[k].owner = conn[k].owner
    BY <1>0, <2>1 DEF Wires
  <2>3. \A c \in Clients : \A i \in DOMAIN pending'[c] : FALSE
    <3>1. \A c \in Clients : pending'[c] = <<>>
      BY <2>1
    <3>2. \A i \in DOMAIN <<>> : FALSE
      OBVIOUS
    <3> QED
      BY <3>1, <3>2
  <2>4. BoxesOrdered'
    BY <2>3 DEF BoxesOrdered, BoxOrdered
  <2>5. WiresOrdered'
    BY <2>2 DEF WiresOrdered
  <2>6. \A q \in Clients : CanAsk(q)' => CanAsk(q)
    BY <1>0, <2>2 DEF CanAsk
  <2>7. AsksOrdered'
    <3>1. \A q \in Clients, v \in Workers : Texting(op[q][v].ask) /\ CanAsk(q) =>
             op[q][v].ask.content.from = q /\ op[q][v].ask.content.text.no <= draws[q]
      BY DEF Ordered, AsksOrdered, Newest
    <3> QED
      BY <1>0, <2>3, <2>6, <3>1 DEF AsksOrdered, Newest, ComesAfter
  <2>8. ConnsOwned' /\ OnlyInUse'
    BY <1>0, <2>2 DEF Ordered, ConnsOwned, OnlyInUse
  <2> QED
    BY <2>4, <2>5, <2>7, <2>8 DEF Ordered
<1> QED
  BY <1>1, <1>2, <1>3

\* The invariant, if no connection fails and no client is killed.
LEMMA OrderedInvariant ==
    ASSUME "conn" \notin Faults, "crash" \notin Faults
    PROVE  Spec => []Ordered
<1>1. Init => Ordered
  <2> SUFFICES ASSUME Init PROVE Ordered
    OBVIOUS
  <2>1. /\ \A i \in DOMAIN <<>> : FALSE
        /\ \A c \in Clients : /\ pending[c] = <<>> /\ hubConn[c] = Null
                              /\ \A w \in Workers : op[c][w] = Idle
        /\ \A k \in Conns : conn[k].req = Null /\ ~conn[k].up
    BY DEF Init, NoConn
  <2>2. ~Texting(Idle.ask)
    BY DEF Idle, Call, Texting
  <2> QED
    BY <2>1, <2>2 DEF Ordered, ConnsOwned, OnlyInUse, BoxesOrdered, BoxOrdered,
                      WiresOrdered, AsksOrdered
<1>2. IInv /\ IInv' /\ Secrets /\ Ordered /\ [Next]_vars => Ordered'
  <2> SUFFICES ASSUME IInv, IInv', Secrets, Ordered, [Next]_vars PROVE Ordered'
    OBVIOUS
  <2>1. CASE Next
    <3>1. ASSUME NEW c \in Clients, NEW w \in Workers, getNextMessage(c, w) PROVE Ordered'
      BY <3>1, CallsOrdered
    <3>2. ASSUME NEW c \in Clients, NEW w \in Workers, NEW p \in Clients \ {c},
                 \/ aliceAddContact(c, w, p)
                 \/ bobAcceptContact(c, w, p)
                 \/ doDeleteContact(c, w, p)
                 \/ \E size \in Sizes :
                       \/ sendNewThread(c, w, p, size)
                       \/ \E id \in Draws : sendInConvo(c, w, id, p, size)
          PROVE  Ordered'
      BY <3>2, CallsOrdered
    <3>3. \A c \in Clients, w \in Workers : ~ConnError(c, w) /\ ~Crash(c)
      BY DEF ConnError, Crash, Fault
    <3> QED
      BY <2>1, <3>1, <3>2, <3>3, WriteOrdered, AskOrdered, EndOrdered, HubOrdered DEF Next, Crash, Fault
  <2>2. CASE UNCHANGED vars
    BY <2>2 DEF vars, Ordered, ConnsOwned, OnlyInUse, BoxesOrdered, WiresOrdered,
                AsksOrdered, CanAsk, Exchanging
  <2> QED
    BY <2>1, <2>2
<1> QED
  BY <1>1, <1>2, TypeInvariant, SecretsInvariant, PTL DEF Spec

\* The hub hands out what one client sent in the order in which it was sent, as
\* long as no client gives a connection up that still works: restarts of the hub
\* empty the mailboxes and break what could have come late.
THEOREM HandsOutInOrder ==
    ASSUME "conn" \notin Faults, "crash" \notin Faults
    PROVE  Spec => []MailboxInOrder
<1>1. Ordered => MailboxInOrder
  BY DEF Ordered, BoxesOrdered, BoxOrdered, MailboxInOrder
<1> QED
  BY <1>1, OrderedInvariant, PTL

-----------------------------------------------------------------------------
(* A connection in use belongs to the client that uses it *)

\* Only hangUp takes a connection from its owner, and not while it is in use.
LEMMA OwnedStep ==
    ASSUME IInv, ConnsOwned, [Next]_vars
    PROVE  ConnsOwned'
<1>0. /\ conn \in [Conns -> Wires]
      /\ hubConn \in [Clients -> Conns \cup {Null}]
  BY DEF IInv, TypeOK
<1>1. CASE UNCHANGED <<hubConn, conn>>
  BY <1>1 DEF ConnsOwned
<1>2. ASSUME NEW c \in Clients, NEW w \in Workers, Ask(c, w) PROVE ConnsOwned'
  <2> DEFINE new == [owner |-> c, up |-> TRUE, req |-> op[c][w].ask, res |-> Null]
  <2>1. PICK k \in Conns :
           /\ IF hubConn[c] = Null THEN conn[k].owner = Null
              ELSE k = hubConn[c] /\ conn[k].up
           /\ hubConn' = [hubConn EXCEPT ![c] = k]
           /\ conn' = [conn EXCEPT ![k] = new]
    BY <1>2 DEF Ask
  <2>2. new.owner = c
    OBVIOUS
  <2> HIDE DEF new
  <2>3. /\ conn[k].owner \in {c, Null}
        /\ \A l \in Conns \ {k} : conn'[l] = conn[l]
        /\ hubConn'[c] = k /\ conn'[k].owner = c
        /\ \A q \in Clients \ {c} : hubConn'[q] = hubConn[q]
    BY <1>0, <2>1, <2>2 DEF ConnsOwned
  <2>4. ASSUME NEW q \in Clients \ {c}, hubConn[q] # Null PROVE conn'[hubConn[q]].owner = q
    <3>1. hubConn[q] \in Conns /\ conn[hubConn[q]].owner = q
      BY <1>0, <2>4 DEF ConnsOwned
    <3>2. hubConn[q] # k
      BY <2>3, <3>1, WireAssumption
    <3> QED
      BY <2>3, <3>1, <3>2
  <2> QED
    BY <2>3, <2>4 DEF ConnsOwned
<1>3. ASSUME NEW c \in Clients,
             hubConn' = [hubConn EXCEPT ![c] = Null] \/ UNCHANGED hubConn,
             \A k \in Conns : conn'[k].owner = conn[k].owner
      PROVE  ConnsOwned'
  <2>1. \A q \in Clients : hubConn'[q] # Null => hubConn'[q] = hubConn[q] /\ hubConn[q] \in Conns
    BY <1>0, <1>3
  <2> QED
    BY <1>3, <2>1 DEF ConnsOwned
<1>4. ASSUME NEW c \in Clients, NEW w \in Workers, Receive(c, w) PROVE ConnsOwned'
  <2> DEFINE k == hubConn[c]
             new == [conn[k] EXCEPT !.res = Null]
  <2>1. k # Null /\ conn' = [conn EXCEPT ![k] = new] /\ UNCHANGED hubConn
    BY <1>4 DEF Receive, Exchanging
  <2>2. k \in Conns /\ new.owner = conn[k].owner
    <3>1. k \in Conns /\ conn[k] \in Wires
      BY <1>0, <2>1
    <3> QED
      BY <3>1 DEF Wires
  <2> HIDE DEF k, new
  <2>3. \A l \in Conns : conn'[l].owner = conn[l].owner
    BY <1>0, <2>1, <2>2
  <2> QED
    BY <1>3, <2>1, <2>3
<1>5. ASSUME NEW c \in Clients,
             (\E w \in Workers : ConnError(c, w) \/ ConnReset(c, w)) \/ Crash(c)
      PROVE  ConnsOwned'
  <2>1. hubConn' = [hubConn EXCEPT ![c] = Null] /\ UNCHANGED conn
    BY <1>5 DEF ConnError, ConnReset, GiveUp, Crash
  <2> QED
    BY <1>3, <2>1
<1>6. ASSUME NEW k \in Conns, handleClient(k) PROVE ConnsOwned'
  <2> DEFINE new == [conn[k] EXCEPT !.req = Null,
                                    !.res = H!Answer(pending, conn[k].owner, conn[k].req)]
  <2>1. conn' = [conn EXCEPT ![k] = new] /\ UNCHANGED hubConn
    BY <1>6 DEF handleClient
  <2>2. new.owner = conn[k].owner
    <3>1. conn[k] \in Wires
      BY <1>0
    <3> QED
      BY <3>1 DEF Wires
  <2> HIDE DEF new
  <2>3. \A l \in Conns : conn'[l].owner = conn[l].owner
    BY <1>0, <2>1, <2>2
  <2> QED
    BY <2>1, <2>3, <1>0 DEF ConnsOwned
<1>7. ASSUME NEW k \in Conns, hangUp(k) PROVE ConnsOwned'
  <2>1. /\ conn' = [conn EXCEPT ![k] = NoConn] /\ UNCHANGED hubConn
        /\ hubConn[conn[k].owner] # k
    BY <1>7 DEF hangUp
  <2>2. \A c \in Clients : hubConn[c] # Null => hubConn[c] # k /\ hubConn[c] \in Conns
    BY <1>0, <2>1 DEF ConnsOwned
  <2> QED
    BY <1>0, <2>1, <2>2 DEF ConnsOwned
<1>8. CASE hubRestart
  <2>1. conn' = [k \in Conns |-> [conn[k] EXCEPT !.up = FALSE, !.req = Null]] /\ UNCHANGED hubConn
    BY <1>8 DEF hubRestart
  <2>2. \A k \in Conns : conn'[k].owner = conn[k].owner
    BY <1>0, <2>1 DEF Wires
  <2> QED
    BY <1>0, <2>1, <2>2 DEF ConnsOwned
<1>9. ASSUME NEW c \in Clients, NEW w \in Workers,
             \/ \E p \in Clients \ {c} :
                   \/ aliceAddContact(c, w, p)
                   \/ bobAcceptContact(c, w, p)
                   \/ doDeleteContact(c, w, p)
                   \/ \E size \in Sizes :
                         \/ sendNewThread(c, w, p, size)
                         \/ \E id \in Draws : sendInConvo(c, w, id, p, size)
             \/ getNextMessage(c, w)
             \/ Write(c, w)
      PROVE  UNCHANGED <<hubConn, conn>>
  BY <1>9 DEF aliceAddContact, bobAcceptContact, doDeleteContact, sendNewThread,
              sendInConvo, getNextMessage, Begin, Write
<1>10. CASE UNCHANGED vars
  BY <1>1, <1>10 DEF vars
<1> QED
  BY <1>1, <1>2, <1>4, <1>5, <1>6, <1>7, <1>8, <1>9, <1>10 DEF Next

LEMMA OwnedInvariant == Spec => []ConnsOwned
<1>1. Init => ConnsOwned
  BY DEF Init, ConnsOwned
<1>2. IInv /\ ConnsOwned /\ [Next]_vars => ConnsOwned'
  BY OwnedStep
<1> QED
  BY <1>1, <1>2, TypeInvariant, PTL DEF Spec

-----------------------------------------------------------------------------
(* No handshake message is delivered twice *)

\* The handshake message carries the ephemeral key x of its sender.
Carries(content, x) ==
    \/ content.kind = "first" /\ content.init = x
    \/ content.kind = "second" /\ content.resp = x

Sends(req) == req # Null /\ req.type = "SendMessage"
Hands(res) == res # Null /\ res.type = "message" /\ res.msg # Null

\* The row was made from a handshake message that carried x.
Heard(row, x) ==
    /\ row # Null
    /\ \/ row.tag = 1 /\ Carries(row.blob, x)
       \/ row.tag = 2 /\ row.c1.from = "initiator" /\ row.c1.resp = x
       \/ row.tag = 2 /\ row.c1.from = "responder" /\ row.c1.init = x
HeardIn(d, x) == \E p \in Clients : Heard(d.contacts[p], x)
HeardAlong(d, ws, x) ==
    \/ HeardIn(After1(d, ws), x) \/ HeardIn(After2(d, ws), x)
    \/ HeardIn(After3(d, ws), x) \/ HeardIn(After4(d, ws), x)

\* Where x may be: in what is left to ask, on the wire to the hub, in a mailbox,
\* on the wire from the hub, or in a database (or about to be).
Spots == {"ask", "req", "box", "res", "row"}
Owners == Clients \cup Conns
AskAt(c, x) ==
    /\ CanAsk(c)
    /\ \E w \in Workers : Sends(op[c][w].ask) /\ Carries(op[c][w].ask.content, x)
ReqAt(k, x) == Sends(conn[k].req) /\ Carries(conn[k].req.content, x)
BoxAt(c, x) == \E n \in DOMAIN pending[c] : Carries(pending[c][n].content, x)
ResAt(k, x) == Hands(conn[k].res) /\ Carries(conn[k].res.msg.content, x)
RowAt(c, x) ==
    \/ HeardIn(db[c], x)
    \/ \E w \in Workers : HeardAlong(db[c], op[c][w].writes, x)
At(spot, i, x) ==
    \/ spot = "ask" /\ i \in Clients /\ AskAt(i, x)
    \/ spot = "req" /\ i \in Conns /\ ReqAt(i, x)
    \/ spot = "box" /\ i \in Clients /\ BoxAt(i, x)
    \/ spot = "res" /\ i \in Conns /\ ResAt(i, x)
    \/ spot = "row" /\ i \in Clients /\ RowAt(i, x)

\* An ephemeral key is in one of these places only, and was drawn.
InOnePlace ==
    \A x \in Draws : \A s, t \in Spots, i, j \in Owners :
        At(s, i, x) /\ At(t, j, x) => s = t /\ i = j
InOneMessage ==
    \A c \in Clients, x \in Draws : \A m, n \in DOMAIN pending[c] :
        Carries(pending[c][m].content, x) /\ Carries(pending[c][n].content, x) => m = n
KeysDrawn == \A x \in Draws, s \in Spots, i \in Owners : At(s, i, x) => Drawn(draws, x)
ShortCalls == \A c \in Clients, w \in Workers : Len(op[c][w].writes) <= 4

Once == InOnePlace /\ InOneMessage /\ KeysDrawn /\ ShortCalls

\* What a statement adds to what a database has heard.
Told(st, x) ==
    \/ st.do = "addContactFromReq" /\ Carries(st.blob, x)
    \/ /\ st.do \in {"finalizeContact", "updateThreadRatchetStates"} /\ st.c1 # Null
       /\ \/ st.c1.from = "initiator" /\ st.c1.resp = x
          \/ st.c1.from = "responder" /\ st.c1.init = x

LEMMA HeardStatement ==
    ASSUME NEW d \in Databases, NEW st \in Statements, NEW x,
           HeardIn(Executed(d, st), x)
    PROVE  HeardIn(d, x) \/ Told(st, x)
<1> DEFINE e == Executed(d, st)
<1>1. PICK p \in Clients : Heard(e.contacts[p], x)
  BY DEF HeardIn
<1>2. CASE e.contacts[p] = d.contacts[p]
  BY <1>1, <1>2 DEF HeardIn
<1>3. CASE st.do \in ContactStatements /\ p = st.who
  <2> DEFINE row == d.contacts[p]
  <2>0. row \in ContactRows \cup {Null}
    BY DEF Databases
  <2>1. CASE st.do = "addContact"
    <3>1. e.contacts[p] = NewContact(0, st.blob)
      BY <1>3, <2>1 DEF Executed, Matches, Databases
    <3> QED
      BY <1>1, <3>1 DEF Heard, NewContact
  <2>2. CASE st.do = "addContactFromReq"
    <3>1. e.contacts[p] = NewContact(1, st.blob)
      BY <1>3, <2>2 DEF Executed, Matches, Databases
    <3> QED
      BY <1>1, <2>2, <3>1 DEF Heard, NewContact, Told
  <2>3. CASE st.do = "deleteContact"
    <3>1. e.contacts[p] = Null
      BY <1>3, <2>3 DEF Executed, Matches, RemoveContact, Databases
    <3> QED
      BY <1>1, <3>1 DEF Heard
  <2>4. CASE st.do = "finalizeContact"
    <3>1. st.c1 # Null
      BY <2>4, NullAssumption DEF Statements
    <3>2. e = d \/ e.contacts[p] = [tag |-> 2, blob |-> Null, c1 |-> st.c1, c2 |-> st.c2]
      BY <1>3, <2>4 DEF Executed, Databases, Finalized
    <3> QED
      BY <1>1, <1>2, <2>4, <3>1, <3>2 DEF Heard, Told
  <2>5. CASE st.do = "updateThreadRatchetStates"
    <3>1. e = d \/ (row # Null /\ e.contacts[p] = SetOne(row, st))
      BY <1>3, <2>5 DEF Executed, Matches, Databases
    <3>2. CASE row # Null /\ e.contacts[p] = SetOne(row, st)
      <4>1. row \in ContactRows
        BY <2>0, <3>2
      <4>2. CASE st.c1 # Null
        <5>1. /\ e.contacts[p] = [row EXCEPT !.c1 = st.c1]
              /\ [row EXCEPT !.c1 = st.c1].tag = row.tag
              /\ [row EXCEPT !.c1 = st.c1].blob = row.blob
              /\ [row EXCEPT !.c1 = st.c1].c1 = st.c1
          BY <3>2, <4>1, <4>2 DEF SetOne, ContactRows
        <5> QED
          BY <1>1, <2>5, <3>2, <4>2, <5>1 DEF Heard, HeardIn, Told
      <4>3. CASE st.c1 = Null
        <5>1. /\ e.contacts[p] = [row EXCEPT !.c2 = st.c2]
              /\ [row EXCEPT !.c2 = st.c2].tag = row.tag
              /\ [row EXCEPT !.c2 = st.c2].blob = row.blob
              /\ [row EXCEPT !.c2 = st.c2].c1 = row.c1
          BY <3>2, <4>1, <4>3 DEF SetOne, ContactRows
        <5> QED
          BY <1>1, <3>2, <5>1 DEF Heard, HeardIn
      <4> QED
        BY <4>2, <4>3
    <3> QED
      BY <1>2, <3>1, <3>2
  <2> QED
    BY <1>3, <2>1, <2>2, <2>3, <2>4, <2>5 DEF ContactStatements
<1> QED
  BY <1>2, <1>3, ExecutedFrame

\* And what the statements of a call add.
LEMMA HeardStatements ==
    ASSUME NEW d \in Databases, NEW ws \in Seq(Statements), NEW x, HeardAlong(d, ws, x)
    PROVE  HeardIn(d, x) \/ \E i \in DOMAIN ws : Told(ws[i], x)
<1> DEFINE told == \E i \in DOMAIN ws : Told(ws[i], x)
<1>1. ASSUME NEW e \in Databases, NEW i \in {1, 2, 3, 4}
      PROVE  /\ Done(e, ws, i) \in Databases
             /\ HeardIn(Done(e, ws, i), x) => HeardIn(e, x) \/ told
  <2>1. CASE i <= Len(ws)
    <3>1. i \in DOMAIN ws /\ ws[i] \in Statements
      BY <2>1
    <3>2. Done(e, ws, i) = Executed(e, ws[i])
      BY <2>1 DEF Done
    <3>3. Executed(e, ws[i]) \in Databases
      BY <3>1, ExecutedType
    <3>4. HeardIn(Executed(e, ws[i]), x) => HeardIn(e, x) \/ Told(ws[i], x)
      BY <3>1, HeardStatement
    <3> QED
      BY <3>1, <3>2, <3>3, <3>4
  <2>2. CASE ~(i <= Len(ws))
    BY <2>2 DEF Done
  <2> QED
    BY <2>1, <2>2
<1> HIDE DEF told
<1>2. After1(d, ws) \in Databases /\ (HeardIn(After1(d, ws), x) => HeardIn(d, x) \/ told)
  BY <1>1 DEF After1
<1>3. After2(d, ws) \in Databases /\ (HeardIn(After2(d, ws), x) => HeardIn(d, x) \/ told)
  BY <1>1, <1>2 DEF After2
<1>4. After3(d, ws) \in Databases /\ (HeardIn(After3(d, ws), x) => HeardIn(d, x) \/ told)
  BY <1>1, <1>3 DEF After3
<1>5. HeardIn(After4(d, ws), x) => HeardIn(d, x) \/ told
  BY <1>1, <1>4 DEF After4
<1> QED
  BY <1>2, <1>3, <1>4, <1>5 DEF HeardAlong, told

\* A step that brings keys to one place at most, each from the place where it was
\* or as a new one.
LEMMA OnceStep ==
    ASSUME IInv, IInv', Once, NEW s, NEW j, NEW s0, NEW j0,
           \A q \in Clients : draws[q] <= draws'[q],
           \A x \in Draws, c \in Clients : AskAt(c, x)' => AskAt(c, x) \/ (s = "ask" /\ c = j),
           \A x \in Draws, k \in Conns : ReqAt(k, x)' => ReqAt(k, x) \/ (s = "req" /\ k = j),
           \A x \in Draws, c \in Clients : BoxAt(c, x)' => BoxAt(c, x) \/ (s = "box" /\ c = j),
           \A x \in Draws, k \in Conns : ResAt(k, x)' => ResAt(k, x) \/ (s = "res" /\ k = j),
           \A x \in Draws, c \in Clients : RowAt(c, x)' => RowAt(c, x) \/ (s = "row" /\ c = j),
           \A x \in Draws : At(s, j, x)' =>
              \/ At(s, j, x)
              \/ At(s0, j0, x) /\ ~At(s0, j0, x)'
              \/ ~Drawn(draws, x) /\ Drawn(draws', x),
           InOneMessage', ShortCalls'
    PROVE  Once'
<1>1. \A x \in Draws : \A r, i : At(r, i, x) => r \in Spots /\ i \in Owners
  BY DEF At, Spots, Owners
<1>2. ASSUME NEW x \in Draws, NEW r \in Spots, NEW i \in Owners, At(r, i, x)'
      PROVE  At(r, i, x) \/ (r = s /\ i = j)
  BY <1>2 DEF At
<1>3. \A x \in Draws : Drawn(draws, x) => Drawn(draws', x)
  <2>1. draws \in [Clients -> Nat] /\ draws' \in [Clients -> Nat]
    BY MaxDrawsAssumption DEF IInv, TypeOK
  <2> QED
    BY <2>1, StillDrawn
<1>4. ASSUME NEW x \in Draws, NEW r \in Spots, NEW i \in Owners, At(r, i, x)'
      PROVE  Drawn(draws', x)
  <2>1. CASE At(r, i, x)
    BY <1>3, <2>1 DEF Once, KeysDrawn
  <2>2. CASE r = s /\ i = j
    BY <1>1, <1>3, <1>4, <2>2 DEF Once, KeysDrawn
  <2> QED
    BY <1>2, <1>4, <2>1, <2>2
<1>5. ASSUME NEW x \in Draws, At(s, j, x)',
             NEW r \in Spots, NEW i \in Owners, At(r, i, x)'
      PROVE  r = s /\ i = j
  <2>1. CASE At(r, i, x)
    <3>1. Drawn(draws, x)
      BY <2>1 DEF Once, KeysDrawn
    <3>2. CASE At(s, j, x)
      BY <1>1, <2>1, <3>2 DEF Once, InOnePlace
    <3>3. CASE At(s0, j0, x) /\ ~At(s0, j0, x)'
      <4>1. r = s0 /\ i = j0
        BY <1>1, <2>1, <3>3 DEF Once, InOnePlace
      <4> QED
        BY <1>5, <3>3, <4>1
    <3> QED
      BY <1>5, <3>1, <3>2, <3>3
  <2> QED
    BY <1>2, <1>5, <2>1
<1>6. InOnePlace'
  <2>1. ASSUME NEW x \in Draws, NEW r \in Spots, NEW t \in Spots, NEW i \in Owners, NEW l \in Owners,
               At(r, i, x)', At(t, l, x)'
        PROVE  r = t /\ i = l
    <3>1. CASE At(s, j, x)'
      BY <1>5, <2>1, <3>1
    <3>2. CASE At(r, i, x) /\ At(t, l, x)
      BY <3>2 DEF Once, InOnePlace
    <3> QED
      BY <1>2, <2>1, <3>1, <3>2
  <2> QED
    BY <2>1 DEF InOnePlace
<1>7. KeysDrawn'
  BY <1>4 DEF KeysDrawn
<1> QED
  BY <1>6, <1>7 DEF Once

\* A call begins: only its own key is new, and it is only asked for.
LEMMA BeginOnce ==
    ASSUME IInv, IInv', Secrets, Once, NEW c \in Clients, NEW w \in Workers, NEW call \in Calls,
           Begin(c, w, call), \A q \in Clients : draws[q] <= draws'[q],
           Len(call.writes) <= 4,
           \A i \in DOMAIN call.writes : \A x \in Draws :
              Told(call.writes[i], x) => HeardIn(db[c], x),
           \A x \in Draws : Sends(call.ask) /\ Carries(call.ask.content, x) =>
              ~Drawn(draws, x) /\ Drawn(draws', x)
    PROVE  Once'
<1>0. /\ UNCHANGED <<db, hubConn, conn, pending>>
      /\ op' = [op EXCEPT ![c][w] = call]
      /\ op \in [Clients -> [Workers -> Calls]]
      /\ db[c] \in Databases /\ call.writes \in Seq(Statements)
  BY DeliveryTypes DEF Begin, Calls
<1>1. \A q \in Clients, v \in Workers : op'[q][v] = op[q][v] \/ (q = c /\ op'[q][v] = call)
  BY <1>0
<1>2. \A q \in Clients : CanAsk(q)' <=> CanAsk(q)
  BY <1>0 DEF CanAsk, Exchanging
<1>3. ASSUME NEW x \in Draws, NEW q \in Clients, AskAt(q, x)'
      PROVE  AskAt(q, x) \/ (q = c /\ ~Drawn(draws, x) /\ Drawn(draws', x))
  BY <1>1, <1>2, <1>3 DEF AskAt
<1>4. ASSUME NEW x \in Draws, NEW q \in Clients, RowAt(q, x)'
      PROVE  RowAt(q, x)
  <2>1. CASE HeardIn(db[q], x)
    BY <2>1 DEF RowAt
  <2>2. ASSUME NEW v \in Workers, HeardAlong(db[q], op'[q][v].writes, x) PROVE RowAt(q, x)
    <3>1. CASE op'[q][v] = op[q][v]
      BY <2>2, <3>1 DEF RowAt
    <3>2. CASE q = c /\ op'[q][v] = call
      <4>1. HeardAlong(db[c], call.writes, x)
        BY <2>2, <3>2
      <4>2. HeardIn(db[c], x)
        BY <1>0, <4>1, HeardStatements
      <4> QED
        BY <3>2, <4>2 DEF RowAt
    <3> QED
      BY <1>1, <3>1, <3>2
  <2>3. HeardIn(db'[q], x) \/ \E v \in Workers : HeardAlong(db'[q], op'[q][v].writes, x)
    BY <1>4 DEF RowAt
  <2> QED
    BY <1>0, <2>1, <2>2, <2>3
<1>5. /\ \A x \in Draws, k \in Conns : (ReqAt(k, x)' => ReqAt(k, x)) /\ (ResAt(k, x)' => ResAt(k, x))
      /\ \A x \in Draws, q \in Clients : BoxAt(q, x)' => BoxAt(q, x)
  BY <1>0 DEF ReqAt, ResAt, BoxAt
<1>6. \A x \in Draws : At("ask", c, x)' =>
          At("ask", c, x) \/ (~Drawn(draws, x) /\ Drawn(draws', x))
  BY <1>3 DEF At
<1>7. InOneMessage'
  BY <1>0 DEF Once, InOneMessage
<1>8. ShortCalls'
  BY <1>1 DEF Once, ShortCalls
<1> QED
  BY <1>3, <1>4, <1>5, <1>6, <1>7, <1>8, OnceStep

\* The calls that begin.
LEMMA CallsOnce ==
    ASSUME IInv, IInv', Secrets, Once, NEW c \in Clients, NEW w \in Workers, NEW p \in Clients,
           \/ aliceAddContact(c, w, p)
           \/ bobAcceptContact(c, w, p)
           \/ doDeleteContact(c, w, p)
           \/ \E size \in Sizes :
                 \/ sendNewThread(c, w, p, size)
                 \/ \E id \in Draws : sendInConvo(c, w, id, p, size)
           \/ getNextMessage(c, w)
    PROVE  Once'
<1> DEFINE d == db[c]
<1>0. /\ op' \in [Clients -> [Workers -> Calls]] /\ op \in [Clients -> [Workers -> Calls]]
      /\ d \in Databases /\ draws \in [Clients -> Nat] /\ draws' \in [Clients -> Nat]
  BY DeliveryTypes, MaxDrawsAssumption DEF IInv, TypeOK
<1>1. ASSUME NEW call, Begin(c, w, call) PROVE call \in Calls
  <2>1. op'[c][w] = call
    BY <1>0, <1>1 DEF Begin
  <2> QED
    BY <1>0, <2>1
<1>2. ASSUME UNCHANGED draws PROVE \A q \in Clients : draws[q] <= draws'[q]
  <2>1. \A q \in Clients : draws[q] \in Nat
    BY <1>0
  <2> QED
    BY <1>2, <2>1
<1>3. ASSUME Draw(c)
      PROVE  /\ \A q \in Clients : draws[q] <= draws'[q]
             /\ ~Drawn(draws, Fresh(c)) /\ Drawn(draws', Fresh(c))
  <2>1. draws' = [draws EXCEPT ![c] = draws[c] + 1] /\ \A q \in Clients : draws[q] \in Nat
    BY <1>0, <1>3 DEF Draw
  <2>2. draws'[c] = draws[c] + 1 /\ \A q \in Clients \ {c} : draws'[q] = draws[q]
    BY <1>0, <2>1
  <2>3. Fresh(c).who = c /\ Fresh(c).no = draws[c] + 1
    BY DEF Fresh
  <2> QED
    BY <2>1, <2>2, <2>3 DEF Drawn
<1>4. /\ \A writes, ask, after : Call(writes, ask, after).writes = writes
      /\ \A writes, ask, after : Call(writes, ask, after).ask = ask
  BY DEF Call
<1>5. CASE aliceAddContact(c, w, p)
  <2> DEFINE ws == <<addContact(p, Fresh(c))>>
             ask == H!SendMessage(p, Fresh(c), FirstHandshakeMessage(Fresh(c)), "hex" \in Mended)
  <2>1. Draw(c) /\ Begin(c, w, Call(ws, ask, <<>>))
    BY <1>5 DEF aliceAddContact
  <2>2. Len(ws) <= 4 /\ \A i \in DOMAIN ws : \A x : ~Told(ws[i], x)
    BY DEF Told, addContact
  <2>3. \A x \in Draws : Carries(ask.content, x) => x = Fresh(c)
    BY DEF Carries, H!SendMessage, FirstHandshakeMessage
  <2> HIDE DEF ws, ask
  <2>4. Call(ws, ask, <<>>) \in Calls
    BY <1>1, <2>1
  <2> QED
    BY <1>3, <1>4, <2>1, <2>2, <2>3, <2>4, BeginOnce
<1>6. CASE bobAcceptContact(c, w, p)
  <2> DEFINE blob == d.contacts[p].blob
             ts == ThreadState(blob.init, Fresh(c), "responder")
             ws == <<finalizeContact(p, ts, ThreadState(blob.init, Fresh(c), "initiator"))>>
             ask == IF "forward" \in Mended
                    THEN H!SendMessage(p, Fresh(c), SecondHandshakeMessage(blob, Fresh(c)), TRUE)
                    ELSE Null
  <2>1. Draw(c) /\ Begin(c, w, Call(ws, ask, <<>>))
    BY <1>6 DEF bobAcceptContact
  <2>2. d.contacts[p] # Null /\ d.contacts[p].tag = 1 /\ blob.kind = "first"
    BY <1>6 DEF bobAcceptContact, getStateContact, acceptContact
  <2>3. \A x : Told(finalizeContact(p, ts, ThreadState(blob.init, Fresh(c), "initiator")), x) =>
               x = blob.init
    BY DEF Told, finalizeContact, ThreadState
  <2>4. \A x : Told(finalizeContact(p, ts, ThreadState(blob.init, Fresh(c), "initiator")), x) =>
               HeardIn(d, x)
    BY <2>2, <2>3 DEF HeardIn, Heard, Carries
  <2>5. Len(ws) <= 4 /\ \A i \in DOMAIN ws : \A x : Told(ws[i], x) => HeardIn(d, x)
    BY <2>4
  <2>6. \A x \in Draws : Sends(ask) /\ Carries(ask.content, x) => x = Fresh(c)
    BY DEF Carries, H!SendMessage, SecondHandshakeMessage, Sends
  <2> HIDE DEF ws, ask
  <2>7. Call(ws, ask, <<>>) \in Calls
    BY <1>1, <2>1
  <2> QED
    BY <1>3, <1>4, <2>1, <2>5, <2>6, <2>7, BeginOnce
<1>7. CASE doDeleteContact(c, w, p)
  <2> DEFINE ws == <<deleteContact(p)>>
  <2>1. UNCHANGED draws /\ Begin(c, w, Call(ws, Null, <<>>))
    BY <1>7 DEF doDeleteContact
  <2>2. Len(ws) <= 4 /\ \A i \in DOMAIN ws : \A x : ~Told(ws[i], x)
    BY DEF Told, deleteContact
  <2>3. ~Sends(Null)
    BY DEF Sends
  <2> HIDE DEF ws
  <2>4. Call(ws, Null, <<>>) \in Calls
    BY <1>1, <2>1
  <2> QED
    BY <1>2, <1>4, <2>1, <2>2, <2>3, <2>4, BeginOnce
<1>8. CASE getNextMessage(c, w)
  <2>1. UNCHANGED draws /\ Begin(c, w, Call(<<>>, H!GetNextMessage, <<>>))
    BY <1>8 DEF getNextMessage
  <2>2. Len(<<>>) <= 4 /\ \A i \in DOMAIN <<>> : FALSE
    OBVIOUS
  <2>3. ~Sends(H!GetNextMessage)
    BY DEF Sends, H!GetNextMessage
  <2>4. Call(<<>>, H!GetNextMessage, <<>>) \in Calls
    BY <1>1, <2>1
  <2> QED
    BY <1>2, <1>4, <2>1, <2>2, <2>3, <2>4, BeginOnce
<1>9. \A s, id, size, x : LET ask == ToHub(id, encryptMessage(s, id, c, p, Typed(c, size))) IN
         ~(Sends(ask) /\ Carries(ask.content, x))
  BY DEF ToHub, encryptMessage, H!SendMessage, Sends, Carries
<1>10. ASSUME NEW size \in Sizes, sendNewThread(c, w, p, size) PROVE Once'
  <2> DEFINE id == Fresh(c)
             t1 == d.contacts[p].c1
             s1 == InitiatorThread(t1)
             ask == ToHub(id, encryptMessage(s1, id, c, p, Typed(c, size)))
             u1 == updateThreadRatchetStates(p, Ratchet(t1), Null)
             u2 == createConvo(id, p, Typed(c, size), s1, ResponderThread(t1))
             u3 == updateSessionKeys(id, p, AfterAEAD(s1), Null)
             ws == <<u1, u2, u3>>
  <2>1. Draw(c) /\ Begin(c, w, Call(ws, ask, <<>>)) /\ threadRatchetStatesReady(d, p)
    BY <1>10 DEF sendNewThread
  <2>2. \A x : ~(Sends(ask) /\ Carries(ask.content, x))
    BY <1>9
  <2>3. d.contacts[p] # Null /\ (d.contacts[p].tag = 2 \/ (d.contacts[p].tag = 1 /\ d.contacts[p].blob = Null))
    BY <2>1 DEF threadRatchetStatesReady
  <2>4. d.contacts[p].tag = 2 /\ t1 \in ThreadStates
    <3>1. d.contacts[p] \in ContactRows
      BY <1>0, <2>3 DEF Databases
    <3> QED
      BY <1>0, <2>1, <2>3, <3>1, RowFields, NullAssumption, ReadyHasStates
  <2>5. Ratchet(t1).init = t1.init /\ Ratchet(t1).resp = t1.resp /\ Ratchet(t1).from = t1.from
    BY <2>4, Halves
  <2>6. \A x : Told(u1, x) => HeardIn(d, x)
    <3>1. u1.c1 = Ratchet(t1) /\ u1.do = "updateThreadRatchetStates"
      BY DEF updateThreadRatchetStates
    <3> HIDE DEF u1
    <3> QED
      BY <2>3, <2>4, <2>5, <3>1 DEF Told, HeardIn, Heard
  <2>7. \A x : ~Told(u2, x) /\ ~Told(u3, x)
    BY DEF Told, createConvo, updateSessionKeys
  <2> HIDE DEF u1, u2, u3
  <2>8. Len(ws) <= 4 /\ \A i \in DOMAIN ws : \A x : Told(ws[i], x) => HeardIn(d, x)
    BY <2>6, <2>7
  <2> HIDE DEF ws, ask
  <2>9. Call(ws, ask, <<>>) \in Calls
    BY <1>1, <2>1
  <2> QED
    BY <1>3, <1>4, <2>1, <2>2, <2>8, <2>9, BeginOnce
<1>11. ASSUME NEW size \in Sizes, NEW id \in Draws, sendInConvo(c, w, id, p, size)
       PROVE  Once'
  <2> DEFINE s1 == d.convos[id].c1
             ask == ToHub(id, encryptMessage(s1, id, c, p, Typed(c, size)))
             u1 == updateSessionKeys(id, p, AfterAEAD(s1), Null)
             ws == <<u1>>
             after == IF "todo" \in Mended THEN <<storeMessage(id, TRUE, Typed(c, size))>> ELSE <<>>
  <2>1. Draw(c) /\ Begin(c, w, Call(ws, ask, after))
    BY <1>11 DEF sendInConvo
  <2>2. \A x : ~(Sends(ask) /\ Carries(ask.content, x))
    BY <1>9
  <2>3. Len(ws) <= 4 /\ \A i \in DOMAIN ws : \A x : ~Told(ws[i], x)
    BY DEF Told, updateSessionKeys
  <2> HIDE DEF ws, ask, after
  <2>4. Call(ws, ask, after) \in Calls
    BY <1>1, <2>1
  <2> QED
    BY <1>3, <1>4, <2>1, <2>2, <2>3, <2>4, BeginOnce
<1> QED
  BY <1>5, <1>6, <1>7, <1>8, <1>10, <1>11

\* A statement is executed: what it adds was about to be there.
LEMMA WriteOnce ==
    ASSUME IInv, IInv', Secrets, Once, NEW c \in Clients, NEW w \in Workers, Write(c, w)
    PROVE  Once'
<1> DEFINE d == db[c]
           ws == op[c][w].writes
           e == Executed(d, Head(ws))
           rest == [op[c][w] EXCEPT !.writes = Tail(op[c][w].writes)]
<1>0. /\ op \in [Clients -> [Workers -> Calls]] /\ db \in [Clients -> Databases]
      /\ UNCHANGED <<draws, hubConn, conn, pending>>
      /\ ws # <<>> /\ \A q \in Clients : draws[q] \in Nat
  BY DeliveryTypes DEF Write
<1>1. /\ op[c][w] \in Calls /\ ws \in Seq(Statements) /\ Len(ws) <= 4
      /\ rest.writes = Tail(ws) /\ rest.ask = op[c][w].ask
  <2>1. op[c][w] \in Calls
    BY <1>0
  <2> QED
    BY <2>1 DEF Calls, Once, ShortCalls
<1>2. \/ db' = db /\ op' = [op EXCEPT ![c][w] = Idle]
      \/ db' = [db EXCEPT ![c] = e] /\ op' = [op EXCEPT ![c][w] = rest]
  BY DEF Write
<1>3. Idle.writes = <<>> /\ Idle.ask = Null /\ ~Sends(Null) /\ Len(<<>>) <= 4
  BY DEF Idle, Call, Sends
<1>4. \A v \in Workers \ {w} : op[c][v] = Idle
  BY <1>0, <1>3 DEF Secrets, OneCall
<1>5. \A b, x : HeardAlong(b, <<>>, x) => HeardIn(b, x)
  BY AfterNone DEF HeardAlong
<1>6. \A x : /\ HeardIn(e, x) => HeardAlong(d, ws, x)
             /\ HeardAlong(e, Tail(ws), x) => HeardAlong(d, ws, x)
  BY <1>0, <1>1, AfterTail DEF HeardAlong
<1> HIDE DEF d, e, rest, ws
<1>7. /\ \A q \in Clients, v \in Workers :
            op'[q][v].ask = op[q][v].ask \/ op'[q][v].ask = Null
      /\ \A q \in Clients \ {c} : db'[q] = db[q] /\ op'[q] = op[q]
      /\ \A v \in Workers \ {w} : op'[c][v] = Idle
      /\ \/ db'[c] = d /\ op'[c][w].writes = <<>>
         \/ db'[c] = e /\ op'[c][w].writes = Tail(ws)
  BY <1>0, <1>1, <1>2, <1>3, <1>4 DEF d
<1>8. \A x \in Draws, q \in Clients : AskAt(q, x)' => AskAt(q, x)
  <2>1. \A q \in Clients : CanAsk(q)' <=> CanAsk(q)
    BY <1>0 DEF CanAsk, Exchanging
  <2> QED
    BY <1>3, <1>7, <2>1 DEF AskAt
<1>9. \A x \in Draws, q \in Clients : RowAt(q, x)' => RowAt(q, x)
  <2>1. \A x \in Draws, q \in Clients \ {c} : RowAt(q, x)' => RowAt(q, x)
    BY <1>7 DEF RowAt
  <2>2. ASSUME NEW x \in Draws, RowAt(c, x)' PROVE RowAt(c, x)
    <3>1. HeardIn(db'[c], x) \/ \E v \in Workers : HeardAlong(db'[c], op'[c][v].writes, x)
      BY <2>2 DEF RowAt
    <3>2. HeardIn(db'[c], x) \/ HeardAlong(db'[c], op'[c][w].writes, x)
      BY <1>3, <1>5, <1>7, <3>1
    <3>3. HeardIn(d, x) \/ HeardAlong(d, ws, x)
      BY <1>5, <1>6, <1>7, <3>2
    <3> QED
      BY <3>3 DEF RowAt, d, ws
  <2> QED
    BY <2>1, <2>2
<1>10. /\ \A x \in Draws, k \in Conns : (ReqAt(k, x)' => ReqAt(k, x)) /\ (ResAt(k, x)' => ResAt(k, x))
       /\ \A x \in Draws, q \in Clients : BoxAt(q, x)' => BoxAt(q, x)
  BY <1>0 DEF ReqAt, ResAt, BoxAt
<1>11. InOneMessage'
  BY <1>0 DEF Once, InOneMessage
<1>12. ShortCalls'
  <2>1. Len(Tail(ws)) <= 4
    <3>1. Len(Tail(ws)) = Len(ws) - 1 /\ Len(ws) \in Nat
      BY <1>0, <1>1
    <3> QED
      BY <1>1, <3>1
  <2> QED
    BY <1>3, <1>7, <2>1 DEF Once, ShortCalls
<1>13. \A x \in Draws : ~At("none", c, x)'
  BY DEF At
<1>14. \A q \in Clients : draws[q] <= draws'[q]
  BY <1>0
<1> QED
  BY <1>8, <1>9, <1>10, <1>11, <1>12, <1>13, <1>14, OnceStep

\* A request goes out.
LEMMA AskOnce ==
    ASSUME IInv, IInv', ConnsOwned, Secrets, Once, NEW c \in Clients, NEW w \in Workers, Ask(c, w)
    PROVE  Once'
<1> DEFINE ask == op[c][w].ask
<1>0. /\ op \in [Clients -> [Workers -> Calls]] /\ conn \in [Conns -> Wires]
      /\ hubConn \in [Clients -> Conns \cup {Null}]
      /\ ask # Null
      /\ UNCHANGED <<db, op, draws, pending>>
      /\ \A q \in Clients : draws[q] \in Nat
  BY OrderedTypes DEF Ask, AtHub
<1>1. PICK k \in Conns :
         /\ IF hubConn[c] = Null THEN conn[k].owner = Null
            ELSE k = hubConn[c] /\ conn[k].up
         /\ hubConn' = [hubConn EXCEPT ![c] = k]
         /\ conn' = [conn EXCEPT ![k] = [owner |-> c, up |-> TRUE, req |-> ask, res |-> Null]]
  BY DEF Ask
<1>2. /\ conn[k].owner \in {c, Null}
      /\ \A q \in Clients \ {c} : hubConn'[q] = hubConn[q]
      /\ \A l \in Conns \ {k} : conn'[l] = conn[l]
      /\ hubConn'[c] = k /\ conn'[k].req = ask /\ conn'[k].res = Null
      /\ conn'[k].owner = c /\ k # Null
  BY <1>0, <1>1, WireAssumption DEF ConnsOwned
<1>3. CanAsk(c) /\ ~CanAsk(c)'
  <2>1. CanAsk(c)
    BY DEF Ask, CanAsk
  <2>2. ~CanAsk(c)'
    BY <1>0, <1>2 DEF CanAsk, Exchanging
  <2> QED
    BY <2>1, <2>2
<1>4. \A q \in Clients \ {c} : CanAsk(q)' <=> CanAsk(q)
  <2>1. \A q \in Clients : hubConn[q] \in Conns \cup {Null}
    BY <1>0
  <2> QED
    BY <1>2, <2>1, OthersAsk
<1>5. \A x \in Draws, q \in Clients : AskAt(q, x)' => AskAt(q, x)
  BY <1>0, <1>3, <1>4 DEF AskAt
<1>6. \A x \in Draws, l \in Conns : ReqAt(l, x)' => ReqAt(l, x) \/ l = k
  BY <1>2 DEF ReqAt
<1>7. \A x \in Draws, l \in Conns : ResAt(l, x)' => ResAt(l, x)
  BY <1>2 DEF ResAt, Hands
<1>8. \A x \in Draws, q \in Clients : (BoxAt(q, x)' => BoxAt(q, x)) /\ (RowAt(q, x)' => RowAt(q, x))
  BY <1>0 DEF BoxAt, RowAt
<1>9. ASSUME NEW x \in Draws, At("req", k, x)' PROVE At("ask", c, x) /\ ~At("ask", c, x)'
  <2>1. Sends(ask) /\ Carries(ask.content, x)
    BY <1>2, <1>9 DEF At, ReqAt
  <2>2. AskAt(c, x) /\ ~AskAt(c, x)'
    BY <1>3, <2>1 DEF AskAt
  <2> QED
    BY <2>2 DEF At
<1>10. InOneMessage' /\ ShortCalls'
  BY <1>0 DEF Once, InOneMessage, ShortCalls
<1>11. \A q \in Clients : draws[q] <= draws'[q]
  BY <1>0
<1> HIDE DEF ask
<1> QED
  BY <1>5, <1>6, <1>7, <1>8, <1>9, <1>10, <1>11, OnceStep

\* A call is given up, with what it still had to ask and to store.
LEMMA GivenUp ==
    ASSUME IInv, IInv', Once, NEW c \in Clients, UNCHANGED <<db, draws, conn, pending>>,
           \A q \in Clients \ {c} : op'[q] = op[q] /\ hubConn'[q] = hubConn[q],
           \A v \in Workers : op'[c][v] = Idle
    PROVE  Once'
<1>1. Idle.writes = <<>> /\ Idle.ask = Null /\ ~Sends(Null) /\ Len(<<>>) <= 4
  BY DEF Idle, Call, Sends
<1>2. \A b, x : HeardAlong(b, <<>>, x) => HeardIn(b, x)
  BY AfterNone DEF HeardAlong
<1>3. \A x \in Draws, q \in Clients : AskAt(q, x)' => AskAt(q, x)
  <2>1. \A q \in Clients \ {c} : CanAsk(q)' <=> CanAsk(q)
    BY DEF CanAsk, Exchanging
  <2> QED
    BY <1>1, <2>1 DEF AskAt
<1>4. /\ \A x \in Draws, k \in Conns : (ReqAt(k, x)' => ReqAt(k, x)) /\ (ResAt(k, x)' => ResAt(k, x))
      /\ \A x \in Draws, q \in Clients : BoxAt(q, x)' => BoxAt(q, x)
  BY DEF ReqAt, ResAt, BoxAt
<1>5. \A x \in Draws, q \in Clients : RowAt(q, x)' => RowAt(q, x)
  BY <1>1, <1>2 DEF RowAt
<1>6. InOneMessage' /\ ShortCalls'
  BY <1>1 DEF Once, InOneMessage, ShortCalls
<1>7. \A x \in Draws : ~At("none", c, x)'
  BY DEF At
<1>8. \A q \in Clients : draws[q] <= draws'[q]
  <2>1. \A q \in Clients : draws[q] \in Nat
    BY OrderedTypes
  <2> QED
    BY <2>1
<1> QED
  BY <1>3, <1>4, <1>5, <1>6, <1>7, <1>8, OnceStep

\* What getNextMessage makes of a message adds the key that it carries.
LEMMA DispatchTells ==
    ASSUME NEW d \in Databases, NEW me \in Clients, NEW m \in Msgs
    PROVE  LET ws == Dispatch(d, me, m) IN
           /\ Len(ws) <= 4
           /\ \A i \in DOMAIN ws : \A x : Told(ws[i], x) => Carries(m.content, x)
<1> DEFINE ws == Dispatch(d, me, m)
<1>0. Len(<<>>) <= 4 /\ \A i \in DOMAIN <<>> : FALSE
  OBVIOUS
<1>1. /\ \A s1 : Len(<<s1>>) <= 4
      /\ \A s1, s2 : Len(<<s1, s2>>) <= 4
      /\ \A s1, s2, s3 : Len(<<s1, s2, s3>>) <= 4
      /\ \A s1, s2, s3, s4 : Len(<<s1, s2, s3, s4>>) <= 4
  OBVIOUS
<1>2. CASE ws = <<>>
  BY <1>0, <1>2
<1>3. CASE ws = <<addContactFromReq(m.from, m.content)>>
  BY <1>1, <1>3 DEF Told, addContactFromReq
<1>4. CASE ws = aliceAckAcceptContact(d, m)
  <2> DEFINE e == d.contacts[m.from].blob
             t1 == ThreadState(e, m.content.resp, "initiator")
             t2 == ThreadState(e, m.content.resp, "responder")
             fin == finalizeContact(m.from, t1, t2)
  <2>1. ws = <<>> \/ (ws = <<fin>> /\ m.content.kind = "second")
    BY <1>4 DEF aliceAckAcceptContact, finishAddContact
  <2>2. \A x : Told(fin, x) => x = m.content.resp
    BY DEF Told, finalizeContact, ThreadState
  <2> HIDE DEF fin
  <2>3. ws = <<fin>> => \A i \in DOMAIN ws : ws[i] = fin
    OBVIOUS
  <2> QED
    BY <1>1, <1>2, <2>1, <2>2, <2>3 DEF Carries
<1>5. CASE ws = handleNewMessage(d, me, m)
  <2> DEFINE u1 == updateSessionKeys(m.convo, m.from, Null, AfterAEAD(d.convos[m.convo].c2))
             u2 == storeMessage(m.convo, FALSE, m.content.text)
  <2>1. ws = <<>> \/ ws = newThread(d, me, m) \/ ws = <<u1, u2>>
    BY <1>5 DEF handleNewMessage
  <2>2. CASE ws = <<u1, u2>>
    <3>1. \A x : ~Told(u1, x) /\ ~Told(u2, x)
      BY DEF Told, updateSessionKeys, storeMessage
    <3> HIDE DEF u1, u2
    <3> QED
      BY <1>1, <2>2, <3>1
  <2>3. CASE ws = newThread(d, me, m)
    <3> DEFINE t2 == d.contacts[m.from].c2
               s1 == InitiatorThread(t2)
               s2 == ResponderThread(t2)
               v1 == IF "roles" \in Mended
                     THEN createConvo(m.convo, m.from, Null, s2, s1)
                     ELSE createConvo(m.convo, m.from, Null, s1, s2)
               v2 == updateThreadRatchetStates(m.from, Null, Ratchet(t2))
               v3 == updateSessionKeys(m.convo, m.from, Null, AfterAEAD(s1))
               v4 == updateTitle(m.convo, m.from, m.content.text)
    <3>1. ws = <<v1, v2>> \/ ws = <<v1, v2, v4>> \/ ws = <<v1, v2, v3, v4>>
      BY <2>3, NewThreadForms
    <3>2. \A x : ~Told(v1, x) /\ ~Told(v2, x) /\ ~Told(v3, x) /\ ~Told(v4, x)
      BY DEF Told, createConvo, updateThreadRatchetStates, updateSessionKeys, updateTitle
    <3> HIDE DEF v1, v2, v3, v4, ws
    <3>3. CASE ws = <<v1, v2>>
      BY <1>1, <3>2, <3>3 DEF ws
    <3>4. CASE ws = <<v1, v2, v4>>
      BY <1>1, <3>2, <3>4 DEF ws
    <3>5. CASE ws = <<v1, v2, v3, v4>>
      BY <1>1, <3>2, <3>5 DEF ws
    <3> QED
      BY <3>1, <3>3, <3>4, <3>5 DEF ws
  <2> QED
    BY <1>2, <2>1, <2>2, <2>3
<1>6. \/ ws = <<>> \/ ws = <<addContactFromReq(m.from, m.content)>>
      \/ ws = aliceAckAcceptContact(d, m) \/ ws = handleNewMessage(d, me, m)
  BY DEF Dispatch
<1> QED
  BY <1>2, <1>3, <1>4, <1>5, <1>6

\* An answer comes in, or a call is given up.
LEMMA EndOnce ==
    ASSUME IInv, IInv', ConnsOwned, Secrets, Once, NEW c \in Clients,
           \/ \E w \in Workers : Receive(c, w) \/ ConnError(c, w) \/ ConnReset(c, w)
           \/ Crash(c)
    PROVE  Once'
<1>0. /\ op \in [Clients -> [Workers -> Calls]] /\ conn \in [Conns -> Wires]
      /\ hubConn \in [Clients -> Conns \cup {Null}] /\ db \in [Clients -> Databases]
      /\ \A q \in Clients : draws[q] \in Nat
  BY DeliveryTypes
<1>1. \A w \in Workers : AtHub(c, w) => \A v \in Workers \ {w} : op[c][v] = Idle
  BY DEF AtHub, Idle, Call, Secrets, OneCall
<1>2. ASSUME (\E w \in Workers : ConnError(c, w) \/ ConnReset(c, w)) \/ Crash(c)
      PROVE  Once'
  <2>1. ASSUME NEW w \in Workers, GiveUp(c, w), UNCHANGED <<db, draws, conn, pending>>
        PROVE  Once'
    <3>1. op' = [op EXCEPT ![c][w] = Idle] /\ hubConn' = [hubConn EXCEPT ![c] = Null] /\ AtHub(c, w)
      BY <2>1 DEF GiveUp
    <3>2. /\ \A q \in Clients \ {c} : op'[q] = op[q] /\ hubConn'[q] = hubConn[q]
          /\ \A v \in Workers : op'[c][v] = Idle
      BY <1>0, <1>1, <3>1
    <3> QED
      BY <2>1, <3>2, GivenUp
  <2>2. ASSUME Crash(c) PROVE Once'
    <3>1. /\ op' = [op EXCEPT ![c] = [w \in Workers |-> Idle]]
          /\ hubConn' = [hubConn EXCEPT ![c] = Null]
          /\ UNCHANGED <<db, draws, conn, pending>>
      BY <2>2 DEF Crash
    <3>2. /\ \A q \in Clients \ {c} : op'[q] = op[q] /\ hubConn'[q] = hubConn[q]
          /\ \A v \in Workers : op'[c][v] = Idle
      BY <1>0, <3>1
    <3> QED
      BY <3>1, <3>2, GivenUp
  <2> QED
    BY <1>2, <2>1, <2>2 DEF ConnError, ConnReset, GiveUp
<1>3. ASSUME NEW w \in Workers, Receive(c, w) PROVE Once'
  <2>0. PICK k \in Conns : k = hubConn[c] /\ k # Null
    BY <1>0, <1>3 DEF Receive, Exchanging
  <2> DEFINE res == conn[k].res
             call == op'[c][w]
             d == db[c]
  <2>1. /\ k # Null /\ res # Null
        /\ conn' = [conn EXCEPT ![k] = [conn[k] EXCEPT !.res = Null]]
        /\ UNCHANGED <<db, draws, hubConn, pending>>
        /\ AtHub(c, w)
    BY <1>3, <2>0 DEF Receive, Exchanging
  <2>2. k \in Conns /\ conn[k] \in Wires /\ res \in Resps
    BY <1>0, <2>0, <2>1 DEF Wires
  <2>3. \/ call = Idle
        \/ call = Call(op[c][w].after, Null, <<>>)
        \/ Hands(res) /\ call = Call(Dispatch(d, c, res.msg), Null, <<>>)
    <3>1. op' = [op EXCEPT ![c][w] =
             IF res.type = "success"
             THEN IF res.ok THEN Call(op[c][w].after, Null, <<>>) ELSE Idle
             ELSE IF res.msg = Null THEN Idle
             ELSE Call(Dispatch(d, c, res.msg), Null, <<>>)]
      BY <1>3, <2>0 DEF Receive
    <3>2. call = IF res.type = "success"
                 THEN IF res.ok THEN Call(op[c][w].after, Null, <<>>) ELSE Idle
                 ELSE IF res.msg = Null THEN Idle
                 ELSE Call(Dispatch(d, c, res.msg), Null, <<>>)
      BY <1>0, <3>1
    <3>3. res.type \in {"success", "message"}
      BY <2>2 DEF Resps, H!Responses
    <3> HIDE DEF call
    <3> QED
      BY <2>1, <3>2, <3>3 DEF Hands
  <2>4. /\ \A q \in Clients \ {c} : op'[q] = op[q]
        /\ \A v \in Workers \ {w} : op'[c][v] = Idle
    <3>1. \E new : op' = [op EXCEPT ![c][w] = new]
      BY <1>3 DEF Receive
    <3> QED
      BY <1>0, <1>1, <2>1, <3>1
  <2>5. /\ \A l \in Conns \ {k} : conn'[l] = conn[l]
        /\ conn'[k].req = conn[k].req /\ conn'[k].up = conn[k].up /\ conn'[k].res = Null
        /\ conn'[k].owner = conn[k].owner
    <3>1. /\ [conn[k] EXCEPT !.res = Null].req = conn[k].req
          /\ [conn[k] EXCEPT !.res = Null].up = conn[k].up
          /\ [conn[k] EXCEPT !.res = Null].owner = conn[k].owner
          /\ [conn[k] EXCEPT !.res = Null].res = Null
      BY <2>2 DEF Wires
    <3> QED
      BY <1>0, <2>1, <2>2, <3>1
  <2>6. Idle.writes = <<>> /\ Idle.ask = Null /\ ~Sends(Null) /\ Len(<<>>) <= 4
    BY DEF Idle, Call, Sends
  <2>7. \A b, x : HeardAlong(b, <<>>, x) => HeardIn(b, x)
    BY AfterNone DEF HeardAlong
  <2>8. /\ call.ask = Null /\ Len(call.writes) <= 4 /\ d \in Databases
        /\ \A x \in Draws : HeardAlong(d, call.writes, x) => HeardIn(d, x) \/ ResAt(k, x)
    <3>0. d \in Databases /\ op[c][w].after \in Seq(Statements) /\ Stores(op[c][w].after)
      <4>1. op[c][w] \in Calls
        BY <1>0
      <4> QED
        BY <1>0, <4>1 DEF Calls, Secrets, AfterStores
    <3> HIDE DEF call, d
    <3>1. CASE call = Idle
      BY <2>6, <2>7, <3>0, <3>1
    <3>2. CASE call = Call(op[c][w].after, Null, <<>>)
      <4> DEFINE ws == op[c][w].after
      <4>1. call.ask = Null /\ call.writes = ws
        BY <3>2 DEF Call
      <4>2. Len(ws) <= 4
        <5>1. Len(ws) \in Nat /\ (Len(ws) >= 2 => 2 \in DOMAIN ws)
          BY <3>0
        <5> QED
          BY <3>0, <5>1 DEF Stores
      <4>3. \A i \in DOMAIN ws : \A x : ~Told(ws[i], x)
        BY <3>0 DEF Stores, Told
      <4> QED
        BY <3>0, <4>1, <4>2, <4>3, HeardStatements
    <3>3. CASE Hands(res) /\ call = Call(Dispatch(d, c, res.msg), Null, <<>>)
      <4> DEFINE ws == Dispatch(d, c, res.msg)
      <4>1. call.ask = Null /\ call.writes = ws
        BY <3>3 DEF Call
      <4>2. res.msg \in Msgs
        BY <2>2, <3>3 DEF Hands, Resps, H!Responses, Msgs
      <4>3. ws \in Seq(Statements) /\ Len(ws) <= 4
            /\ \A i \in DOMAIN ws : \A x : Told(ws[i], x) => Carries(res.msg.content, x)
        BY <3>0, <4>2, DispatchType, DispatchTells
      <4> HIDE DEF ws
      <4>4. \A x : HeardAlong(d, ws, x) => HeardIn(d, x) \/ Carries(res.msg.content, x)
        BY <3>0, <4>3, HeardStatements
      <4> QED
        BY <3>0, <3>3, <4>1, <4>3, <4>4 DEF ResAt
    <3> QED
      BY <2>3, <3>1, <3>2, <3>3
  <2>9. \A x \in Draws, q \in Clients : AskAt(q, x)' => AskAt(q, x)
    <3>1. \A q \in Clients, v \in Workers : op'[q][v] = op[q][v] \/ op'[q][v].ask = Null
      BY <2>4, <2>6, <2>8
    <3>3. \A v \in Workers : op'[c][v].ask = Null
      BY <2>4, <2>6, <2>8
    <3>4. \A q \in Clients \ {c} : CanAsk(q)' <=> CanAsk(q)
      <4>1. \A q \in Clients : hubConn[q] \in Conns \cup {Null} /\ hubConn'[q] = hubConn[q]
        BY <1>0, <2>1
      <4>2. conn[k].owner = c
        BY <2>0 DEF ConnsOwned
      <4> QED
        BY <2>2, <2>5, <4>1, <4>2, OthersAsk
    <3> QED
      BY <2>6, <3>1, <3>3, <3>4 DEF AskAt
  <2>10. \A x \in Draws, l \in Conns : (ReqAt(l, x)' => ReqAt(l, x)) /\ (ResAt(l, x)' => ResAt(l, x))
    BY <2>5 DEF ReqAt, ResAt, Hands
  <2>11. \A x \in Draws, q \in Clients : BoxAt(q, x)' => BoxAt(q, x)
    BY <2>1 DEF BoxAt
  <2>12. \A x \in Draws : RowAt(c, x)' => RowAt(c, x) \/ ResAt(k, x)
    <3>1. ASSUME NEW x \in Draws, RowAt(c, x)' PROVE HeardIn(d, x) \/ HeardAlong(d, call.writes, x)
      <4>1. HeardIn(d, x) \/ \E v \in Workers : HeardAlong(d, op'[c][v].writes, x)
        BY <2>1, <3>1 DEF RowAt
      <4> QED
        BY <2>4, <2>6, <2>7, <4>1
    <3> QED
      BY <2>8, <3>1 DEF RowAt
  <2>13. \A x \in Draws, q \in Clients : RowAt(q, x)' => RowAt(q, x) \/ q = c
    BY <2>1, <2>4 DEF RowAt
  <2>14. \A x \in Draws : ~ResAt(k, x)'
    BY <2>5 DEF ResAt, Hands
  <2>15. \A x \in Draws : At("row", c, x)' =>
            At("row", c, x) \/ (At("res", k, x) /\ ~At("res", k, x)')
    BY <2>2, <2>12, <2>14 DEF At
  <2>16. InOneMessage'
    BY <2>1 DEF Once, InOneMessage
  <2>17. ShortCalls'
    BY <2>4, <2>6, <2>8 DEF Once, ShortCalls
  <2>18. \A q \in Clients : draws[q] <= draws'[q]
    BY <1>0, <2>1
  <2> HIDE DEF res, call, d
  <2> QED
    BY <2>9, <2>10, <2>11, <2>13, <2>15, <2>16, <2>17, <2>18, OnceStep
<1> QED
  BY <1>2, <1>3

\* The hub keeps the keys of a message in one place.
LEMMA ServeOnce ==
    ASSUME IInv, IInv', Once, NEW k \in Conns, handleClient(k)
    PROVE  Once'
<1>0. /\ conn \in [Conns -> Wires] /\ hubConn \in [Clients -> Conns \cup {Null}]
      /\ pending \in [Clients -> Seq(Msgs)] /\ \A q \in Clients : draws[q] \in Nat
      /\ UNCHANGED <<db, op, draws, hubConn>>
  BY OrderedTypes DEF handleClient
<1>1. /\ conn[k].owner \in Clients /\ conn[k].req \in Reqs /\ conn[k].req # Null
  BY <1>0 DEF handleClient, IInv, RequestsOwned, Wires
<1>2. PICK who \in Clients : who = conn[k].owner
  BY <1>1
<1>22. PICK req \in Reqs : req = conn[k].req /\ req # Null
  BY <1>1
<1>23. PICK res : res = H!Answer(pending, who, req)
  OBVIOUS
<1> DEFINE new == [conn[k] EXCEPT !.req = Null, !.res = res]
<1>24. /\ conn' = [conn EXCEPT ![k] = new] /\ pending' = H!Served(pending, who, req)
  BY <1>2, <1>22, <1>23 DEF handleClient
<1>3. res \in Resps /\ res # Null
  BY <1>0, <1>22, <1>23, AnswerType, WireAssumption
<1>4. new.req = Null /\ new.res = res
  BY <1>0 DEF Wires
<1>5. conn'[k].req = Null /\ conn'[k].res = res /\ \A l \in Conns \ {k} : conn'[l] = conn[l]
  BY <1>0, <1>24, <1>4
<1> HIDE DEF new
<1>6. \A x \in Draws, q \in Clients : AskAt(q, x)' => AskAt(q, x)
  <2>1. \A q \in Clients : CanAsk(q)' => CanAsk(q)
    BY <1>0, <1>3, <1>5 DEF CanAsk, Exchanging
  <2> QED
    BY <1>0, <2>1 DEF AskAt
<1>7. \A x \in Draws, l \in Conns : ReqAt(l, x)' => ReqAt(l, x) /\ l # k
  BY <1>5 DEF ReqAt, Sends
<1>8. \A x \in Draws, l \in Conns : l # k => (ResAt(l, x)' => ResAt(l, x))
  BY <1>5 DEF ResAt
<1>9. \A x \in Draws, q \in Clients : RowAt(q, x)' => RowAt(q, x)
  BY <1>0 DEF RowAt
<1>10. ShortCalls' /\ \A q \in Clients : draws[q] <= draws'[q]
  BY <1>0 DEF Once, ShortCalls
<1>11. CASE req.type = "SendMessage"
  <2>0. req.to \in Clients /\ [from |-> who, convo |-> req.convo, content |-> req.content] \in Msgs
    BY <1>11, <1>22 DEF Reqs, H!Requests, Msgs, H!Messages
  <2>01. PICK to \in Clients : to = req.to
    BY <2>0
  <2>02. PICK m \in Msgs : m = [from |-> who, convo |-> req.convo, content |-> req.content]
    BY <2>0
  <2>03. PICK box \in Seq(Msgs) : box = pending[to]
    BY <1>0
  <2>1. m.content = req.content
    BY <2>02
  <2>2. pending' = pending \/ pending' = [pending EXCEPT ![to] = Append(box, m)]
    BY <1>11, <1>24, <2>01, <2>02, <2>03 DEF H!Served, H!handleSendMessage
  <2>3. \A x \in Draws, l \in Conns : ResAt(l, x)' => ResAt(l, x)
    <3>1. res.type = "success"
      BY <1>11, <1>23 DEF H!Answer
    <3>2. \A x : ~ResAt(k, x)'
      BY <1>5, <3>1 DEF ResAt, Hands
    <3> QED
      BY <1>8, <3>2
  <2>4. \A x : ReqAt(k, x) <=> Carries(m.content, x)
    BY <1>11, <1>22, <2>1 DEF ReqAt, Sends
  <2>5. /\ \A x \in Draws, q \in Clients : BoxAt(q, x)' => BoxAt(q, x) \/ q = to
        /\ \A x \in Draws : BoxAt(to, x)' => BoxAt(to, x) \/ ReqAt(k, x)
        /\ InOneMessage'
    <3>1. CASE pending' = pending
      BY <3>1 DEF BoxAt, Once, InOneMessage
    <3>2. CASE pending' = [pending EXCEPT ![to] = Append(box, m)]
      <4>1. /\ \A q \in Clients \ {to} : pending'[q] = pending[q]
            /\ IsAppended(box, m, pending'[to]) /\ box \in Seq(Msgs)
        BY <1>0, <3>2 DEF IsAppended
      <4>2. \A n \in DOMAIN pending'[to] :
               \/ n \in DOMAIN box /\ pending'[to][n] = box[n]
               \/ n = Len(box) + 1 /\ pending'[to][n] = m
        <5> DEFINE app == pending'[to]
        <5>1. IsAppended(box, m, app)
          BY <4>1
        <5> HIDE DEF app
        <5> QED
          BY <4>1, <5>1 DEF IsAppended, app
      <4>3. /\ \A x \in Draws, q \in Clients \ {to} : BoxAt(q, x)' => BoxAt(q, x)
            /\ \A x \in Draws : BoxAt(to, x)' => BoxAt(to, x) \/ ReqAt(k, x)
        <5>1. ASSUME NEW x \in Draws, BoxAt(to, x)' PROVE BoxAt(to, x) \/ ReqAt(k, x)
          <6>1. PICK n \in DOMAIN pending'[to] : Carries(pending'[to][n].content, x)
            BY <5>1 DEF BoxAt
          <6> QED
            BY <2>03, <2>4, <4>2, <6>1 DEF BoxAt
        <5> QED
          BY <4>1, <5>1 DEF BoxAt
      <4>4. ASSUME NEW x \in Draws, NEW i \in DOMAIN pending'[to], NEW j \in DOMAIN pending'[to],
                   Carries(pending'[to][i].content, x), Carries(pending'[to][j].content, x)
            PROVE  i = j
        <5>1. CASE i \in DOMAIN box /\ j \in DOMAIN box /\ pending'[to][i] = box[i]
                   /\ pending'[to][j] = box[j]
          BY <2>03, <4>4, <5>1 DEF Once, InOneMessage
        <5>2. ASSUME Carries(m.content, x), BoxAt(to, x) PROVE FALSE
          <6>1. At("req", k, x) /\ At("box", to, x)
            BY <2>4, <5>2 DEF At
          <6>2. "req" \in Spots /\ "box" \in Spots /\ k \in Owners /\ to \in Owners
            BY DEF Spots, Owners
          <6> QED
            BY <6>1, <6>2 DEF Once, InOnePlace
        <5>3. CASE pending'[to][i] = m /\ j \in DOMAIN box /\ pending'[to][j] = box[j]
          BY <2>03, <4>4, <5>2, <5>3 DEF BoxAt
        <5>4. CASE pending'[to][j] = m /\ i \in DOMAIN box /\ pending'[to][i] = box[i]
          BY <2>03, <4>4, <5>2, <5>4 DEF BoxAt
        <5> QED
          BY <4>2, <5>1, <5>3, <5>4
      <4>5. InOneMessage'
        BY <4>1, <4>4 DEF Once, InOneMessage
      <4> QED
        BY <4>3, <4>5
    <3> QED
      BY <2>2, <3>1, <3>2
  <2>6. \A x \in Draws : At("box", to, x)' =>
           At("box", to, x) \/ (At("req", k, x) /\ ~At("req", k, x)')
    BY <1>7, <2>5 DEF At
  <2>7. \A x \in Draws, l \in Conns : ReqAt(l, x)' => ReqAt(l, x)
    BY <1>7
  <2> QED
    BY <1>6, <1>9, <1>10, <2>3, <2>5, <2>6, <2>7, OnceStep
<1>12. CASE req.type # "SendMessage"
  <2>0. PICK box \in Seq(Msgs) : box = pending[who]
    BY <1>0
  <2>1. res.type = "message" /\ res.msg = IF box = <<>> THEN Null ELSE Head(box)
    BY <1>12, <1>23, <2>0 DEF H!Answer
  <2>2. pending' = IF box = <<>> THEN pending ELSE [pending EXCEPT ![who] = Tail(box)]
    BY <1>12, <1>24, <2>0 DEF H!Served, H!handleGetNextMessage
  <2>3. \A x \in Draws, l \in Conns : ReqAt(l, x)' => ReqAt(l, x)
    BY <1>7
  <2>4. CASE box = <<>>
    <3>1. \A x : ~ResAt(k, x)'
      BY <1>5, <2>1, <2>4 DEF ResAt, Hands
    <3>2. \A x \in Draws, l \in Conns : ResAt(l, x)' => ResAt(l, x)
      BY <1>8, <3>1
    <3>3. InOneMessage' /\ \A x \in Draws, q \in Clients : BoxAt(q, x)' => BoxAt(q, x)
      BY <2>2, <2>4 DEF Once, InOneMessage, BoxAt
    <3>4. \A x \in Draws : ~At("none", k, x)'
      BY DEF At
    <3> QED
      BY <1>6, <1>9, <1>10, <2>3, <3>2, <3>3, <3>4, OnceStep
  <2>5. CASE box # <<>>
    <3>1. /\ pending'[who] = Tail(box)
          /\ \A q \in Clients \ {who} : pending'[q] = pending[q]
      BY <1>0, <2>2, <2>5
    <3>2. /\ 1 \in DOMAIN box /\ Head(box) = box[1]
          /\ \A n \in DOMAIN Tail(box) : /\ n + 1 \in DOMAIN box /\ Tail(box)[n] = box[n + 1]
                                         /\ n + 1 # 1 /\ n \in Nat
      BY <2>0, <2>5
    <3>3. /\ \A n \in DOMAIN pending'[who] :
                n + 1 \in DOMAIN box /\ pending'[who][n] = box[n + 1] /\ n + 1 # 1 /\ n \in Nat
      BY <3>1, <3>2
    <3>4. \A x \in Draws, q \in Clients : BoxAt(q, x)' => BoxAt(q, x)
      <4>1. ASSUME NEW x \in Draws, BoxAt(who, x)' PROVE BoxAt(who, x)
        <5>1. PICK n \in DOMAIN pending'[who] : Carries(pending'[who][n].content, x)
          BY <4>1 DEF BoxAt
        <5> QED
          BY <2>0, <3>3, <5>1 DEF BoxAt
      <4> QED
        BY <3>1, <4>1 DEF BoxAt
    <3>5. \A x \in Draws : \A n, l \in DOMAIN box :
             Carries(box[n].content, x) /\ Carries(box[l].content, x) => n = l
      BY <2>0 DEF Once, InOneMessage
    <3>6. InOneMessage'
      <4>1. ASSUME NEW x \in Draws, NEW i \in DOMAIN pending'[who], NEW j \in DOMAIN pending'[who],
                   Carries(pending'[who][i].content, x), Carries(pending'[who][j].content, x)
            PROVE  i = j
        <5>1. i + 1 = j + 1
          BY <3>3, <3>5, <4>1
        <5> QED
          BY <3>3, <5>1
      <4> QED
        BY <3>1, <4>1 DEF Once, InOneMessage
    <3>7. ASSUME NEW x \in Draws, ResAt(k, x)' PROVE BoxAt(who, x) /\ ~BoxAt(who, x)'
      <4>1. Carries(box[1].content, x)
        BY <1>5, <2>1, <2>5, <3>2, <3>7 DEF ResAt
      <4>2. BoxAt(who, x)
        BY <2>0, <3>2, <4>1 DEF BoxAt
      <4>3. ~BoxAt(who, x)'
        BY <3>2, <3>3, <3>5, <4>1 DEF BoxAt
      <4> QED
        BY <4>2, <4>3
    <3>8. \A x \in Draws : At("res", k, x)' =>
             At("res", k, x) \/ (At("box", who, x) /\ ~At("box", who, x)')
      BY <3>7 DEF At
    <3>9. \A x \in Draws, l \in Conns : ResAt(l, x)' => ResAt(l, x) \/ l = k
      BY <1>8
    <3> QED
      BY <1>6, <1>9, <1>10, <2>3, <3>4, <3>6, <3>8, <3>9, OnceStep
  <2> QED
    BY <2>4, <2>5
<1> QED
  BY <1>11, <1>12

\* The hub loses keys, or a connection that no one uses.
LEMMA LoseOnce ==
    ASSUME IInv, IInv', ConnsOwned, Once, (\E k \in Conns : hangUp(k)) \/ hubRestart
    PROVE  Once'
<1>0. /\ conn \in [Conns -> Wires] /\ hubConn \in [Clients -> Conns \cup {Null}]
      /\ \A q \in Clients : draws[q] \in Nat
      /\ UNCHANGED <<db, op, draws, hubConn>>
  BY OrderedTypes DEF hangUp, hubRestart
<1>1. ASSUME \A q \in Clients : CanAsk(q)' => CanAsk(q),
             \A l \in Conns : conn'[l].req \in {conn[l].req, Null} /\ conn'[l].res \in {conn[l].res, Null},
             \A x \in Draws, q \in Clients : BoxAt(q, x)' => BoxAt(q, x), InOneMessage'
      PROVE  Once'
  <2>1. \A x \in Draws, q \in Clients : AskAt(q, x)' => AskAt(q, x)
    BY <1>0, <1>1 DEF AskAt
  <2>2. \A x \in Draws, l \in Conns : (ReqAt(l, x)' => ReqAt(l, x)) /\ (ResAt(l, x)' => ResAt(l, x))
    BY <1>1 DEF ReqAt, Sends, ResAt, Hands
  <2>3. \A x \in Draws, q \in Clients : RowAt(q, x)' => RowAt(q, x)
    BY <1>0 DEF RowAt
  <2>4. ShortCalls' /\ \A q \in Clients : draws[q] <= draws'[q]
    BY <1>0 DEF Once, ShortCalls
  <2>5. \A x \in Draws : ~At("none", Null, x)'
    BY DEF At
  <2> QED
    BY <1>1, <2>1, <2>2, <2>3, <2>4, <2>5, OnceStep
<1>2. ASSUME NEW k \in Conns, hangUp(k) PROVE Once'
  <2>1. /\ conn' = [conn EXCEPT ![k] = NoConn] /\ UNCHANGED pending
        /\ hubConn[conn[k].owner] # k
    BY <1>2 DEF hangUp
  <2>2. /\ conn'[k].req = Null /\ conn'[k].res = Null
        /\ \A l \in Conns \ {k} : conn'[l] = conn[l]
    BY <1>0, <2>1 DEF NoConn
  <2>3. \A q \in Clients : hubConn[q] # Null => hubConn[q] # k /\ hubConn[q] \in Conns
    BY <1>0, <2>1 DEF ConnsOwned
  <2>4. \A q \in Clients : CanAsk(q)' => CanAsk(q)
    BY <1>0, <2>2, <2>3 DEF CanAsk, Exchanging
  <2>5. InOneMessage' /\ \A x \in Draws, q \in Clients : BoxAt(q, x)' => BoxAt(q, x)
    BY <2>1 DEF Once, InOneMessage, BoxAt
  <2> QED
    BY <1>1, <2>2, <2>4, <2>5
<1>3. CASE hubRestart
  <2>1. /\ conn' = [k \in Conns |-> [conn[k] EXCEPT !.up = FALSE, !.req = Null]]
        /\ pending' = [c \in Clients |-> <<>>]
    BY <1>3 DEF hubRestart
  <2>2. \A k \in Conns : ~conn'[k].up /\ conn'[k].req = Null /\ conn'[k].res = conn[k].res
    BY <1>0, <2>1 DEF Wires
  <2>3. \A c \in Clients : \A i \in DOMAIN pending'[c] : FALSE
    <3>1. \A c \in Clients : pending'[c] = <<>>
      BY <2>1
    <3>2. \A i \in DOMAIN <<>> : FALSE
      OBVIOUS
    <3> QED
      BY <3>1, <3>2
  <2>4. \A q \in Clients : CanAsk(q)' => CanAsk(q)
    BY <1>0, <2>2 DEF CanAsk
  <2>5. InOneMessage' /\ \A x \in Draws, q \in Clients : BoxAt(q, x)' => BoxAt(q, x)
    BY <2>3 DEF InOneMessage, BoxAt
  <2> QED
    BY <1>1, <2>2, <2>4, <2>5
<1> QED
  BY <1>2, <1>3

LEMMA InitOnce ==
    ASSUME Init PROVE Once
<1>1. /\ \A i \in DOMAIN <<>> : FALSE
      /\ \A c \in Clients : /\ pending[c] = <<>> /\ db[c] = EmptyDatabase
                            /\ \A w \in Workers : op[c][w] = Idle
      /\ \A k \in Conns : conn[k].req = Null /\ conn[k].res = Null
  BY DEF Init, NoConn
<1>2. Idle.writes = <<>> /\ Idle.ask = Null /\ ~Sends(Null) /\ ~Hands(Null) /\ Len(<<>>) <= 4
  BY DEF Idle, Call, Sends, Hands
<1>3. \A x : ~HeardIn(EmptyDatabase, x)
  BY DEF HeardIn, EmptyDatabase, Heard
<1>4. \A x : ~HeardAlong(EmptyDatabase, <<>>, x)
  BY <1>3, AfterNone DEF HeardAlong
<1>5. \A s, i, x : ~At(s, i, x)
  BY <1>1, <1>2, <1>3, <1>4 DEF At, AskAt, ReqAt, BoxAt, ResAt, RowAt
<1>6. InOneMessage /\ ShortCalls
  BY <1>1, <1>2 DEF InOneMessage, ShortCalls
<1> QED
  BY <1>5, <1>6 DEF Once, InOnePlace, KeysDrawn

\* The invariant, whatever fails.
LEMMA OnceInvariant == Spec => []Once
<1>1. IInv /\ IInv' /\ ConnsOwned /\ Secrets /\ Once /\ [Next]_vars => Once'
  <2> SUFFICES ASSUME IInv, IInv', ConnsOwned, Secrets, Once, [Next]_vars PROVE Once'
    OBVIOUS
  <2>1. CASE Next
    <3>1. ASSUME NEW c \in Clients, NEW w \in Workers, getNextMessage(c, w) PROVE Once'
      BY <3>1, CallsOnce
    <3>2. ASSUME NEW c \in Clients, NEW w \in Workers, NEW p \in Clients \ {c},
                 \/ aliceAddContact(c, w, p)
                 \/ bobAcceptContact(c, w, p)
                 \/ doDeleteContact(c, w, p)
                 \/ \E size \in Sizes :
                       \/ sendNewThread(c, w, p, size)
                       \/ \E id \in Draws : sendInConvo(c, w, id, p, size)
          PROVE  Once'
      BY <3>2, CallsOnce
    <3> QED
      BY <2>1, <3>1, <3>2, WriteOnce, AskOnce, EndOnce, ServeOnce, LoseOnce DEF Next
  <2>2. CASE UNCHANGED vars
    BY <2>2 DEF vars, Once, InOnePlace, InOneMessage, KeysDrawn, ShortCalls, At, AskAt, ReqAt,
                BoxAt, ResAt, RowAt, CanAsk, Exchanging
  <2> QED
    BY <2>1, <2>2
<1> QED
  BY <1>1, InitOnce, OwnedInvariant, TypeInvariant, SecretsInvariant, PTL DEF Spec

-----------------------------------------------------------------------------
(* What two databases have in common *)

Stays == "delete" \notin Mended

\* The row of a contact to whom the owner sent the first message of a handshake
\* with this ephemeral key, and of one whose first message it answered.
Begun(row, e) ==
    /\ row # Null
    /\ \/ row.tag = 0 /\ row.blob = e
       \/ row.tag = 2 /\ row.c1.from = "initiator" /\ row.c1.init = e
Accepted(row, e, f) ==
    /\ row # Null
    /\ row.tag = 2 /\ row.c1.from = "responder"
    /\ row.c1.init = e /\ row.c1.resp = f

HasConvo(d, x, p) == d.convos[x] # Null /\ d.convos[x].peer = p

\* What c, whose database is d, can have sent to p in the conversation x.
Sendable(c, p, d, x, content) ==
    /\ p \in Clients \ {c}
    /\ content.kind = "first" =>
          /\ x.who = c /\ content.init.who = c
          /\ Stays => Begun(d.contacts[p], content.init)
    /\ content.kind = "second" =>
          /\ x.who = c /\ content.resp.who = c
          /\ Stays => Accepted(d.contacts[p], content.init, content.resp)
    /\ content.kind = "aead" => HasConvo(d, x, p)

\* The row that c has of p agrees with the one that p has of c.
ContactAgrees(c, p, row, theirs) ==
    /\ p # c
    /\ row.tag = 0 => row.blob.who = c
    /\ row.tag = 1 /\ row.blob.kind = "first" =>
          row.blob.init.who = p /\ (Stays => Begun(theirs, row.blob.init))
    /\ row.tag = 2 =>
          /\ Twins(row)
          /\ row.c1.from = "initiator" =>
                /\ row.c1.init.who = c /\ row.c1.resp.who = p
                /\ Stays => Accepted(theirs, row.c1.init, row.c1.resp)
          /\ row.c1.from = "responder" =>
                /\ row.c1.init.who = p /\ row.c1.resp.who = c
                /\ Stays => Begun(theirs, row.c1.init)

\* A conversation was drawn by one of the two, and what the other drew that one
\* has, as long as contacts are not deleted.
ConvoAgrees(c, x, row, D) ==
    /\ row.peer \in Clients \ {c}
    /\ row.c1.thread.init.who # row.c1.thread.resp.who
    /\ x.who = c \/ (x.who = row.peer /\ (Stays => HasConvo(D[row.peer], x, c)))

\* The conversations with p that q drew.
DrawnWith(d, q, p) == {x \in Draws : x.who = q /\ HasConvo(d, x, p)}

\* A client's thread state was ratcheted for every thread it created, and its
\* peer's not more often than it has threads of the peer.
Counted(c, d) ==
    \A p \in Clients :
        IF IsAdded(d, p)
        THEN /\ Cardinality(DrawnWith(d, c, p)) <= d.contacts[p].c1.turn
             /\ d.contacts[p].c2.turn <= Cardinality(DrawnWith(d, p, p))
        ELSE DrawnWith(d, c, p) = {}

\* The database d of c agrees with those that the others have in D.
Agrees(c, d, D) ==
    /\ \A p \in Clients :
          d.contacts[p] # Null => ContactAgrees(c, p, d.contacts[p], D[p].contacts[c])
    /\ \A x \in Draws : d.convos[x] # Null => ConvoAgrees(c, x, d.convos[x], D)
    /\ Stays => Counted(c, d)

\* What others know of a database is still so.
Onward(d, e) ==
    /\ \A x \in Draws : d.convos[x] # Null =>
          /\ e.convos[x] # Null
          /\ e.convos[x].peer = d.convos[x].peer
          /\ e.convos[x].c1.thread = d.convos[x].c1.thread
    /\ Stays => \A p \in Clients : \A f, g \in Draws :
          /\ Begun(d.contacts[p], f) => Begun(e.contacts[p], f)
          /\ Accepted(d.contacts[p], f, g) => Accepted(e.contacts[p], f, g)

AgreesNext(c, d, e, D) == Agrees(c, e, D) /\ Onward(d, e)

AgreesAlong(c, d, ws, D) ==
    /\ AgreesNext(c, d, After1(d, ws), D)
    /\ AgreesNext(c, After1(d, ws), After2(d, ws), D)
    /\ AgreesNext(c, After2(d, ws), After3(d, ws), D)
    /\ AgreesNext(c, After3(d, ws), After4(d, ws), D)

CallAgrees(c, d, call, D) ==
    /\ AgreesAlong(c, d, call.writes, D)
    /\ Sends(call.ask) =>
          Sendable(c, call.ask.to, After4(d, call.writes), call.ask.convo, call.ask.content)

SentTo(p, m, D) == m.from \in Clients /\ Sendable(m.from, p, D[m.from], m.convo, m.content)

WireAgrees(wire, D) ==
    /\ Sends(wire.req) =>
          /\ wire.owner \in Clients
          /\ Sendable(wire.owner, wire.req.to, D[wire.owner], wire.req.convo, wire.req.content)
    /\ Hands(wire.res) =>
          SentTo(wire.owner, wire.res.msg, D)

DatabasesAgree == \A c \in Clients : Agrees(c, db[c], db)
CallsAgree ==
    \A c \in Clients, w \in Workers :
        op[c][w] # Idle => CallAgrees(c, db[c], op[c][w], db)
WiresAgree == \A k \in Conns : WireAgrees(conn[k], db)
BoxesAgree ==
    \A p \in Clients : \A i \in DOMAIN pending[p] : SentTo(p, pending[p][i], db)

\* The invariant.
Agreement == DatabasesAgree /\ CallsAgree /\ WiresAgree /\ BoxesAgree


\* What is known of a row stays known, and there is one key in it.
LEMMA BegunOnce ==
    ASSUME NEW row, NEW e, Begun(row, e)
    PROVE  /\ \A f : Begun(row, f) => e = f
           /\ \A f, g : ~Accepted(row, f, g)
  BY DEF Begun, Accepted

\* A database is onward of itself.
LEMMA OnwardSame ==
    ASSUME NEW d
    PROVE  Onward(d, d)
  BY DEF Onward

\* What can have been sent stays so.
LEMMA SendableOnward ==
    ASSUME NEW c, NEW p, NEW d, NEW e, NEW x \in Draws, NEW content \in Contents,
           Sendable(c, p, d, x, content), Onward(d, e)
    PROVE  Sendable(c, p, e, x, content)
<1>1. /\ content.kind = "first" => content.init \in Draws
      /\ content.kind = "second" => content.init \in Draws /\ content.resp \in Draws
  BY ContentsKinds
<1>2. p \in Clients
  BY DEF Sendable
<1>3. content.kind = "first" /\ Stays => Begun(e.contacts[p], content.init)
  BY <1>1, <1>2 DEF Sendable, Onward
<1>4. content.kind = "second" /\ Stays => Accepted(e.contacts[p], content.init, content.resp)
  <2>1. SUFFICES ASSUME content.kind = "second", Stays
                 PROVE  Accepted(e.contacts[p], content.init, content.resp)
    OBVIOUS
  <2>2. Accepted(d.contacts[p], content.init, content.resp)
    BY <2>1 DEF Sendable
  <2>3. content.init \in Draws /\ content.resp \in Draws
    BY <1>1, <2>1
  <2> QED
    BY <1>2, <2>1, <2>2, <2>3 DEF Onward
<1>5. content.kind = "aead" => HasConvo(e, x, p)
  BY DEF Sendable, Onward, HasConvo
<1> QED
  BY <1>3, <1>4, <1>5 DEF Sendable

\* A row agrees with what its peer's row becomes.
LEMMA ContactOnward ==
    ASSUME NEW c, NEW p \in Clients, NEW q \in Clients, NEW row \in ContactRows, NEW d, NEW e,
           ContactAgrees(c, p, row, d.contacts[q]), Onward(d, e)
    PROVE  ContactAgrees(c, p, row, e.contacts[q])
<1>1. CASE row.tag = 1 /\ row.blob.kind = "first"
  <2>1. row.blob.init \in Draws
    BY <1>1, RowFields, ContentsKinds
  <2>2. Stays => Begun(e.contacts[q], row.blob.init)
    BY <1>1, <2>1 DEF ContactAgrees, Onward
  <2> QED
    BY <1>1, <2>2 DEF ContactAgrees
<1>2. CASE row.tag = 2
  <2>1. row.c1.init \in Draws /\ row.c1.resp \in Draws
    BY <1>2, RowFields, Halves
  <2>2. row.c1.from = "initiator" /\ Stays => Accepted(e.contacts[q], row.c1.init, row.c1.resp)
    <3>1. SUFFICES ASSUME row.c1.from = "initiator", Stays
                   PROVE  Accepted(e.contacts[q], row.c1.init, row.c1.resp)
      OBVIOUS
    <3>2. Accepted(d.contacts[q], row.c1.init, row.c1.resp)
      BY <1>2, <3>1 DEF ContactAgrees
    <3> QED
      BY <2>1, <3>1, <3>2 DEF Onward
  <2>3. row.c1.from = "responder" /\ Stays => Begun(e.contacts[q], row.c1.init)
    BY <1>2, <2>1 DEF ContactAgrees, Onward
  <2> QED
    BY <1>2, <2>2, <2>3 DEF ContactAgrees
<1>3. CASE row.tag # 2 /\ ~(row.tag = 1 /\ row.blob.kind = "first")
  BY <1>3 DEF ContactAgrees
<1> QED
  BY <1>1, <1>2, <1>3

\* A database still agrees with the others when they move on.
LEMMA AgreesOnward ==
    ASSUME NEW c \in Clients, NEW d \in Databases, NEW D, NEW E,
           \A q \in Clients : Onward(D[q], E[q]),
           Agrees(c, d, D)
    PROVE  Agrees(c, d, E)
<1>1. ASSUME NEW p \in Clients, d.contacts[p] # Null
      PROVE  ContactAgrees(c, p, d.contacts[p], E[p].contacts[c])
  <2>1. d.contacts[p] \in ContactRows
    BY <1>1 DEF Databases
  <2>2. ContactAgrees(c, p, d.contacts[p], D[p].contacts[c])
    BY <1>1 DEF Agrees
  <2> QED
    BY <2>1, <2>2, ContactOnward
<1>2. ASSUME NEW x \in Draws, d.convos[x] # Null
      PROVE  ConvoAgrees(c, x, d.convos[x], E)
  <2>1. ConvoAgrees(c, x, d.convos[x], D) /\ d.convos[x].peer \in Clients
    BY <1>2 DEF Agrees, ConvoAgrees
  <2>2. HasConvo(D[d.convos[x].peer], x, c) => HasConvo(E[d.convos[x].peer], x, c)
    BY <2>1 DEF HasConvo, Onward
  <2> QED
    BY <2>1, <2>2 DEF ConvoAgrees
<1> QED
  BY <1>1, <1>2 DEF Agrees

\* The databases that a call goes through.
LEMMA AfterType ==
    ASSUME NEW d \in Databases, NEW ws \in Seq(Statements)
    PROVE  /\ After1(d, ws) \in Databases /\ After2(d, ws) \in Databases
           /\ After3(d, ws) \in Databases /\ After4(d, ws) \in Databases
<1>1. ASSUME NEW e \in Databases, NEW i \in {1, 2, 3, 4}
      PROVE  Done(e, ws, i) \in Databases
  <2>1. CASE i <= Len(ws)
    <3>1. ws[i] \in Statements
      BY <2>1
    <3> QED
      BY <2>1, <3>1, ExecutedType DEF Done
  <2>2. CASE ~(i <= Len(ws))
    BY <2>2 DEF Done
  <2> QED
    BY <2>1, <2>2
<1> QED
  BY <1>1 DEF After1, After2, After3, After4

\* And so does a call that runs.
LEMMA CallOnward ==
    ASSUME NEW c \in Clients, NEW d \in Databases, NEW call \in Calls, NEW D, NEW E,
           \A q \in Clients : Onward(D[q], E[q]),
           CallAgrees(c, d, call, D)
    PROVE  CallAgrees(c, d, call, E)
<1>1. call.writes \in Seq(Statements)
  BY DEF Calls
<1>2. AgreesAlong(c, d, call.writes, E)
  BY <1>1, AfterType, AgreesOnward DEF CallAgrees, AgreesAlong, AgreesNext
<1> QED
  BY <1>2 DEF CallAgrees

\* The database after a call that agrees, and the one it started with.
LEMMA OnwardTwice ==
    ASSUME NEW d, NEW e, NEW f, Onward(d, e), Onward(e, f)
    PROVE  Onward(d, f)
  BY DEF Onward

\* A client drew finitely many conversations.
LEMMA DrawnFinite ==
    ASSUME NEW d, NEW q, NEW p
    PROVE  IsFiniteSet(DrawnWith(d, q, p)) /\ Cardinality(DrawnWith(d, q, p)) \in Nat
<1> DEFINE S == DrawnWith(d, q, p)
           f == [x \in S |-> x.no]
<1>1. \A x \in S : x \in Draws /\ x.who = q
  BY DEF DrawnWith
<1>2. \A x, y \in S : x.no = y.no => x = y
  BY <1>1 DEF Draws
<1>3. \A x \in S : x.no \in 1 .. MaxDraws
  BY <1>1 DEF Draws
<1> HIDE DEF S
<1>4. f \in Injection(S, 1 .. MaxDraws)
  BY <1>2, <1>3 DEF Injection, IsInjective
<1>5. IsFiniteSet(1 .. MaxDraws)
  BY FS_Interval, MaxDrawsAssumption
<1>6. IsFiniteSet(S)
  BY <1>4, <1>5, FS_Injection
<1> QED
  BY <1>6, FS_CardinalityType DEF S

\* A statement that changes the row of one contact.
LEMMA ContactNext ==
    ASSUME NEW c \in Clients, NEW d \in Databases, NEW e \in Databases, NEW D, Agrees(c, d, D),
           NEW p \in Clients, e.convos = d.convos,
           \A q \in Clients \ {p} : e.contacts[q] = d.contacts[q],
           e.contacts[p] # Null => ContactAgrees(c, p, e.contacts[p], D[p].contacts[c]),
           Stays => \A f, g \in Draws :
              /\ Begun(d.contacts[p], f) => Begun(e.contacts[p], f)
              /\ Accepted(d.contacts[p], f, g) => Accepted(e.contacts[p], f, g),
           Stays =>
              IF IsAdded(e, p)
              THEN /\ Cardinality(DrawnWith(d, c, p)) <= e.contacts[p].c1.turn
                   /\ e.contacts[p].c2.turn <= Cardinality(DrawnWith(d, p, p))
              ELSE DrawnWith(d, c, p) = {}
    PROVE  AgreesNext(c, d, e, D)
<1>1. \A q : DrawnWith(e, c, q) = DrawnWith(d, c, q) /\ DrawnWith(e, q, q) = DrawnWith(d, q, q)
  BY DEF DrawnWith, HasConvo
<1>2. \A q \in Clients \ {p} : IsAdded(e, q) <=> IsAdded(d, q)
  BY DEF IsAdded
<1>3. Stays => Counted(c, e)
  BY <1>1, <1>2 DEF Agrees, Counted
<1>4. Agrees(c, e, D)
  BY <1>3 DEF Agrees
<1>5. Onward(d, e)
  <2>1. ASSUME Stays, NEW q \in Clients, NEW f \in Draws, NEW g \in Draws
        PROVE  /\ Begun(d.contacts[q], f) => Begun(e.contacts[q], f)
               /\ Accepted(d.contacts[q], f, g) => Accepted(e.contacts[q], f, g)
    <3>1. CASE q = p
      BY <2>1, <3>1
    <3>2. CASE q # p
      BY <3>2
    <3> QED
      BY <3>1, <3>2
  <2>2. \A x \in Draws : d.convos[x] # Null =>
          /\ e.convos[x] # Null
          /\ e.convos[x].peer = d.convos[x].peer
          /\ e.convos[x].c1.thread = d.convos[x].c1.thread
    OBVIOUS
  <2> QED
    BY <2>1, <2>2 DEF Onward
<1> QED
  BY <1>4, <1>5 DEF AgreesNext

\* A statement that creates a conversation.
LEMMA ConvoNext ==
    ASSUME NEW c \in Clients, NEW d \in Databases, NEW e \in Databases, NEW D, Agrees(c, d, D),
           NEW x \in Draws, e.contacts = d.contacts,
           \A y \in Draws \ {x} : e.convos[y] = d.convos[y],
           d.convos[x] = Null, e.convos[x] # Null,
           ConvoAgrees(c, x, e.convos[x], D),
           NEW p, p = e.convos[x].peer,
           Stays /\ x.who = c =>
              /\ IsAdded(d, p)
              /\ Cardinality(DrawnWith(d, c, p)) + 1 <= d.contacts[p].c1.turn
    PROVE  AgreesNext(c, d, e, D)
<1>1. p \in Clients
  BY DEF ConvoAgrees
<1>2. Onward(d, e)
  BY DEF Onward
<1>3. ASSUME NEW q, NEW r
      PROVE  DrawnWith(e, q, r) = IF x.who = q /\ r = p THEN DrawnWith(d, q, r) \cup {x}
                                  ELSE DrawnWith(d, q, r)
  <2>1. \A y \in Draws : HasConvo(e, y, r) <=> HasConvo(d, y, r) \/ (y = x /\ r = p)
    BY DEF HasConvo
  <2> QED
    BY <2>1 DEF DrawnWith
<1>4. ASSUME NEW q, NEW r
      PROVE  /\ Cardinality(DrawnWith(d, q, r)) <= Cardinality(DrawnWith(e, q, r))
             /\ Cardinality(DrawnWith(e, q, r)) <= Cardinality(DrawnWith(d, q, r)) + 1
  <2> DEFINE S == DrawnWith(d, q, r)
             T == DrawnWith(e, q, r)
  <2>1. IsFiniteSet(S) /\ Cardinality(S) \in Nat
    BY DrawnFinite
  <2>2. T = S \/ T = S \cup {x}
    BY <1>3
  <2> HIDE DEF S, T
  <2>3. Cardinality(S \cup {x}) \in {Cardinality(S), Cardinality(S) + 1}
    BY <2>1, FS_AddElement
  <2> QED
    BY <2>1, <2>2, <2>3 DEF S, T
<1>5. ASSUME Stays, NEW q \in Clients
      PROVE  IF IsAdded(e, q)
             THEN /\ Cardinality(DrawnWith(e, c, q)) <= e.contacts[q].c1.turn
                  /\ e.contacts[q].c2.turn <= Cardinality(DrawnWith(e, q, q))
             ELSE DrawnWith(e, c, q) = {}
  <2>0. /\ IsAdded(e, q) <=> IsAdded(d, q)
        /\ e.contacts[q] = d.contacts[q]
        /\ IF IsAdded(d, q)
           THEN /\ Cardinality(DrawnWith(d, c, q)) <= d.contacts[q].c1.turn
                /\ d.contacts[q].c2.turn <= Cardinality(DrawnWith(d, q, q))
           ELSE DrawnWith(d, c, q) = {}
    BY <1>5 DEF IsAdded, Agrees, Counted
  <2>1. CASE x.who = c /\ q = p
    <3>1. /\ IsAdded(d, p)
          /\ Cardinality(DrawnWith(d, c, p)) + 1 <= d.contacts[p].c1.turn
      BY <1>5, <2>1
    <3>2. /\ Cardinality(DrawnWith(e, c, p)) \in Nat /\ Cardinality(DrawnWith(d, c, p)) \in Nat
          /\ Cardinality(DrawnWith(d, p, p)) \in Nat /\ Cardinality(DrawnWith(e, p, p)) \in Nat
      BY DrawnFinite
    <3>3. d.contacts[p].c1.turn \in Nat /\ d.contacts[p].c2.turn \in Nat
      BY <1>1, <3>1, TurnsType
    <3> QED
      BY <1>4, <2>0, <2>1, <3>1, <3>2, <3>3
  <2>2. CASE ~(x.who = c /\ q = p)
    <3>1. DrawnWith(e, c, q) = DrawnWith(d, c, q)
      BY <1>3, <2>2
    <3>2. CASE IsAdded(d, q)
      <4>1. Cardinality(DrawnWith(d, q, q)) \in Nat /\ Cardinality(DrawnWith(e, q, q)) \in Nat
        BY DrawnFinite
      <4>2. d.contacts[q].c2.turn \in Nat
        BY <3>2, TurnsType
      <4> QED
        BY <1>4, <2>0, <3>1, <3>2, <4>1, <4>2
    <3> QED
      BY <2>0, <3>1, <3>2
  <2> QED
    BY <2>1, <2>2
<1>6. \A q \in Clients :
         e.contacts[q] # Null => ContactAgrees(c, q, e.contacts[q], D[q].contacts[c])
  BY DEF Agrees
<1>7. \A y \in Draws : e.convos[y] # Null => ConvoAgrees(c, y, e.convos[y], D)
  BY DEF Agrees
<1> QED
  BY <1>2, <1>5, <1>6, <1>7 DEF AgreesNext, Agrees, Counted

\* A statement that leaves contacts, and peers and threads of conversations alone.
LEMMA QuietNext ==
    ASSUME NEW c \in Clients, NEW d \in Databases, NEW D, Agrees(c, d, D), NEW st \in Statements,
           \/ st.do \in {"updateTitle", "storeMessage"}
           \/ st.do = "updateSessionKeys" /\ st.c1 = Null
           \/ /\ st.do = "updateSessionKeys"
              /\ d.convos[st.id] # Null => st.c1.thread = d.convos[st.id].c1.thread
    PROVE  AgreesNext(c, d, Executed(d, st), D)
<1> DEFINE e == Executed(d, st)
<1>1. e.contacts = d.contacts
  BY ExecutedFrame DEF ContactStatements
<1>2. ASSUME NEW x \in Draws
      PROVE  /\ e.convos[x] # Null <=> d.convos[x] # Null
             /\ d.convos[x] # Null => /\ e.convos[x].peer = d.convos[x].peer
                                      /\ e.convos[x].c1.thread = d.convos[x].c1.thread
  <2> DEFINE row == d.convos[x]
  <2>1. CASE e.convos[x] = row
    BY <2>1
  <2>2. CASE row # Null /\ e.convos[x] = [row EXCEPT !.title = st.title]
    <3>1. row \in ConvoRows
      BY <2>2 DEF Databases
    <3>2. /\ [row EXCEPT !.title = st.title].peer = row.peer
          /\ [row EXCEPT !.title = st.title].c1 = row.c1
      BY <3>1 DEF ConvoRows
    <3>3. e.convos[x] # Null
      BY <2>2, RowsStay, RowAssumption
    <3> QED
      BY <2>2, <3>2, <3>3
  <2>3. CASE row # Null /\ st.do = "updateSessionKeys" /\ st.id = x /\ e.convos[x] = SetOne(row, st)
    <3>1. row \in ConvoRows
      BY <2>3 DEF Databases
    <3>2. e.convos[x] # Null
      BY RowsStay, <2>3, RowAssumption
    <3>3. CASE st.c1 = Null
      <4>1. e.convos[x] = [row EXCEPT !.c2 = st.c2]
        BY <2>3, <3>3 DEF SetOne
      <4>2. [row EXCEPT !.c2 = st.c2].peer = row.peer /\ [row EXCEPT !.c2 = st.c2].c1 = row.c1
        BY <3>1 DEF ConvoRows
      <4> QED
        BY <2>3, <3>2, <4>1, <4>2
    <3>4. CASE st.c1 # Null
      <4>1. e.convos[x] = [row EXCEPT !.c1 = st.c1]
        BY <2>3, <3>4 DEF SetOne
      <4>2. [row EXCEPT !.c1 = st.c1].peer = row.peer /\ [row EXCEPT !.c1 = st.c1].c1 = st.c1
        BY <3>1 DEF ConvoRows
      <4>3. st.c1.thread = row.c1.thread
        BY <2>3, <3>4
      <4> QED
        BY <2>3, <3>2, <4>1, <4>2, <4>3
    <3> QED
      BY <3>3, <3>4
  <2> QED
    BY <2>1, <2>2, <2>3, ExecutedConvo
<1> HIDE DEF e
<1>3. \A q, p : DrawnWith(e, q, p) = DrawnWith(d, q, p)
  BY <1>2 DEF DrawnWith, HasConvo
<1>4. \A q : IsAdded(e, q) <=> IsAdded(d, q)
  BY <1>1 DEF IsAdded
<1>5. Counted(c, d) => Counted(c, e)
  BY <1>1, <1>3, <1>4 DEF Counted
<1>6. \A x \in Draws : ConvoAgrees(c, x, d.convos[x], D) /\ d.convos[x] # Null =>
                          ConvoAgrees(c, x, e.convos[x], D)
  BY <1>2 DEF ConvoAgrees
<1>7. Agrees(c, e, D)
  BY <1>1, <1>2, <1>5, <1>6 DEF Agrees
<1>8. Onward(d, e)
  BY <1>1, <1>2 DEF Onward
<1> QED
  BY <1>7, <1>8 DEF AgreesNext, e

\* Nothing is executed.
LEMMA SameNext ==
    ASSUME NEW c, NEW d, NEW D, Agrees(c, d, D)
    PROVE  AgreesNext(c, d, d, D)
  BY OnwardSame DEF AgreesNext

\* The statements of a call, one after the other.
LEMMA AlongForms ==
    ASSUME NEW c, NEW d, NEW D, Agrees(c, d, D)
    PROVE  /\ AgreesAlong(c, d, <<>>, D)
           /\ \A s1, e : e = Executed(d, s1) /\ AgreesNext(c, d, e, D) =>
                 AgreesAlong(c, d, <<s1>>, D)
           /\ \A s1, s2, e, f :
                 (/\ e = Executed(d, s1) /\ f = Executed(e, s2)
                  /\ AgreesNext(c, d, e, D) /\ AgreesNext(c, e, f, D)) =>
                     AgreesAlong(c, d, <<s1, s2>>, D)
           /\ \A s1, s2, s3, e, f, g :
                 (/\ e = Executed(d, s1) /\ f = Executed(e, s2) /\ g = Executed(f, s3)
                  /\ AgreesNext(c, d, e, D) /\ AgreesNext(c, e, f, D) /\ AgreesNext(c, f, g, D)) =>
                     AgreesAlong(c, d, <<s1, s2, s3>>, D)
           /\ \A s1, s2, s3, s4, e, f, g, h :
                 (/\ e = Executed(d, s1) /\ f = Executed(e, s2) /\ g = Executed(f, s3)
                  /\ h = Executed(g, s4)
                  /\ AgreesNext(c, d, e, D) /\ AgreesNext(c, e, f, D) /\ AgreesNext(c, f, g, D)
                  /\ AgreesNext(c, g, h, D)) =>
                     AgreesAlong(c, d, <<s1, s2, s3, s4>>, D)
<1>1. \A e : AgreesNext(c, d, e, D) => AgreesNext(c, e, e, D)
  BY SameNext DEF AgreesNext
<1>2. \A e, f : AgreesNext(c, e, f, D) => AgreesNext(c, f, f, D)
  BY SameNext DEF AgreesNext
<1>3. AgreesAlong(c, d, <<>>, D)
  BY SameNext, AfterNone DEF AgreesAlong
<1>4. ASSUME NEW s1, NEW e, e = Executed(d, s1), AgreesNext(c, d, e, D)
      PROVE  AgreesAlong(c, d, <<s1>>, D)
  BY <1>1, <1>4, AfterOne DEF AgreesAlong
<1>5. ASSUME NEW s1, NEW s2, NEW e, NEW f, e = Executed(d, s1), f = Executed(e, s2),
             AgreesNext(c, d, e, D), AgreesNext(c, e, f, D)
      PROVE  AgreesAlong(c, d, <<s1, s2>>, D)
  BY <1>2, <1>5, AfterTwo DEF AgreesAlong
<1>6. ASSUME NEW s1, NEW s2, NEW s3, NEW e, NEW f, NEW g,
             e = Executed(d, s1), f = Executed(e, s2), g = Executed(f, s3),
             AgreesNext(c, d, e, D), AgreesNext(c, e, f, D), AgreesNext(c, f, g, D)
      PROVE  AgreesAlong(c, d, <<s1, s2, s3>>, D)
  BY <1>2, <1>6, AfterThree DEF AgreesAlong
<1>7. ASSUME NEW s1, NEW s2, NEW s3, NEW s4, NEW e, NEW f, NEW g, NEW h,
             e = Executed(d, s1), f = Executed(e, s2), g = Executed(f, s3), h = Executed(g, s4),
             AgreesNext(c, d, e, D), AgreesNext(c, e, f, D), AgreesNext(c, f, g, D),
             AgreesNext(c, g, h, D)
      PROVE  AgreesAlong(c, d, <<s1, s2, s3, s4>>, D)
  BY <1>7, AfterFour DEF AgreesAlong
<1> QED
  BY <1>3, <1>4, <1>5, <1>6, <1>7

\* addContact: the row is there before the first message goes out.
LEMMA AgreesAdd ==
    ASSUME NEW c \in Clients, NEW d \in Databases, NEW D, Agrees(c, d, D),
           NEW p \in Clients \ {c}, d.contacts[p] = Null, NEW f \in Draws, f.who = c,
           NEW ws, ws = <<addContact(p, f)>>
    PROVE  AgreesAlong(c, d, ws, D) /\ Begun(After4(d, ws).contacts[p], f)
<1> DEFINE st == addContact(p, f)
           e == Executed(d, st)
<1>1. st \in Statements /\ st.do \in ContactStatements /\ st.who = p
  BY StatementsType DEF addContact, ContactStatements
<1>2. /\ e \in Databases /\ e.convos = d.convos
      /\ \A q \in Clients \ {p} : e.contacts[q] = d.contacts[q]
  BY <1>1, ExecutedType, ExecutedFrame
<1>3. e.contacts[p] = NewContact(0, f)
  BY ExecutedContact
<1>4. NewContact(0, f).tag = 0 /\ NewContact(0, f).blob = f /\ NewContact(0, f) # Null
  <2>1. NewContact(0, f) \in ContactRows
    BY DEF NewContact, ContactRows
  <2> QED
    BY <2>1, RowAssumption DEF NewContact
<1>5. ContactAgrees(c, p, e.contacts[p], D[p].contacts[c]) /\ Begun(e.contacts[p], f)
  BY <1>3, <1>4 DEF ContactAgrees, Begun
<1>6. ~IsAdded(d, p) /\ ~IsAdded(e, p) /\ \A g, h : ~Begun(d.contacts[p], g) /\ ~Accepted(d.contacts[p], g, h)
  BY <1>3, <1>4 DEF IsAdded, Begun, Accepted
<1>7. Stays => DrawnWith(d, c, p) = {}
  BY <1>6 DEF Agrees, Counted
<1>8. After4(d, ws) = e
  BY AfterOne
<1> HIDE DEF e
<1>9. AgreesNext(c, d, e, D)
  BY <1>2, <1>5, <1>6, <1>7, ContactNext
<1> QED
  BY <1>5, <1>8, <1>9, AlongForms DEF e

\* addContactFromReq: what the message says is so on the other side.
LEMMA AgreesHear ==
    ASSUME NEW c \in Clients, NEW d \in Databases, NEW D, Agrees(c, d, D),
           NEW p \in Clients, d.contacts[p] = Null, NEW ct \in Contents, NEW x,
           Sendable(p, c, D[p], x, ct)
    PROVE  AgreesAlong(c, d, <<addContactFromReq(p, ct)>>, D)
<1> DEFINE st == addContactFromReq(p, ct)
           e == Executed(d, st)
<1>1. st \in Statements /\ st.do \in ContactStatements /\ st.who = p
  BY StatementsType DEF addContactFromReq, ContactStatements
<1>2. /\ e \in Databases /\ e.convos = d.convos
      /\ \A q \in Clients \ {p} : e.contacts[q] = d.contacts[q]
  BY <1>1, ExecutedType, ExecutedFrame
<1>3. e.contacts[p] = NewContact(1, ct)
  BY ExecutedContact
<1>4. NewContact(1, ct).tag = 1 /\ NewContact(1, ct).blob = ct
  BY DEF NewContact
<1>5. ContactAgrees(c, p, e.contacts[p], D[p].contacts[c])
  BY <1>3, <1>4 DEF ContactAgrees, Sendable
<1>6. ~IsAdded(d, p) /\ ~IsAdded(e, p) /\ \A g, h : ~Begun(d.contacts[p], g) /\ ~Accepted(d.contacts[p], g, h)
  BY <1>3, <1>4 DEF IsAdded, Begun, Accepted
<1>7. Stays => DrawnWith(d, c, p) = {}
  BY <1>6 DEF Agrees, Counted
<1> HIDE DEF e
<1>8. AgreesNext(c, d, e, D)
  BY <1>2, <1>5, <1>6, <1>7, ContactNext
<1> QED
  BY <1>8, AlongForms DEF e

\* finalizeContact, on either side.
LEMMA AgreesFinalize ==
    ASSUME NEW c \in Clients, NEW d \in Databases, NEW D, Agrees(c, d, D),
           NEW p \in Clients, d.contacts[p] # Null, d.contacts[p].tag # 2,
           NEW t1 \in ThreadStates, NEW t2 \in ThreadStates, t1.turn = 0, t2.turn = 0,
           NEW row, row = [tag |-> 2, blob |-> Null, c1 |-> t1, c2 |-> t2],
           ContactAgrees(c, p, row, D[p].contacts[c]),
           d.contacts[p].tag = 0 => t1.from = "initiator" /\ t1.init = d.contacts[p].blob,
           NEW ws, ws = <<finalizeContact(p, t1, t2)>>
    PROVE  AgreesAlong(c, d, ws, D) /\ After4(d, ws).contacts[p] = row
<1> DEFINE st == finalizeContact(p, t1, t2)
           e == Executed(d, st)
<1>1. st \in Statements /\ st.do \in ContactStatements /\ st.who = p
  BY StatementsType DEF finalizeContact, ContactStatements
<1>2. /\ e \in Databases /\ e.convos = d.convos
      /\ \A q \in Clients \ {p} : e.contacts[q] = d.contacts[q]
  BY <1>1, ExecutedType, ExecutedFrame
<1>3. e.contacts[p] = row
  BY ExecutedFinalize
<1>4. row.tag = 2 /\ row.c1 = t1 /\ row.c2 = t2 /\ row # Null
  <2>1. row \in ContactRows
    BY DEF ContactRows
  <2> QED
    BY <2>1, RowAssumption
<1>5. ~IsAdded(d, p) /\ IsAdded(e, p)
  BY <1>3, <1>4 DEF IsAdded
<1>6. \A f, g : /\ Begun(d.contacts[p], f) => Begun(e.contacts[p], f)
                /\ ~Accepted(d.contacts[p], f, g)
  BY <1>3, <1>4 DEF Begun, Accepted
<1>7. Stays => /\ Cardinality(DrawnWith(d, c, p)) <= e.contacts[p].c1.turn
               /\ e.contacts[p].c2.turn <= Cardinality(DrawnWith(d, p, p))
  <2>1. Stays => DrawnWith(d, c, p) = {}
    BY <1>5 DEF Agrees, Counted
  <2>2. Cardinality({}) = 0
    BY FS_EmptySet
  <2>3. Cardinality(DrawnWith(d, p, p)) \in Nat
    BY DrawnFinite
  <2> QED
    BY <1>3, <1>4, <2>1, <2>2, <2>3
<1>8. After4(d, ws) = e
  BY AfterOne
<1> HIDE DEF e
<1>9. AgreesNext(c, d, e, D)
  BY <1>2, <1>3, <1>5, <1>6, <1>7, ContactNext
<1> QED
  BY <1>3, <1>8, <1>9, AlongForms DEF e

\* deleteContact, where it may happen.
LEMMA AgreesForget ==
    ASSUME ~Stays, NEW c \in Clients, NEW d \in Databases, NEW D, Agrees(c, d, D),
           NEW p \in Clients
    PROVE  AgreesAlong(c, d, <<deleteContact(p)>>, D)
<1> DEFINE st == deleteContact(p)
           e == Executed(d, st)
<1>1. st \in Statements /\ st.do \in ContactStatements /\ st.who = p
  BY StatementsType DEF deleteContact, ContactStatements
<1>2. /\ e \in Databases /\ e.convos = d.convos
      /\ \A q \in Clients \ {p} : e.contacts[q] = d.contacts[q]
  BY <1>1, ExecutedType, ExecutedFrame
<1>3. e.contacts[p] = Null
  BY ExecutedContact
<1> HIDE DEF e
<1>4. AgreesNext(c, d, e, D)
  BY <1>2, <1>3, ContactNext
<1> QED
  BY <1>4, AlongForms DEF e

\* A statement that changes nothing of what the others know.
LEMMA AgreesQuiet ==
    ASSUME NEW c \in Clients, NEW d \in Databases, NEW D, Agrees(c, d, D), NEW st \in Statements,
           \/ st.do \in {"updateTitle", "storeMessage"}
           \/ st.do = "updateSessionKeys" /\ st.c1 = Null
           \/ /\ st.do = "updateSessionKeys"
              /\ d.convos[st.id] # Null => st.c1.thread = d.convos[st.id].c1.thread
    PROVE  AgreesAlong(c, d, <<st>>, D)
<1>1. AgreesNext(c, d, Executed(d, st), D)
  BY QuietNext
<1> QED
  BY <1>1, AlongForms

\* A finished contact of an agreeing database.
LEMMA AddedRow ==
    ASSUME NEW c \in Clients, NEW d \in Databases, NEW D, Agrees(c, d, D),
           NEW p \in Clients, threadRatchetStatesReady(d, p), NEW row, row = d.contacts[p]
    PROVE  /\ row # Null /\ row.tag = 2 /\ row \in ContactRows /\ IsAdded(d, p)
           /\ row.c1 \in ThreadStates /\ row.c2 \in ThreadStates
           /\ ContactAgrees(c, p, row, D[p].contacts[c])
           /\ row.c1.init.who # row.c1.resp.who
           /\ row.c2.init.who # row.c2.resp.who
<1>1. row # Null /\ (row.tag = 2 \/ (row.tag = 1 /\ row.blob = Null))
  BY DEF threadRatchetStatesReady
<1>2. row \in ContactRows
  BY <1>1 DEF Databases
<1>3. row.tag = 2 /\ row.c1 \in ThreadStates /\ row.c2 \in ThreadStates
  BY <1>1, <1>2, RowFields, NullAssumption, ReadyHasStates
<1>4. ContactAgrees(c, p, row, D[p].contacts[c])
  BY <1>1 DEF Agrees
<1>5. row.c1.from \in {"initiator", "responder"}
  BY <1>3, Halves
<1>6. row.c1.init.who # row.c1.resp.who
  BY <1>3, <1>4, <1>5 DEF ContactAgrees
<1>7. row.c2.init = row.c1.init /\ row.c2.resp = row.c1.resp
  BY <1>3, <1>4 DEF ContactAgrees, Twins
<1> QED
  BY <1>1, <1>2, <1>3, <1>4, <1>6, <1>7 DEF IsAdded

\* updateThreadRatchetStates, for a thread of one's own or of the peer.
LEMMA RatchetNext ==
    ASSUME NEW c \in Clients, NEW d \in Databases, NEW D, Agrees(c, d, D),
           NEW p \in Clients, threadRatchetStatesReady(d, p), NEW row, row = d.contacts[p],
           NEW e,
           \/ e = Executed(d, updateThreadRatchetStates(p, Ratchet(row.c1), Null))
           \/ /\ e = Executed(d, updateThreadRatchetStates(p, Null, Ratchet(row.c2)))
              /\ Stays => row.c2.turn + 1 <= Cardinality(DrawnWith(d, p, p))
    PROVE  /\ AgreesNext(c, d, e, D) /\ e \in Databases /\ e.convos = d.convos
           /\ e.contacts[p] \in {[row EXCEPT !.c1 = Ratchet(row.c1)],
                                 [row EXCEPT !.c2 = Ratchet(row.c2)]}
           /\ e = Executed(d, updateThreadRatchetStates(p, Ratchet(row.c1), Null)) =>
                 e.contacts[p] = [row EXCEPT !.c1 = Ratchet(row.c1)]
<1>0. /\ row # Null /\ row.tag = 2 /\ row \in ContactRows /\ IsAdded(d, p)
      /\ row.c1 \in ThreadStates /\ row.c2 \in ThreadStates
      /\ ContactAgrees(c, p, row, D[p].contacts[c])
  BY AddedRow
<1>1. Ratchet(row.c1) \in ThreadStates /\ Ratchet(row.c2) \in ThreadStates
  BY <1>0, KeysType
<1>2. InitiatorThread(row.c1) # ResponderThread(row.c2)
  <2>1. InitiatorThread(row.c1).label # ResponderThread(row.c2).label
    BY <1>0, Halves
  <2> QED
    BY <2>1
<1>3. LET e1 == Executed(d, updateThreadRatchetStates(p, Ratchet(row.c1), Null))
          e2 == Executed(d, updateThreadRatchetStates(p, Null, Ratchet(row.c2)))
      IN  /\ e1 \in Databases /\ e1.convos = d.convos
          /\ \A q \in Clients \ {p} : e1.contacts[q] = d.contacts[q]
          /\ e1.contacts[p] = [row EXCEPT !.c1 = Ratchet(row.c1)]
          /\ e2 \in Databases /\ e2.convos = d.convos
          /\ \A q \in Clients \ {p} : e2.contacts[q] = d.contacts[q]
          /\ e2.contacts[p] = [row EXCEPT !.c2 = Ratchet(row.c2)]
  BY <1>2, ExecutedRatchet DEF Moved
<1>4. /\ e \in Databases /\ e.convos = d.convos
      /\ \A q \in Clients \ {p} : e.contacts[q] = d.contacts[q]
      /\ \/ e.contacts[p] = [row EXCEPT !.c1 = Ratchet(row.c1)]
         \/ /\ e.contacts[p] = [row EXCEPT !.c2 = Ratchet(row.c2)]
            /\ Stays => row.c2.turn + 1 <= Cardinality(DrawnWith(d, p, p))
  BY <1>3
<1>5. /\ Ratchet(row.c1).init = row.c1.init /\ Ratchet(row.c1).resp = row.c1.resp
      /\ Ratchet(row.c1).from = row.c1.from /\ Ratchet(row.c1).turn = row.c1.turn + 1
      /\ Ratchet(row.c2).init = row.c2.init /\ Ratchet(row.c2).resp = row.c2.resp
      /\ Ratchet(row.c2).from = row.c2.from /\ Ratchet(row.c2).turn = row.c2.turn + 1
      /\ row.c1.turn \in Nat /\ row.c2.turn \in Nat
  BY <1>0, Halves
<1>6. Stays => /\ Cardinality(DrawnWith(d, c, p)) <= row.c1.turn
               /\ row.c2.turn <= Cardinality(DrawnWith(d, p, p))
  BY <1>0 DEF Agrees, Counted
<1>7. Cardinality(DrawnWith(d, c, p)) \in Nat
  BY DrawnFinite
<1>8. PICK new \in ContactRows : new = e.contacts[p]
  <2>1. [row EXCEPT !.c1 = Ratchet(row.c1)] \in ContactRows
    BY <1>0, <1>1 DEF ContactRows
  <2>2. [row EXCEPT !.c2 = Ratchet(row.c2)] \in ContactRows
    BY <1>0, <1>1 DEF ContactRows
  <2> QED
    BY <1>4, <2>1, <2>2
<1>9. /\ new.tag = 2
      /\ new.c1.init = row.c1.init /\ new.c1.resp = row.c1.resp /\ new.c1.from = row.c1.from
      /\ new.c2.init = row.c2.init /\ new.c2.resp = row.c2.resp /\ new.c2.from = row.c2.from
      /\ Stays => /\ Cardinality(DrawnWith(d, c, p)) <= new.c1.turn
                  /\ new.c2.turn <= Cardinality(DrawnWith(d, p, p))
  <2>1. CASE new = [row EXCEPT !.c1 = Ratchet(row.c1)]
    <3>1. new.tag = row.tag /\ new.c1 = Ratchet(row.c1) /\ new.c2 = row.c2
      BY <1>0, <2>1 DEF ContactRows
    <3> QED
      BY <1>0, <1>5, <1>6, <1>7, <3>1
  <2>2. CASE /\ new = [row EXCEPT !.c2 = Ratchet(row.c2)]
             /\ Stays => row.c2.turn + 1 <= Cardinality(DrawnWith(d, p, p))
    <3>1. new.tag = row.tag /\ new.c1 = row.c1 /\ new.c2 = Ratchet(row.c2)
      BY <1>0, <2>2 DEF ContactRows
    <3> QED
      BY <1>0, <1>5, <1>6, <2>2, <3>1
  <2> QED
    BY <1>4, <1>8, <2>1, <2>2
<1>10. ContactAgrees(c, p, new, D[p].contacts[c])
  BY <1>0, <1>9 DEF ContactAgrees, Twins
<1>11. new # Null
  BY <1>8, RowAssumption
<1>12. \A f, g : /\ Begun(row, f) => Begun(new, f)
                 /\ Accepted(row, f, g) => Accepted(new, f, g)
  BY <1>0, <1>9, <1>11 DEF Begun, Accepted
<1>13. IsAdded(e, p)
  BY <1>8, <1>9, <1>11 DEF IsAdded
<1>14. AgreesNext(c, d, e, D)
  BY <1>4, <1>8, <1>9, <1>10, <1>12, <1>13, ContactNext
<1> QED
  BY <1>3, <1>4, <1>14

\* sendNewThread: the conversation is there before its first text goes out.
LEMMA AgreesThread ==
    ASSUME NEW c \in Clients, NEW d \in Databases, NEW D, Agrees(c, d, D),
           NEW p \in Clients \ {c}, threadRatchetStatesReady(d, p),
           NEW x \in Draws, x.who = c, d.convos[x] = Null, NEW t \in Texts,
           NEW t1, t1 = d.contacts[p].c1,
           NEW s1, s1 = InitiatorThread(t1), NEW s2, s2 = ResponderThread(t1),
           NEW ws, ws = <<updateThreadRatchetStates(p, Ratchet(t1), Null),
                          createConvo(x, p, t, s1, s2),
                          updateSessionKeys(x, p, AfterAEAD(s1), Null)>>
    PROVE  AgreesAlong(c, d, ws, D) /\ HasConvo(After4(d, ws), x, p)
<1> DEFINE u1 == updateThreadRatchetStates(p, Ratchet(t1), Null)
           u2 == createConvo(x, p, t, s1, s2)
           u3 == updateSessionKeys(x, p, AfterAEAD(s1), Null)
           e == Executed(d, u1)
           f == Executed(e, u2)
           g == Executed(f, u3)
<1>1. PICK row \in ContactRows : row = d.contacts[p]
  BY AddedRow
<1>2. /\ row.tag = 2 /\ IsAdded(d, p) /\ t1 = row.c1 /\ t1 \in ThreadStates /\ row.c2 \in ThreadStates
      /\ t1.init.who # t1.resp.who
  BY <1>1, AddedRow
<1>3. /\ AgreesNext(c, d, e, D) /\ e \in Databases /\ e.convos = d.convos
      /\ e.contacts[p] = [row EXCEPT !.c1 = Ratchet(t1)]
  BY <1>1, <1>2, RatchetNext
<1>4. Ratchet(t1).turn = t1.turn + 1 /\ t1.turn \in Nat /\ Ratchet(t1) \in ThreadStates
  BY <1>2, Halves, KeysType
<1>5. e.contacts[p].c1.turn = t1.turn + 1 /\ IsAdded(e, p)
  <2>1. [row EXCEPT !.c1 = Ratchet(t1)].c1 = Ratchet(t1) /\ [row EXCEPT !.c1 = Ratchet(t1)].tag = 2
    BY <1>2 DEF ContactRows
  <2>2. [row EXCEPT !.c1 = Ratchet(t1)] \in ContactRows
    BY <1>2, <1>4 DEF ContactRows
  <2> QED
    BY <1>3, <1>4, <2>1, <2>2, RowAssumption DEF IsAdded
<1>6. Stays => Cardinality(DrawnWith(e, c, p)) + 1 <= e.contacts[p].c1.turn
  <2>1. DrawnWith(e, c, p) = DrawnWith(d, c, p)
    BY <1>3 DEF DrawnWith, HasConvo
  <2>2. Stays => Cardinality(DrawnWith(d, c, p)) <= t1.turn
    BY <1>1, <1>2 DEF Agrees, Counted
  <2>3. Cardinality(DrawnWith(d, c, p)) \in Nat
    BY DrawnFinite
  <2> QED
    BY <1>4, <1>5, <2>1, <2>2, <2>3
<1>7. s1 \in SessionKeys /\ s2 \in SessionKeys /\ s1.thread = t1 /\ AfterAEAD(s1) \in SessionKeys
      /\ AfterAEAD(s1).thread = t1
  <2>1. s1 \in SessionKeys /\ s2 \in SessionKeys /\ s1.thread = t1
    BY <1>2, KeysType, Halves
  <2> QED
    BY <2>1, KeysType, Halves
<1> HIDE DEF e
<1>8. /\ f \in Databases /\ f.contacts = e.contacts
      /\ \A y \in Draws \ {x} : f.convos[y] = e.convos[y]
      /\ f.convos[x] # Null /\ f.convos[x].peer = p /\ f.convos[x].c1 = s1
  BY <1>3, <1>7, ExecutedCreate
<1> HIDE DEF f
<1>9. ConvoAgrees(c, x, f.convos[x], D)
  BY <1>2, <1>7, <1>8 DEF ConvoAgrees
<1>10. AgreesNext(c, e, f, D)
  <2>1. Agrees(c, e, D) /\ e.convos[x] = Null
    BY <1>3 DEF AgreesNext
  <2> QED
    BY <1>3, <1>5, <1>6, <1>8, <1>9, <2>1, ConvoNext
<1>11. AgreesNext(c, f, g, D)
  <2>1. u3 \in Statements /\ u3.do = "updateSessionKeys" /\ u3.id = x /\ u3.c1 = AfterAEAD(s1)
    BY <1>7, StatementsType DEF updateSessionKeys
  <2>2. u3.c1.thread = f.convos[x].c1.thread
    BY <1>7, <1>8, <2>1
  <2> HIDE DEF u3
  <2> QED
    BY <1>8, <1>10, <2>1, <2>2, QuietNext DEF AgreesNext
<1>12. HasConvo(g, x, p)
  BY <1>8, <1>11 DEF AgreesNext, Onward, HasConvo
<1> HIDE DEF g
<1>13. After4(d, ws) = g
  BY AfterThree DEF e, f, g
<1> QED
  BY <1>3, <1>10, <1>11, <1>12, <1>13, AlongForms DEF e, f, g

\* sendInConvo.
LEMMA AgreesInConvo ==
    ASSUME NEW c \in Clients, NEW d \in Databases, NEW D, Agrees(c, d, D),
           NEW p \in Clients, NEW x \in Draws, d.convos[x] # Null, d.convos[x].peer = p,
           NEW s1, s1 = d.convos[x].c1,
           NEW ws, ws = <<updateSessionKeys(x, p, AfterAEAD(s1), Null)>>
    PROVE  AgreesAlong(c, d, ws, D) /\ HasConvo(After4(d, ws), x, p)
<1> DEFINE u == updateSessionKeys(x, p, AfterAEAD(s1), Null)
<1>1. s1 \in SessionKeys
  BY FoundHasKeys
<1>2. AfterAEAD(s1) \in SessionKeys /\ AfterAEAD(s1).thread = s1.thread
  BY <1>1, KeysType, Halves
<1>3. u \in Statements /\ u.do = "updateSessionKeys" /\ u.id = x /\ u.c1 = AfterAEAD(s1)
  BY <1>2, StatementsType DEF updateSessionKeys
<1>4. u.c1.thread = d.convos[x].c1.thread
  BY <1>2, <1>3
<1> HIDE DEF u
<1>5. AgreesNext(c, d, Executed(d, u), D)
  BY <1>3, <1>4, QuietNext
<1>6. AgreesAlong(c, d, ws, D)
  BY <1>5, AlongForms DEF u
<1>7. After4(d, ws) = Executed(d, u)
  BY AfterOne DEF u
<1>8. HasConvo(Executed(d, u), x, p)
  BY <1>5 DEF AgreesNext, Onward, HasConvo
<1> QED
  BY <1>6, <1>7, <1>8

\* A handshake message that was not heard yet does not come from a finished
\* contact: what that contact has is an answer to another one, or none.
LEMMA NotAgain ==
    ASSUME Stays, NEW c \in Clients, NEW d \in Databases, NEW D, Agrees(c, d, D),
           NEW p \in Clients, threadRatchetStatesReady(d, p),
           NEW x, NEW content \in Contents, Sendable(p, c, D[p], x, content),
           \A y \in Draws : Carries(content, y) => ~Heard(d.contacts[p], y)
    PROVE  content.kind = "aead"
<1> DEFINE row == d.contacts[p]
           theirs == D[p].contacts[c]
<1>1. /\ row # Null /\ row.tag = 2 /\ row.c1 \in ThreadStates
      /\ ContactAgrees(c, p, row, theirs)
  BY AddedRow
<1>2. row.c1.from \in {"initiator", "responder"}
  BY <1>1, Halves
<1>3. \/ row.c1.from = "initiator" /\ Accepted(theirs, row.c1.init, row.c1.resp)
      \/ row.c1.from = "responder" /\ Begun(theirs, row.c1.init)
  BY <1>1, <1>2 DEF ContactAgrees
<1> HIDE DEF theirs
<1>4. CASE content.kind = "first"
  <2>1. Begun(theirs, content.init) /\ content.init \in Draws
    BY <1>4, ContentsKinds DEF Sendable, theirs
  <2>2. row.c1.from = "responder" /\ row.c1.init = content.init
    BY <1>3, <2>1, BegunOnce
  <2>3. Heard(row, content.init) /\ Carries(content, content.init)
    BY <1>1, <1>4, <2>2 DEF Heard, Carries
  <2> QED
    BY <2>1, <2>3
<1>5. CASE content.kind = "second"
  <2>1. Accepted(theirs, content.init, content.resp) /\ content.resp \in Draws
    BY <1>5, ContentsKinds DEF Sendable, theirs
  <2>2. row.c1.from = "initiator" /\ row.c1.resp = content.resp
    BY <1>3, <2>1 DEF Begun, Accepted
  <2>3. Heard(row, content.resp) /\ Carries(content, content.resp)
    BY <1>1, <1>5, <2>2 DEF Heard, Carries
  <2> QED
    BY <2>1, <2>3
<1>6. content.kind \in {"first", "second", "aead"}
  BY DEF Contents, FirstHandshakes, SecondHandshakes, Ciphertexts
<1> QED
  BY <1>4, <1>5, <1>6

\* A conversation without a title is created.
LEMMA CreatedThread ==
    ASSUME NEW d \in Databases, NEW x \in Draws, NEW p \in Clients,
           NEW s1 \in SessionKeys, NEW s2 \in SessionKeys,
           NEW e, e = Executed(d, createConvo(x, p, Null, s1, s2))
    PROVE  /\ e \in Databases /\ e.contacts = d.contacts
           /\ \A y \in Draws \ {x} : e.convos[y] = d.convos[y]
           /\ e.convos[x] # Null /\ e.convos[x].peer = p /\ e.convos[x].c1 = s1
<1>1. PICK t \in Texts \cup {Null} : t = Null
  OBVIOUS
<1>2. e = Executed(d, createConvo(x, p, t, s1, s2))
  BY <1>1
<1> QED
  BY <1>2, ExecutedCreate

\* newThread: the conversation of the first message is one that its sender drew.
LEMMA AgreesReads ==
    ASSUME NEW c \in Clients, NEW d \in Databases, NEW D, Agrees(c, d, D), D[c] = d,
           NEW m \in Msgs, NEW p, p = m.from, Agrees(p, D[p], D),
           Sendable(p, c, D[p], m.convo, m.content),
           \A y \in Draws : Carries(m.content, y) => ~Heard(d.contacts[p], y),
           threadRatchetStatesReady(d, p), d.convos[m.convo] = Null
    PROVE  AgreesAlong(c, d, newThread(d, c, m), D)
<1>0. p \in Clients /\ m.convo \in Draws /\ m.content \in Contents /\ p # c
  BY DEF Msgs, H!Messages, Sendable
<1>01. PICK x \in Draws : x = m.convo
  BY <1>0
<1> DEFINE t2 == d.contacts[p].c2
           s1 == InitiatorThread(t2)
           s2 == ResponderThread(t2)
           r1 == IF "roles" \in Mended THEN s2 ELSE s1
           r2 == IF "roles" \in Mended THEN s1 ELSE s2
           u1 == createConvo(x, p, Null, r1, r2)
           u2 == updateThreadRatchetStates(p, Null, Ratchet(t2))
           u3 == updateSessionKeys(x, p, Null, AfterAEAD(s1))
           u4 == updateTitle(x, p, m.content.text)
           e == Executed(d, u1)
           f == Executed(e, u2)
<1>1. PICK row \in ContactRows : row = d.contacts[p]
  BY <1>0, AddedRow
<1>2. /\ row.tag = 2 /\ IsAdded(d, p) /\ t2 = row.c2 /\ t2 \in ThreadStates
      /\ t2.init.who # t2.resp.who
  BY <1>0, <1>1, AddedRow
<1>3. /\ s1 \in SessionKeys /\ s2 \in SessionKeys /\ s1.thread = t2 /\ s2.thread = t2
      /\ AfterAEAD(s1) \in SessionKeys
  BY <1>2, KeysType, Halves
<1>4. r1 \in SessionKeys /\ r2 \in SessionKeys /\ r1.thread = t2
  BY <1>3
<1> HIDE DEF r1, r2, s1, s2
<1>5. /\ e \in Databases /\ e.contacts = d.contacts
      /\ \A y \in Draws \ {x} : e.convos[y] = d.convos[y]
      /\ e.convos[x] # Null /\ e.convos[x].peer = p /\ e.convos[x].c1 = r1
  BY <1>0, <1>4, CreatedThread
<1> HIDE DEF e
<1>6. x.who = c \/ (x.who = p /\ (Stays => HasConvo(D[p], x, c)))
  <2>1. CASE m.content.kind = "aead"
    <3>1. HasConvo(D[p], x, c)
      BY <1>01, <2>1 DEF Sendable
    <3>2. ConvoAgrees(p, x, D[p].convos[x], D) /\ D[p].convos[x].peer = c
      BY <1>0, <3>1 DEF Agrees, HasConvo
    <3>3. x.who = p \/ x.who = c
      BY <3>2 DEF ConvoAgrees
    <3> QED
      BY <3>1, <3>3
  <2>2. CASE m.content.kind # "aead"
    <3>1. ~Stays
      BY <1>0, <2>2, NotAgain
    <3>2. m.content.kind \in {"first", "second", "aead"}
      BY <1>0 DEF Contents, FirstHandshakes, SecondHandshakes, Ciphertexts
    <3>3. x.who = p
      BY <1>01, <2>2, <3>2 DEF Sendable
    <3> QED
      BY <3>1, <3>3
  <2> QED
    BY <2>1, <2>2
<1>7. Stays => x.who # c
  <2>1. SUFFICES ASSUME Stays, x.who = c PROVE FALSE
    OBVIOUS
  <2>2. HasConvo(D[p], x, c)
    <3>1. m.content.kind = "aead"
      BY <1>0, <2>1, NotAgain
    <3> QED
      BY <1>01, <3>1 DEF Sendable
  <2>3. ConvoAgrees(p, x, D[p].convos[x], D) /\ D[p].convos[x].peer = c
    BY <1>0, <2>2 DEF Agrees, HasConvo
  <2>4. HasConvo(D[c], x, p)
    BY <1>0, <2>1, <2>3 DEF ConvoAgrees
  <2> QED
    BY <1>01, <2>4 DEF HasConvo
<1>8. ConvoAgrees(c, x, e.convos[x], D)
  BY <1>0, <1>2, <1>4, <1>5, <1>6 DEF ConvoAgrees
<1>9. AgreesNext(c, d, e, D)
  BY <1>0, <1>01, <1>5, <1>7, <1>8, ConvoNext
<1>10. AgreesNext(c, e, f, D) /\ f \in Databases
  <2>1. Stays => t2.turn + 1 <= Cardinality(DrawnWith(e, p, p))
    <3>1. SUFFICES ASSUME Stays PROVE t2.turn + 1 <= Cardinality(DrawnWith(e, p, p))
      OBVIOUS
    <3>2. x.who = p
      BY <1>6, <1>7, <3>1
    <3>3. DrawnWith(e, p, p) = DrawnWith(d, p, p) \cup {x} /\ x \notin DrawnWith(d, p, p)
      BY <1>0, <1>01, <1>5, <3>2 DEF DrawnWith, HasConvo
    <3>4. Cardinality(DrawnWith(e, p, p)) = Cardinality(DrawnWith(d, p, p)) + 1
      <4> DEFINE S == DrawnWith(d, p, p)
      <4>1. IsFiniteSet(S)
        BY DrawnFinite
      <4>2. DrawnWith(e, p, p) = S \cup {x} /\ x \notin S
        BY <3>3
      <4> HIDE DEF S
      <4>3. Cardinality(S \cup {x}) = Cardinality(S) + 1
        BY <4>1, <4>2, FS_AddElement
      <4> QED
        BY <4>2, <4>3 DEF S
    <3>5. t2.turn <= Cardinality(DrawnWith(d, p, p))
      BY <1>0, <1>1, <1>2, <3>1 DEF Agrees, Counted
    <3>6. Cardinality(DrawnWith(d, p, p)) \in Nat /\ t2.turn \in Nat
      BY <1>2, DrawnFinite, Halves
    <3> QED
      BY <3>4, <3>5, <3>6
  <2>2. threadRatchetStatesReady(e, p)
    BY <1>5 DEF threadRatchetStatesReady
  <2>3. e.contacts[p].c2 = t2
    BY <1>5
  <2> QED
    BY <1>0, <1>5, <1>9, <2>1, <2>2, <2>3, RatchetNext DEF AgreesNext
<1> HIDE DEF f
<1>11. \/ newThread(d, c, m) = <<u1, u2>>
       \/ newThread(d, c, m) = <<u1, u2, u4>> /\ m.content.text \in Texts
       \/ newThread(d, c, m) = <<u1, u2, u3, u4>> /\ m.content.text \in Texts
  <2>1. \/ newThread(d, c, m) = <<u1, u2>>
        \/ newThread(d, c, m) = <<u1, u2, u4>> /\ decryptMessage(s1, c, m)
        \/ newThread(d, c, m) = <<u1, u2, u3, u4>> /\ decryptMessage(s1, c, m)
    <3>1. newThread(d, c, m) = <<u1, u2>> \o
             IF ~decryptMessage(s1, c, m) THEN <<>>
             ELSE IF "title" \in Mended THEN <<u3, u4>> ELSE <<u4>>
      BY <1>01 DEF newThread, r1, r2, s1, s2
    <3> HIDE DEF u1, u2, u3, u4
    <3> QED
      BY <3>1, ConcatSequences
  <2>2. decryptMessage(s1, c, m) => m.content.text \in Texts
    BY <1>0, ContentsKinds DEF decryptMessage
  <2> QED
    BY <2>1, <2>2
<1>12. m.content.text \in Texts => \A g \in Databases : Agrees(c, g, D) =>
          AgreesNext(c, g, Executed(g, u4), D)
  <2>1. m.content.text \in Texts => u4 \in Statements
    BY <1>0, StatementsType
  <2>2. u4.do = "updateTitle"
    BY DEF updateTitle
  <2> HIDE DEF u4
  <2> QED
    BY <2>1, <2>2, QuietNext
<1>13. AgreesNext(c, f, Executed(f, u3), D) /\ Executed(f, u3) \in Databases
  <2>1. u3 \in Statements
    BY <1>0, <1>3, StatementsType
  <2>2. u3.do = "updateSessionKeys" /\ u3.c1 = Null
    BY DEF updateSessionKeys
  <2> HIDE DEF u3
  <2> QED
    BY <1>10, <2>1, <2>2, QuietNext, ExecutedType DEF AgreesNext
<1>14. Agrees(c, f, D) /\ Agrees(c, Executed(f, u3), D)
  BY <1>10, <1>13 DEF AgreesNext
<1> HIDE DEF u1, u2, u3, u4
<1>15. e = Executed(d, u1) /\ f = Executed(e, u2)
  BY DEF e, f
<1>16. CASE newThread(d, c, m) = <<u1, u2>>
  BY <1>9, <1>10, <1>15, <1>16, AlongForms
<1>17. CASE newThread(d, c, m) = <<u1, u2, u4>> /\ m.content.text \in Texts
  BY <1>9, <1>10, <1>12, <1>14, <1>15, <1>17, AlongForms
<1>18. CASE newThread(d, c, m) = <<u1, u2, u3, u4>> /\ m.content.text \in Texts
  BY <1>9, <1>10, <1>12, <1>13, <1>14, <1>15, <1>18, AlongForms
<1> QED
  BY <1>11, <1>16, <1>17, <1>18

\* What getNextMessage makes of a message that its sender can have sent, and
\* that was not heard before.
LEMMA AgreesDispatch ==
    ASSUME NEW c \in Clients, NEW d \in Databases, NEW D, Agrees(c, d, D), D[c] = d,
           NEW m \in Msgs, NEW p, p = m.from, Agrees(p, D[p], D),
           Sendable(p, c, D[p], m.convo, m.content),
           \A y \in Draws : Carries(m.content, y) => ~Heard(d.contacts[p], y)
    PROVE  AgreesAlong(c, d, Dispatch(d, c, m), D)
<1>0. p \in Clients /\ m.convo \in Draws /\ m.content \in Contents /\ p # c
  BY DEF Msgs, H!Messages, Sendable
<1> DEFINE ws == Dispatch(d, c, m)
<1>1. CASE ws = <<>>
  BY <1>1, AlongForms
<1>2. CASE d.contacts[p] = Null /\ ws = <<addContactFromReq(p, m.content)>>
  BY <1>0, <1>2, AgreesHear
<1>3. CASE /\ d.contacts[p] # Null /\ d.contacts[p].tag = 0
           /\ ws = aliceAckAcceptContact(d, m)
  <2> DEFINE e == d.contacts[p].blob
             f == m.content.resp
             t1 == ThreadState(e, f, "initiator")
             t2 == ThreadState(e, f, "responder")
  <2>1. ws = <<>> \/ (ws = <<finalizeContact(p, t1, t2)>> /\ m.content.kind = "second" /\ m.content.init = e)
    BY <1>3 DEF aliceAckAcceptContact, finishAddContact
  <2>2. SUFFICES ASSUME ws = <<finalizeContact(p, t1, t2)>>, m.content.kind = "second", m.content.init = e
                 PROVE  AgreesAlong(c, d, ws, D)
    BY <1>1, <2>1
  <2>3. e \in Draws /\ f \in Draws
    BY <1>0, <2>2, ContentsKinds
  <2>4. t1 \in ThreadStates /\ t2 \in ThreadStates
    BY <2>3, KeysType
  <2>5. /\ t1.turn = 0 /\ t2.turn = 0 /\ t1.from = "initiator" /\ t2.from = "responder"
        /\ t1.init = e /\ t2.init = e /\ t1.resp = f /\ t2.resp = f
    BY DEF ThreadState
  <2>6. f.who = p /\ (Stays => Accepted(D[p].contacts[c], e, f))
    BY <2>2 DEF Sendable
  <2>7. e.who = c
    BY <1>0, <1>3 DEF Agrees, ContactAgrees
  <2> HIDE DEF t1, t2, ws, f
  <2>8. PICK row : row = [tag |-> 2, blob |-> Null, c1 |-> t1, c2 |-> t2]
    OBVIOUS
  <2>9. row.tag = 2 /\ row.c1 = t1 /\ row.c2 = t2
    BY <2>8
  <2>10. ContactAgrees(c, p, row, D[p].contacts[c])
    BY <1>0, <2>5, <2>6, <2>7, <2>9 DEF ContactAgrees, Twins
  <2>11. d.contacts[p] # Null /\ d.contacts[p].tag # 2
    BY <1>3
  <2> QED
    BY <1>0, <2>2, <2>4, <2>5, <2>8, <2>10, <2>11, AgreesFinalize
<1>4. CASE ws = handleNewMessage(d, c, m)
  <2> DEFINE x == m.convo
             s2 == d.convos[x].c2
             u1 == updateSessionKeys(x, p, Null, AfterAEAD(s2))
             u2 == storeMessage(x, FALSE, m.content.text)
  <2>1. \/ ws = <<>>
        \/ d.convos[x] = Null /\ threadRatchetStatesReady(d, p) /\ ws = newThread(d, c, m)
        \/ /\ d.convos[x] # Null /\ decryptMessage(s2, c, m)
           /\ ws = <<u1, u2>>
    BY <1>4 DEF handleNewMessage, ConvoExist, sessionKeysFound
  <2>2. CASE d.convos[x] = Null /\ threadRatchetStatesReady(d, p) /\ ws = newThread(d, c, m)
    BY <2>2, AgreesReads
  <2>3. CASE d.convos[x] # Null /\ decryptMessage(s2, c, m) /\ ws = <<u1, u2>>
    <3>1. s2 \in SessionKeys /\ m.content.text \in Texts
      BY <1>0, <2>3, FoundHasKeys, ContentsKinds DEF decryptMessage
    <3>2. AfterAEAD(s2) \in SessionKeys
      BY <3>1, KeysType
    <3>3. u1 \in Statements /\ u2 \in Statements
      BY <1>0, <3>1, <3>2, StatementsType
    <3>4. u1.do = "updateSessionKeys" /\ u1.c1 = Null /\ u2.do = "storeMessage"
      BY DEF updateSessionKeys, storeMessage
    <3> HIDE DEF u1, u2
    <3>5. AgreesNext(c, d, Executed(d, u1), D) /\ Executed(d, u1) \in Databases
      BY <3>3, <3>4, QuietNext, ExecutedType
    <3>6. AgreesNext(c, Executed(d, u1), Executed(Executed(d, u1), u2), D)
      BY <3>3, <3>4, <3>5, QuietNext DEF AgreesNext
    <3> QED
      BY <2>3, <3>5, <3>6, AlongForms
  <2> QED
    BY <1>1, <2>1, <2>2, <2>3
<1>5. \/ ws = <<>>
      \/ d.contacts[p] = Null /\ ws = <<addContactFromReq(p, m.content)>>
      \/ d.contacts[p] # Null /\ d.contacts[p].tag = 0 /\ ws = aliceAckAcceptContact(d, m)
      \/ ws = handleNewMessage(d, c, m)
  <2>1. CASE getStateContact(d, p) = "noContact"
    BY <2>1 DEF Dispatch, getStateContact
  <2>2. CASE getStateContact(d, p) = "waitingForAccept"
    BY <2>2 DEF Dispatch, getStateContact
  <2>3. CASE getStateContact(d, p) \notin {"noContact", "waitingForAccept"}
    BY <2>3 DEF Dispatch
  <2> QED
    BY <2>1, <2>2, <2>3
<1> QED
  BY <1>1, <1>2, <1>3, <1>4, <1>5

\* bobAcceptContact: the row is finished before the answer goes out.
LEMMA AgreesAccept ==
    ASSUME NEW c \in Clients, NEW d \in Databases, NEW D, Agrees(c, d, D),
           NEW p \in Clients, d.contacts[p] # Null, d.contacts[p].tag = 1,
           NEW blob, blob = d.contacts[p].blob, blob.kind = "first",
           NEW f \in Draws, f.who = c,
           NEW ws, ws = <<finalizeContact(p, ThreadState(blob.init, f, "responder"),
                                          ThreadState(blob.init, f, "initiator"))>>
    PROVE  AgreesAlong(c, d, ws, D) /\ Accepted(After4(d, ws).contacts[p], blob.init, f)
<1> DEFINE e == blob.init
           t1 == ThreadState(e, f, "responder")
           t2 == ThreadState(e, f, "initiator")
<1>1. e \in Draws
  <2>1. d.contacts[p] \in ContactRows
    BY DEF Databases
  <2> QED
    BY <2>1, RowFields, ContentsKinds
<1>2. t1 \in ThreadStates /\ t2 \in ThreadStates
  BY <1>1, KeysType
<1>3. /\ t1.turn = 0 /\ t2.turn = 0 /\ t1.from = "responder" /\ t2.from = "initiator"
      /\ t1.init = e /\ t2.init = e /\ t1.resp = f /\ t2.resp = f
  BY DEF ThreadState
<1>4. p # c /\ e.who = p /\ (Stays => Begun(D[p].contacts[c], e))
  BY DEF Agrees, ContactAgrees
<1>5. ws = <<finalizeContact(p, t1, t2)>>
  OBVIOUS
<1> HIDE DEF t1, t2, e
<1>6. PICK row : row = [tag |-> 2, blob |-> Null, c1 |-> t1, c2 |-> t2]
  OBVIOUS
<1>7. row.tag = 2 /\ row.c1 = t1 /\ row.c2 = t2
  BY <1>6
<1>8. ContactAgrees(c, p, row, D[p].contacts[c])
  BY <1>3, <1>4, <1>7 DEF ContactAgrees, Twins
<1>9. AgreesAlong(c, d, ws, D) /\ After4(d, ws).contacts[p] = row
  BY <1>2, <1>3, <1>5, <1>6, <1>8, AgreesFinalize
<1>10. row # Null
  <2>1. row \in ContactRows
    BY <1>2, <1>6 DEF ContactRows
  <2> QED
    BY <2>1, RowAssumption
<1> QED
  BY <1>3, <1>7, <1>9, <1>10 DEF Accepted, e

\* What was sent stays accounted for when databases move on.
LEMMA WiresOnward ==
    ASSUME NEW D, NEW E, \A q \in Clients : Onward(D[q], E[q])
    PROVE  /\ \A wire \in Wires : WireAgrees(wire, D) => WireAgrees(wire, E)
           /\ \A p : \A m \in Msgs : SentTo(p, m, D) => SentTo(p, m, E)
<1>1. ASSUME NEW p, NEW m \in Msgs, SentTo(p, m, D)
      PROVE  SentTo(p, m, E)
  <2>1. m.from \in Clients /\ m.convo \in Draws /\ m.content \in Contents
    BY DEF Msgs, H!Messages
  <2>2. Onward(D[m.from], E[m.from])
    BY <2>1
  <2> QED
    BY <1>1, <2>1, <2>2, SendableOnward DEF SentTo
<1>2. ASSUME NEW wire \in Wires, WireAgrees(wire, D)
      PROVE  WireAgrees(wire, E)
  <2>1. Sends(wire.req) => /\ wire.owner \in Clients
                           /\ Sendable(wire.owner, wire.req.to, E[wire.owner],
                                       wire.req.convo, wire.req.content)
    <3>1. SUFFICES ASSUME Sends(wire.req)
                   PROVE  /\ wire.owner \in Clients
                          /\ Sendable(wire.owner, wire.req.to, E[wire.owner],
                                      wire.req.convo, wire.req.content)
      OBVIOUS
    <3>2. /\ wire.owner \in Clients
          /\ Sendable(wire.owner, wire.req.to, D[wire.owner], wire.req.convo, wire.req.content)
      BY <1>2, <3>1 DEF WireAgrees
    <3>3. wire.req.convo \in Draws /\ wire.req.content \in Contents
      BY <3>1 DEF Sends, Wires, Reqs, H!Requests
    <3>4. Onward(D[wire.owner], E[wire.owner])
      BY <3>2
    <3> QED
      BY <3>2, <3>3, <3>4, SendableOnward
  <2>2. Hands(wire.res) => SentTo(wire.owner, wire.res.msg, E)
    <3>1. SUFFICES ASSUME Hands(wire.res) PROVE SentTo(wire.owner, wire.res.msg, E)
      OBVIOUS
    <3>2. wire.res.msg \in Msgs
      BY <3>1 DEF Hands, Wires, Resps, H!Responses, Msgs
    <3> QED
      BY <1>1, <1>2, <3>1, <3>2 DEF WireAgrees
  <2> QED
    BY <2>1, <2>2 DEF WireAgrees
<1> QED
  BY <1>1, <1>2

\* A call begins that agrees.
LEMMA BeginAgreement ==
    ASSUME IInv, Agreement, NEW c \in Clients, NEW w \in Workers, NEW call,
           Begin(c, w, call), CallAgrees(c, db[c], call, db)
    PROVE  Agreement'
<1>1. /\ UNCHANGED <<db, hubConn, conn, pending>>
      /\ op' = [op EXCEPT ![c][w] = call]
      /\ op \in [Clients -> [Workers -> Calls]]
  BY DeliveryTypes DEF Begin
<1>2. \A q \in Clients, v \in Workers :
         op'[q][v] = op[q][v] \/ (q = c /\ op'[q][v] = call)
  BY <1>1
<1>3. CallsAgree'
  BY <1>1, <1>2 DEF Agreement, CallsAgree
<1> QED
  BY <1>1, <1>3 DEF Agreement, DatabasesAgree, WiresAgree, BoxesAgree

\* The calls that begin.
LEMMA CallsAgreement ==
    ASSUME IInv, Secrets, Agreement, NEW c \in Clients, NEW w \in Workers, NEW p \in Clients,
           p # c \/ getNextMessage(c, w),
           \/ aliceAddContact(c, w, p)
           \/ bobAcceptContact(c, w, p)
           \/ doDeleteContact(c, w, p)
           \/ \E size \in Sizes :
                 \/ sendNewThread(c, w, p, size)
                 \/ \E id \in Draws : sendInConvo(c, w, id, p, size)
           \/ getNextMessage(c, w)
    PROVE  Agreement'
<1> DEFINE d == db[c]
<1>0. d \in Databases /\ Agrees(c, d, db) /\ draws[c] \in Nat
  BY DeliveryTypes DEF Agreement, DatabasesAgree
<1>1. /\ \A writes, ask, after : Call(writes, ask, after).writes = writes
      /\ \A writes, ask, after : Call(writes, ask, after).ask = ask
  BY DEF Call
<1>2. ASSUME Draw(c)
      PROVE  /\ Fresh(c) \in Draws /\ Fresh(c).who = c /\ d.convos[Fresh(c)] = Null
             /\ \A size \in Sizes : Typed(c, size) \in Texts
  <2>1. Fresh(c) \in Draws /\ \A size \in Sizes : Typed(c, size) \in Texts
    BY <1>2, DrawType DEF IInv
  <2>2. Fresh(c).who = c /\ Fresh(c).no = draws[c] + 1
    BY DEF Fresh
  <2>3. ~Drawn(draws, Fresh(c))
    BY <1>0, <2>2 DEF Drawn
  <2>4. d.convos[Fresh(c)] = Null
    BY <2>1, <2>3 DEF Secrets, DrawnOnly, RowsDrawn, DrawnRows
  <2> QED
    BY <2>1, <2>2, <2>4
<1>3. CASE aliceAddContact(c, w, p) /\ p # c
  <2> DEFINE f == Fresh(c)
             ws == <<addContact(p, f)>>
             ask == H!SendMessage(p, f, FirstHandshakeMessage(f), "hex" \in Mended)
  <2>1. /\ Draw(c) /\ Begin(c, w, Call(ws, ask, <<>>))
        /\ getStateContact(d, p) = "noContact"
    BY <1>3 DEF aliceAddContact
  <2>2. d.contacts[p] = Null
    BY <2>1 DEF getStateContact
  <2>3. f \in Draws /\ f.who = c
    BY <1>2, <2>1
  <2>4. /\ ask.to = p /\ ask.convo = f /\ ask.content.kind = "first" /\ ask.content.init = f
    BY DEF H!SendMessage, FirstHandshakeMessage
  <2> HIDE DEF f, ask
  <2>5. AgreesAlong(c, d, ws, db) /\ Begun(After4(d, ws).contacts[p], f)
    BY <1>0, <1>3, <2>2, <2>3, AgreesAdd
  <2> HIDE DEF ws
  <2>6. Sendable(c, ask.to, After4(d, ws), ask.convo, ask.content)
    BY <1>3, <2>3, <2>4, <2>5 DEF Sendable
  <2>7. CallAgrees(c, d, Call(ws, ask, <<>>), db)
    BY <1>1, <2>5, <2>6 DEF CallAgrees
  <2> QED
    BY <2>1, <2>7, BeginAgreement
<1>4. CASE bobAcceptContact(c, w, p) /\ p # c
  <2> DEFINE blob == d.contacts[p].blob
             f == Fresh(c)
             ws == <<finalizeContact(p, ThreadState(blob.init, f, "responder"),
                                     ThreadState(blob.init, f, "initiator"))>>
             ask == IF "forward" \in Mended
                    THEN H!SendMessage(p, f, SecondHandshakeMessage(blob, f), TRUE)
                    ELSE Null
  <2>1. Draw(c) /\ Begin(c, w, Call(ws, ask, <<>>))
    BY <1>4 DEF bobAcceptContact
  <2>2. d.contacts[p] # Null /\ d.contacts[p].tag = 1 /\ blob.kind = "first"
    <3>1. getStateContact(d, p) = "waitingToAccept" /\ acceptContact(blob)
      BY <1>4 DEF bobAcceptContact
    <3>2. d.contacts[p] # Null /\ d.contacts[p].tag = 1
      BY <3>1 DEF getStateContact
    <3> QED
      BY <3>1, <3>2 DEF acceptContact
  <2>3. f \in Draws /\ f.who = c
    BY <1>2, <2>1
  <2>4. Sends(ask) =>
           /\ ask.to = p /\ ask.convo = f /\ ask.content.kind = "second"
           /\ ask.content.init = blob.init /\ ask.content.resp = f
    BY DEF H!SendMessage, SecondHandshakeMessage, Sends
  <2> HIDE DEF f, ask
  <2>5. AgreesAlong(c, d, ws, db) /\ Accepted(After4(d, ws).contacts[p], blob.init, f)
    BY <1>0, <2>2, <2>3, AgreesAccept
  <2> HIDE DEF ws, blob
  <2>6. Sends(ask) => Sendable(c, ask.to, After4(d, ws), ask.convo, ask.content)
    BY <1>4, <2>3, <2>4, <2>5 DEF Sendable
  <2>7. CallAgrees(c, d, Call(ws, ask, <<>>), db)
    BY <1>1, <2>5, <2>6 DEF CallAgrees
  <2> QED
    BY <2>1, <2>7, BeginAgreement
<1>5. CASE doDeleteContact(c, w, p)
  <2> DEFINE ws == <<deleteContact(p)>>
  <2>1. ~Stays /\ Begin(c, w, Call(ws, Null, <<>>))
    BY <1>5 DEF doDeleteContact, Stays
  <2>2. AgreesAlong(c, d, ws, db)
    BY <1>0, <2>1, AgreesForget
  <2>3. ~Sends(Null)
    BY DEF Sends
  <2> HIDE DEF ws
  <2>4. CallAgrees(c, d, Call(ws, Null, <<>>), db)
    BY <1>1, <2>2, <2>3 DEF CallAgrees
  <2> QED
    BY <2>1, <2>4, BeginAgreement
<1>6. CASE getNextMessage(c, w)
  <2>1. Begin(c, w, Call(<<>>, H!GetNextMessage, <<>>))
    BY <1>6 DEF getNextMessage
  <2>2. ~Sends(H!GetNextMessage)
    BY DEF Sends, H!GetNextMessage
  <2>3. AgreesAlong(c, d, <<>>, db)
    BY <1>0, AlongForms
  <2>4. CallAgrees(c, d, Call(<<>>, H!GetNextMessage, <<>>), db)
    BY <1>1, <2>2, <2>3 DEF CallAgrees
  <2> QED
    BY <2>1, <2>4, BeginAgreement
<1>7. ASSUME NEW x, NEW s, NEW t, NEW ask, ask = ToHub(x, encryptMessage(s, x, c, p, t)), Sends(ask)
      PROVE  ask.to = p /\ ask.convo = x /\ ask.content.kind = "aead"
  BY <1>7 DEF ToHub, encryptMessage, H!SendMessage, Sends
<1>8. ASSUME NEW size \in Sizes, sendNewThread(c, w, p, size), p # c PROVE Agreement'
  <2> DEFINE x == Fresh(c)
             t == Typed(c, size)
             t1 == d.contacts[p].c1
             s1 == InitiatorThread(t1)
             s2 == ResponderThread(t1)
             ask == ToHub(x, encryptMessage(s1, x, c, p, t))
             ws == <<updateThreadRatchetStates(p, Ratchet(t1), Null),
                     createConvo(x, p, t, s1, s2),
                     updateSessionKeys(x, p, AfterAEAD(s1), Null)>>
  <2>1. Draw(c) /\ Begin(c, w, Call(ws, ask, <<>>)) /\ threadRatchetStatesReady(d, p)
    BY <1>8 DEF sendNewThread
  <2>2. x \in Draws /\ x.who = c /\ d.convos[x] = Null /\ t \in Texts
    BY <1>2, <2>1
  <2>3. Sends(ask) => ask.to = p /\ ask.convo = x /\ ask.content.kind = "aead"
    BY <1>7
  <2> HIDE DEF x, t, ask
  <2>4. AgreesAlong(c, d, ws, db) /\ HasConvo(After4(d, ws), x, p)
    BY <1>0, <1>8, <2>1, <2>2, AgreesThread
  <2> HIDE DEF ws
  <2>5. Sends(ask) => Sendable(c, ask.to, After4(d, ws), ask.convo, ask.content)
    BY <1>8, <2>3, <2>4 DEF Sendable
  <2>6. CallAgrees(c, d, Call(ws, ask, <<>>), db)
    BY <1>1, <2>4, <2>5 DEF CallAgrees
  <2> QED
    BY <2>1, <2>6, BeginAgreement
<1>9. ASSUME NEW size \in Sizes, NEW x \in Draws, sendInConvo(c, w, x, p, size), p # c
      PROVE  Agreement'
  <2> DEFINE t == Typed(c, size)
             s1 == d.convos[x].c1
             ask == ToHub(x, encryptMessage(s1, x, c, p, t))
             ws == <<updateSessionKeys(x, p, AfterAEAD(s1), Null)>>
             after == IF "todo" \in Mended THEN <<storeMessage(x, TRUE, t)>> ELSE <<>>
  <2>1. Begin(c, w, Call(ws, ask, after)) /\ sessionKeysFound(d, x, p)
    BY <1>9 DEF sendInConvo
  <2>2. d.convos[x] # Null /\ d.convos[x].peer = p
    BY <2>1 DEF sessionKeysFound
  <2>3. Sends(ask) => ask.to = p /\ ask.convo = x /\ ask.content.kind = "aead"
    BY <1>7
  <2> HIDE DEF ask, after
  <2>4. AgreesAlong(c, d, ws, db) /\ HasConvo(After4(d, ws), x, p)
    BY <1>0, <2>2, AgreesInConvo
  <2> HIDE DEF ws
  <2>5. Sends(ask) => Sendable(c, ask.to, After4(d, ws), ask.convo, ask.content)
    BY <1>9, <2>3, <2>4 DEF Sendable
  <2>6. CallAgrees(c, d, Call(ws, ask, after), db)
    BY <1>1, <2>4, <2>5 DEF CallAgrees
  <2> QED
    BY <2>1, <2>6, BeginAgreement
<1> QED
  <2>1. ~getNextMessage(c, w) => p # c
    OBVIOUS
  <2> HIDE DEF d
  <2> QED
    BY <1>3, <1>4, <1>5, <1>6, <1>8, <1>9, <2>1

\* A statement is executed: the rest of the call goes on from there, and what
\* the others know is still so.
LEMMA WriteAgreement ==
    ASSUME IInv, IInv', Secrets, Once, Agreement, NEW c \in Clients, NEW w \in Workers,
           Write(c, w)
    PROVE  Agreement' /\ \A q \in Clients : Onward(db[q], db'[q])
<1>0. PICK call \in Calls : call = op[c][w] /\ call.writes # <<>>
  BY DeliveryTypes DEF Write
<1>01. PICK d \in Databases : d = db[c]
  BY DeliveryTypes
<1>02. PICK e : e = Executed(d, Head(call.writes))
  OBVIOUS
<1>03. PICK rest : rest = [call EXCEPT !.writes = Tail(call.writes)]
  OBVIOUS
<1>1. /\ UNCHANGED <<conn, pending>>
      /\ op \in [Clients -> [Workers -> Calls]] /\ db \in [Clients -> Databases]
      /\ call # Idle /\ call.writes \in Seq(Statements) /\ Len(call.writes) <= 4
      /\ rest.writes = Tail(call.writes) /\ rest.ask = call.ask
      /\ Idle.writes = <<>>
  <2>1. call.writes \in Seq(Statements) /\ Idle.writes = <<>>
    BY DEF Calls, Idle, Call
  <2>2. rest.writes = Tail(call.writes) /\ rest.ask = call.ask
    BY <1>03 DEF Calls
  <2>3. Len(call.writes) <= 4
    BY <1>0 DEF Once, ShortCalls
  <2> QED
    BY <1>0, <2>1, <2>2, <2>3, DeliveryTypes DEF Write
<1>2. \/ db' = db /\ op' = [op EXCEPT ![c][w] = Idle]
      \/ db' = [db EXCEPT ![c] = e] /\ op' = [op EXCEPT ![c][w] = rest]
  BY <1>0, <1>01, <1>02, <1>03 DEF Write
<1>3. \A v \in Workers \ {w} : op[c][v] = Idle
  BY <1>0, <1>1 DEF Secrets, OneCall
<1>4. CallAgrees(c, d, call, db)
  BY <1>0, <1>01, <1>1 DEF Agreement, CallsAgree
<1>5. /\ AgreesNext(c, d, e, db)
      /\ AgreesAlong(c, e, rest.writes, db)
      /\ After4(e, rest.writes) = After4(d, call.writes)
  <2>1. /\ After1(d, call.writes) = e
        /\ After1(e, rest.writes) = After2(d, call.writes)
        /\ After2(e, rest.writes) = After3(d, call.writes)
        /\ After3(e, rest.writes) = After4(d, call.writes)
        /\ After4(e, rest.writes) = After4(d, call.writes)
    BY <1>0, <1>02, <1>1, AfterTail
  <2>2. AgreesNext(c, After4(d, call.writes), After4(d, call.writes), db)
    BY <1>4, SameNext DEF CallAgrees, AgreesAlong, AgreesNext
  <2> QED
    BY <1>4, <2>1, <2>2 DEF CallAgrees, AgreesAlong
<1>6. CallAgrees(c, e, rest, db)
  BY <1>1, <1>4, <1>5 DEF CallAgrees
<1>7. /\ \A q \in Clients \ {c} : db'[q] = db[q] /\ op'[q] = op[q]
      /\ \A v \in Workers \ {w} : op'[c][v] = Idle
      /\ \/ db'[c] = d /\ op'[c][w] = Idle
         \/ db'[c] = e /\ op'[c][w] = rest
  BY <1>01, <1>1, <1>2, <1>3
<1>8. \A q \in Clients : Onward(db[q], db'[q])
  BY <1>01, <1>5, <1>7, OnwardSame DEF AgreesNext
<1>9. PICK E : E = db'
  OBVIOUS
<1>10. \A q \in Clients : E[q] \in Databases /\ Agrees(q, E[q], E)
  <2>1. \A q \in Clients : E[q] \in Databases
    BY <1>9 DEF IInv, TypeOK
  <2>2. \A q \in Clients : Agrees(q, E[q], db)
    BY <1>01, <1>5, <1>7, <1>9 DEF Agreement, DatabasesAgree, AgreesNext
  <2> QED
    BY <1>8, <1>9, <2>1, <2>2, AgreesOnward
<1>11. ASSUME NEW q \in Clients, NEW v \in Workers, op'[q][v] # Idle
       PROVE  CallAgrees(q, E[q], op'[q][v], E)
  <2>1. op'[q][v] \in Calls
    BY DEF IInv, TypeOK
  <2>2. CallAgrees(q, E[q], op'[q][v], db)
    <3>1. CASE q # c
      BY <1>7, <1>9, <1>11, <3>1 DEF Agreement, CallsAgree
    <3>2. CASE q = c
      BY <1>6, <1>7, <1>9, <1>11, <3>2
    <3> QED
      BY <3>1, <3>2
  <2> QED
    BY <1>8, <1>9, <1>10, <2>1, <2>2, CallOnward
<1>12. WiresAgree' /\ BoxesAgree'
  <2>1. \A k \in Conns : conn[k] \in Wires
    BY DeliveryTypes
  <2>2. \A q \in Clients : \A i \in DOMAIN pending[q] : pending[q][i] \in Msgs
    BY DeliveryTypes
  <2> QED
    BY <1>1, <1>8, <2>1, <2>2, WiresOnward DEF Agreement, WiresAgree, BoxesAgree
<1> QED
  BY <1>8, <1>9, <1>10, <1>11, <1>12 DEF Agreement, DatabasesAgree, CallsAgree

\* A request goes out: what it says is in the database.
LEMMA AskAgreement ==
    ASSUME IInv, Agreement, NEW c \in Clients, NEW w \in Workers, Ask(c, w)
    PROVE  Agreement'
<1>0. PICK call \in Calls : call = op[c][w] /\ call.writes = <<>> /\ call.ask # Null
  BY DeliveryTypes DEF Ask, AtHub
<1>01. call # Idle
  BY <1>0 DEF Idle, Call
<1>1. /\ UNCHANGED <<db, op, pending>> /\ conn \in [Conns -> Wires]
      /\ CallAgrees(c, db[c], call, db)
  <2>1. UNCHANGED <<db, op, pending>> /\ conn \in [Conns -> Wires]
    BY DeliveryTypes DEF Ask
  <2>2. CallAgrees(c, db[c], call, db)
    BY <1>0, <1>01 DEF Agreement, CallsAgree
  <2> QED
    BY <2>1, <2>2
<1>2. Sends(call.ask) => Sendable(c, call.ask.to, db[c], call.ask.convo, call.ask.content)
  BY <1>0, <1>1, AfterNone DEF CallAgrees
<1>3. PICK k \in Conns :
         conn' = [conn EXCEPT ![k] = [owner |-> c, up |-> TRUE, req |-> call.ask, res |-> Null]]
  BY <1>0 DEF Ask
<1>4. WireAgrees([owner |-> c, up |-> TRUE, req |-> call.ask, res |-> Null], db)
  BY <1>2 DEF WireAgrees, Hands
<1>5. WiresAgree'
  BY <1>1, <1>3, <1>4 DEF Agreement, WiresAgree
<1> QED
  BY <1>1, <1>5 DEF Agreement, DatabasesAgree, CallsAgree, BoxesAgree

\* An answer comes in, or a call is given up.
LEMMA EndAgreement ==
    ASSUME IInv, ConnsOwned, Secrets, Once, Agreement, NEW c \in Clients,
           \/ \E w \in Workers : Receive(c, w) \/ ConnError(c, w) \/ ConnReset(c, w)
           \/ Crash(c)
    PROVE  Agreement' /\ UNCHANGED db
<1>0. /\ op \in [Clients -> [Workers -> Calls]] /\ conn \in [Conns -> Wires]
      /\ hubConn \in [Clients -> Conns \cup {Null}] /\ db \in [Clients -> Databases]
  BY DeliveryTypes
<1>1. UNCHANGED <<db, pending>>
  BY DEF Receive, ConnError, ConnReset, GiveUp, Crash
<1>2. ASSUME \A q \in Clients, v \in Workers :
                op'[q][v] = op[q][v] \/ op'[q][v] = Idle \/ CallAgrees(q, db[q], op'[q][v], db),
             WiresAgree'
      PROVE  Agreement'
  <2>1. CallsAgree'
    BY <1>1, <1>2 DEF Agreement, CallsAgree
  <2> QED
    BY <1>1, <1>2, <2>1 DEF Agreement, DatabasesAgree, BoxesAgree
<1>3. CASE (\E w \in Workers : ConnError(c, w) \/ ConnReset(c, w)) \/ Crash(c)
  <2>1. UNCHANGED conn
    BY <1>3 DEF ConnError, ConnReset, GiveUp, Crash
  <2>2. WiresAgree'
    BY <1>1, <2>1 DEF Agreement, WiresAgree
  <2>3. \/ \E w \in Workers : op' = [op EXCEPT ![c][w] = Idle]
        \/ op' = [op EXCEPT ![c] = [w \in Workers |-> Idle]]
    BY <1>3 DEF ConnError, ConnReset, GiveUp, Crash
  <2>4. \A q \in Clients, v \in Workers : op'[q][v] = op[q][v] \/ op'[q][v] = Idle
    BY <1>0, <2>3
  <2>5. \A q \in Clients, v \in Workers :
           op'[q][v] = op[q][v] \/ op'[q][v] = Idle \/ CallAgrees(q, db[q], op'[q][v], db)
    BY <2>4
  <2> QED
    BY <1>1, <1>2, <2>2, <2>5
<1>4. ASSUME NEW w \in Workers, Receive(c, w) PROVE Agreement'
  <2>0. PICK k \in Conns : k = hubConn[c] /\ k # Null /\ conn[k].res # Null
    BY <1>0, <1>4 DEF Receive, Exchanging
  <2>01. PICK d \in Databases : d = db[c] /\ Agrees(c, d, db)
    BY <1>0 DEF Agreement, DatabasesAgree
  <2>02. PICK res \in Resps : res = conn[k].res
    BY <1>0, <2>0 DEF Wires
  <2>1. conn' = [conn EXCEPT ![k] = [conn[k] EXCEPT !.res = Null]]
    BY <1>4, <2>0 DEF Receive
  <2>2. PICK call :
          /\ op' = [op EXCEPT ![c][w] = call]
          /\ \/ call = Idle
             \/ call = Call(op[c][w].after, Null, <<>>)
             \/ Hands(res) /\ call = Call(Dispatch(d, c, res.msg), Null, <<>>)
    <3>1. op' = [op EXCEPT ![c][w] =
             IF res.type = "success"
             THEN IF res.ok THEN Call(op[c][w].after, Null, <<>>) ELSE Idle
             ELSE IF res.msg = Null THEN Idle
             ELSE Call(Dispatch(d, c, res.msg), Null, <<>>)]
      BY <1>4, <2>0, <2>01, <2>02 DEF Receive
    <3>2. res.type \in {"success", "message"} /\ res # Null
      BY <2>0, <2>02 DEF Resps, H!Responses
    <3> QED
      BY <3>1, <3>2 DEF Hands
  <2>3. ASSUME NEW ws, AgreesAlong(c, d, ws, db)
        PROVE  CallAgrees(c, d, Call(ws, Null, <<>>), db)
    BY <2>3 DEF CallAgrees, Call, Sends
  <2>4. call = Idle \/ CallAgrees(c, d, call, db)
    <3>1. CASE call = Call(op[c][w].after, Null, <<>>)
      <4>1. PICK ws \in Seq(Statements) : ws = op[c][w].after /\ Stores(ws)
        <5>1. op[c][w] \in Calls
          BY <1>0
        <5> QED
          BY <5>1 DEF Calls, Secrets, AfterStores
      <4>2. ws = <<>> \/ ws = <<ws[1]>>
        <5>1. Len(ws) \in Nat /\ (Len(ws) >= 2 => 2 \in DOMAIN ws)
          BY <4>1
        <5>2. Len(ws) <= 1
          BY <4>1, <5>1 DEF Stores
        <5> QED
          BY <4>1, <5>1, <5>2
      <4>3. ws = <<ws[1]>> => ws[1] \in Statements /\ ws[1].do = "storeMessage"
        <5>1. SUFFICES ASSUME ws = <<ws[1]>> PROVE ws[1] \in Statements /\ ws[1].do = "storeMessage"
          OBVIOUS
        <5>2. Len(ws) = 1
          BY <5>1
        <5>3. 1 \in DOMAIN ws
          BY <4>1, <5>2
        <5> QED
          BY <4>1, <5>3 DEF Stores
      <4>4. AgreesAlong(c, d, ws, db)
        <5>1. CASE ws = <<>>
          BY <2>01, <5>1, AlongForms
        <5>2. CASE ws = <<ws[1]>>
          <6>1. AgreesAlong(c, d, <<ws[1]>>, db)
            BY <2>01, <4>3, <5>2, AgreesQuiet
          <6> QED
            BY <5>2, <6>1
        <5> QED
          BY <4>2, <5>1, <5>2
      <4> QED
        BY <2>3, <3>1, <4>1, <4>4
    <3>2. CASE Hands(res) /\ call = Call(Dispatch(d, c, res.msg), Null, <<>>)
      <4>1. PICK m \in Msgs : m = res.msg
        BY <3>2 DEF Hands, Resps, H!Responses, Msgs
      <4>2. conn[k].owner = c
        BY <2>0 DEF ConnsOwned
      <4>3. SentTo(c, m, db)
        BY <2>02, <3>2, <4>1, <4>2 DEF Agreement, WiresAgree, WireAgrees
      <4>4. PICK p \in Clients : p = m.from
        BY <4>3 DEF SentTo
      <4>5. Agrees(p, db[p], db)
        BY DEF Agreement, DatabasesAgree
      <4>6. ASSUME NEW y \in Draws, Carries(m.content, y), Heard(d.contacts[p], y)
            PROVE  FALSE
        <5>1. At("res", k, y)
          BY <2>02, <3>2, <4>1, <4>6 DEF At, ResAt
        <5>2. At("row", c, y)
          BY <2>01, <4>6 DEF At, RowAt, HeardIn
        <5>3. "res" \in Spots /\ "row" \in Spots /\ k \in Owners /\ c \in Owners
          BY DEF Spots, Owners
        <5> QED
          BY <5>1, <5>2, <5>3 DEF Once, InOnePlace
      <4>7. AgreesAlong(c, d, Dispatch(d, c, m), db)
        BY <2>01, <4>3, <4>4, <4>5, <4>6, AgreesDispatch DEF SentTo
      <4> QED
        BY <2>3, <3>2, <4>1, <4>7
    <3> QED
      BY <2>2, <3>1, <3>2
  <2>5. \A q \in Clients, v \in Workers :
           op'[q][v] = op[q][v] \/ (q = c /\ op'[q][v] = call)
    BY <1>0, <2>2
  <2>6. WiresAgree'
    <3>1. /\ [conn[k] EXCEPT !.res = Null].req = conn[k].req
          /\ [conn[k] EXCEPT !.res = Null].owner = conn[k].owner
          /\ [conn[k] EXCEPT !.res = Null].res = Null
      <4>1. conn[k] \in Wires
        BY <1>0
      <4> QED
        BY <4>1 DEF Wires
    <3>2. WireAgrees([conn[k] EXCEPT !.res = Null], db)
      BY <3>1 DEF WireAgrees, Hands, Agreement, WiresAgree
    <3>3. \A l \in Conns : conn'[l] = conn[l] \/ conn'[l] = [conn[k] EXCEPT !.res = Null]
      BY <1>0, <2>1
    <3> QED
      BY <1>1, <3>2, <3>3 DEF Agreement, WiresAgree
  <2> QED
    BY <1>2, <2>01, <2>4, <2>5, <2>6
<1> QED
  BY <1>1, <1>3, <1>4

\* A request is served: it goes to the mailbox that it names, or the oldest
\* message of a mailbox goes to its owner.
LEMMA ServedAgree ==
    ASSUME NEW D, NEW boxes \in [Clients -> Seq(Msgs)],
           \A q \in Clients : \A i \in DOMAIN boxes[q] : SentTo(q, boxes[q][i], D),
           NEW who \in Clients, NEW req \in Reqs, req # Null,
           Sends(req) => Sendable(who, req.to, D[who], req.convo, req.content)
    PROVE  /\ Hands(H!Answer(boxes, who, req)) => SentTo(who, H!Answer(boxes, who, req).msg, D)
           /\ \A q \in Clients : \A i \in DOMAIN H!Served(boxes, who, req)[q] :
                 SentTo(q, H!Served(boxes, who, req)[q][i], D)
<1>0. boxes[who] \in Seq(Msgs)
  OBVIOUS
<1> DEFINE new == H!Served(boxes, who, req)
           res == H!Answer(boxes, who, req)
<1>1. CASE req.type = "SendMessage"
  <2>1. req.to \in Clients /\ req.convo \in Draws /\ req.content \in Contents /\ Sends(req)
    <3>1. req.to \in Clients /\ req.convo \in Draws /\ req.content \in Contents
      BY <1>1 DEF Reqs, H!Requests
    <3> QED
      BY <1>1, <3>1 DEF Sends
  <2> DEFINE m == [from |-> who, convo |-> req.convo, content |-> req.content]
  <2>2. SentTo(req.to, m, D)
    BY <2>1 DEF SentTo
  <2>3. new = boxes \/ new = [boxes EXCEPT ![req.to] = Append(boxes[req.to], m)]
    BY <1>1 DEF H!Served, H!handleSendMessage
  <2>4. ~Hands(res)
    BY <1>1 DEF H!Answer, Hands
  <2> HIDE DEF m, new, res
  <2>5. ASSUME NEW q \in Clients, NEW i \in DOMAIN new[q]
        PROVE  SentTo(q, new[q][i], D)
    <3>1. CASE new[q] = boxes[q]
      BY <3>1, <2>5
    <3>2. CASE q = req.to /\ new[q] = Append(boxes[q], m)
      <4>1. boxes[q] \in Seq(Msgs)
        OBVIOUS
      <4>2. \/ i \in DOMAIN boxes[q] /\ new[q][i] = boxes[q][i]
            \/ new[q][i] = m
        BY <2>5, <3>2, <4>1
      <4> QED
        BY <2>2, <3>2, <4>2
    <3> QED
      BY <2>1, <2>3, <3>1, <3>2
  <2> QED
    BY <2>4, <2>5 DEF new, res
<1>2. CASE req.type # "SendMessage"
  <2> DEFINE box == boxes[who]
  <2>1. \/ new = boxes
        \/ box # <<>> /\ new = [boxes EXCEPT ![who] = Tail(box)]
    BY <1>2 DEF H!Served, H!handleGetNextMessage
  <2>2. Hands(res) => SentTo(who, res.msg, D)
    <3>1. box # <<>> => SentTo(who, Head(box), D)
      <4>1. box # <<>> => 1 \in DOMAIN box /\ Head(box) = box[1]
        BY <1>0
      <4> QED
        BY <4>1
    <3>2. res.msg = IF box = <<>> THEN Null ELSE Head(box)
      BY <1>2 DEF H!Answer
    <3> QED
      BY <3>1, <3>2 DEF Hands
  <2> HIDE DEF new, res
  <2>3. ASSUME NEW q \in Clients, NEW i \in DOMAIN new[q]
        PROVE  SentTo(q, new[q][i], D)
    <3>1. CASE new[q] = boxes[q]
      BY <3>1, <2>3
    <3>2. CASE q = who /\ box # <<>> /\ new[q] = Tail(box)
      <4>1. i + 1 \in DOMAIN boxes[q] /\ Tail(box)[i] = boxes[q][i + 1]
        BY <1>0, <2>3, <3>2
      <4> QED
        BY <3>2, <4>1
    <3> QED
      BY <2>1, <3>1, <3>2
  <2> QED
    BY <2>2, <2>3 DEF new, res
<1> QED
  BY <1>1, <1>2

\* The hub: what it keeps and hands out was sent.
LEMMA HubAgreement ==
    ASSUME IInv, Agreement, (\E k \in Conns : handleClient(k) \/ hangUp(k)) \/ hubRestart
    PROVE  Agreement'
<1>0. /\ UNCHANGED <<db, op>> /\ conn \in [Conns -> Wires] /\ pending \in [Clients -> Seq(Msgs)]
  BY DeliveryTypes DEF handleClient, hangUp, hubRestart
<1>1. ASSUME \A k \in Conns : conn'[k] = conn[k] \/ WireAgrees(conn'[k], db), BoxesAgree'
      PROVE  Agreement'
  BY <1>0, <1>1 DEF Agreement, WiresAgree, DatabasesAgree, CallsAgree
<1>2. ASSUME NEW k \in Conns, handleClient(k) PROVE Agreement'
  <2>1. PICK req \in Reqs : req = conn[k].req /\ req # Null
    BY <1>0, <1>2 DEF handleClient, Wires
  <2>2. PICK who \in Clients : who = conn[k].owner
    BY <1>2 DEF handleClient, IInv, RequestsOwned
  <2>3. PICK res : res = H!Answer(pending, who, req)
    OBVIOUS
  <2>4. /\ pending' = H!Served(pending, who, req)
        /\ conn' = [conn EXCEPT ![k] = [conn[k] EXCEPT !.req = Null, !.res = res]]
    BY <1>2, <2>1, <2>2, <2>3 DEF handleClient
  <2>5. /\ \A q \in Clients : \A i \in DOMAIN pending[q] : SentTo(q, pending[q][i], db)
        /\ Sends(req) => Sendable(who, req.to, db[who], req.convo, req.content)
    BY <2>1, <2>2 DEF Agreement, BoxesAgree, WiresAgree, WireAgrees
  <2>6. /\ Hands(res) => SentTo(who, res.msg, db)
        /\ \A q \in Clients : \A i \in DOMAIN H!Served(pending, who, req)[q] :
              SentTo(q, H!Served(pending, who, req)[q][i], db)
    BY <1>0, <2>1, <2>3, <2>5, ServedAgree
  <2>7. BoxesAgree'
    BY <1>0, <2>4, <2>6 DEF BoxesAgree
  <2>8. \A l \in Conns \ {k} : conn'[l] = conn[l]
    BY <1>0, <2>4
  <2>9. conn'[k].req = Null /\ conn'[k].res = res /\ conn'[k].owner = who
    <3>1. conn[k] \in Wires
      BY <1>0
    <3>2. conn'[k] = [conn[k] EXCEPT !.req = Null, !.res = res]
      BY <1>0, <2>4
    <3> QED
      BY <2>2, <3>1, <3>2 DEF Wires
  <2>10. WireAgrees(conn'[k], db)
    BY <2>6, <2>9 DEF WireAgrees, Sends
  <2> QED
    BY <1>1, <2>7, <2>8, <2>10
<1>3. ASSUME NEW k \in Conns, hangUp(k) PROVE Agreement'
  <2>1. conn' = [conn EXCEPT ![k] = NoConn] /\ UNCHANGED pending
    BY <1>3 DEF hangUp
  <2>2. WireAgrees(NoConn, db)
    BY DEF WireAgrees, NoConn, Sends, Hands
  <2>3. \A l \in Conns : conn'[l] = conn[l] \/ conn'[l] = NoConn
    BY <1>0, <2>1
  <2>4. \A l \in Conns : conn'[l] = conn[l] \/ WireAgrees(conn'[l], db)
    BY <2>2, <2>3
  <2>5. BoxesAgree'
    BY <1>0, <2>1 DEF Agreement, BoxesAgree
  <2> QED
    BY <1>1, <2>4, <2>5
<1>4. CASE hubRestart
  <2>1. /\ conn' = [k \in Conns |-> [conn[k] EXCEPT !.up = FALSE, !.req = Null]]
        /\ pending' = [q \in Clients |-> <<>>]
    BY <1>4 DEF hubRestart
  <2>2. \A k \in Conns : conn'[k].req = Null /\ conn'[k].res = conn[k].res
                         /\ conn'[k].owner = conn[k].owner
    BY <1>0, <2>1 DEF Wires
  <2>3. \A k \in Conns : WireAgrees(conn'[k], db)
    BY <2>2 DEF WireAgrees, Sends, Agreement, WiresAgree
  <2>4. BoxesAgree'
    <3>1. \A q \in Clients : pending'[q] = <<>>
      BY <2>1
    <3>2. \A i \in DOMAIN <<>> : FALSE
      OBVIOUS
    <3>3. \A q \in Clients : \A i \in DOMAIN pending'[q] : FALSE
      BY <3>1, <3>2
    <3> QED
      BY <3>3 DEF BoxesAgree
  <2>5. \A k \in Conns : conn'[k] = conn[k] \/ WireAgrees(conn'[k], db)
    BY <2>3
  <2> QED
    BY <1>1, <2>4, <2>5
<1> QED
  BY <1>2, <1>3, <1>4

LEMMA InitAgreement ==
    ASSUME Init PROVE Agreement
<1>1. /\ \A c \in Clients : /\ pending[c] = <<>> /\ db[c] = EmptyDatabase
                            /\ \A w \in Workers : op[c][w] = Idle
      /\ \A k \in Conns : conn[k].req = Null /\ conn[k].res = Null
  BY DEF Init, NoConn
<1>2. ~Sends(Null) /\ ~Hands(Null) /\ \A i \in DOMAIN <<>> : FALSE
  BY DEF Sends, Hands
<1>3. /\ \A p \in Clients : EmptyDatabase.contacts[p] = Null
      /\ \A x \in Draws : EmptyDatabase.convos[x] = Null
  BY DEF EmptyDatabase
<1>4. \A c, p \in Clients : DrawnWith(EmptyDatabase, c, p) = {} /\ ~IsAdded(EmptyDatabase, p)
  BY <1>3 DEF DrawnWith, HasConvo, IsAdded
<1>5. \A c \in Clients : Counted(c, EmptyDatabase)
  BY <1>4 DEF Counted
<1>6. \A c \in Clients : Agrees(c, EmptyDatabase, db)
  BY <1>3, <1>5 DEF Agrees
<1> QED
  BY <1>1, <1>2, <1>6 DEF Agreement, DatabasesAgree, CallsAgree, WiresAgree, BoxesAgree, WireAgrees

\* The invariant, whatever fails.
LEMMA AgreementInvariant == Spec => []Agreement
<1>1. IInv /\ IInv' /\ ConnsOwned /\ Secrets /\ Once /\ Agreement /\ [Next]_vars => Agreement'
  <2> SUFFICES ASSUME IInv, IInv', ConnsOwned, Secrets, Once, Agreement, [Next]_vars
               PROVE  Agreement'
    OBVIOUS
  <2>1. CASE Next
    <3>1. ASSUME NEW c \in Clients, NEW w \in Workers, getNextMessage(c, w) PROVE Agreement'
      BY <3>1, CallsAgreement
    <3>2. ASSUME NEW c \in Clients, NEW w \in Workers, NEW p \in Clients \ {c},
                 \/ aliceAddContact(c, w, p)
                 \/ bobAcceptContact(c, w, p)
                 \/ doDeleteContact(c, w, p)
                 \/ \E size \in Sizes :
                       \/ sendNewThread(c, w, p, size)
                       \/ \E id \in Draws : sendInConvo(c, w, id, p, size)
          PROVE  Agreement'
      BY <3>2, CallsAgreement
    <3> QED
      BY <2>1, <3>1, <3>2, WriteAgreement, AskAgreement, EndAgreement, HubAgreement DEF Next
  <2>2. CASE UNCHANGED vars
    BY <2>2 DEF vars, Agreement, DatabasesAgree, CallsAgree, WiresAgree, BoxesAgree
  <2> QED
    BY <2>1, <2>2
<1> QED
  BY <1>1, InitAgreement, OnceInvariant, OwnedInvariant, TypeInvariant, SecretsInvariant, PTL DEF Spec

-----------------------------------------------------------------------------
(* Both ends of a contact *)

\* The two rows of a contact that both sides finished.
LEMMA BothFinished ==
    ASSUME Stays, NEW c \in Clients, NEW p \in Clients,
           NEW mine \in ContactRows, NEW theirs \in ContactRows, mine.tag = 2, theirs.tag = 2,
           ContactAgrees(c, p, mine, theirs), ContactAgrees(p, c, theirs, mine)
    PROVE  /\ mine.c1.init = theirs.c2.init /\ mine.c1.resp = theirs.c2.resp
           /\ mine.c1.from = theirs.c2.from
<1>1. /\ mine.c1 \in ThreadStates /\ mine.c2 \in ThreadStates
      /\ theirs.c1 \in ThreadStates /\ theirs.c2 \in ThreadStates
  BY RowFields
<1>2. \A ts \in ThreadStates : ts.from \in {"initiator", "responder"}
  BY DEF ThreadStates
<1>3. Twins(mine) /\ Twins(theirs)
  BY DEF ContactAgrees
<1>4. CASE mine.c1.from = "initiator"
  <2>1. Accepted(theirs, mine.c1.init, mine.c1.resp)
    BY <1>4 DEF ContactAgrees
  <2> QED
    BY <1>1, <1>2, <1>3, <1>4, <2>1 DEF Accepted, Twins
<1>5. CASE mine.c1.from = "responder"
  <2>1. theirs.c1.from = "initiator" /\ theirs.c1.init = mine.c1.init
    BY <1>5 DEF ContactAgrees, Begun
  <2>2. mine.c1.resp = theirs.c1.resp
    BY <2>1 DEF ContactAgrees, Accepted
  <2> QED
    BY <1>1, <1>2, <1>3, <1>5, <2>1, <2>2 DEF Twins
<1> QED
  BY <1>1, <1>2, <1>4, <1>5

\* What a client drew and the other one has, the client has.
LEMMA DrawnOfBoth ==
    ASSUME Stays, NEW c \in Clients, NEW p \in Clients, c # p, NEW D,
           Agrees(p, D[p], D)
    PROVE  Cardinality(DrawnWith(D[p], c, c)) <= Cardinality(DrawnWith(D[c], c, p))
<1>1. ASSUME NEW x \in Draws, x.who = c, HasConvo(D[p], x, c)
      PROVE  HasConvo(D[c], x, p)
  <2>1. ConvoAgrees(p, x, D[p].convos[x], D) /\ D[p].convos[x].peer = c
    BY <1>1 DEF Agrees, HasConvo
  <2> QED
    BY <1>1, <2>1 DEF ConvoAgrees
<1>2. DrawnWith(D[p], c, c) \subseteq DrawnWith(D[c], c, p)
  BY <1>1 DEF DrawnWith
<1>3. IsFiniteSet(DrawnWith(D[c], c, p))
  BY DrawnFinite
<1> QED
  BY <1>2, <1>3, FS_Subset

\* PeersAgree, whatever fails: as long as contacts are not deleted, the state
\* that one side of a finished contact creates threads from is the one from
\* which the other side expects them, and the expecting side is not ahead.
THEOREM EndsAgree ==
    ASSUME "delete" \notin Mended
    PROVE  Spec => []PeersAgree
<1>1. IInv /\ Agreement => PeersAgree
  <2> SUFFICES ASSUME IInv, Agreement, NEW c \in Clients, NEW p \in Clients,
                      ContactAdded(c, p), ContactAdded(p, c)
               PROVE  LET mine   == db[c].contacts[p].c1
                          theirs == db[p].contacts[c].c2
                      IN  /\ [mine EXCEPT !.turn = 0] = [theirs EXCEPT !.turn = 0]
                          /\ theirs.turn <= mine.turn
    BY DEF PeersAgree
  <2>1. db[c] \in Databases /\ db[p] \in Databases
    BY DeliveryTypes
  <2>2. PICK row \in ContactRows : row = db[c].contacts[p] /\ row # Null /\ row.tag = 2
    BY <2>1 DEF ContactAdded, Databases
  <2>3. PICK peer \in ContactRows : peer = db[p].contacts[c] /\ peer # Null /\ peer.tag = 2
    BY <2>1 DEF ContactAdded, Databases
  <2>4. Agrees(c, db[c], db) /\ Agrees(p, db[p], db) /\ Stays
    BY DEF Agreement, DatabasesAgree, Stays
  <2>5. ContactAgrees(c, p, row, peer) /\ ContactAgrees(p, c, peer, row)
    BY <2>2, <2>3, <2>4 DEF Agrees
  <2>6. PICK mine \in ThreadStates : mine = row.c1
    BY <2>2, RowFields
  <2>7. PICK theirs \in ThreadStates : theirs = peer.c2
    BY <2>3, RowFields
  <2>8. mine.init = theirs.init /\ mine.resp = theirs.resp /\ mine.from = theirs.from
    BY <2>2, <2>3, <2>4, <2>5, <2>6, <2>7, BothFinished
  <2>9. [mine EXCEPT !.turn = 0] = [theirs EXCEPT !.turn = 0]
    BY <2>8 DEF ThreadStates
  <2>10. theirs.turn <= mine.turn
    <3>1. IsAdded(db[c], p) /\ IsAdded(db[p], c)
      BY <2>2, <2>3 DEF IsAdded
    <3>2. Cardinality(DrawnWith(db[c], c, p)) <= mine.turn
      BY <2>2, <2>4, <2>6, <3>1 DEF Agrees, Counted
    <3>3. theirs.turn <= Cardinality(DrawnWith(db[p], c, c))
      BY <2>3, <2>4, <2>7, <3>1 DEF Agrees, Counted
    <3>4. c # p
      BY <2>5 DEF ContactAgrees
    <3>5. Cardinality(DrawnWith(db[p], c, c)) <= Cardinality(DrawnWith(db[c], c, p))
      BY <2>4, <3>4, DrawnOfBoth
    <3>6. /\ Cardinality(DrawnWith(db[p], c, c)) \in Nat
          /\ Cardinality(DrawnWith(db[c], c, p)) \in Nat
          /\ mine.turn \in Nat /\ theirs.turn \in Nat
      BY <2>6, <2>7, DrawnFinite DEF ThreadStates
    <3> QED
      BY <3>2, <3>3, <3>5, <3>6
  <2> QED
    BY <2>2, <2>3, <2>6, <2>7, <2>9, <2>10
<1> QED
  BY <1>1, TypeInvariant, AgreementInvariant, PTL

-----------------------------------------------------------------------------
(* Threads *)

\* Two conversations of a clean database have two threads.
LEMMA CleanThreads ==
    ASSUME "crash" \notin Faults, NEW c \in Clients, NEW n, NEW d \in Databases, ConvosClean(c, n, d),
           NEW x \in Draws, NEW y \in Draws, d.convos[x] # Null, d.convos[y] # Null, x # y,
           d.convos[x].c1.thread.init.who # d.convos[x].c1.thread.resp.who
    PROVE  d.convos[x].c1.thread # d.convos[y].c1.thread
<1>1. PICK s \in SessionKeys : s = d.convos[x].c1
  BY FoundHasKeys
<1>2. PICK t \in SessionKeys : t = d.convos[y].c1
  BY FoundHasKeys
<1>3. Watched(s) /\ Watched(t)
  BY DEF Watched
<1>4. DrawnBy(c, n, Half(s)) /\ DrawnBy(c, n, Half(t)) /\ ~SameChain(s, t)
  BY <1>1, <1>2, <1>3 DEF ConvosClean, KeyClean
<1>5. SUFFICES ASSUME s.thread = t.thread PROVE FALSE
  BY <1>1, <1>2
<1>6. s.label \in {"initiatorThread", "responderThread"} /\ t.label \in {"initiatorThread", "responderThread"}
  BY Halves
<1>7. CASE s.label = t.label
  BY <1>4, <1>5, <1>7 DEF SameChain, Half
<1>8. CASE s.label # t.label
  <2>1. {Half(s), Half(t)} = {s.thread.init, s.thread.resp}
    BY <1>5, <1>6, <1>8 DEF Half
  <2> QED
    BY <1>1, <1>4, <2>1 DEF DrawnBy
<1> QED
  BY <1>7, <1>8

\* ThreadsAreFresh: if no client is killed, no two conversations of a client
\* come from the same thread state.
THEOREM FreshThreads ==
    ASSUME "roles" \in Mended, "crash" \notin Faults
    PROVE  Spec => []ThreadsAreFresh
<1>1. IInv /\ Agreement /\ Keys => ThreadsAreFresh
  <2> SUFFICES ASSUME IInv, Agreement, Keys, NEW c \in Clients, NEW x \in Draws, NEW y \in Draws,
                      x # y, db[c].convos[x] # Null, db[c].convos[y] # Null
               PROVE  db[c].convos[x].c1.thread # db[c].convos[y].c1.thread
    BY DEF ThreadsAreFresh
  <2>1. PICK d \in Databases : d = db[c]
    BY DeliveryTypes
  <2>2. PICK n : n = draws[c]
    OBVIOUS
  <2>3. CallsClean(c, n, d, Used(sent[c]), op[c])
    BY <2>1, <2>2 DEF Keys, ClientKeys
  <2>4. PICK e \in Databases : ConvosClean(c, n, e) /\ Onward(d, e)
    <3>1. CASE \A w \in Workers : op[c][w] = Idle
      <4>1. ConvosClean(c, n, d)
        BY <2>3, <3>1 DEF CallsClean, Clean
      <4> QED
        BY <4>1, OnwardSame
    <3>2. ASSUME NEW w \in Workers, op[c][w] # Idle
          PROVE  \E e \in Databases : ConvosClean(c, n, e) /\ Onward(d, e)
      <4>1. PICK ws \in Seq(Statements) : ws = op[c][w].writes
        <5>1. op[c][w] \in Calls
          BY DeliveryTypes
        <5> QED
          BY <5>1 DEF Calls
      <4>2. ConvosClean(c, n, After4(d, ws))
        BY <2>3, <3>2, <4>1 DEF CallsClean, Planned, Clean
      <4>3. AgreesAlong(c, d, ws, db)
        BY <2>1, <3>2, <4>1 DEF Agreement, CallsAgree, CallAgrees
      <4>4. Onward(d, After4(d, ws))
        BY <4>3, OnwardTwice DEF AgreesAlong, AgreesNext
      <4>5. After4(d, ws) \in Databases
        BY <4>1, AfterType
      <4> QED
        BY <4>2, <4>4, <4>5
    <3> QED
      BY <3>1, <3>2
  <2>5. d.convos[x].c1.thread.init.who # d.convos[x].c1.thread.resp.who
    BY <2>1 DEF Agreement, DatabasesAgree, Agrees, ConvoAgrees
  <2>6. /\ e.convos[x] # Null /\ e.convos[x].c1.thread = d.convos[x].c1.thread
        /\ e.convos[y] # Null /\ e.convos[y].c1.thread = d.convos[y].c1.thread
    BY <2>1, <2>4 DEF Onward
  <2>7. e.convos[x].c1.thread # e.convos[y].c1.thread
    BY <2>4, <2>5, <2>6, CleanThreads
  <2> QED
    BY <2>1, <2>6, <2>7
<1> QED
  BY <1>1, TypeInvariant, AgreementInvariant, KeysInvariant, PTL
=============================================================================
