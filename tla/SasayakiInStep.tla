--------------------------- MODULE SasayakiInStep ---------------------------
(***************************************************************************)
(* Proof that two clients stay in step as long as nothing fails: what one  *)
(* sends with is what the other receives with (ConvosAgree), and the hub   *)
(* hands out nothing that its reader cannot decrypt (NextDecrypts).  And   *)
(* proof that, whatever gets lost, every reader is shown a prefix of what  *)
(* was sent to it (DeliversAll), unless a client is killed.  All of it for *)
(* any number of clients, goroutines, connections and draws.               *)
(*                                                                         *)
(* The argument for the first two: a step of Sasayaki either leaves what   *)
(* is seen of every client as it is, or is one of the changes that         *)
(* SasayakiLockstep proves to keep every pair in step.                     *)
(*                                                                         *)
(* The argument for the third needs none of that.  The turn with which a   *)
(* reader receives counts the texts that it was shown, and the k-th was    *)
(* made with turn k - 1 (NoGaps).  The texts of a conversation go out in   *)
(* the order of their turns, so nothing that went out was passed over, and *)
(* the step of the lossy Conversations that SasayakiDelivery finds is one  *)
(* of the lossless.                                                        *)
(***************************************************************************)
EXTENDS SasayakiLockstep

-----------------------------------------------------------------------------
(* What the steps are, seen from afar *)

\* What other modules prove of every state.
Proved == IInv /\ Secrets /\ Keys /\ Delivery /\ Ordered /\ Once /\ Agreement

\* The call that runs is the one of the worker that does not rest.
LEMMA RunningCall ==
    ASSUME NEW calls, NEW w \in Workers, \A v \in Workers \ {w} : calls[v] = Idle
    PROVE  Running(calls) = calls[w]
<1>1. CASE calls[w] = Idle
  BY <1>1 DEF Running
<1>2. CASE calls[w] # Idle
  <2>1. \A v \in Workers : calls[v] # Idle <=> v = w
    BY <1>2
  <2>2. (CHOOSE v \in Workers : calls[v] # Idle) = w
    BY <2>1
  <2> QED
    BY <1>2, <2>2 DEF Running
<1> QED
  BY <1>1, <1>2

LEMMA RunningType ==
    ASSUME IInv, NEW c \in Clients
    PROVE  /\ Running(op[c]) \in Calls /\ Wire(c) \in Wires
           /\ db[c] \in Databases /\ sent[c] \in Seq(Ciphertexts) /\ pending[c] \in Seq(Msgs)
<1>1. /\ op[c] \in [Workers -> Calls] /\ hubConn[c] \in Conns \cup {Null}
      /\ conn \in [Conns -> Wires]
      /\ db[c] \in Databases /\ sent[c] \in Seq(Ciphertexts) /\ pending[c] \in Seq(Msgs)
  BY DeliveryTypes
<1>2. Idle \in Calls
  BY DEF Idle, Call, Calls
<1>3. NoConn \in Wires
  BY DEF NoConn, Wires
<1>4. Running(op[c]) \in Calls
  <2>1. CASE \A w \in Workers : op[c][w] = Idle
    BY <1>2, <2>1 DEF Running
  <2>2. CASE ~ \A w \in Workers : op[c][w] = Idle
    <3>1. (CHOOSE w \in Workers : op[c][w] # Idle) \in Workers
      BY <2>2
    <3> QED
      BY <1>1, <2>2, <3>1 DEF Running
  <2> QED
    BY <2>1, <2>2
<1>5. Wire(c) \in Wires
  BY <1>1, <1>3 DEF Wire, WireAt
<1> QED
  BY <1>1, <1>4, <1>5

\* What is seen of one client.
LEMMA SeenType ==
    ASSUME NEW call \in Calls, NEW wire \in Wires, NEW d \in Databases,
           NEW cts \in Seq(Ciphertexts), NEW box \in Seq(Msgs)
    PROVE  /\ After4(d, call.writes) \in Databases
           /\ OutOf(call, wire) \in Posts \cup {Null}
           /\ HandedBy(wire) \o box \in Seq(Msgs)
           /\ MadeBy(cts, call, wire) \in Seq(Ciphertexts)
<1>1. call.writes \in Seq(Statements) /\ call.ask \in Reqs \cup {Null}
  BY DEF Calls
<1>2. After4(d, call.writes) \in Databases
  BY <1>1, AfterType
<1>3. OutOf(call, wire) \in Posts \cup {Null}
  BY <1>1 DEF OutOf, Sends, Posts
<1>4. HandedBy(wire) \in Seq(Msgs)
  <2>1. Answered(wire) /\ Hands(wire.res) => wire.res.msg \in Msgs
    BY DEF Hands, Wires, Resps, H!Responses, Msgs
  <2> QED
    BY <2>1 DEF HandedBy
<1>5. MadeBy(cts, call, wire) \in Seq(Ciphertexts)
  <2>1. Texting(call.ask) => call.ask.content \in Contents /\ call.ask.content.kind = "aead"
    BY <1>1 DEF Texting, Reqs, H!Requests
  <2>2. Texting(call.ask) => call.ask.content \in Ciphertexts
    BY <2>1, ContentsKinds
  <2> QED
    BY <2>2 DEF MadeBy
<1> QED
  BY <1>2, <1>3, <1>4, <1>5

LEMMA SeenTypes ==
    ASSUME IInv
    PROVE  ViewType(Settled, Lines, Outs, Made)
<1>1. ASSUME NEW c \in Clients
      PROVE  /\ Settled[c] \in Databases /\ Lines[c] \in Seq(Msgs)
             /\ Outs[c] \in Posts \cup {Null} /\ Made[c] \in Seq(Ciphertexts)
  BY RunningType, SeenType DEF Settled, Lines, Outs, Made
<1> QED
  BY <1>1 DEF ViewType, Settled, Lines, Outs, Made

\* The settled databases agree, and go back to those that there are.
LEMMA SettledAgrees ==
    ASSUME IInv, Agreement
    PROVE  /\ \A c \in Clients : Agrees(c, Settled[c], Settled)
           /\ \A c \in Clients : Onward(db[c], Settled[c])
<1>1. ASSUME NEW c \in Clients
      PROVE  Agrees(c, Settled[c], db) /\ Onward(db[c], Settled[c])
  <2>1. Agrees(c, db[c], db)
    BY DEF Agreement, DatabasesAgree
  <2>2. CASE \A w \in Workers : op[c][w] = Idle
    <3>1. Running(op[c]).writes = <<>>
      BY <2>2 DEF Running, Idle, Call
    <3>2. Settled[c] = db[c]
      BY <3>1, AfterNone DEF Settled
    <3> QED
      BY <2>1, <3>2, OnwardSame
  <2>3. CASE ~ \A w \in Workers : op[c][w] = Idle
    <3>1. PICK w \in Workers : Running(op[c]) = op[c][w] /\ op[c][w] # Idle
      <4>1. PICK w \in Workers : w = CHOOSE v \in Workers : op[c][v] # Idle
        BY <2>3
      <4>2. op[c][w] # Idle
        BY <2>3, <4>1
      <4> QED
        BY <2>3, <4>1, <4>2 DEF Running
    <3>2. CallAgrees(c, db[c], op[c][w], db)
      BY <3>1 DEF Agreement, CallsAgree
    <3>3. Settled[c] = After4(db[c], op[c][w].writes)
      BY <3>1 DEF Settled
    <3> QED
      BY <3>2, <3>3, OnwardTwice DEF CallAgrees, AgreesAlong, AgreesNext
  <2> QED
    BY <2>2, <2>3
<1>2. ASSUME NEW c \in Clients
      PROVE  Agrees(c, Settled[c], Settled)
  <2>1. Settled[c] \in Databases
    BY RunningType, SeenType DEF Settled
  <2> QED
    BY <1>1, <2>1, AgreesOnward
<1> QED
  BY <1>1, <1>2

\* No other client does anything.
Alone(c) ==
    \A q \in Clients \ {c} :
        /\ db'[q] = db[q] /\ op'[q] = op[q] /\ sent'[q] = sent[q]
        /\ hubConn'[q] = hubConn[q] /\ WireAt(hubConn'[q], conn') = Wire(q)

\* It goes on with the call on the wire, and the others are seen as before.
Goes(c, call, wire) ==
    /\ Settled' = [Settled EXCEPT ![c] = After4(db'[c], call.writes)]
    /\ Outs' = [Outs EXCEPT ![c] = OutOf(call, wire)]
    /\ Made' = [Made EXCEPT ![c] = MadeBy(sent'[c], call, wire)]
    /\ Lines'[c] = HandedBy(wire) \o pending'[c]
    /\ \A q \in Clients \ {c} : Lines'[q] = HandedBy(Wire(q)) \o pending'[q]
    /\ pending' = pending =>
          Lines' = [Lines EXCEPT ![c] = HandedBy(wire) \o pending[c]]

LEMMA SeenAlone ==
    ASSUME NEW c \in Clients, Alone(c),
           NEW call, call = Running(op'[c]), NEW wire, wire = WireAt(hubConn'[c], conn')
    PROVE  Goes(c, call, wire)
<1>1. /\ Settled'[c] = After4(db'[c], call.writes) /\ Outs'[c] = OutOf(call, wire)
      /\ Made'[c] = MadeBy(sent'[c], call, wire) /\ Lines'[c] = HandedBy(wire) \o pending'[c]
  BY DEF Settled, Outs, Made, Lines, Wire
<1>2. ASSUME NEW q \in Clients \ {c}
      PROVE  /\ Settled'[q] = Settled[q] /\ Outs'[q] = Outs[q] /\ Made'[q] = Made[q]
             /\ Lines'[q] = HandedBy(Wire(q)) \o pending'[q]
             /\ Lines[q] = HandedBy(Wire(q)) \o pending[q]
  <2>1. db'[q] = db[q] /\ op'[q] = op[q] /\ sent'[q] = sent[q] /\ WireAt(hubConn'[q], conn') = Wire(q)
    BY DEF Alone
  <2>2. /\ Settled[q] = After4(db[q], Running(op[q]).writes)
        /\ Outs[q] = OutOf(Running(op[q]), Wire(q))
        /\ Made[q] = MadeBy(sent[q], Running(op[q]), Wire(q))
        /\ Lines[q] = HandedBy(Wire(q)) \o pending[q]
    BY DEF Settled, Outs, Made, Lines, Wire
  <2>3. /\ Settled'[q] = After4(db'[q], Running(op'[q]).writes)
        /\ Outs'[q] = OutOf(Running(op'[q]), WireAt(hubConn'[q], conn'))
        /\ Made'[q] = MadeBy(sent'[q], Running(op'[q]), WireAt(hubConn'[q], conn'))
        /\ Lines'[q] = HandedBy(WireAt(hubConn'[q], conn')) \o pending'[q]
    BY DEF Settled, Outs, Made, Lines, Wire
  <2> QED
    BY <2>1, <2>2, <2>3
<1>3. /\ Settled = [q \in Clients |-> Settled[q]] /\ Settled' = [q \in Clients |-> Settled'[q]]
      /\ Outs = [q \in Clients |-> Outs[q]] /\ Outs' = [q \in Clients |-> Outs'[q]]
      /\ Made = [q \in Clients |-> Made[q]] /\ Made' = [q \in Clients |-> Made'[q]]
      /\ Lines = [q \in Clients |-> Lines[q]] /\ Lines' = [q \in Clients |-> Lines'[q]]
  BY DEF Settled, Outs, Made, Lines, Wire
<1>4. Settled' = [Settled EXCEPT ![c] = After4(db'[c], call.writes)]
  BY <1>1, <1>2, <1>3
<1>5. Outs' = [Outs EXCEPT ![c] = OutOf(call, wire)]
  BY <1>1, <1>2, <1>3
<1>6. Made' = [Made EXCEPT ![c] = MadeBy(sent'[c], call, wire)]
  BY <1>1, <1>2, <1>3
<1>7. ASSUME pending' = pending
      PROVE  Lines' = [Lines EXCEPT ![c] = HandedBy(wire) \o pending[c]]
  <2>1. Lines'[c] = HandedBy(wire) \o pending[c] /\ \A q \in Clients \ {c} : Lines'[q] = Lines[q]
    BY <1>1, <1>2, <1>7
  <2> QED
    BY <1>3, <2>1
<1> QED
  BY <1>1, <1>2, <1>4, <1>5, <1>6, <1>7 DEF Goes

LEMMA SyncedAlone ==
    ASSUME Synced, NEW c \in Clients, Alone(c), InUse(Running(op'[c]), WireAt(hubConn'[c], conn')),
           hubConn'[c] # Null => WireAt(hubConn'[c], conn').up
    PROVE  Synced'
<1>1. ASSUME NEW q \in Clients
      PROVE  /\ hubConn'[q] # Null => WireAt(hubConn'[q], conn').up
             /\ InUse(Running(op'[q]), WireAt(hubConn'[q], conn'))
  <2>1. hubConn[q] # Null => Wire(q).up
    BY DEF Synced, Wire, WireAt
  <2>2. InUse(Running(op[q]), Wire(q))
    BY DEF Synced
  <2>3. CASE q = c
    BY <2>3
  <2>4. CASE q # c
    BY <2>1, <2>2, <2>4 DEF Alone
  <2> QED
    BY <2>3, <2>4
<1>2. \A q \in Clients : hubConn'[q] # Null => conn'[hubConn'[q]].up
  BY <1>1 DEF Wire, WireAt
<1> QED
  BY <1>1, <1>2 DEF Synced, Wire

\* A step that cannot be seen.
LEMMA Unseen ==
    ASSUME IInv, InStep, NEW c \in Clients, Alone(c), Synced', pending' = pending,
           NEW call, call = Running(op'[c]), NEW wire, wire = WireAt(hubConn'[c], conn'),
           After4(db'[c], call.writes) = Settled[c], OutOf(call, wire) = Outs[c],
           MadeBy(sent'[c], call, wire) = Made[c], HandedBy(wire) = HandedBy(Wire(c))
    PROVE  InStep'
<1>1. ViewType(Settled, Lines, Outs, Made)
  BY SeenTypes
<1>2. Lines[c] = HandedBy(wire) \o pending[c]
  BY DEF Lines
<1>3. /\ Settled' = [Settled EXCEPT ![c] = Settled[c]] /\ Outs' = [Outs EXCEPT ![c] = Outs[c]]
      /\ Made' = [Made EXCEPT ![c] = Made[c]] /\ Lines' = [Lines EXCEPT ![c] = Lines[c]]
  <2>1. Goes(c, call, wire)
    BY SeenAlone
  <2> QED
    BY <1>2, <2>1 DEF Goes
<1>4. Settled' = Settled /\ Outs' = Outs /\ Made' = Made /\ Lines' = Lines
  BY <1>1, <1>3 DEF ViewType
<1> QED
  BY <1>4 DEF InStep

\* What is known of a call that runs.
LEMMA TheCall ==
    ASSUME Proved, Synced, NEW c \in Clients, NEW w \in Workers, op[c][w] # Idle
    PROVE  /\ op[c][w] \in Calls /\ Running(op[c]) = op[c][w]
           /\ \A v \in Workers \ {w} : op[c][v] = Idle
           /\ InUse(op[c][w], Wire(c))
           /\ Settled[c] = After4(db[c], op[c][w].writes)
           /\ Outs[c] = OutOf(op[c][w], Wire(c))
           /\ Made[c] = MadeBy(sent[c], op[c][w], Wire(c))
           /\ Lines[c] = HandedBy(Wire(c)) \o pending[c]
<1>1. op[c][w] \in Calls
  BY DeliveryTypes DEF Proved
<1>2. \A v \in Workers \ {w} : op[c][v] = Idle
  BY DEF Proved, Secrets, OneCall
<1>3. PICK calls : calls = op[c]
  OBVIOUS
<1>4. Running(calls) = calls[w]
  BY <1>2, <1>3, RunningCall
<1>5. Running(op[c]) = op[c][w]
  BY <1>3, <1>4
<1> QED
  BY <1>1, <1>2, <1>5 DEF Synced, Settled, Outs, Made, Lines

\* The call that a step leaves behind.
LEMMA NextCall ==
    ASSUME IInv, NEW c \in Clients, NEW w \in Workers, \A v \in Workers \ {w} : op[c][v] = Idle,
           NEW call, op' = [op EXCEPT ![c][w] = call]
    PROVE  Running(op'[c]) = call /\ \A q \in Clients \ {c} : op'[q] = op[q]
<1>1. op \in [Clients -> [Workers -> Calls]]
  BY DeliveryTypes
<1>2. PICK calls : calls = op'[c]
  OBVIOUS
<1>3. calls[w] = call /\ \A v \in Workers \ {w} : calls[v] = Idle
  BY <1>1, <1>2
<1>4. Running(calls) = call
  BY <1>3, RunningCall
<1> QED
  BY <1>1, <1>2, <1>4

\* A statement is executed.
LEMMA WriteSeen ==
    ASSUME Proved, InStep, NEW c \in Clients, NEW w \in Workers, Write(c, w)
    PROVE  InStep'
<1>1. PICK call : call = op[c][w] /\ call.writes # <<>>
  BY DEF Write
<1>2. /\ call # Idle /\ Synced
  BY <1>1 DEF Idle, Call, InStep
<1>3. PICK wire : wire = Wire(c)
  OBVIOUS
<1>4. PICK d \in Databases : d = db[c]
  BY DeliveryTypes DEF Proved
<1>5. /\ call \in Calls /\ \A v \in Workers \ {w} : op[c][v] = Idle
      /\ InUse(call, wire) /\ Settled[c] = After4(d, call.writes)
      /\ Outs[c] = OutOf(call, wire) /\ Made[c] = MadeBy(sent[c], call, wire)
  BY <1>1, <1>2, <1>3, <1>4, TheCall
<1>6. /\ call.writes \in Seq(Statements) /\ Len(call.writes) <= 4
      /\ ~Violates(d, Head(call.writes))
  <2>1. call.writes \in Seq(Statements)
    BY <1>5 DEF Calls
  <2>2. Planned(c, draws[c], d, Used(sent[c]), call.writes, KeysOf(call.ask))
    BY <1>1, <1>2, <1>4 DEF Proved, Keys, ClientKeys, CallsClean
  <2>3. 1 \in DOMAIN call.writes /\ Head(call.writes) = call.writes[1]
    BY <1>1, <2>1
  <2> QED
    BY <2>1, <2>2, <2>3 DEF Planned
<1>7. PICK e : e = Executed(d, Head(call.writes))
  OBVIOUS
<1>8. PICK rest : rest = [call EXCEPT !.writes = Tail(call.writes)]
  OBVIOUS
<1>9. /\ op' = [op EXCEPT ![c][w] = rest] /\ db' = [db EXCEPT ![c] = e]
      /\ UNCHANGED <<hubConn, conn, pending, sent>>
  BY <1>1, <1>4, <1>6, <1>7, <1>8 DEF Write
<1>10. Running(op'[c]) = rest /\ \A q \in Clients \ {c} : op'[q] = op[q]
  BY <1>5, <1>9, NextCall DEF Proved
<1>11. db'[c] = e /\ \A q \in Clients \ {c} : db'[q] = db[q]
  BY <1>9, DeliveryTypes DEF Proved
<1>12. Alone(c) /\ WireAt(hubConn'[c], conn') = wire
  BY <1>3, <1>9, <1>10, <1>11 DEF Alone, Wire
<1>13. rest.writes = Tail(call.writes) /\ rest.ask = call.ask
  BY <1>5, <1>8 DEF Calls
<1>14. After4(e, rest.writes) = Settled[c]
  BY <1>1, <1>5, <1>6, <1>7, <1>13, AfterTail
<1>15. /\ OutOf(rest, wire) = OutOf(call, wire) /\ MadeBy(sent[c], rest, wire) = MadeBy(sent[c], call, wire)
       /\ InUse(rest, wire)
  <2>1. ~Busy(wire)
    BY <1>1, <1>5 DEF InUse
  <2> QED
    BY <1>5, <1>13, <2>1 DEF OutOf, MadeBy, InUse
<1>16. Synced'
  <2>1. hubConn[c] # Null => wire.up
    BY <1>2, <1>3 DEF Synced, Wire, WireAt
  <2> QED
    BY <1>2, <1>9, <1>10, <1>12, <1>15, <2>1, SyncedAlone
<1> QED
  <2>1. IInv /\ sent'[c] = sent[c] /\ pending' = pending
    BY <1>9 DEF Proved
  <2> QED
    BY <1>3, <1>5, <1>10, <1>11, <1>12, <1>14, <1>15, <1>16, <2>1, Unseen

\* The request goes out: it counted as sent already.
LEMMA AskSeen ==
    ASSUME Proved, InStep, NEW c \in Clients, NEW w \in Workers, Ask(c, w)
    PROVE  InStep'
<1>1. PICK call : call = op[c][w] /\ call.writes = <<>> /\ call.ask # Null
  BY DEF Ask, AtHub
<1>2. /\ call # Idle /\ Synced /\ IInv
  BY <1>1 DEF Idle, Call, InStep, Proved
<1>3. PICK wire : wire = Wire(c)
  OBVIOUS
<1>4. PICK new : new = [owner |-> c, up |-> TRUE, req |-> call.ask, res |-> Null]
  OBVIOUS
<1>5. /\ call \in Calls /\ Running(op[c]) = call /\ InUse(call, wire)
      /\ Settled[c] = After4(db[c], call.writes) /\ Outs[c] = OutOf(call, wire)
      /\ Made[c] = MadeBy(sent[c], call, wire)
  BY <1>1, <1>2, <1>3, TheCall
<1>6. PICK k \in Conns :
         /\ IF hubConn[c] = Null THEN conn[k].owner = Null ELSE k = hubConn[c]
         /\ hubConn' = [hubConn EXCEPT ![c] = k] /\ conn' = [conn EXCEPT ![k] = new]
  BY <1>1, <1>4 DEF Ask
<1>7. /\ hubConn \in [Clients -> Conns \cup {Null}] /\ conn \in [Conns -> Wires]
      /\ sent \in [Clients -> Seq(Ciphertexts)]
      /\ UNCHANGED <<db, op, pending>>
  BY <1>2, DeliveryTypes DEF Ask, IInv, TypeOK
<1>8. k # Null /\ \A q \in Clients : q # Null
  BY WireAssumption
<1>9. WireAt(hubConn'[c], conn') = new
  BY <1>6, <1>7, <1>8 DEF WireAt
<1>10. \A q \in Clients \ {c} :
          hubConn'[q] = hubConn[q] /\ WireAt(hubConn'[q], conn') = Wire(q)
  <2>1. ASSUME NEW q \in Clients \ {c} PROVE hubConn[q] # k
    <3>1. hubConn[q] = k => conn[k].owner = q
      BY <1>8 DEF Proved, Keys, ConnsOwned
    <3>2. hubConn[c] # Null => conn[hubConn[c]].owner = c
      BY DEF Proved, Keys, ConnsOwned
    <3> QED
      BY <1>6, <1>8, <2>1, <3>1, <3>2
  <2> QED
    BY <1>6, <1>7, <2>1 DEF Wire, WireAt
<1>11. ~Busy(wire)
  <2>1. hubConn[c] # Null => conn[hubConn[c]].req = Null /\ conn[hubConn[c]].res = Null
    BY DEF Ask, Exchanging
  <2> QED
    BY <1>3, <2>1 DEF Busy, Wire, WireAt, NoConn
<1>12. /\ IF Texting(call.ask) THEN sent'[c] = Append(sent[c], call.ask.content)
          ELSE sent'[c] = sent[c]
       /\ \A q \in Clients \ {c} : sent'[q] = sent[q]
  <2>1. sent' = IF Texting(call.ask) THEN [sent EXCEPT ![c] = Append(sent[c], call.ask.content)]
                ELSE sent
    BY <1>1 DEF Ask, Texting
  <2> QED
    BY <1>7, <2>1
<1>13. Alone(c)
  BY <1>7, <1>10, <1>12 DEF Alone
<1>14. /\ OutOf(call, new) = OutOf(call, wire) /\ HandedBy(new) = HandedBy(wire)
       /\ MadeBy(sent'[c], call, new) = MadeBy(sent[c], call, wire)
       /\ InUse(call, new)
  <2>1. Busy(new) /\ ~Answered(new) /\ ~Answered(wire)
    BY <1>1, <1>4, <1>11 DEF Busy, Answered
  <2>2. MadeBy(sent'[c], call, new) = MadeBy(sent[c], call, wire)
    BY <1>11, <1>12, <2>1 DEF MadeBy
  <2>3. InUse(call, new)
    BY <1>1, <1>4, <1>5, <2>1 DEF InUse
  <2> QED
    BY <2>1, <2>2, <2>3 DEF OutOf, HandedBy
<1>15. Running(op'[c]) = call
  BY <1>5, <1>7
<1>16. Synced'
  BY <1>2, <1>4, <1>9, <1>13, <1>14, <1>15, SyncedAlone
<1> QED
  <2>1. /\ db'[c] = db[c] /\ pending' = pending
    BY <1>7
  <2> QED
    BY <1>2, <1>3, <1>5, <1>9, <1>13, <1>14, <1>15, <1>16, <2>1, Unseen

\* The hub closes a connection that no one uses.
LEMMA HangUpSeen ==
    ASSUME Proved, InStep, NEW k \in Conns, hangUp(k)
    PROVE  InStep'
<1>1. /\ hubConn \in [Clients -> Conns \cup {Null}] /\ conn \in [Conns -> Wires]
      /\ conn' = [conn EXCEPT ![k] = NoConn]
      /\ UNCHANGED <<db, op, hubConn, pending, sent>>
  BY DeliveryTypes DEF hangUp, Proved
<1>2. \A q \in Clients : hubConn[q] # k
  <2>1. ASSUME NEW q \in Clients, hubConn[q] = k PROVE FALSE
    <3>1. k # Null
      BY WireAssumption
    <3>2. conn[k].owner = q
      BY <2>1, <3>1 DEF Proved, Keys, ConnsOwned
    <3> QED
      BY <2>1, <3>2 DEF hangUp
  <2> QED
    BY <2>1
<1>3. \A q \in Clients : WireAt(hubConn'[q], conn') = Wire(q)
  BY <1>1, <1>2 DEF Wire, WireAt
<1>4. UNCHANGED <<Settled, Outs, Made, Lines>>
  BY <1>1, <1>3 DEF Settled, Outs, Made, Lines, Wire
<1>5. Synced'
  <2>1. \A q \in Clients : hubConn'[q] # Null => conn'[hubConn'[q]].up
    BY <1>1, <1>2 DEF InStep, Synced
  <2>2. \A q \in Clients : InUse(Running(op'[q]), WireAt(hubConn'[q], conn'))
    BY <1>1, <1>3 DEF InStep, Synced
  <2> QED
    BY <2>1, <2>2 DEF Synced, Wire
<1> QED
  BY <1>4, <1>5 DEF InStep

\* The client c goes on with the same call, and the hub answers it on the wire.
Serving(c, call, wire, new, req, res) ==
    /\ c \in Clients /\ call \in Calls /\ wire \in Wires
    /\ req \in Reqs /\ req # Null /\ res \in Resps /\ res # Null
    /\ wire.req = req /\ wire.res = Null /\ call.ask = req /\ call.writes = <<>>
    /\ Sends(req) => req.fits
    /\ new.req = Null /\ new.res = res
    /\ res = H!Answer(pending, c, req) /\ pending' = H!Served(pending, c, req)
    /\ Settled' = Settled /\ Made' = Made
    /\ Outs' = [Outs EXCEPT ![c] = OutOf(call, new)] /\ Outs[c] = OutOf(call, wire)
    /\ Lines[c] = HandedBy(wire) \o pending[c] /\ Lines'[c] = HandedBy(new) \o pending'[c]
    /\ \A q \in Clients \ {c} : /\ Lines'[q] = HandedBy(Wire(q)) \o pending'[q]
                                /\ Lines[q] = HandedBy(Wire(q)) \o pending[q]
                                /\ HandedBy(Wire(q)) \in Seq(Msgs)
    /\ ViewType(Settled, Lines, Outs, Made) /\ DOMAIN Lines' = Clients
    /\ pending \in [Clients -> Seq(Msgs)]

LEMMA HubServes ==
    ASSUME Proved, InStep, NEW k \in Conns, handleClient(k)
    PROVE  /\ \E c, call, wire, new, req, res : Serving(c, call, wire, new, req, res)
           /\ Synced'
<1>0. IInv /\ Synced
  BY DEF Proved, InStep
<1>1. /\ hubConn \in [Clients -> Conns \cup {Null}] /\ conn \in [Conns -> Wires]
      /\ pending \in [Clients -> Seq(Msgs)]
      /\ UNCHANGED <<db, op, hubConn, sent>>
  BY <1>0, DeliveryTypes DEF handleClient
<1>2. conn[k].owner \in Clients /\ conn[k].req \in Reqs /\ conn[k].req # Null
  BY <1>0, <1>1 DEF handleClient, IInv, RequestsOwned, Wires
<1>3. PICK c \in Clients : c = conn[k].owner
  BY <1>2
<1>4. PICK req \in Reqs : req = conn[k].req /\ req # Null
  BY <1>2
<1>5. PICK wire \in Wires : wire = conn[k]
  BY <1>1
<1>6. hubConn[c] = k /\ k # Null /\ Wire(c) = wire
  <2>1. hubConn[c] = k /\ k # Null
    BY <1>3, <1>4, WireAssumption DEF handleClient, Proved, Ordered, OnlyInUse
  <2> QED
    BY <1>5, <2>1 DEF Wire, WireAt
<1>7. PICK call \in Calls : call = Running(op[c])
  BY <1>0, RunningType
<1>8. /\ InUse(call, wire) /\ wire.req = req /\ wire.res = Null
      /\ call.ask = req /\ call.writes = <<>> /\ wire.up
  <2>1. InUse(call, wire)
    BY <1>0, <1>6, <1>7 DEF Synced
  <2> QED
    BY <1>4, <1>5, <2>1 DEF InUse, Busy, handleClient
<1>9. PICK res : res = H!Answer(pending, c, req)
  OBVIOUS
<1>10. res \in Resps /\ res # Null
  BY <1>0, <1>9, AnswerType, WireAssumption
<1>11. PICK new : new = [wire EXCEPT !.req = Null, !.res = res]
  OBVIOUS
<1>12. new.req = Null /\ new.res = res /\ new.up
  BY <1>8, <1>11 DEF Wires
<1>13. conn' = [conn EXCEPT ![k] = new] /\ pending' = H!Served(pending, c, req)
  BY <1>3, <1>4, <1>5, <1>9, <1>11 DEF handleClient
<1>14. WireAt(hubConn'[c], conn') = new
  BY <1>1, <1>6, <1>13 DEF WireAt
<1>15. Alone(c)
  <2>1. ASSUME NEW q \in Clients \ {c} PROVE hubConn[q] # k
    BY <1>3, <1>6, <2>1 DEF Proved, Keys, ConnsOwned
  <2> QED
    BY <1>1, <1>13, <2>1 DEF Alone, Wire, WireAt
<1>16. Running(op'[c]) = call
  BY <1>1, <1>7
<1>17. InUse(call, new)
  <2>1. IF Sends(req) THEN res = [type |-> "success", ok |-> TRUE] ELSE res.type = "message"
    <3>1. CASE Sends(req)
      BY <1>8, <1>9, <3>1 DEF InUse, Sends, H!Answer
    <3>2. CASE ~Sends(req)
      BY <1>4, <1>9, <3>2 DEF Sends, H!Answer
    <3> QED
      BY <3>1, <3>2
  <2> QED
    BY <1>4, <1>8, <1>12, <2>1 DEF InUse
<1>18. Synced'
  BY <1>0, <1>12, <1>14, <1>15, <1>16, <1>17, SyncedAlone
<1>19. Goes(c, call, new)
  BY <1>14, <1>15, <1>16, SeenAlone
<1>20. ViewType(Settled, Lines, Outs, Made)
  BY <1>0, SeenTypes
<1>21. /\ Settled[c] = After4(db[c], call.writes) /\ Outs[c] = OutOf(call, wire)
       /\ Made[c] = MadeBy(sent[c], call, wire)
       /\ Lines[c] = HandedBy(wire) \o pending[c] /\ Lines'[c] = HandedBy(new) \o pending'[c]
  BY <1>6, <1>7, <1>19 DEF Settled, Outs, Made, Lines, Goes
<1>22. Settled' = Settled /\ Made' = Made /\ Outs' = [Outs EXCEPT ![c] = OutOf(call, new)]
  <2>1. MadeBy(sent[c], call, new) = MadeBy(sent[c], call, wire)
    BY <1>4, <1>8, <1>10, <1>12 DEF MadeBy, Busy
  <2>2. db'[c] = db[c] /\ sent'[c] = sent[c]
    BY <1>1
  <2>3. /\ Settled' = [Settled EXCEPT ![c] = Settled[c]] /\ Made' = [Made EXCEPT ![c] = Made[c]]
        /\ Outs' = [Outs EXCEPT ![c] = OutOf(call, new)]
    BY <1>19, <1>21, <2>1, <2>2 DEF Goes
  <2> QED
    BY <1>20, <2>3 DEF ViewType
<1>23. ASSUME NEW q \in Clients \ {c}
       PROVE  /\ Lines'[q] = HandedBy(Wire(q)) \o pending'[q]
              /\ Lines[q] = HandedBy(Wire(q)) \o pending[q]
              /\ HandedBy(Wire(q)) \in Seq(Msgs)
  <2>1. Wire(q) \in Wires
    BY <1>0, RunningType
  <2>2. HandedBy(Wire(q)) \in Seq(Msgs)
    BY <2>1 DEF HandedBy, Hands, Wires, Resps, H!Responses, Msgs
  <2> QED
    BY <1>19, <2>2 DEF Goes, Lines
<1>24. Sends(req) => req.fits
  BY <1>8 DEF InUse
<1>25. DOMAIN Lines' = Clients
  BY DEF Lines
<1>26. Serving(c, call, wire, new, req, res)
  BY <1>1, <1>4, <1>8, <1>9, <1>10, <1>12, <1>13, <1>20, <1>21, <1>22, <1>23, <1>24, <1>25
     DEF Serving
<1> QED
  BY <1>18, <1>26

\* What is appended to the second part is appended to the whole.
LEMMA AppendsBehind ==
    ASSUME NEW S, NEW h \in Seq(S), NEW s \in Seq(S), NEW m \in S
    PROVE  h \o Append(s, m) = Append(h \o s, m)
OBVIOUS

\* A message that the hub takes goes to the end of a line.
LEMMA PassSeen ==
    ASSUME InStep, NEW c, NEW call, NEW wire, NEW new, NEW req, NEW res,
           Serving(c, call, wire, new, req, res), Sends(req)
    PROVE  AllInStep(Settled', Lines', Outs', Made')
<1> USE DEF Serving
<1>1. AllInStep(Settled, Lines, Outs, Made)
  BY DEF InStep
<1>2. Outs[c] = req /\ OutOf(call, new) = Null
  <2>1. ~Answered(wire) /\ Answered(new)
    BY DEF Answered
  <2> QED
    BY <2>1 DEF OutOf
<1>3. PICK p \in Clients \ {c} : p = req.to
  BY <1>1, <1>2 DEF AllInStep
<1>4. PICK m \in Msgs : m = [from |-> c, convo |-> req.convo, content |-> req.content]
  BY DEF Sends, Reqs, H!Requests, Msgs, H!Messages
<1>5. /\ pending' = [pending EXCEPT ![p] = Append(pending[p], m)]
      /\ res.type = "success"
  BY <1>3, <1>4 DEF Sends, H!Served, H!handleSendMessage, H!Answer
<1>6. PICK line : line = Append(Lines[p], m)
  OBVIOUS
<1>7. Lines'[p] = line
  <2>1. pending'[p] = Append(pending[p], m) /\ pending[p] \in Seq(Msgs)
    BY <1>3, <1>5
  <2>2. Lines'[p] = HandedBy(Wire(p)) \o Append(pending[p], m) /\ Lines[p] = HandedBy(Wire(p)) \o pending[p]
        /\ HandedBy(Wire(p)) \in Seq(Msgs)
    BY <1>3, <2>1
  <2>3. PICK h \in Seq(Msgs), s \in Seq(Msgs) : h = HandedBy(Wire(p)) /\ s = pending[p]
    BY <2>1, <2>2
  <2> HIDE DEF Serving
  <2>4. h \o Append(s, m) = Append(h \o s, m)
    BY AppendsBehind
  <2> QED
    BY <1>6, <2>2, <2>3, <2>4
<1>8. \A q \in Clients \ {p} : Lines'[q] = Lines[q]
  <2>1. \A q \in Clients \ {p} : pending'[q] = pending[q]
    BY <1>5
  <2>2. HandedBy(new) = HandedBy(wire)
    BY <1>5 DEF HandedBy, Hands, Answered
  <2>3. c \in Clients \ {p}
    BY <1>3
  <2>4. Lines'[c] = Lines[c]
    <3>1. pending'[c] = pending[c]
      BY <2>1, <2>3
    <3> QED
      BY <2>2, <3>1
  <2>5. ASSUME NEW q \in Clients \ {p}, q # c
        PROVE  Lines'[q] = Lines[q]
    <3>1. pending'[q] = pending[q]
      BY <2>1, <2>5
    <3>2. Lines'[q] = HandedBy(Wire(q)) \o pending'[q] /\ Lines[q] = HandedBy(Wire(q)) \o pending[q]
      BY <2>5
    <3> QED
      BY <3>1, <3>2
  <2> QED
    BY <2>4, <2>5
<1>9. Lines' = [Lines EXCEPT ![p] = line]
  <2>1. Lines' = [q \in Clients |-> Lines'[q]] /\ Lines = [q \in Clients |-> Lines[q]]
    BY DEF Lines
  <2> QED
    BY <1>3, <1>7, <1>8, <2>1
<1>10. Outs' = [Outs EXCEPT ![c] = Null]
  BY <1>2
<1>11. ASSUME NEW L1, L1 = Lines', NEW O1, O1 = Outs'
       PROVE  AllInStep(Settled, L1, O1, Made)
  <2>1. L1 = [Lines EXCEPT ![p] = line] /\ O1 = [Outs EXCEPT ![c] = Null] /\ IsAppended(Lines[p], m, line)
    BY <1>6, <1>9, <1>10, <1>11 DEF IsAppended
  <2>2. m.from = c /\ m.convo = Outs[c].convo /\ m.content = Outs[c].content /\ p = Outs[c].to /\ Outs[c] # Null
    BY <1>2, <1>3, <1>4
  <2> QED
    BY <1>1, <2>1, <2>2, ViewPasses
<1> QED
  BY <1>11

\* A message that the hub hands out is still the first one of its line.
LEMMA HandSeen ==
    ASSUME InStep, NEW c, NEW call, NEW wire, NEW new, NEW req, NEW res,
           Serving(c, call, wire, new, req, res), ~Sends(req)
    PROVE  UNCHANGED <<Settled, Lines, Outs, Made>>
<1> USE DEF Serving
<1>1. OutOf(call, new) = Null /\ Outs[c] = Null
  BY DEF OutOf
<1>2. Outs' = Outs
  BY <1>1 DEF ViewType
<1>3. pending' = H!handleGetNextMessage(pending, c)
      /\ res = [type |-> "message", msg |-> IF pending[c] = <<>> THEN Null ELSE Head(pending[c])]
  BY DEF Sends, H!Served, H!Answer
<1>4. \A q \in Clients \ {c} : Lines'[q] = Lines[q]
  BY <1>3 DEF H!handleGetNextMessage
<1>5. Lines[c] = pending[c]
  <2>1. HandedBy(wire) = <<>>
    BY DEF HandedBy, Answered
  <2> QED
    BY <2>1
<1>6. Lines'[c] = pending[c]
  <2>1. CASE pending[c] = <<>>
    <3>1. pending'[c] = <<>> /\ HandedBy(new) = <<>>
      BY <1>3, <2>1 DEF H!handleGetNextMessage, HandedBy, Hands
    <3> QED
      BY <2>1, <3>1
  <2>2. CASE pending[c] # <<>>
    <3>1. Head(pending[c]) \in Msgs /\ pending[c] \in Seq(Msgs)
      BY <2>2
    <3>2. HandedBy(new) = <<Head(pending[c])>>
      BY <1>3, <2>2, <3>1, WireAssumption DEF HandedBy, Hands, Answered
    <3>3. pending'[c] = Tail(pending[c])
      BY <1>3, <2>2 DEF H!handleGetNextMessage
    <3> QED
      BY <2>2, <3>1, <3>2, <3>3
  <2> QED
    BY <2>1, <2>2
<1>7. Lines' = Lines
  <2>1. Lines' = [q \in Clients |-> Lines'[q]] /\ Lines = [q \in Clients |-> Lines[q]]
    BY DEF Lines
  <2> QED
    BY <1>4, <1>5, <1>6, <2>1
<1> QED
  BY <1>2, <1>7

\* The hub serves a request.
LEMMA ServeSeen ==
    ASSUME Proved, InStep, NEW k \in Conns, handleClient(k)
    PROVE  InStep'
<1>1. /\ \E c, call, wire, new, req, res : Serving(c, call, wire, new, req, res)
      /\ Synced'
  BY HubServes
<1>2. PICK c, call, wire, new, req, res : Serving(c, call, wire, new, req, res)
  BY <1>1
<1>3. AllInStep(Settled', Lines', Outs', Made')
  <2>1. CASE Sends(req)
    BY <1>2, <2>1, PassSeen
  <2>2. CASE ~Sends(req)
    BY <1>2, <2>2, HandSeen DEF InStep
  <2> QED
    BY <2>1, <2>2
<1> QED
  BY <1>1, <1>3 DEF InStep

-----------------------------------------------------------------------------
(* A call begins *)

\* A client of which no call runs.
LEMMA Resting ==
    ASSUME Proved, InStep, NEW c \in Clients, MutexFree(c)
    PROVE  /\ Running(op[c]) = Idle /\ \A v \in Workers : op[c][v] = Idle
           /\ ~Busy(Wire(c)) /\ HandedBy(Wire(c)) = <<>>
           /\ Settled[c] = db[c] /\ Outs[c] = Null /\ Made[c] = sent[c]
           /\ Lines[c] = pending[c]
<1>1. PICK wire : wire = Wire(c)
  OBVIOUS
<1>2. Running(op[c]) = Idle /\ \A v \in Workers : op[c][v] = Idle
  BY DEF MutexFree, Running
<1>3. Idle.ask = Null /\ Idle.writes = <<>> /\ ~Sends(Idle.ask) /\ ~Texting(Idle.ask)
  BY DEF Idle, Call, Sends, Texting
<1>4. ~Busy(wire)
  BY <1>1, <1>2, <1>3 DEF InStep, Synced, InUse
<1>5. HandedBy(wire) = <<>>
  BY <1>4 DEF HandedBy, Busy, Answered
<1>6. pending[c] \in Seq(Msgs)
  BY RunningType DEF Proved
<1>7. Lines[c] = <<>> \o pending[c]
  BY <1>1, <1>5 DEF Lines
<1>8. Lines[c] = pending[c]
  BY <1>6, <1>7
<1>9. Settled[c] = db[c]
  BY <1>2, <1>3, AfterNone DEF Settled
<1>10. Outs[c] = Null /\ Made[c] = sent[c]
  BY <1>1, <1>2, <1>3 DEF Outs, OutOf, Made, MadeBy
<1> QED
  BY <1>1, <1>2, <1>4, <1>5, <1>8, <1>9, <1>10

\* What the call has to do is settled, and its message counts as sent.
Begins(c, call) ==
    /\ Settled' = [Settled EXCEPT ![c] = After4(db[c], call.writes)]
    /\ Outs' = [Outs EXCEPT ![c] = IF Sends(call.ask) THEN call.ask ELSE Null]
    /\ Made' = [Made EXCEPT ![c] = IF Texting(call.ask)
                                   THEN Append(sent[c], call.ask.content) ELSE sent[c]]
    /\ Lines' = Lines
    /\ Synced'

LEMMA BeginSeen ==
    ASSUME Proved, InStep, NEW c \in Clients, NEW w \in Workers, NEW call, Begin(c, w, call),
           Sends(call.ask) => call.ask.fits
    PROVE  Begins(c, call)
<1>1. /\ MutexFree(c) /\ op' = [op EXCEPT ![c][w] = call]
      /\ UNCHANGED <<db, hubConn, conn, pending, sent>>
  BY DEF Begin
<1>2. PICK wire : wire = Wire(c)
  OBVIOUS
<1>3. /\ \A v \in Workers : op[c][v] = Idle
      /\ ~Busy(wire) /\ HandedBy(wire) = <<>> /\ Lines[c] = pending[c]
  BY <1>1, <1>2, Resting
<1>4. Running(op'[c]) = call /\ \A q \in Clients \ {c} : op'[q] = op[q]
  BY <1>1, <1>3, NextCall DEF Proved
<1>5. Alone(c) /\ WireAt(hubConn'[c], conn') = wire
  BY <1>1, <1>2, <1>4 DEF Alone, Wire
<1>6. Goes(c, call, wire)
  BY <1>4, <1>5, SeenAlone
<1>7. /\ OutOf(call, wire) = (IF Sends(call.ask) THEN call.ask ELSE Null)
      /\ MadeBy(sent[c], call, wire) =
            (IF Texting(call.ask) THEN Append(sent[c], call.ask.content) ELSE sent[c])
      /\ InUse(call, wire)
  BY <1>3 DEF OutOf, MadeBy, InUse, Busy, Answered
<1>8. Synced'
  <2>1. hubConn[c] # Null => wire.up
    BY <1>2 DEF InStep, Synced, Wire, WireAt
  <2> QED
    BY <1>1, <1>4, <1>5, <1>7, <2>1, SyncedAlone DEF InStep
<1>9. Lines' = Lines
  <2>1. Lines' = [Lines EXCEPT ![c] = HandedBy(wire) \o pending[c]]
    BY <1>1, <1>6 DEF Goes
  <2>2. pending[c] \in Seq(Msgs)
    BY RunningType DEF Proved
  <2>3. HandedBy(wire) \o pending[c] = Lines[c]
    BY <1>3, <2>2
  <2>4. Lines \in [Clients -> Seq(Msgs)]
    BY SeenTypes DEF ViewType, Proved
  <2> QED
    BY <2>1, <2>3, <2>4
<1> QED
  BY <1>1, <1>6, <1>7, <1>8, <1>9 DEF Goes, Begins

\* A call that writes nothing and sends nothing.
LEMMA NextSeen ==
    ASSUME Proved, InStep, NEW c \in Clients, NEW w \in Workers, getNextMessage(c, w)
    PROVE  InStep'
<1>1. PICK call : call = Call(<<>>, H!GetNextMessage, <<>>)
  OBVIOUS
<1>2. call.writes = <<>> /\ call.ask = H!GetNextMessage
  BY <1>1 DEF Call
<1>3. ~Sends(call.ask) /\ ~Texting(call.ask)
  BY <1>2 DEF Sends, Texting, H!GetNextMessage
<1>4. Begin(c, w, call)
  BY <1>1 DEF getNextMessage
<1>5. Begins(c, call)
  BY <1>3, <1>4, BeginSeen
<1>6. Settled[c] = db[c] /\ Outs[c] = Null /\ Made[c] = sent[c]
  BY <1>4, Resting DEF Begin
<1>7. After4(db[c], call.writes) = db[c]
  BY <1>2, AfterNone
<1>8. ViewType(Settled, Lines, Outs, Made)
  BY SeenTypes DEF Proved
<1>9. Settled' = Settled /\ Outs' = Outs /\ Made' = Made /\ Lines' = Lines /\ Synced'
  BY <1>3, <1>5, <1>6, <1>7, <1>8 DEF Begins, ViewType
<1> QED
  BY <1>9 DEF InStep

\* The client c posts out: its database becomes f, and its ciphertexts t.
Posted(S, L, O, T, c, p, out, f, t, S1, O1, T1) ==
    /\ Posting(S, L, O, T, c, p, out)
    /\ Moves(c, p, S[c], S[p], f, Ahead(c, L[p]), out.content, T[c], t)
    /\ S1 = [S EXCEPT ![c] = f] /\ O1 = [O EXCEPT ![c] = out] /\ T1 = [T EXCEPT ![c] = t]

LEMMA ViewPosts ==
    ASSUME NEW S, NEW L, NEW O, NEW T, NEW c, NEW p, NEW out, NEW f, NEW t,
           NEW S1, NEW O1, NEW T1, Posted(S, L, O, T, c, p, out, f, t, S1, O1, T1)
    PROVE  AllInStep(S1, L, O1, T1)
  BY ViewBegins DEF Posted

\* It may send ct to p, if it leaves the database f and the ciphertexts t.
Readies(c, p, d, f, ct, s, t) ==
    \A e, M : Pair(c, p, d, e, M, s) => Moves(c, p, d, e, f, M, ct, s, t)

\* A call that sends something to p, for which it changes the database as f says.
LEMMA SendSeen ==
    ASSUME Faultless, Proved, InStep, NEW c \in Clients, NEW w \in Workers, NEW call,
           Begin(c, w, call), NEW ask, ask = call.ask, ask \in Posts, ask # Null, ask.fits,
           NEW p \in Clients \ {c}, ask.to = p, Addressed(c, p, ask.convo, ask.content),
           NEW d, d = db[c], NEW f, f = After4(d, call.writes), NEW s, s = sent[c],
           NEW new, new = IF Texting(ask) THEN Append(s, ask.content) ELSE s,
           Readies(c, p, d, f, ask.content, s, new)
    PROVE  InStep'
<1>1. Sends(ask)
  BY DEF Sends, Posts
<1>2. Begins(c, call)
  BY BeginSeen
<1>3. Settled[c] = d /\ Outs[c] = Null /\ Made[c] = s
  BY Resting DEF Begin
<1>4. ViewType(Settled, Lines, Outs, Made) /\ AllInStep(Settled, Lines, Outs, Made)
  BY SeenTypes DEF Proved, InStep
<1>5. Peers(c, p, Settled[c], Settled[p]) /\ Peers(p, c, Settled[p], Settled[c])
  <2>1. \A q \in Clients : Agrees(q, Settled[q], Settled)
    BY SettledAgrees DEF Proved
  <2>2. Stays
    BY DEF Faultless, Stays
  <2>3. ASSUME NEW D, D = Settled PROVE Peers(c, p, D[c], D[p]) /\ Peers(p, c, D[p], D[c])
    <3>1. Agrees(c, D[c], D) /\ Agrees(p, D[p], D)
      BY <2>1, <2>3
    <3>2. \A x : x = D[c] => Peers(c, p, x, D[p])
      BY <2>2, <3>1, PeersOf
    <3>3. \A x : x = D[p] => Peers(p, c, x, D[c])
      BY <2>2, <3>1, PeersOf
    <3> QED
      BY <3>2, <3>3
  <2> QED
    BY <2>3
<1>6. ASSUME NEW S, S = Settled, NEW L, L = Lines, NEW O, O = Outs, NEW T, T = Made,
             NEW S1, S1 = Settled', NEW O1, O1 = Outs', NEW T1, T1 = Made'
      PROVE  AllInStep(S1, L, O1, T1)
  <2>1. Pair(c, p, S[c], S[p], Ahead(c, L[p]), T[c])
    BY <1>3, <1>4, <1>5, <1>6, BeforeSending
  <2>2. PICK e, M : e = S[p] /\ M = Ahead(c, L[p])
    OBVIOUS
  <2>3. Pair(c, p, d, e, M, s)
    BY <1>3, <1>6, <2>1, <2>2
  <2>4. Moves(c, p, d, e, f, M, ask.content, s, new)
    BY <2>3 DEF Readies
  <2>5. Moves(c, p, S[c], S[p], f, Ahead(c, L[p]), ask.content, T[c], new)
    BY <1>3, <1>6, <2>2, <2>4
  <2>6. Posting(S, L, O, T, c, p, ask)
    BY <1>3, <1>4, <1>6 DEF Posting
  <2>7. S1 = [S EXCEPT ![c] = f] /\ O1 = [O EXCEPT ![c] = ask] /\ T1 = [T EXCEPT ![c] = new]
    BY <1>1, <1>2, <1>6 DEF Begins
  <2> QED
    <3>1. Posted(S, L, O, T, c, p, ask, f, new, S1, O1, T1)
      BY <2>5, <2>6, <2>7 DEF Posted
    <3> QED
      BY <3>1, ViewPosts
<1>7. AllInStep(Settled', Lines, Outs', Made')
  BY <1>6
<1> QED
  BY <1>2, <1>7 DEF Begins, InStep

\* What a call draws, and what it types.
LEMMA FreshDraw ==
    ASSUME Proved, NEW c \in Clients, Draw(c), NEW x, x = Fresh(c)
    PROVE  /\ x \in Draws /\ x.who = c /\ db[c].convos[x] = Null
           /\ \A size \in Sizes :
                 /\ Typed(c, size) \in Texts /\ Typed(c, size).by = c
                 /\ Typed(c, size).size = size
<1>0. db[c] \in Databases /\ draws[c] \in Nat
  BY DeliveryTypes DEF Proved
<1>1. x \in Draws /\ \A size \in Sizes : Typed(c, size) \in Texts
  BY DrawType DEF Proved, IInv
<1>2. x.who = c /\ x.no = draws[c] + 1
  BY DEF Fresh
<1>3. ~Drawn(draws, x)
  BY <1>0, <1>2 DEF Drawn
<1>4. db[c].convos[x] = Null
  BY <1>1, <1>3 DEF Proved, Secrets, DrawnOnly, RowsDrawn, DrawnRows
<1>5. \A size \in Sizes : Typed(c, size).by = c /\ Typed(c, size).size = size
  BY DEF Typed
<1> QED
  BY <1>1, <1>2, <1>4, <1>5

\* The request that carries ct.
PostOf(p, x, ct) == H!SendMessage(p, x, ct, TRUE)

LEMMA PostType ==
    ASSUME NEW p \in Clients, NEW x \in Draws, NEW ct \in Contents,
           NEW ask, ask = PostOf(p, x, ct)
    PROVE  /\ ask \in Posts /\ ask # Null /\ ask.fits
           /\ ask.to = p /\ ask.convo = x /\ ask.content = ct
           /\ Texting(ask) <=> ct.kind = "aead"
<1>1. ask \in Reqs
  BY CallType DEF PostOf
<1>2. ask # Null
  BY <1>1, WireAssumption
<1>3. ask.type = "SendMessage" /\ ask.fits /\ ask.to = p /\ ask.convo = x /\ ask.content = ct
  BY DEF PostOf, H!SendMessage
<1> QED
  BY <1>1, <1>2, <1>3 DEF Posts, Texting

\* aliceAddContact: the pair has nothing in common yet.
LEMMA AddSeen ==
    ASSUME Faultless, Proved, InStep, NEW c \in Clients, NEW w \in Workers,
           NEW p \in Clients \ {c}, aliceAddContact(c, w, p)
    PROVE  InStep'
<1>1. PICK x \in Draws : x = Fresh(c)
  BY FreshDraw DEF aliceAddContact
<1>2. PICK ct : ct = FirstHandshakeMessage(x)
  OBVIOUS
<1>3. PICK ask : ask = PostOf(p, x, ct)
  OBVIOUS
<1>4. PICK call : call = Call(<<addContact(p, x)>>, ask, <<>>)
  OBVIOUS
<1>5. Begin(c, w, call) /\ getStateContact(db[c], p) = "noContact"
  <2>1. "hex" \in Mended
    BY DEF Faultless, Places
  <2>2. ("hex" \in Mended) = TRUE
    BY <2>1
  <2> QED
    BY <1>1, <1>2, <1>3, <1>4, <2>2 DEF aliceAddContact, PostOf
<1>6. PICK d \in Databases : d = db[c]
  BY DeliveryTypes DEF Proved
<1>7. PICK f : f = After4(d, call.writes)
  OBVIOUS
<1>8. ct \in Contents /\ ct.kind = "first"
  BY <1>1, <1>2, ContentsKinds DEF FirstHandshakeMessage
<1>9. /\ ask \in Posts /\ ask # Null /\ ask.fits /\ ask.to = p /\ ask.content = ct
      /\ ~Texting(ask) /\ call.ask = ask /\ call.writes = <<addContact(p, x)>>
  <2>1. p \in Clients /\ x \in Draws /\ ct \in Contents /\ ct.kind # "aead"
    BY <1>1, <1>8
  <2>2. /\ ask \in Posts /\ ask # Null /\ ask.fits /\ ask.to = p /\ ask.content = ct
        /\ Texting(ask) <=> ct.kind = "aead"
    BY <1>3, <2>1, PostType
  <2>3. call.ask = ask /\ call.writes = <<addContact(p, x)>>
    BY <1>4 DEF Call
  <2> QED
    BY <2>1, <2>2, <2>3
<1>10. ContactSet(d, f, p, NewContact(0, x))
  <2>1. f = Executed(d, addContact(p, x))
    BY <1>7, <1>9, AfterOne
  <2> QED
    BY <1>1, <1>6, <2>1, SetsContact
<1>11. /\ f \in Databases /\ ~IsAdded(d, p) /\ ~IsAdded(f, p)
       /\ \A q \in Clients \ {p} : f.contacts[q] = d.contacts[q]
       /\ f.convos = d.convos /\ f.messages = d.messages
  <2>1. d.contacts[p] = Null
    BY <1>5, <1>6 DEF getStateContact
  <2>2. d.contacts \in [Clients -> ContactRows \cup {Null}]
    BY <1>6 DEF Databases
  <2>3. f.contacts[p].tag = 0
    BY <1>10, <2>2 DEF ContactSet, NewContact
  <2> QED
    BY <1>10, <2>1, <2>2, <2>3 DEF ContactSet, IsAdded
<1>12. PICK s : s = sent[c]
  OBVIOUS
<1>13. Readies(c, p, d, f, ct, s, s)
  BY <1>8, <1>11, AddMoves DEF Readies
<1>14. Addressed(c, p, ask.convo, ct)
  BY <1>8 DEF Addressed
<1>15. s = IF Texting(ask) THEN Append(s, ask.content) ELSE s
  BY <1>9
<1> QED
  BY <1>5, <1>6, <1>7, <1>9, <1>12, <1>13, <1>14, <1>15, SendSeen

\* bobAcceptContact: the initiator has a message to wait for.
LEMMA AcceptSeen ==
    ASSUME Faultless, Proved, InStep, NEW c \in Clients, NEW w \in Workers,
           NEW p \in Clients \ {c}, bobAcceptContact(c, w, p)
    PROVE  InStep'
<1>1. PICK x \in Draws : x = Fresh(c)
  BY FreshDraw DEF bobAcceptContact
<1>2. PICK d \in Databases : d = db[c]
  BY DeliveryTypes DEF Proved
<1>3. PICK blob : blob = d.contacts[p].blob
  OBVIOUS
<1>4. d.contacts[p] # Null /\ d.contacts[p].tag = 1 /\ blob.kind = "first" /\ blob.init \in Draws
  <2>1. getStateContact(d, p) = "waitingToAccept" /\ acceptContact(blob)
    BY <1>2, <1>3 DEF bobAcceptContact
  <2>2. d.contacts[p] # Null /\ d.contacts[p].tag = 1
    BY <2>1 DEF getStateContact
  <2>3. blob \in Contents
    BY <1>2, <1>3, <2>1, WaitingBlobs
  <2> QED
    BY <2>1, <2>2, <2>3, ContentsKinds DEF acceptContact
<1>5. PICK ct : ct = SecondHandshakeMessage(blob, x)
  OBVIOUS
<1>6. PICK t1, t2 : /\ t1 = ThreadState(blob.init, x, "responder")
                    /\ t2 = ThreadState(blob.init, x, "initiator")
  OBVIOUS
<1>7. PICK ask : ask = PostOf(p, x, ct)
  OBVIOUS
<1>8. PICK call : call = Call(<<finalizeContact(p, t1, t2)>>, ask, <<>>)
  OBVIOUS
<1>9. Begin(c, w, call)
  BY <1>1, <1>2, <1>3, <1>5, <1>6, <1>7, <1>8 DEF bobAcceptContact, PostOf, Faultless, Places
<1>10. /\ ct \in SecondHandshakes /\ ct \in Contents /\ ct.kind = "second"
       /\ ct.init = blob.init /\ ct.resp = x
  BY <1>1, <1>4, <1>5 DEF SecondHandshakeMessage, SecondHandshakes, Contents
<1>11. /\ ask \in Posts /\ ask # Null /\ ask.fits /\ ask.to = p /\ ask.content = ct
      /\ ~Texting(ask) /\ call.ask = ask /\ call.writes = <<finalizeContact(p, t1, t2)>>
  <2>1. p \in Clients /\ x \in Draws /\ ct \in Contents /\ ct.kind # "aead"
    BY <1>1, <1>10
  <2>2. /\ ask \in Posts /\ ask # Null /\ ask.fits /\ ask.to = p /\ ask.content = ct
        /\ Texting(ask) <=> ct.kind = "aead"
    BY <1>7, <2>1, PostType
  <2>3. call.ask = ask /\ call.writes = <<finalizeContact(p, t1, t2)>>
    BY <1>8 DEF Call
  <2> QED
    BY <2>1, <2>2, <2>3
<1>12. PICK f : f = After4(d, call.writes)
  OBVIOUS
<1>13. ContactSet(d, f, p, [tag |-> 2, blob |-> Null, c1 |-> t1, c2 |-> t2])
  <2>1. f = Executed(d, finalizeContact(p, t1, t2))
    BY <1>11, <1>12, AfterOne
  <2>2. t1 \in ThreadStates /\ t2 \in ThreadStates
    BY <1>1, <1>4, <1>6, KeysType
  <2> QED
    BY <1>2, <1>4, <2>1, <2>2, SetsContact
<1>14. f \in Databases /\ Accepts(p, d, f, ct)
  BY <1>3, <1>4, <1>6, <1>10, <1>13 DEF Accepts, ContactSet
<1>15. PICK s : s = sent[c]
  OBVIOUS
<1>16. Readies(c, p, d, f, ct, s, s)
  BY <1>10, <1>14, AcceptMoves DEF Readies
<1>17. Addressed(c, p, ask.convo, ct)
  BY <1>10 DEF Addressed
<1>18. s = IF Texting(ask) THEN Append(s, ask.content) ELSE s
  BY <1>11
<1> QED
  BY <1>2, <1>9, <1>11, <1>12, <1>15, <1>16, <1>17, <1>18, SendSeen

\* The request that carries a text.
LEMMA TextType ==
    ASSUME Faultless, NEW c \in Clients, NEW p \in Clients, NEW x \in Draws, NEW s \in SessionKeys,
           NEW t \in Texts, t.size = "fits", t.by = c,
           NEW ct, ct = encryptMessage(s, x, c, p, t), NEW ask, ask = ToHub(x, ct)
    PROVE  /\ ask \in Posts /\ ask # Null /\ ask.fits
           /\ ask.to = p /\ ask.convo = x /\ ask.content = ct /\ Texting(ask)
           /\ ct \in Ciphertexts /\ ct \in Contents
           /\ ct.kind = "aead" /\ ct.key = s /\ ct.convo = x /\ ct.from = c /\ ct.to = p
           /\ ct.text = t
<1>1. /\ ct \in Ciphertexts /\ ct \in Contents
  BY ContentsKinds
<1>2. /\ ct.kind = "aead" /\ ct.key = s /\ ct.convo = x /\ ct.from = c /\ ct.to = p
      /\ ct.text = t
  BY DEF encryptMessage
<1>3. ask = H!SendMessage(ct.to, x, ct, ct.text.size = "fits")
  BY DEF ToHub, Faultless, Places
<1>4. /\ ask.type = "SendMessage" /\ ask.to = p /\ ask.convo = x /\ ask.content = ct
      /\ ask.fits = (ct.text.size = "fits")
  BY <1>2, <1>3 DEF H!SendMessage
<1>5. ask.fits
  BY <1>2, <1>4
<1>6. ask # Null /\ ask \in Reqs
  <2>1. ask \in Reqs \cup {Null}
    BY ToHubType
  <2>2. H!SendMessage(ct.to, x, ct, ct.text.size = "fits") \in Reqs
    BY <1>1, <1>2, CallType
  <2>3. ask \in Reqs
    BY <1>3, <2>2
  <2> QED
    BY <2>3, WireAssumption
<1> QED
  BY <1>1, <1>2, <1>4, <1>5, <1>6 DEF Posts, Texting

\* What was sent stays with the text that comes after it.
LEMMA WriteSends ==
    ASSUME Faultless, Proved, InStep, NEW c \in Clients, NEW w \in Workers, NEW call,
           Begin(c, w, call), NEW p \in Clients \ {c}, NEW ask, ask = call.ask,
           ask \in Posts, ask # Null, ask.fits, ask.to = p, Texting(ask),
           NEW ct \in Ciphertexts, ask.content = ct, ask.convo = ct.convo, ct.kind = "aead",
           ct.from = c, ct.to = p, ct.text.by = c,
           NEW d, d = db[c], NEW f \in Databases, f = After4(d, call.writes),
           \/ StartsThread(p, d, f, ct) /\ ct.convo.who = c
           \/ WritesText(p, d, f, ct)
    PROVE  InStep'
<1>1. PICK s : s = sent[c]
  OBVIOUS
<1>2. PICK new : new = Append(s, ct)
  OBVIOUS
<1>3. Homed(d)
  BY DEF Proved, Delivery, ReceiversOK, Received
<1>4. Readies(c, p, d, f, ct, s, new)
  <2>1. IsAppended(s, ct, new)
    BY <1>2 DEF IsAppended
  <2>2. ASSUME NEW e, NEW M, Pair(c, p, d, e, M, s)
        PROVE  Moves(c, p, d, e, f, M, ct, s, new)
    BY <1>3, <2>1, <2>2, WriteMoves
  <2> QED
    BY <2>2 DEF Readies
<1>5. Addressed(c, p, ask.convo, ask.content)
  BY DEF Addressed
<1>6. new = IF Texting(ask) THEN Append(s, ask.content) ELSE s
  BY <1>2
<1>7. Readies(c, p, d, f, ask.content, s, new)
  BY <1>4
<1> QED
  BY <1>1, <1>5, <1>6, <1>7, SendSeen

LEMMA ThreadSeen ==
    ASSUME Faultless, Proved, InStep, NEW c \in Clients, NEW w \in Workers,
           NEW p \in Clients \ {c}, NEW size \in Sizes, sendNewThread(c, w, p, size)
    PROVE  InStep'
<1>1. PICK x \in Draws : x = Fresh(c)
  BY FreshDraw DEF sendNewThread
<1>2. PICK t \in Texts : t = Typed(c, size)
  BY FreshDraw DEF sendNewThread
<1>3. x.who = c /\ db[c].convos[x] = Null /\ t.by = c /\ t.size = "fits"
  <2>1. Draw(c)
    BY DEF sendNewThread
  <2>2. x.who = c /\ db[c].convos[x] = Null /\ t.by = c /\ t.size = size
    BY <1>1, <1>2, <2>1, FreshDraw
  <2> QED
    BY <2>2 DEF Faultless
<1>4. PICK d \in Databases : d = db[c]
  BY DeliveryTypes DEF Proved
<1>5. threadRatchetStatesReady(d, p) /\ IsAdded(d, p) /\ d.contacts[p] # Null
  <2>1. threadRatchetStatesReady(d, p)
    BY <1>4 DEF sendNewThread
  <2> QED
    BY <2>1 DEF threadRatchetStatesReady, IsAdded, Faultless, Places
<1>6. PICK t1 \in ThreadStates : t1 = d.contacts[p].c1
  BY <1>4, <1>5, ReadyHasStates
<1>7. PICK s1, s2, s, r : /\ s1 = InitiatorThread(t1) /\ s2 = ResponderThread(t1)
                          /\ s = AfterAEAD(s1) /\ r = Ratchet(t1)
  OBVIOUS
<1>8. s1 \in SessionKeys /\ s2 \in SessionKeys /\ s \in SessionKeys /\ r \in ThreadStates
  BY <1>6, <1>7, KeysType
<1>9. PICK ct : ct = encryptMessage(s1, x, c, p, t)
  OBVIOUS
<1>10. PICK ask : ask = ToHub(x, ct)
  OBVIOUS
<1>11. PICK ws : ws = <<updateThreadRatchetStates(p, r, Null), createConvo(x, p, t, s1, s2),
                        updateSessionKeys(x, p, s, Null)>>
  OBVIOUS
<1>12. PICK call : call = Call(ws, ask, <<>>)
  OBVIOUS
<1>13. Begin(c, w, call) /\ call.ask = ask /\ call.writes = ws
  <2>1. call.ask = ask /\ call.writes = ws
    BY <1>12 DEF Call
  <2>2. Begin(c, w, call)
    BY <1>1, <1>2, <1>4, <1>6, <1>7, <1>9, <1>10, <1>11, <1>12 DEF sendNewThread
  <2> QED
    BY <2>1, <2>2
<1>14. /\ ask \in Posts /\ ask # Null /\ ask.fits
       /\ ask.to = p /\ ask.convo = x /\ ask.content = ct /\ Texting(ask)
       /\ ct \in Ciphertexts /\ ct.kind = "aead" /\ ct.key = s1 /\ ct.convo = x
       /\ ct.from = c /\ ct.to = p /\ ct.text = t
  BY <1>1, <1>2, <1>3, <1>8, <1>9, <1>10, TextType
<1>15. PICK f : f = After4(d, ws)
  OBVIOUS
<1>16. f \in Databases /\ StartsThread(p, d, f, ct)
  <2>1. Starting(d, p, x, t, r, s1, s2, s, f)
    BY <1>5, <1>8, <1>11, <1>15 DEF Starting
  <2>2. PICK mine, row : /\ mine = [d.contacts[p] EXCEPT !.c1 = r]
                         /\ row = [peer |-> p, title |-> t, c1 |-> s, c2 |-> s2]
    OBVIOUS
  <2>3. ThreadSet(d, f, p, mine, x, row)
    BY <2>1, <2>2, AfterThread
  <2> QED
    BY <1>3, <1>4, <1>5, <1>6, <1>7, <1>14, <2>2, <2>3 DEF StartsThread, ThreadSet
<1> QED
  BY <1>3, <1>4, <1>13, <1>14, <1>15, <1>16, WriteSends

LEMMA InConvoSeen ==
    ASSUME Faultless, Proved, InStep, NEW c \in Clients, NEW w \in Workers,
           NEW p \in Clients \ {c}, NEW size \in Sizes, NEW x \in Draws,
           sendInConvo(c, w, x, p, size)
    PROVE  InStep'
<1>1. PICK t \in Texts : t = Typed(c, size)
  BY FreshDraw DEF sendInConvo
<1>2. t.by = c /\ t.size = "fits"
  <2>1. Draw(c)
    BY DEF sendInConvo
  <2>2. t.by = c /\ t.size = size
    BY <1>1, <2>1, FreshDraw
  <2> QED
    BY <2>2 DEF Faultless
<1>3. PICK d \in Databases : d = db[c]
  BY DeliveryTypes DEF Proved
<1>4. HasConvo(d, x, p)
  BY <1>3 DEF sendInConvo, sessionKeysFound, HasConvo
<1>5. PICK s1 \in SessionKeys : s1 = d.convos[x].c1
  BY <1>3, <1>4, ConvoStates
<1>6. PICK s : s = AfterAEAD(s1)
  OBVIOUS
<1>7. PICK ct : ct = encryptMessage(s1, x, c, p, t)
  OBVIOUS
<1>8. PICK ask : ask = ToHub(x, ct)
  OBVIOUS
<1>9. PICK ws : ws = <<updateSessionKeys(x, p, s, Null)>>
  OBVIOUS
<1>10. PICK after : after = IF "todo" \in Mended THEN <<storeMessage(x, TRUE, t)>> ELSE <<>>
  OBVIOUS
<1>11. PICK call : call = Call(ws, ask, after)
  OBVIOUS
<1>12. Begin(c, w, call) /\ call.ask = ask /\ call.writes = ws
  <2>1. call.ask = ask /\ call.writes = ws
    BY <1>11 DEF Call
  <2>2. Begin(c, w, call)
    BY <1>1, <1>3, <1>5, <1>6, <1>7, <1>8, <1>9, <1>10, <1>11 DEF sendInConvo
  <2> QED
    BY <2>1, <2>2
<1>13. /\ ask \in Posts /\ ask # Null /\ ask.fits
       /\ ask.to = p /\ ask.convo = x /\ ask.content = ct /\ Texting(ask)
       /\ ct \in Ciphertexts /\ ct.kind = "aead" /\ ct.key = s1 /\ ct.convo = x
       /\ ct.from = c /\ ct.to = p /\ ct.text = t
  BY <1>1, <1>2, <1>5, <1>7, <1>8, TextType
<1>14. PICK f : f = After4(d, ws)
  OBVIOUS
<1>15. f \in Databases /\ WritesText(p, d, f, ct)
  <2>1. s \in SessionKeys
    BY <1>6, KeysType
  <2>2. ConvoSet(d, f, x, [d.convos[x] EXCEPT !.c1 = s])
    BY <1>3, <1>4, <1>9, <1>14, <2>1, AfterSend
  <2> QED
    BY <1>4, <1>5, <1>6, <1>13, <2>2 DEF WritesText, ConvoSet
<1> QED
  BY <1>2, <1>3, <1>12, <1>13, <1>14, <1>15, WriteSends

-----------------------------------------------------------------------------
(* An answer comes in *)

\* e is d with one more text, which changes nothing on other links.
OneMore(d, e, mr) ==
    /\ d \in Databases /\ mr \in MessageRows
    /\ e.convos = d.convos /\ e.messages = Append(d.messages, mr)
LEMMA NotShown ==
    ASSUME NEW d, NEW e, NEW mr, OneMore(d, e, mr),
           NEW q, NEW x \in Draws, ~IsShown(d, mr, q, x)
    PROVE  ShownIn(e, q, x) = ShownIn(d, q, x)
BY ShownStored DEF OneMore

\* To store an own text touches no one.
LEMMA OwnTexts ==
    ASSUME NEW d \in Databases, NEW ws \in Seq(Statements), Stores(ws),
           \A i \in DOMAIN ws : ws[i].mine, NEW f, f = After4(d, ws)
    PROVE  f \in Databases /\ \A q : Untouched(d, f, q)
<1>1. CASE ws = <<>>
  <2>1. f = d
    BY <1>1, AfterNone
  <2> QED
    BY <2>1 DEF Untouched
<1>2. CASE ws # <<>>
  <2>1. Len(ws) = 1 /\ 1 \in DOMAIN ws /\ ws[1] \in Statements
    <3>1. DOMAIN ws = 1 .. Len(ws) /\ Len(ws) \in Nat /\ Len(ws) # 0
      BY <1>2
    <3>2. Len(ws) \in DOMAIN ws
      BY <3>1
    <3>3. Len(ws) = 1
      BY <3>2 DEF Stores
    <3> QED
      BY <3>2, <3>3
  <2>2. PICK st \in Statements : st = ws[1]
    BY <2>1
  <2>3. ws = <<st>>
    BY <2>1, <2>2
  <2>4. st.do = "storeMessage" /\ st.mine
    BY <2>1, <2>2 DEF Stores
  <2>5. f = Executed(d, st) /\ f \in Databases
    <3>1. f = Executed(d, st)
      BY <2>3, AfterOne
    <3> QED
      BY <2>2, <3>1, ExecutedType
  <2>6. /\ [convo |-> st.id, mine |-> st.mine, text |-> st.text] \in MessageRows
        /\ f.convos = d.convos
        /\ f.messages = Append(d.messages, [convo |-> st.id, mine |-> st.mine, text |-> st.text])
    <3>1. \A g : g = Executed(d, st) /\ st.do = "storeMessage" =>
             /\ [convo |-> st.id, mine |-> st.mine, text |-> st.text] \in MessageRows
             /\ g.convos = d.convos
             /\ g.messages = Append(d.messages, [convo |-> st.id, mine |-> st.mine,
                                                 text |-> st.text])
      BY ExecutedMessages
    <3> QED
      BY <2>4, <2>5, <3>1
  <2>7. PICK mr \in MessageRows :
           /\ mr = [convo |-> st.id, mine |-> st.mine, text |-> st.text]
           /\ f.messages = Append(d.messages, mr)
    BY <2>6
  <2>8. f.contacts = d.contacts
    <3>1. st.do \notin ContactStatements
      BY <2>4 DEF ContactStatements
    <3>2. st.do \notin ContactStatements => Executed(d, st).contacts = d.contacts
      BY ExecutedFrame
    <3> QED
      BY <2>5, <3>1, <3>2
  <2>9. ASSUME NEW q, NEW y \in Draws PROVE ShownIn(f, q, y) = ShownIn(d, q, y)
    <3>1. ~IsShown(d, mr, q, y)
      BY <2>4, <2>7 DEF IsShown
    <3>2. OneMore(d, f, mr)
      BY <2>6, <2>7 DEF OneMore
    <3> QED
      BY <3>1, <3>2, NotShown
  <2> QED
    BY <2>5, <2>6, <2>8, <2>9 DEF Untouched, HasConvo
<1> QED
  BY <1>1, <1>2

\* The client c takes res from the wire, and goes on with next.
Answers(c, d, call, wire, res, next) ==
    /\ c \in Clients /\ d \in Databases /\ d = db[c] /\ call \in Calls /\ wire = Wire(c)
    /\ res \in Resps /\ res # Null /\ wire.req = Null /\ wire.res = res
    /\ IF Sends(call.ask) THEN res.type = "success" ELSE res.type = "message"
    /\ next = IF Sends(call.ask) THEN Call(call.after, Null, <<>>)
              ELSE IF res.msg = Null THEN Idle
              ELSE Call(Dispatch(d, c, res.msg), Null, <<>>)
    /\ Settled[c] = d /\ Settled' = [Settled EXCEPT ![c] = After4(d, next.writes)]
    /\ Lines[c] = HandedBy(wire) \o pending[c] /\ Lines' = [Lines EXCEPT ![c] = pending[c]]
    /\ pending[c] \in Seq(Msgs)
    /\ Outs' = Outs /\ Made' = Made
    /\ ViewType(Settled, Lines, Outs, Made) /\ AllInStep(Settled, Lines, Outs, Made)

\* The client c settles a database that touches no one.
Storing(S, L, O, T, c, f, S1) ==
    /\ ViewType(S, L, O, T) /\ AllInStep(S, L, O, T)
    /\ c \in Clients /\ f \in Databases
    /\ \A q \in Clients \ {c} : Untouched(S[c], f, q)
    /\ S1 = [S EXCEPT ![c] = f]

LEMMA ViewStored ==
    ASSUME NEW S, NEW L, NEW O, NEW T, NEW c, NEW f, NEW S1, Storing(S, L, O, T, c, f, S1)
    PROVE  AllInStep(S1, L, O, T)
<1> USE DEF Storing
<1>1. \A q \in Clients \ {c} : Untouched(S[c], f, q)
  OBVIOUS
<1>2. ViewType(S, L, O, T) /\ AllInStep(S, L, O, T) /\ S1 = [S EXCEPT ![c] = f]
  OBVIOUS
<1>3. c \in Clients /\ f \in Databases
  OBVIOUS
<1> HIDE DEF Storing
<1> QED
  BY <1>1, <1>2, <1>3, ViewStores

\* After what was sent, an own text may be left to store.
LEMMA StoreSeen ==
    ASSUME NEW c, NEW d, NEW call, NEW wire, NEW res, NEW next,
           Answers(c, d, call, wire, res, next), Sends(call.ask),
           Stores(call.after), \A i \in DOMAIN call.after : call.after[i].mine
    PROVE  AllInStep(Settled', Lines', Outs', Made')
<1> USE DEF Answers
<1>1. next.writes = call.after /\ call.after \in Seq(Statements)
  BY DEF Call, Calls
<1>2. PICK f : f = After4(d, next.writes)
  OBVIOUS
<1>3. f \in Databases /\ \A q : Untouched(d, f, q)
  BY <1>1, <1>2, OwnTexts
<1>4. Lines' = Lines
  <2>1. HandedBy(wire) = <<>>
    BY DEF HandedBy, Hands
  <2>2. Lines[c] = pending[c]
    BY <2>1
  <2> QED
    BY <2>2 DEF ViewType
<1>5. ASSUME NEW S, S = Settled, NEW S1, S1 = Settled', NEW L, L = Lines,
             NEW O, O = Outs, NEW T, T = Made
      PROVE  AllInStep(S1, L, O, T)
  <2>1. Storing(S, L, O, T, c, f, S1)
    BY <1>2, <1>3, <1>5 DEF Storing
  <2> QED
    BY <2>1, ViewStored
<1> QED
  BY <1>4, <1>5

\* The hub had nothing.
LEMMA NothingSeen ==
    ASSUME NEW c, NEW d, NEW call, NEW wire, NEW res, NEW next,
           Answers(c, d, call, wire, res, next), ~Sends(call.ask), res.msg = Null
    PROVE  AllInStep(Settled', Lines', Outs', Made')
<1> USE DEF Answers
<1>1. next.writes = <<>>
  BY DEF Idle, Call
<1>2. After4(d, next.writes) = d
  BY <1>1, AfterNone
<1>3. Settled' = Settled
  BY <1>2 DEF ViewType
<1>4. HandedBy(wire) = <<>>
  BY DEF HandedBy, Hands
<1>5. Lines[c] = pending[c]
  BY <1>4
<1>6. Lines' = Lines
  BY <1>5 DEF ViewType
<1> QED
  BY <1>3, <1>6

\* A message is read.
LEMMA MessageSeen ==
    ASSUME Faultless, Proved, NEW c, NEW d, NEW call, NEW wire, NEW res, NEW next,
           Answers(c, d, call, wire, res, next), ~Sends(call.ask),
           NEW m \in Msgs, m = res.msg, m # Null, SentTo(c, m, Settled),
           \A y \in Draws : Carries(m.content, y) => ~Heard(d.contacts[m.from], y)
    PROVE  AllInStep(Settled', Lines', Outs', Made')
<1> USE DEF Answers
<1>1. next.writes = Dispatch(d, c, m)
  BY DEF Call
<1>2. PICK f : f = After4(d, Dispatch(d, c, m))
  OBVIOUS
<1>3. HandedBy(wire) = <<m>>
  BY DEF HandedBy, Hands, Answered
<1>4. PICK box \in Seq(Msgs) : box = pending[c]
  OBVIOUS
<1>5. Lines[c] = <<m>> \o box
  BY <1>3, <1>4
<1>6. Lines[c] # <<>> /\ m = Head(Lines[c]) /\ box = Tail(Lines[c])
  BY <1>4, <1>5
<1>7. Homed(d)
  BY DEF Proved, Delivery, ReceiversOK, Received
<1>8. \A q \in Clients : Agrees(q, Settled[q], Settled)
  BY SettledAgrees DEF Proved
<1>9. ASSUME NEW S, S = Settled, NEW L, L = Lines, NEW S1, S1 = Settled', NEW L1, L1 = Lines'
      PROVE  AllInStep(S1, L1, Outs, Made)
  <2>1. Handing(S, L, Outs, Made, c, m)
    BY <1>6, <1>7, <1>8, <1>9 DEF Handing
  <2>2. /\ f = After4(S[c], Dispatch(S[c], c, m)) /\ box = Tail(L[c])
        /\ S1 = [S EXCEPT ![c] = f] /\ L1 = [L EXCEPT ![c] = box]
    BY <1>1, <1>2, <1>4, <1>6, <1>9
  <2> QED
    BY <2>1, <2>2, ViewReads
<1> QED
  BY <1>9

\* The answer is taken from the wire.
LEMMA TakesAnswer ==
    ASSUME Faultless, Proved, InStep, NEW c \in Clients, NEW w \in Workers, Receive(c, w)
    PROVE  /\ \E d, wire, res, next : Answers(c, d, op[c][w], wire, res, next)
           /\ Synced'
<1>0. IInv /\ Synced
  BY DEF Proved, InStep
<1>1. PICK call : call = op[c][w] /\ call.writes = <<>> /\ call.ask # Null
  BY DEF Receive, AtHub
<1>2. call # Idle
  BY <1>1 DEF Idle, Call
<1>3. /\ hubConn \in [Clients -> Conns \cup {Null}] /\ conn \in [Conns -> Wires]
      /\ UNCHANGED <<db, hubConn, pending, sent>>
  BY <1>0, DeliveryTypes DEF Receive
<1>4. PICK k \in Conns : k = hubConn[c] /\ k # Null
  BY <1>3 DEF Receive, Exchanging
<1>5. PICK wire \in Wires : wire = Wire(c) /\ wire = conn[k]
  BY <1>3, <1>4 DEF Wire, WireAt
<1>6. PICK d \in Databases : d = db[c]
  BY <1>0, DeliveryTypes
<1>7. PICK res \in Resps : res = wire.res /\ res # Null
  BY <1>4, <1>5 DEF Receive, Wires
<1>8. /\ call \in Calls /\ \A v \in Workers \ {w} : op[c][v] = Idle
      /\ InUse(call, wire) /\ Settled[c] = After4(d, call.writes)
      /\ Outs[c] = OutOf(call, wire) /\ Made[c] = MadeBy(sent[c], call, wire)
      /\ Lines[c] = HandedBy(wire) \o pending[c]
  BY <1>0, <1>1, <1>2, <1>5, <1>6, TheCall
<1>9. Settled[c] = d
  BY <1>1, <1>8, AfterNone
<1>10. /\ wire.req = Null /\ Busy(wire) /\ Answered(wire)
       /\ Sends(call.ask) => res = [type |-> "success", ok |-> TRUE]
       /\ ~Sends(call.ask) => res.type = "message"
  <2>1. Busy(wire)
    BY <1>7 DEF Busy
  <2>2. wire.req = Null
    BY <1>7, <1>8, <2>1 DEF InUse
  <2> QED
    BY <1>7, <1>8, <2>1, <2>2 DEF InUse, Answered
<1>11. PICK new : new = [wire EXCEPT !.res = Null]
  OBVIOUS
<1>12. PICK next :
          next = IF Sends(call.ask) THEN Call(call.after, Null, <<>>)
                 ELSE IF res.msg = Null THEN Idle
                 ELSE Call(Dispatch(d, c, res.msg), Null, <<>>)
  OBVIOUS
<1>13. /\ op' = [op EXCEPT ![c][w] = next] /\ conn' = [conn EXCEPT ![k] = new]
  <2>1. op' = [op EXCEPT ![c][w] =
             IF res.type = "success"
             THEN IF res.ok THEN Call(call.after, Null, <<>>) ELSE Idle
             ELSE IF res.msg = Null THEN Idle
             ELSE Call(Dispatch(d, c, res.msg), Null, <<>>)]
    BY <1>1, <1>4, <1>5, <1>6, <1>7 DEF Receive
  <2>2. CASE Sends(call.ask)
    <3>1. res.type = "success" /\ res.ok
      BY <1>10, <2>2
    <3> QED
      BY <1>4, <1>5, <1>11, <1>12, <2>1, <2>2, <3>1 DEF Receive
  <2>3. CASE ~Sends(call.ask)
    <3>1. res.type # "success"
      BY <1>10, <2>3
    <3> QED
      BY <1>4, <1>5, <1>11, <1>12, <2>1, <2>3, <3>1 DEF Receive
  <2> QED
    BY <2>2, <2>3
<1>14. Running(op'[c]) = next /\ \A q \in Clients \ {c} : op'[q] = op[q]
  BY <1>0, <1>8, <1>13, NextCall
<1>15. WireAt(hubConn'[c], conn') = new
  BY <1>3, <1>4, <1>13 DEF WireAt
<1>16. \A q \in Clients \ {c} : hubConn[q] # k
  <2>1. \A q \in Clients : hubConn[q] = k => conn[k].owner = q
    BY <1>4 DEF Proved, Keys, ConnsOwned
  <2> QED
    BY <1>4, <2>1
<1>17. Alone(c)
  <2>1. \A q \in Clients \ {c} : WireAt(hubConn'[q], conn') = Wire(q)
    BY <1>3, <1>13, <1>16 DEF Wire, WireAt
  <2> QED
    BY <1>3, <1>14, <2>1 DEF Alone
<1>18. new.req = Null /\ new.res = Null /\ new.up = wire.up
  BY <1>10, <1>11 DEF Wires
<1>19. next.ask = Null
  BY <1>12 DEF Call, Idle
<1>20. /\ InUse(next, new) /\ OutOf(next, new) = Null /\ OutOf(call, wire) = Null
       /\ MadeBy(sent[c], next, new) = sent[c] /\ MadeBy(sent[c], call, wire) = sent[c]
       /\ HandedBy(new) = <<>>
  <2>1. ~Busy(new) /\ ~Answered(new)
    BY <1>18 DEF Busy, Answered
  <2>2. ~Sends(next.ask) /\ ~Texting(next.ask)
    BY <1>19 DEF Sends, Texting
  <2> QED
    BY <1>10, <2>1, <2>2 DEF InUse, OutOf, MadeBy, HandedBy
<1>21. Synced'
  <2>1. hubConn[c] # Null => wire.up
    BY <1>0, <1>5 DEF Synced, Wire, WireAt
  <2> QED
    BY <1>0, <1>3, <1>14, <1>15, <1>17, <1>18, <1>20, <2>1, SyncedAlone
<1>22. ViewType(Settled, Lines, Outs, Made)
  BY <1>0, SeenTypes
<1>23. Goes(c, next, new)
  BY <1>14, <1>15, <1>17, SeenAlone
<1>24. pending[c] \in Seq(Msgs)
  BY <1>0, RunningType
<1>25. Settled' = [Settled EXCEPT ![c] = After4(d, next.writes)]
  BY <1>3, <1>6, <1>23 DEF Goes
<1>26. Outs' = Outs /\ Made' = Made
  <2>1. Outs' = [Outs EXCEPT ![c] = Outs[c]] /\ Made' = [Made EXCEPT ![c] = Made[c]]
    BY <1>3, <1>8, <1>20, <1>23 DEF Goes
  <2> QED
    BY <1>22, <2>1 DEF ViewType
<1>27. Lines' = [Lines EXCEPT ![c] = pending[c]]
  <2>1. Lines' = [Lines EXCEPT ![c] = HandedBy(new) \o pending[c]]
    BY <1>3, <1>23 DEF Goes
  <2>2. HandedBy(new) \o pending[c] = pending[c]
    BY <1>20, <1>24
  <2> QED
    BY <2>1, <2>2
<1>28. Answers(c, d, call, wire, res, next)
  <2>1. AllInStep(Settled, Lines, Outs, Made)
    BY DEF InStep
  <2>2. IF Sends(call.ask) THEN res.type = "success" ELSE res.type = "message"
    BY <1>10
  <2> QED
    BY <1>5, <1>6, <1>7, <1>8, <1>9, <1>10, <1>12, <1>22, <1>24, <1>25, <1>26, <1>27, <2>1, <2>2
       DEF Answers
<1> QED
  BY <1>1, <1>21, <1>28

\* The answer comes in.
LEMMA ReceiveSeen ==
    ASSUME Faultless, Proved, InStep, NEW c \in Clients, NEW w \in Workers, Receive(c, w)
    PROVE  InStep'
<1>0. IInv /\ Synced
  BY DEF Proved, InStep
<1>1. PICK call : call = op[c][w]
  OBVIOUS
<1>2. PICK d, wire, res, next : Answers(c, d, call, wire, res, next)
  BY <1>1, TakesAnswer
<1>3. Synced'
  BY TakesAnswer
<1>4. CASE Sends(call.ask)
  <2>1. Stores(call.after)
    BY <1>1 DEF Proved, Secrets, AfterStores
  <2>2. call # Idle
    BY <1>4 DEF Idle, Call, Sends
  <2>3. \A i \in DOMAIN call.after : call.after[i].mine
    BY <1>1, <2>2 DEF Proved, Delivery, CallsOK, CallOK
  <2>4. AllInStep(Settled', Lines', Outs', Made')
    BY <1>2, <1>4, <2>1, <2>3, StoreSeen
  <2> QED
    BY <1>3, <2>4 DEF InStep
<1>5. CASE ~Sends(call.ask) /\ res.msg = Null
  BY <1>2, <1>3, <1>5, NothingSeen DEF InStep
<1>6. CASE ~Sends(call.ask) /\ res.msg # Null
  <2>1. PICK k \in Conns : k = hubConn[c] /\ k # Null /\ conn[k].res # Null
    <3>1. hubConn \in [Clients -> Conns \cup {Null}]
      BY <1>0, DeliveryTypes
    <3> QED
      BY <3>1 DEF Receive, Exchanging
  <2>2. res = conn[k].res /\ d = db[c] /\ res \in Resps /\ res.type = "message"
    <3>1. wire = conn[k]
      BY <1>2, <2>1 DEF Answers, Wire, WireAt
    <3> QED
      BY <1>2, <1>6, <3>1 DEF Answers
  <2>3. PICK m \in Msgs : m = res.msg /\ m # Null
    BY <1>6, <2>2 DEF Resps, H!Responses, Msgs
  <2>4. Hands(res)
    BY <1>2, <1>6, <2>2 DEF Hands, Answers
  <2>5. SentTo(c, m, db)
    <3>1. conn[k].owner = c
      BY <2>1 DEF Proved, Keys, ConnsOwned
    <3> QED
      BY <2>2, <2>3, <2>4, <3>1 DEF Proved, Agreement, WiresAgree, WireAgrees
  <2>6. SentTo(c, m, Settled)
    <3>1. \A q \in Clients : Onward(db[q], Settled[q])
      BY <1>0, SettledAgrees DEF Proved
    <3> QED
      BY <2>5, <3>1, WiresOnward
  <2>7. m.from \in Clients
    BY <2>5 DEF SentTo
  <2>8. ASSUME NEW y \in Draws, Carries(m.content, y), Heard(d.contacts[m.from], y)
        PROVE  FALSE
    <3>1. At("res", k, y)
      BY <2>2, <2>3, <2>4, <2>8 DEF At, ResAt
    <3>2. At("row", c, y)
      BY <2>2, <2>7, <2>8 DEF At, RowAt, HeardIn
    <3>3. "res" \in Spots /\ "row" \in Spots /\ k \in Owners /\ c \in Owners
      BY DEF Spots, Owners
    <3> QED
      BY <3>1, <3>2, <3>3 DEF Proved, Once, InOnePlace
  <2>9. AllInStep(Settled', Lines', Outs', Made')
    BY <1>2, <1>6, <2>3, <2>6, <2>8, MessageSeen
  <2> QED
    BY <1>3, <2>9 DEF InStep
<1> QED
  BY <1>4, <1>5, <1>6

-----------------------------------------------------------------------------
(* The invariant holds *)

\* Nothing was typed before anything was sent.
LEMMA NothingTyped ==
    ASSUME NEW x, NEW q
    PROVE  TypedIn(<<>>, x, q) = <<>>
<1>1. ASSUME NEW I PROVE TextsAt(<<>>, I) = <<>>
  <2>1. Len(<<>>) = 0
    OBVIOUS
  <2>2. PICK g : Collects(g, 0, <<>>, I) /\ TextsAt(<<>>, I) = g[0]
    BY <2>1, TextsAtForm
  <2>3. g[0] = <<>>
    BY <2>2 DEF Collects
  <2> QED
    BY <2>2, <2>3
<1>2. \E I : TypedIn(<<>>, x, q) = TextsAt(<<>>, I)
  BY DEF TypedIn
<1> QED
  BY <1>1, <1>2

\* Two empty databases, and nothing on its way.
LEMMA EmptyInStep ==
    ASSUME NEW c \in Clients, NEW p \in Clients, NEW d, d = EmptyDatabase
    PROVE  PairInStep(c, p, d, d, <<>>, Null, <<>>)
<1>1. /\ \A q \in Clients : d.contacts[q] = Null
      /\ \A x \in Draws : d.convos[x] = Null
  BY DEF EmptyDatabase
<1>2. /\ Created(d, p) = 0 /\ Noticed(d, c) = 0
      /\ ~IsAdded(d, p) /\ ~IsAdded(d, c)
      /\ \A f, g \in Draws : ~Accepted(d.contacts[p], f, g)
  BY <1>1 DEF Created, Noticed, IsAdded, Accepted
<1>3. \A x \in Draws : \A q : ~HasConvo(d, x, q)
  BY <1>1 DEF HasConvo
<1>4. PICK M : M = Mail(c, p, <<>>, Null) /\ M = {}
  <2>1. DOMAIN <<>> = {}
    OBVIOUS
  <2>2. Ahead(c, <<>>) = {}
    BY <2>1 DEF Ahead
  <2>3. Last(p, Null) = {}
    BY DEF Last
  <2>4. Mail(c, p, <<>>, Null) = {}
    BY <2>2, <2>3 DEF Mail
  <2> QED
    BY <2>4
<1>5. OutOrdered(c, p, Null, <<>>)
  BY DEF OutOrdered
<1>6. Matched(c, p, d, d, M)
  <2>1. ContactsMatch(c, p, d, d)
    BY <1>2 DEF ContactsMatch
  <2>2. ThreadsMatch(c, p, d, d)
    <3>1. DrawnWith(d, c, p) = {}
      BY <1>3 DEF DrawnWith
    <3>2. \A n \in 0 .. Created(d, p) : ~(n < Created(d, p))
      BY <1>2
    <3> QED
      BY <3>1, <3>2 DEF ThreadsMatch
  <2>3. ConvosMatch(c, p, d, d)
    BY <1>3 DEF ConvosMatch
  <2>4. NoneTwice(c, p, d, d, M)
    BY <1>4 DEF NoneTwice
  <2>5. NoneLost(c, p, d, d, M)
    BY <1>2, <1>3 DEF NoneLost
  <2> QED
    BY <2>1, <2>2, <2>3, <2>4, <2>5 DEF Matched
<1>7. TextsMatch(c, p, d, d, M, <<>>)
  <2>1. ASSUME NEW x \in Draws
        PROVE  /\ TypedIn(<<>>, x, p) = <<>> /\ ShownIn(d, c, x) = <<>>
               /\ Got(d, c, x) = 0 /\ ~HasConvo(d, x, p)
    BY <1>1, <1>3, NothingTyped DEF ShownIn, Got
  <2> QED
    BY <1>4, <2>1 DEF TextsMatch
<1> QED
  BY <1>4, <1>5, <1>6, <1>7 DEF PairInStep

LEMMA InitInStep ==
    ASSUME Init PROVE InStep
<1>1. /\ \A c \in Clients : /\ db[c] = EmptyDatabase /\ hubConn[c] = Null
                            /\ pending[c] = <<>> /\ sent[c] = <<>>
                            /\ \A w \in Workers : op[c][w] = Idle
  BY DEF Init
<1>2. ASSUME NEW c \in Clients
      PROVE  /\ Running(op[c]) = Idle /\ Wire(c) = NoConn
  BY <1>1 DEF Running, Wire, WireAt
<1>3. /\ Idle.ask = Null /\ Idle.writes = <<>> /\ NoConn.req = Null /\ NoConn.res = Null
  BY DEF Idle, Call, NoConn
<1>4. /\ InUse(Idle, NoConn) /\ OutOf(Idle, NoConn) = Null /\ HandedBy(NoConn) = <<>>
      /\ \A cts : MadeBy(cts, Idle, NoConn) = cts
  BY <1>3 DEF InUse, OutOf, HandedBy, MadeBy, Busy, Answered, Sends, Texting
<1>5. Synced
  BY <1>1, <1>2, <1>4 DEF Synced
<1>6. ASSUME NEW c \in Clients
      PROVE  /\ Settled[c] = EmptyDatabase /\ Lines[c] = <<>>
             /\ Outs[c] = Null /\ Made[c] = <<>>
  <2>1. Settled[c] = EmptyDatabase
    BY <1>1, <1>2, <1>3, AfterNone DEF Settled
  <2>2. Lines[c] = <<>> \o <<>>
    BY <1>1, <1>2, <1>4 DEF Lines
  <2> QED
    BY <1>1, <1>2, <1>4, <2>1, <2>2 DEF Outs, Made
<1>7. \A p \in Clients : LineOrdered(p, Lines[p])
  <2>1. \A p : LineOrdered(p, <<>>)
    BY DEF LineOrdered
  <2> QED
    BY <1>6, <2>1
<1>8. \A c, p \in Clients : c # p =>
         PairInStep(c, p, Settled[c], Settled[p], Lines[p], Outs[c], Made[c])
  BY <1>6, EmptyInStep
<1> QED
  BY <1>5, <1>6, <1>7, <1>8 DEF InStep, AllInStep

\* With nothing that fails, these are the steps that there are.
LEMMA NextInStep ==
    ASSUME Faultless, Proved, InStep, [Next]_vars
    PROVE  InStep'
<1>1. /\ \A c \in Clients, w \in Workers, p \in Clients : ~doDeleteContact(c, w, p)
      /\ \A c \in Clients, w \in Workers : ~ConnError(c, w) /\ ~Crash(c)
      /\ ~hubRestart
  BY DEF Faultless, doDeleteContact, ConnError, Crash, hubRestart, Fault
<1>2. \A c \in Clients, w \in Workers : ~ConnReset(c, w)
  BY DEF InStep, Synced, ConnReset
<1>3. \A c \in Clients : ~Crash(c)
  BY DEF Faultless, Crash, Fault
<1>4. CASE Next
  <2>1. ASSUME NEW c \in Clients, NEW w \in Workers, NEW p \in Clients \ {c},
               \/ aliceAddContact(c, w, p)
               \/ bobAcceptContact(c, w, p)
               \/ \E size \in Sizes :
                     \/ sendNewThread(c, w, p, size)
                     \/ \E id \in Draws : sendInConvo(c, w, id, p, size)
        PROVE  InStep'
    BY <2>1, AddSeen, AcceptSeen, ThreadSeen, InConvoSeen
  <2>2. ASSUME NEW c \in Clients, NEW w \in Workers,
               getNextMessage(c, w) \/ Write(c, w) \/ Ask(c, w) \/ Receive(c, w)
        PROVE  InStep'
    BY <2>2, NextSeen, WriteSeen, AskSeen, ReceiveSeen
  <2>3. ASSUME NEW k \in Conns, handleClient(k) \/ hangUp(k)
        PROVE  InStep'
    BY <2>3, ServeSeen, HangUpSeen
  <2> QED
    BY <1>1, <1>2, <1>3, <1>4, <2>1, <2>2, <2>3 DEF Next
<1>5. CASE UNCHANGED vars
  <2>1. UNCHANGED <<db, op, hubConn, conn, pending, sent>>
    BY <1>5 DEF vars
  <2>2. UNCHANGED <<Settled, Lines, Outs, Made>>
    BY <2>1 DEF Settled, Lines, Outs, Made, Wire
  <2>3. Synced'
    BY <2>1 DEF InStep, Synced, Wire
  <2> QED
    BY <2>2, <2>3 DEF InStep
<1> QED
  BY <1>4, <1>5

\* The invariants of all modules, together.
LEMMA LockstepInvariant ==
    ASSUME Faultless
    PROVE  Spec => [](Proved /\ InStep)
<1>1. /\ "conn" \notin Faults /\ "crash" \notin Faults
      /\ "roles" \in Mended /\ "title" \in Mended /\ "address" \in Mended
  BY DEF Faultless, Places
<1>2. Spec => []Proved
  <2>1. Spec => []Keys
    BY <1>1, KeysInvariant
  <2>2. Spec => []Delivery
    BY <1>1, DeliveryInvariant
  <2>3. Spec => []Ordered
    BY <1>1, OrderedInvariant
  <2>4. IInv /\ Secrets /\ Keys /\ Delivery /\ Ordered /\ Once /\ Agreement => Proved
    BY DEF Proved
  <2> QED
    BY <2>1, <2>2, <2>3, <2>4, TypeInvariant, SecretsInvariant, OnceInvariant,
       AgreementInvariant, PTL
<1>3. Init => InStep
  BY InitInStep
<1>4. Proved /\ InStep /\ [Next]_vars => InStep'
  BY NextInStep
<1> QED
  BY <1>2, <1>3, <1>4, PTL DEF Spec

-----------------------------------------------------------------------------
(* Conversations, and what is handed out next *)

\* Of two clients that both have a conversation, each has it with the other.
LEMMA SharedConvo ==
    ASSUME Stays, NEW D, NEW c \in Clients, NEW p \in Clients, c # p, NEW x \in Draws,
           Agrees(c, D[c], D), Agrees(p, D[p], D),
           D[c].convos[x] # Null, D[p].convos[x] # Null
    PROVE  HasConvo(D[c], x, p) /\ HasConvo(D[p], x, c)
<1>1. /\ ConvoAgrees(c, x, D[c].convos[x], D)
      /\ ConvoAgrees(p, x, D[p].convos[x], D)
  BY DEF Agrees
<1>2. PICK q \in Clients \ {c} : q = D[c].convos[x].peer
  BY <1>1 DEF ConvoAgrees
<1>3. PICK r \in Clients \ {p} : r = D[p].convos[x].peer
  BY <1>1 DEF ConvoAgrees
<1>4. /\ x.who = c \/ (x.who = q /\ HasConvo(D[q], x, c))
      /\ x.who = p \/ (x.who = r /\ HasConvo(D[r], x, p))
  BY <1>1, <1>2, <1>3 DEF ConvoAgrees
<1>5. q = p /\ r = c
  BY <1>2, <1>3, <1>4 DEF HasConvo
<1> QED
  BY <1>2, <1>3, <1>5 DEF HasConvo

\* ConvosAgree: as long as nothing fails and contacts are not deleted, what one
\* of two clients that are between calls sends with in a conversation is what
\* the other one receives with, which is not ahead (sessionKeys of storage.go:
\* createConvo writes it on either side, updateSessionKeys moves it on).
THEOREM ConvosInStep ==
    ASSUME Mended = Places \ {"delete"}, Faults = {}, Sizes \subseteq {"fits"}
    PROVE  Spec => []ConvosAgree
<1>0. Faultless
  BY DEF Faultless
<1>1. Proved /\ InStep => ConvosAgree
  <2> SUFFICES ASSUME Proved, InStep,
                      NEW c \in Clients, NEW p \in Clients, c # p, NEW x \in Draws,
                      db[c].convos[x] # Null, db[p].convos[x] # Null,
                      op[c] = [w \in Workers |-> Idle], op[p] = [w \in Workers |-> Idle]
               PROVE  /\ [db[c].convos[x].c1 EXCEPT !.turn = 0]
                            = [db[p].convos[x].c2 EXCEPT !.turn = 0]
                      /\ db[p].convos[x].c2.turn <= db[c].convos[x].c1.turn
    BY DEF ConvosAgree
  <2>1. MutexFree(c) /\ MutexFree(p)
    BY DEF MutexFree
  <2>2. Settled[c] = db[c] /\ Settled[p] = db[p]
    BY <2>1, Resting
  <2>3. Stays
    BY <1>0 DEF Faultless, Stays
  <2>4. Agrees(c, db[c], db) /\ Agrees(p, db[p], db)
    BY DEF Proved, Agreement, DatabasesAgree
  <2>5. HasConvo(db[c], x, p) /\ HasConvo(db[p], x, c)
    BY <2>3, <2>4, SharedConvo
  <2>6. ConvosMatch(c, p, db[c], db[p])
    BY <2>2 DEF InStep, AllInStep, PairInStep, Matched
  <2> QED
    BY <2>5, <2>6 DEF ConvosMatch, Alike
<1> QED
  BY <1>0, <1>1, LockstepInvariant, PTL

\* The reader of a line can use its first message.
LEMMA HeadDecrypts ==
    ASSUME Faultless, NEW S, NEW L, NEW O, NEW T, NEW p, NEW m, Handing(S, L, O, T, p, m),
           m.content.kind = "aead", NEW c, c = m.from, NEW x, x = m.convo, NEW e, e = S[p]
    PROVE  /\ IsAdded(e, c) /\ Addressed(c, p, x, m.content)
           /\ \/ HasConvo(e, x, c) /\ e.convos[x].c2 = m.content.key
              \/ e.convos[x] = Null /\ m.content.key = InitiatorThread(e.contacts[c].c2)
<1> USE DEF Handing
<1>1. c \in Clients /\ p \in Clients /\ c # p
  BY DEF SentTo, Sendable
<1>2. PICK d \in Databases : d = S[c]
  BY <1>1 DEF ViewType
<1>3. e \in Databases /\ L[p] \in Seq(Msgs) /\ O[c] \in Posts \cup {Null}
  BY <1>1 DEF ViewType
<1>4. PairInStep(c, p, d, e, L[p], O[c], T[c]) /\ LineOrdered(p, L[p])
  BY <1>1, <1>2 DEF AllInStep
<1>5. PICK line \in Seq(Msgs) : line = L[p]
  BY <1>3
<1>6. PICK out : out = O[c]
  OBVIOUS
<1>7. PICK new : new = Tail(line)
  OBVIOUS
<1>8. /\ Oldest(Mail(c, p, line, out), m.content, Mail(c, p, new, out))
      /\ m \in Msgs /\ Addressed(c, p, x, m.content)
  <2>1. line # <<>> /\ LineOrdered(p, line) /\ OutOrdered(c, p, out, line) /\ m = Head(line)
    BY <1>4, <1>5, <1>6 DEF PairInStep
  <2> QED
    BY <1>1, <1>7, <2>1, HeadOldest
<1>9. PICK M \in SUBSET Contents : M = Mail(c, p, line, out)
  BY <1>3, <1>5, <1>6, MailType
<1>10. Peers(c, p, d, e) /\ Peers(p, c, e, d)
  <2>1. Stays
    BY DEF Faultless, Stays
  <2>2. \A f : f = S[c] => Peers(c, p, f, S[p])
    BY <1>1, <2>1, PeersOf
  <2>3. \A f : f = S[p] => Peers(p, c, f, S[c])
    BY <1>1, <2>1, PeersOf
  <2> QED
    BY <1>2, <2>2, <2>3
<1>11. Matched(c, p, d, e, M)
  BY <1>4, <1>5, <1>6, <1>9 DEF PairInStep
<1>12. PICK ct : ct = m.content
  OBVIOUS
<1>13. PICK N : Oldest(M, ct, N)
  BY <1>8, <1>9, <1>12
<1>14. x = ct.convo
  BY <1>8, <1>12 DEF Addressed
<1>15. c # p /\ ct.kind = "aead"
  BY <1>1, <1>12
<1> HIDE DEF Handing
<1>16. /\ IsAdded(e, c)
       /\ \/ HasConvo(e, x, c) /\ e.convos[x].c2 = ct.key
          \/ e.convos[x] = Null /\ ct.key = InitiatorThread(e.contacts[c].c2)
  <2>1. PICK y : y = ct.convo
    OBVIOUS
  <2>2. PICK f \in Databases : f = e
    BY <1>3
  <2>3. Peers(c, p, d, f) /\ Peers(p, c, f, d) /\ Matched(c, p, d, f, M)
    BY <1>10, <1>11, <2>2
  <2>4. /\ IsAdded(f, c)
        /\ \/ HasConvo(f, y, c) /\ f.convos[y].c2 = ct.key
           \/ f.convos[y] = Null /\ ct.key = InitiatorThread(f.contacts[c].c2)
    BY <1>1, <1>13, <1>15, <2>1, <2>3, OldestDecrypts
  <2> QED
    BY <1>14, <2>1, <2>2, <2>4
<1> QED
  BY <1>8, <1>12, <1>16

\* NextDecrypts: as long as nothing fails and contacts are not deleted, the
\* message that the hub hands out next (handleGetNextMessage) is one that its
\* reader decrypts, with the state of the conversation or that of the contact
\* (handleNewMessage of sasayaki.go).
THEOREM NextReads ==
    ASSUME Mended = Places \ {"delete"}, Faults = {}, Sizes \subseteq {"fits"}
    PROVE  Spec => []NextDecrypts
<1>0. Faultless
  BY DEF Faultless
<1>1. ASSUME Proved, InStep, NEW c \in Clients, MutexFree(c), pending[c] # <<>>,
             NEW m, m = Head(pending[c]), m.content.kind = "aead"
      PROVE  /\ ContactAdded(c, m.from)
             /\ decryptMessage(IF ConvoExist(db[c], m.convo)
                               THEN db[c].convos[m.convo].c2
                               ELSE InitiatorThread(db[c].contacts[m.from].c2), c, m)
  <2>1. Settled[c] = db[c] /\ Lines[c] = pending[c]
    BY <1>1, Resting
  <2>2. /\ ViewType(Settled, Lines, Outs, Made) /\ AllInStep(Settled, Lines, Outs, Made)
        /\ IInv /\ pending[c] \in Seq(Msgs)
    BY <1>1, SeenTypes, RunningType DEF InStep, Proved
  <2>3. m \in Msgs
    BY <1>1, <2>2
  <2>4. /\ \A q \in Clients : Agrees(q, Settled[q], Settled)
        /\ \A q \in Clients : Onward(db[q], Settled[q])
    BY <1>1, SettledAgrees DEF Proved
  <2>5. SentTo(c, m, db)
    <3>1. 1 \in DOMAIN pending[c] /\ m = pending[c][1]
      BY <1>1, <2>2
    <3> QED
      BY <1>1, <3>1 DEF Proved, Agreement, BoxesAgree
  <2>6. SentTo(c, m, Settled)
    BY <2>3, <2>4, <2>5, WiresOnward
  <2>7. Homed(db[c])
    BY <1>1 DEF Proved, Delivery, ReceiversOK, Received
  <2>8. \A y \in Draws : ~Carries(m.content, y)
    BY <1>1 DEF Carries
  <2>9. ASSUME NEW S, S = Settled, NEW L, L = Lines, NEW O, O = Outs, NEW T, T = Made
        PROVE  Handing(S, L, O, T, c, m)
    BY <1>1, <2>1, <2>2, <2>4, <2>6, <2>7, <2>8, <2>9 DEF Handing
  <2>10. PICK p, x, e : p = m.from /\ x = m.convo /\ e = db[c]
    OBVIOUS
  <2>11. ASSUME NEW S, S = Settled, NEW L, L = Lines, NEW O, O = Outs, NEW T, T = Made
         PROVE  /\ IsAdded(e, p) /\ Addressed(p, c, x, m.content)
                /\ \/ HasConvo(e, x, p) /\ e.convos[x].c2 = m.content.key
                   \/ e.convos[x] = Null /\ m.content.key = InitiatorThread(e.contacts[p].c2)
    <3>1. Handing(S, L, O, T, c, m)
      BY <2>9, <2>11
    <3>2. e = S[c]
      BY <2>1, <2>10, <2>11
    <3> QED
      BY <1>0, <1>1, <2>10, <3>1, <3>2, HeadDecrypts
  <2>12. /\ IsAdded(e, p) /\ Addressed(p, c, x, m.content)
         /\ \/ HasConvo(e, x, p) /\ e.convos[x].c2 = m.content.key
            \/ e.convos[x] = Null /\ m.content.key = InitiatorThread(e.contacts[p].c2)
    BY <2>11
  <2> QED
    BY <1>1, <2>10, <2>12 DEF IsAdded, ContactAdded, Addressed, ConvoExist, HasConvo, decryptMessage
<1>2. Proved /\ InStep => NextDecrypts
  BY <1>1 DEF NextDecrypts
<1> QED
  BY <1>0, <1>2, LockstepInvariant, PTL

-----------------------------------------------------------------------------
(* Nothing is left out: the rest does not use that the clients are in step *)

\* q sent t to p in the conversation x, with the state of turn n.
Numbered(S, p, q, x, n, t) ==
    \E i \in DOMAIN S[q] :
        /\ S[q][i].convo = x /\ S[q][i].to = p
        /\ S[q][i].text = t
        /\ S[q][i].key.turn = n

\* The database d of p shows, of every conversation, the texts of all turns
\* before the one with which it receives next, each at its place.
Gapless(p, d, S) ==
    \A q \in Clients, x \in Draws :
        LET shown == ShownIn(d, q, x) IN
        /\ Len(shown) = Got(d, q, x)
        /\ \A k \in DOMAIN shown : Numbered(S, p, q, x, k - 1, shown[k])

\* A whole call shows no more than the text of the next turn.
ReadsOn(p, d, e, S) ==
    \A q \in Clients, x \in Draws :
        LET shown == ShownIn(d, q, x) IN
        \/ Got(e, q, x) = Got(d, q, x) /\ ShownIn(e, q, x) = shown
        \/ \E t \in Texts :
              /\ Got(e, q, x) = Got(d, q, x) + 1
              /\ ShownIn(e, q, x) = Append(shown, t)
              /\ Numbered(S, p, q, x, Got(d, q, x), t)

\* The invariant: so it is before every call, and where the statements left of
\* a call will lead.  (Between two of them the new state is stored and the text
\* is not, which is where a client must not be killed.)
NoGaps ==
    \A c \in Clients :
        /\ MutexFree(c) => Gapless(c, db[c], sent)
        /\ \A w \in Workers :
              op[c][w] # Idle => Gapless(c, After4(db[c], op[c][w].writes), sent)

LEMMA GaplessOn ==
    ASSUME NEW p, NEW S, NEW d \in Databases, NEW e, Gapless(p, d, S), ReadsOn(p, d, e, S)
    PROVE  Gapless(p, e, S)
<1>1. ASSUME NEW q \in Clients, NEW x \in Draws
      PROVE  /\ Len(ShownIn(e, q, x)) = Got(e, q, x)
             /\ \A k \in DOMAIN ShownIn(e, q, x) :
                   Numbered(S, p, q, x, k - 1, ShownIn(e, q, x)[k])
  <2>1. PICK s \in Seq(Texts) : s = ShownIn(d, q, x)
    BY ShownType
  <2>2. Len(s) = Got(d, q, x) /\ \A k \in DOMAIN s : Numbered(S, p, q, x, k - 1, s[k])
    BY <2>1 DEF Gapless
  <2>3. CASE Got(e, q, x) = Got(d, q, x) /\ ShownIn(e, q, x) = s
    BY <2>2, <2>3
  <2>4. ASSUME NEW t \in Texts, Got(e, q, x) = Got(d, q, x) + 1,
               ShownIn(e, q, x) = Append(s, t), Numbered(S, p, q, x, Got(d, q, x), t)
        PROVE  /\ Len(ShownIn(e, q, x)) = Got(e, q, x)
               /\ \A k \in DOMAIN ShownIn(e, q, x) :
                     Numbered(S, p, q, x, k - 1, ShownIn(e, q, x)[k])
    <3>1. PICK u : u = Append(s, t)
      OBVIOUS
    <3>2. PICK n \in Nat : n = Len(s)
      BY <2>1
    <3>3. /\ Len(u) = n + 1 /\ DOMAIN u = 1 .. n + 1 /\ DOMAIN s = 1 .. n
          /\ u[n + 1] = t /\ \A k \in 1 .. n : u[k] = s[k]
      BY <2>1, <3>1, <3>2
    <3>4. ASSUME NEW k \in 1 .. n + 1 PROVE Numbered(S, p, q, x, k - 1, u[k])
      <4>1. CASE k = n + 1
        <5>1. k - 1 = n
          BY <4>1
        <5> QED
          BY <2>2, <2>4, <3>2, <3>3, <4>1, <5>1
      <4>2. CASE k # n + 1
        <5>1. k \in 1 .. n
          BY <4>2
        <5> QED
          BY <2>2, <3>3, <5>1
      <4> QED
        BY <4>1, <4>2
    <3> QED
      BY <2>2, <2>4, <3>1, <3>2, <3>3, <3>4
  <2> QED
    BY <2>1, <2>3, <2>4 DEF ReadsOn
<1> QED
  BY <1>1 DEF Gapless

\* It stays so when more is sent.
LEMMA GaplessMore ==
    ASSUME NEW p, NEW d, NEW S, NEW T, Extends(S, T), Gapless(p, d, S)
    PROVE  Gapless(p, d, T)
<1>1. \A q \in Clients : \A x, n, t : Numbered(S, p, q, x, n, t) => Numbered(T, p, q, x, n, t)
  BY DEF Numbered, Extends
<1> QED
  BY <1>1 DEF Gapless

-----------------------------------------------------------------------------
(* What calls show *)

LEMMA QuietReads ==
    ASSUME NEW p, NEW S, NEW d, NEW e, SameShown(d, e),
           \A q \in Clients, x \in Draws : Got(e, q, x) = Got(d, q, x)
    PROVE  ReadsOn(p, d, e, S)
BY DEF SameShown, ReadsOn

\* A call with one statement on contacts, or none.
LEMMA ContactReads ==
    ASSUME NEW p, NEW S, NEW d \in Databases, Homed(d),
           NEW st \in Statements, st.do \in ContactStatements
    PROVE  ReadsOn(p, d, After4(d, <<st>>), S)
<1>1. PICK e : e = Executed(d, st)
  OBVIOUS
<1>2. After4(d, <<st>>) = e
  BY <1>1, AfterOne
<1>3. SameShown(d, e)
  BY <1>1, ShowsNothing
<1>4. e.convos = d.convos
  BY <1>1, ExecutedFrame
<1>5. \A q \in Clients, x \in Draws : Got(e, q, x) = Got(d, q, x)
  BY <1>4 DEF Got, HasConvo
<1> QED
  BY <1>2, <1>3, <1>5, QuietReads

LEMMA NothingReads ==
    ASSUME NEW p, NEW S, NEW d PROVE ReadsOn(p, d, After4(d, <<>>), S)
<1>1. After4(d, <<>>) = d
  BY AfterNone
<1> QED
  BY <1>1 DEF ReadsOn

\* Own texts.
LEMMA StoreReads ==
    ASSUME NEW p, NEW S, NEW d \in Databases, NEW ws \in Seq(Statements), Stores(ws),
           \A i \in DOMAIN ws : ws[i].mine
    PROVE  ReadsOn(p, d, After4(d, ws), S)
<1>1. PICK e : e = After4(d, ws)
  OBVIOUS
<1>2. \A q : Untouched(d, e, q)
  BY <1>1, OwnTexts
<1>3. SameShown(d, e)
  BY <1>2 DEF SameShown, Untouched
<1>4. \A q \in Clients, x \in Draws : Got(e, q, x) = Got(d, q, x)
  BY <1>2 DEF Got, Untouched
<1> QED
  BY <1>1, <1>3, <1>4, QuietReads

\* sendInConvo: the state with which p receives stays.
LEMMA InConvoReads ==
    ASSUME NEW p, NEW S, NEW d \in Databases, Homed(d), NEW q \in Clients, NEW x \in Draws,
           HasConvo(d, x, q), NEW s \in SessionKeys
    PROVE  ReadsOn(p, d, After4(d, <<updateSessionKeys(x, q, s, Null)>>), S)
<1>1. PICK st \in Statements : st = updateSessionKeys(x, q, s, Null)
  BY StatementsType
<1>2. PICK e : e = Executed(d, st)
  OBVIOUS
<1>3. After4(d, <<st>>) = e
  BY <1>2, AfterOne
<1>4. SameShown(d, e)
  <2>1. st.do = "updateSessionKeys"
    BY <1>1 DEF updateSessionKeys
  <2> QED
    BY <1>2, <2>1, ShowsNothing
<1>5. ConvoSet(d, e, x, [d.convos[x] EXCEPT !.c1 = s])
  BY <1>1, <1>2, SetsConvo
<1>6. \A r \in Clients, y \in Draws : Got(e, r, y) = Got(d, r, y)
  <2>1. d.convos \in [Draws -> ConvoRows \cup {Null}]
    BY DEF Databases
  <2>2. PICK row \in ConvoRows : row = d.convos[x]
    BY <2>1 DEF HasConvo
  <2>3. PICK new : new = [row EXCEPT !.c1 = s]
    OBVIOUS
  <2>4. /\ new \in ConvoRows /\ new.peer = row.peer /\ new.c2 = row.c2
    BY <2>3 DEF ConvoRows
  <2>5. e.convos[x] = new /\ \A y \in Draws : y # x => e.convos[y] = d.convos[y]
    BY <1>5, <2>1, <2>2, <2>3 DEF ConvoSet
  <2>6. new # Null /\ row # Null
    BY <2>4, RowAssumption
  <2> QED
    BY <2>2, <2>4, <2>5, <2>6 DEF Got, HasConvo
<1> QED
  BY <1>1, <1>3, <1>4, <1>6, QuietReads

\* sendNewThread: of the new conversation nothing was received.
LEMMA ThreadReads ==
    ASSUME NEW p, NEW S, NEW d \in Databases, Homed(d), NEW q \in Clients, q # p,
           NEW x \in Draws, d.convos[x] = Null, threadRatchetStatesReady(d, q),
           NEW t \in Texts, t.by = p, NEW t1, t1 = d.contacts[q].c1,
           NEW s1, s1 = InitiatorThread(t1), NEW s2, s2 = ResponderThread(t1)
    PROVE  ReadsOn(p, d, After4(d, <<updateThreadRatchetStates(q, Ratchet(t1), Null),
                                     createConvo(x, q, t, s1, s2),
                                     updateSessionKeys(x, q, AfterAEAD(s1), Null)>>), S)
<1>1. t1 \in ThreadStates /\ d.contacts[q] # Null
  BY ReadyHasStates DEF threadRatchetStatesReady
<1>2. PICK r \in ThreadStates, k1 \in SessionKeys, k2 \in SessionKeys, s \in SessionKeys :
         r = Ratchet(t1) /\ k1 = s1 /\ k2 = s2 /\ s = AfterAEAD(s1)
  BY <1>1, KeysType
<1>3. PICK e : e = After4(d, <<updateThreadRatchetStates(q, r, Null), createConvo(x, q, t, k1, k2),
                               updateSessionKeys(x, q, s, Null)>>)
  OBVIOUS
<1>4. PICK row : row = [peer |-> q, title |-> t, c1 |-> s, c2 |-> k2]
  OBVIOUS
<1>5. ThreadSet(d, e, q, [d.contacts[q] EXCEPT !.c1 = r], x, row)
  <2>1. Starting(d, q, x, t, r, k1, k2, s, e)
    BY <1>1, <1>3 DEF Starting
  <2> QED
    BY <1>4, <2>1, AfterThread
<1>6. /\ e \in Databases /\ e.messages = d.messages
      /\ e.convos[x] = row /\ \A y \in Draws : y # x => e.convos[y] = d.convos[y]
  <2>1. d.convos \in [Draws -> ConvoRows \cup {Null}]
    BY DEF Databases
  <2> QED
    BY <1>5, <2>1 DEF ThreadSet
<1>7. row # Null /\ row.title = t /\ row.c2.turn = 0
  <2>1. row \in ConvoRows
    BY <1>2, <1>4 DEF ConvoRows
  <2>2. k2.turn = 0
    BY <1>1, <1>2, Halves
  <2> QED
    BY <1>4, <2>1, <2>2, RowAssumption
<1>8. SameShown(d, e)
  <2>1. ASSUME NEW c \in Clients, NEW y \in Draws PROVE ShownIn(e, c, y) = ShownIn(d, c, y)
    <3>1. CASE y # x
      BY <1>6, <3>1, ShownRow
    <3>2. CASE y = x /\ c # p
      <4>1. TitleIn(e.convos[x], c) = <<>>
        BY <1>6, <1>7, <3>2 DEF TitleIn
      <4> QED
        BY <1>6, <1>7, <3>2, <4>1, ShownNew
    <3>3. CASE y = x /\ c = p
      BY <1>4, <1>6, <3>3 DEF ShownIn
    <3> QED
      BY <3>1, <3>2, <3>3
  <2> QED
    BY <2>1 DEF SameShown
<1>9. \A c \in Clients, y \in Draws : Got(e, c, y) = Got(d, c, y)
  BY <1>6, <1>7 DEF Got, HasConvo
<1> QED
  BY <1>2, <1>3, <1>8, <1>9, QuietReads

\* A ciphertext that decrypts was sent with the turn of the state at hand.
LEMMA DecryptedTurn ==
    ASSUME NEW S \in [Clients -> Seq(Ciphertexts)], InOrder(S), NEW p, NEW m \in Msgs,
           MailOK(S, m.content), NEW s \in SessionKeys, decryptMessage(s, p, m)
    PROVE  /\ m.content.text \in Texts /\ m.content.text.by = m.from
           /\ Numbered(S, p, m.from, m.convo, s.turn, m.content.text)
<1>1. /\ m.content.key = s /\ m.content.convo = m.convo /\ m.content.from = m.from
      /\ m.content.to = p /\ m.content.kind = "aead"
  BY DEF decryptMessage
<1>2. PICK i \in DOMAIN S[m.from] : S[m.from][i] = m.content
  BY <1>1 DEF MailOK, SentBy
<1>3. Numbered(S, p, m.from, m.convo, s.turn, m.content.text)
  BY <1>1, <1>2 DEF Numbered
<1> QED
  BY <1>3, Decrypted

\* A text in a conversation that is known: it has the turn that p is at.
LEMMA TextReads ==
    ASSUME NEW p, NEW S, NEW d \in Databases, NEW q \in Clients, NEW x \in Draws,
           HasConvo(d, x, q), NEW s, s = d.convos[x].c2,
           NEW t \in Texts, Numbered(S, p, q, x, s.turn, t)
    PROVE  ReadsOn(p, d, After4(d, <<updateSessionKeys(x, q, Null, AfterAEAD(s)),
                                     storeMessage(x, FALSE, t)>>), S)
<1>1. PICK row \in ConvoRows : row = d.convos[x]
  BY DEF Databases, HasConvo
<1>2. s \in SessionKeys /\ s.turn \in Nat
  BY <1>1, Halves DEF ConvoRows
<1>3. PICK new \in SessionKeys : new = AfterAEAD(s) /\ new.turn = s.turn + 1
  <2>1. AfterAEAD(s) \in SessionKeys /\ AfterAEAD(s).turn = s.turn + 1
    BY <1>2, KeysType, Halves
  <2> QED
    BY <2>1
<1>4. PICK st \in Statements : st = storeMessage(x, FALSE, t)
  BY StatementsType
<1>5. IsText(st, x) /\ st.text = t
  BY <1>4 DEF IsText, storeMessage
<1>6. PICK e : e = After4(d, <<updateSessionKeys(x, q, Null, new), st>>)
  OBVIOUS
<1>7. /\ e.convos = [d.convos EXCEPT ![x] = [d.convos[x] EXCEPT !.c2 = new]]
       /\ \A r, y : y \in Draws =>
             ShownIn(e, r, y) = IF r = q /\ y = x THEN Append(ShownIn(d, r, y), t)
                                ELSE ShownIn(d, r, y)
  <2>1. /\ e.convos = [d.convos EXCEPT ![x] = [d.convos[x] EXCEPT !.c2 = new]]
        /\ \A r, y : y \in Draws =>
              ShownIn(e, r, y) = IF r = q /\ y = x THEN Append(ShownIn(d, r, y), st.text)
                                 ELSE ShownIn(d, r, y)
    BY <1>5, <1>6, AfterText
  <2> QED
    BY <1>5, <2>1
<1>8. PICK row1 \in ConvoRows : row1 = [row EXCEPT !.c2 = new]
  BY <1>1, <1>3 DEF ConvoRows
<1>9. row1.peer = row.peer /\ row1.c2 = new /\ row.peer = q /\ row1 # Null
  BY <1>1, <1>8, RowAssumption DEF HasConvo, ConvoRows
<1>10. e.convos[x] = row1 /\ \A y \in Draws : y # x => e.convos[y] = d.convos[y]
  <2>1. d.convos \in [Draws -> ConvoRows \cup {Null}]
    BY DEF Databases
  <2> QED
    BY <1>1, <1>7, <1>8, <2>1
<1>11. ASSUME NEW r \in Clients, NEW y \in Draws
       PROVE  \/ Got(e, r, y) = Got(d, r, y) /\ ShownIn(e, r, y) = ShownIn(d, r, y)
              \/ /\ Got(e, r, y) = Got(d, r, y) + 1
                 /\ ShownIn(e, r, y) = Append(ShownIn(d, r, y), t)
                 /\ Numbered(S, p, r, y, Got(d, r, y), t)
  <2>1. CASE r = q /\ y = x
    <3>1. Got(d, q, x) = s.turn /\ Got(e, q, x) = new.turn
      BY <1>1, <1>9, <1>10 DEF Got, HasConvo
    <3> QED
      BY <1>3, <1>7, <2>1, <3>1
  <2>2. CASE ~(r = q /\ y = x)
    <3>1. Got(e, r, y) = Got(d, r, y)
      <4>1. CASE y # x
        BY <1>10, <4>1 DEF Got, HasConvo
      <4>2. CASE y = x /\ r # q
        BY <1>1, <1>9, <1>10, <4>2 DEF Got, HasConvo
      <4> QED
        BY <2>2, <4>1, <4>2
    <3> QED
      BY <1>7, <2>2, <3>1
  <2> QED
    BY <2>1, <2>2
<1>12. ReadsOn(p, d, e, S)
  BY <1>11 DEF ReadsOn
<1> QED
  BY <1>3, <1>4, <1>6, <1>12

\* A conversation that is created and shows nothing yet.
LEMMA CreatedReads ==
    ASSUME NEW p, NEW S, NEW d \in Databases, Homed(d), NEW q \in Clients,
           d.contacts[q] # Null, NEW x \in Draws, d.convos[x] = Null,
           NEW r \in ThreadStates, NEW s1 \in SessionKeys, NEW s2 \in SessionKeys, s2.turn = 0
    PROVE  ReadsOn(p, d, After4(d, <<createConvo(x, q, Null, s1, s2),
                                     updateThreadRatchetStates(q, Null, r)>>), S)
<1>1. PICK f : f = Executed(d, createConvo(x, q, Null, s1, s2))
  OBVIOUS
<1>2. PICK row : row = [peer |-> q, title |-> Null, c1 |-> s1, c2 |-> s2]
  OBVIOUS
<1>3. row \in ConvoRows /\ row # Null
  BY <1>2, RowAssumption DEF ConvoRows
<1>4. ConvoSet(d, f, x, row)
  BY <1>1, <1>2, SetsConvo
<1>5. PICK e : e = Executed(f, updateThreadRatchetStates(q, Null, r))
  OBVIOUS
<1>6. /\ f \in Databases /\ f.contacts = d.contacts /\ f.messages = d.messages
      /\ f.convos[x] = row /\ \A y \in Draws : y # x => f.convos[y] = d.convos[y]
  <2>1. d.convos \in [Draws -> ConvoRows \cup {Null}]
    BY DEF Databases
  <2> QED
    BY <1>4, <2>1 DEF ConvoSet
<1>7. e \in Databases /\ e.convos = f.convos /\ e.messages = f.messages
  <2>1. ContactSet(f, e, q, [f.contacts[q] EXCEPT !.c2 = r])
    BY <1>5, <1>6, SetsContact
  <2> QED
    BY <2>1 DEF ContactSet
<1>8. SameShown(d, e)
  <2>1. ASSUME NEW c \in Clients, NEW y \in Draws PROVE ShownIn(e, c, y) = ShownIn(d, c, y)
    <3>1. CASE y # x
      BY <1>6, <1>7, <3>1, ShownRow
    <3>2. CASE y = x
      <4>1. TitleIn(e.convos[x], c) = <<>>
        BY <1>2, <1>6, <1>7 DEF TitleIn
      <4> QED
        BY <1>3, <1>6, <1>7, <3>2, <4>1, ShownNew
    <3> QED
      BY <3>1, <3>2
  <2> QED
    BY <2>1 DEF SameShown
<1>9. \A c \in Clients, y \in Draws : Got(e, c, y) = Got(d, c, y)
  BY <1>2, <1>3, <1>6, <1>7 DEF Got, HasConvo
<1>10. ReadsOn(p, d, e, S)
  BY <1>8, <1>9, QuietReads
<1> QED
  BY <1>1, <1>5, <1>10, AfterTwo

\* The first text of a conversation has turn 0.
LEMMA TitleReads ==
    ASSUME NEW p, NEW S, NEW d \in Databases, Homed(d), NEW q \in Clients, NEW x \in Draws,
           d.convos[x] = Null, d.contacts[q] # Null, NEW r \in ThreadStates,
           NEW s1 \in SessionKeys, NEW s2 \in SessionKeys, s2.turn = 0,
           NEW t \in Texts, t.by = q, Numbered(S, p, q, x, 0, t)
    PROVE  ReadsOn(p, d, After4(d, <<createConvo(x, q, Null, s1, s2),
                                     updateThreadRatchetStates(q, Null, r),
                                     updateSessionKeys(x, q, Null, AfterAEAD(s2)),
                                     updateTitle(x, q, t)>>), S)
<1>1. PICK s \in SessionKeys : s = AfterAEAD(s2) /\ s.turn = 1
  <2>1. AfterAEAD(s2) \in SessionKeys /\ AfterAEAD(s2).turn = s2.turn + 1
    BY KeysType, Halves
  <2> QED
    BY <2>1
<1>2. PICK e : e = After4(d, <<createConvo(x, q, Null, s1, s2),
                               updateThreadRatchetStates(q, Null, r),
                               updateSessionKeys(x, q, Null, s), updateTitle(x, q, t)>>)
  OBVIOUS
<1>3. Opens(d, e, q, x, t, r, s1, s)
  BY <1>2, AfterNew, ZenonT(60)
<1>4. PICK row : row = [peer |-> q, title |-> t, c1 |-> s1, c2 |-> s]
  OBVIOUS
<1>5. row # Null /\ row.peer = q /\ row.c2.turn = 1
  <2>1. row \in ConvoRows
    BY <1>4 DEF ConvoRows
  <2> QED
    BY <1>1, <1>4, <2>1, RowAssumption
<1>6. e.convos[x] = row /\ \A y \in Draws : y # x => e.convos[y] = d.convos[y]
  <2>1. d.convos \in [Draws -> ConvoRows \cup {Null}]
    BY DEF Databases
  <2> QED
    BY <1>3, <1>4, <2>1 DEF Opens
<1>7. ASSUME NEW c \in Clients, NEW y \in Draws
       PROVE  \/ Got(e, c, y) = Got(d, c, y) /\ ShownIn(e, c, y) = ShownIn(d, c, y)
              \/ /\ Got(e, c, y) = Got(d, c, y) + 1
                 /\ ShownIn(e, c, y) = Append(ShownIn(d, c, y), t)
                 /\ Numbered(S, p, c, y, Got(d, c, y), t)
  <2>1. CASE c = q /\ y = x
    <3>1. Got(d, q, x) = 0 /\ ShownIn(d, q, x) = <<>> /\ Got(e, q, x) = 1
      BY <1>5, <1>6 DEF Got, HasConvo, ShownIn
    <3>2. ShownIn(e, q, x) = <<t>>
      BY <1>3 DEF Opens
    <3>3. Append(<<>>, t) = <<t>>
      OBVIOUS
    <3> QED
      BY <2>1, <3>1, <3>2, <3>3
  <2>2. CASE ~(c = q /\ y = x)
    <3>1. Got(e, c, y) = Got(d, c, y)
      BY <1>5, <1>6, <2>2 DEF Got, HasConvo
    <3>2. ShownIn(e, c, y) = ShownIn(d, c, y)
      BY <1>3, <2>2 DEF Opens
    <3> QED
      BY <3>1, <3>2
  <2> QED
    BY <2>1, <2>2
<1>8. ReadsOn(p, d, e, S)
  BY <1>7 DEF ReadsOn
<1> QED
  BY <1>1, <1>2, <1>8

\* Whatever message arrives.
LEMMA DispatchReads ==
    ASSUME "roles" \in Mended, "title" \in Mended,
           NEW S \in [Clients -> Seq(Ciphertexts)], InOrder(S), NEW p \in Clients,
           NEW d \in Databases, Homed(d), NEW m \in Msgs, MailOK(S, m.content)
    PROVE  ReadsOn(p, d, After4(d, Dispatch(d, p, m)), S)
<1>0. PICK q \in Clients, x \in Draws : q = m.from /\ x = m.convo /\ m.content \in Contents
  BY DEF Msgs, H!Messages
<1> DEFINE state == getStateContact(d, q)
<1>1. ReadsOn(p, d, After4(d, <<>>), S)
  BY NothingReads
<1>2. CASE state = "noContact"
  <2>1. PICK st \in Statements : st = addContactFromReq(q, m.content)
    BY <1>0, StatementsType
  <2>2. st.do \in ContactStatements
    BY <2>1 DEF addContactFromReq, ContactStatements
  <2>3. Dispatch(d, p, m) = <<st>>
    BY <1>0, <1>2, <2>1 DEF Dispatch
  <2> QED
    BY <2>2, <2>3, ContactReads
<1>3. CASE state = "waitingForAccept"
  <2>1. PICK e \in Draws : e = d.contacts[q].blob
    BY <1>3, WaitingBlobs
  <2>2. CASE finishAddContact(e, m.content)
    <3>1. PICK f \in Draws : f = m.content.resp
      BY <1>0, <2>2, ContentsKinds DEF finishAddContact
    <3>2. PICK st \in Statements :
             st = finalizeContact(q, ThreadState(e, f, "initiator"),
                                     ThreadState(e, f, "responder"))
      BY KeysType, StatementsType
    <3>3. st.do \in ContactStatements
      BY <3>2 DEF finalizeContact, ContactStatements
    <3>4. Dispatch(d, p, m) = <<st>>
      BY <1>0, <1>3, <2>1, <2>2, <3>1, <3>2 DEF Dispatch, aliceAckAcceptContact
    <3> QED
      BY <3>3, <3>4, ContactReads
  <2>3. CASE ~finishAddContact(e, m.content)
    BY <1>0, <1>1, <1>3, <2>1, <2>3 DEF Dispatch, aliceAckAcceptContact
  <2> QED
    BY <2>2, <2>3
<1>4. CASE state = "contactAdded"
  <2>0. Dispatch(d, p, m) = handleNewMessage(d, p, m)
    BY <1>0, <1>4 DEF Dispatch
  <2>1. CASE ~ConvoExist(d, x) /\ threadRatchetStatesReady(d, q)
    <3>1. Dispatch(d, p, m) = newThread(d, p, m)
      BY <1>0, <2>0, <2>1 DEF handleNewMessage
    <3>2. d.convos[x] = Null /\ d.contacts[q] # Null
      BY <2>1 DEF ConvoExist, threadRatchetStatesReady
    <3>3. PICK t2 \in ThreadStates : t2 = d.contacts[q].c2
      BY <2>1, ReadyHasStates
    <3>4. PICK s1 \in SessionKeys : s1 = InitiatorThread(t2) /\ s1.turn = 0
      BY KeysType, Halves
    <3>5. PICK s2 \in SessionKeys, r \in ThreadStates : s2 = ResponderThread(t2) /\ r = Ratchet(t2)
      BY KeysType
    <3>6. CASE newThread(d, p, m) = <<createConvo(x, q, Null, s2, s1),
                                      updateThreadRatchetStates(q, Null, r)>>
      BY <3>1, <3>2, <3>4, <3>6, CreatedReads
    <3>7. CASE /\ decryptMessage(s1, p, m)
               /\ newThread(d, p, m) = <<createConvo(x, q, Null, s2, s1),
                                         updateThreadRatchetStates(q, Null, r),
                                         updateSessionKeys(x, q, Null, AfterAEAD(s1)),
                                         updateTitle(x, q, m.content.text)>>
      <4>1. PICK t \in Texts : t = m.content.text /\ t.by = q /\ Numbered(S, p, q, x, 0, t)
        BY <1>0, <3>4, <3>7, DecryptedTurn
      <4> QED
        BY <3>1, <3>2, <3>4, <3>7, <4>1, TitleReads
    <3> QED
      BY <1>0, <3>3, <3>4, <3>5, <3>6, <3>7, ReadForms
  <2>2. CASE /\ ConvoExist(d, x) /\ sessionKeysFound(d, x, q)
             /\ decryptMessage(d.convos[x].c2, p, m)
    <3>1. Dispatch(d, p, m) =
             <<updateSessionKeys(x, q, Null, AfterAEAD(d.convos[x].c2)),
               storeMessage(x, FALSE, m.content.text)>>
      BY <1>0, <2>0, <2>2 DEF handleNewMessage
    <3>2. HasConvo(d, x, q)
      BY <2>2 DEF HasConvo, sessionKeysFound
    <3>3. PICK s \in SessionKeys : s = d.convos[x].c2
      <4>1. d.convos[x] \in ConvoRows
        BY <3>2 DEF HasConvo, Databases
      <4> QED
        BY <4>1 DEF ConvoRows
    <3>4. PICK t \in Texts : t = m.content.text /\ Numbered(S, p, q, x, s.turn, t)
      BY <1>0, <2>2, <3>3, DecryptedTurn
    <3> QED
      BY <3>1, <3>2, <3>3, <3>4, TextReads
  <2>3. CASE /\ ~(~ConvoExist(d, x) /\ threadRatchetStatesReady(d, q))
             /\ ~(/\ ConvoExist(d, x) /\ sessionKeysFound(d, x, q)
                  /\ decryptMessage(d.convos[x].c2, p, m))
    <3>1. Dispatch(d, p, m) = <<>>
      BY <1>0, <2>0, <2>3 DEF handleNewMessage
    <3> QED
      BY <1>1, <3>1
  <2> QED
    BY <2>1, <2>2, <2>3
<1>5. CASE state \notin {"noContact", "waitingForAccept", "contactAdded"}
  <2>1. Dispatch(d, p, m) = <<>>
    BY <1>0, <1>5 DEF Dispatch
  <2> QED
    BY <1>1, <2>1
<1> QED
  BY <1>2, <1>3, <1>4, <1>5

-----------------------------------------------------------------------------
(* Nothing is left out, whatever is lost *)

\* A step of one client, or of none.
LEMMA GapsStay ==
    ASSUME NoGaps, NEW c \in Clients,
           \A q \in Clients \ {c} : op'[q] = op[q] /\ db'[q] = db[q],
           Extends(sent, sent'),
           MutexFree(c)' => Gapless(c, db'[c], sent),
           \A w \in Workers :
              op'[c][w] # Idle => Gapless(c, After4(db'[c], op'[c][w].writes), sent)
    PROVE  NoGaps'
<1>1. \A p, d : Gapless(p, d, sent) => Gapless(p, d, sent')
  BY GaplessMore
<1>2. ASSUME NEW q \in Clients \ {c}
      PROVE  /\ MutexFree(q)' => Gapless(q, db'[q], sent')
             /\ \A w \in Workers :
                   op'[q][w] # Idle => Gapless(q, After4(db'[q], op'[q][w].writes), sent')
  BY <1>1, <1>2 DEF NoGaps, MutexFree
<1>3. /\ MutexFree(c)' => Gapless(c, db'[c], sent')
      /\ \A w \in Workers :
            op'[c][w] # Idle => Gapless(c, After4(db'[c], op'[c][w].writes), sent')
  BY <1>1
<1> QED
  BY <1>2, <1>3 DEF NoGaps

\* A call that starts.
LEMMA BeginGapless ==
    ASSUME IInv, NoGaps, NEW c \in Clients, NEW w \in Workers, NEW writes, NEW ask, NEW after,
           Begin(c, w, Call(writes, ask, after)),
           ReadsOn(c, db[c], After4(db[c], writes), sent)
    PROVE  NoGaps'
<1> DEFINE call == Call(writes, ask, after)
<1>1. /\ op \in [Clients -> [Workers -> Calls]] /\ db[c] \in Databases
      /\ MutexFree(c) /\ op' = [op EXCEPT ![c][w] = call] /\ UNCHANGED <<db, sent>>
  BY DeliveryTypes DEF Begin
<1>2. call.writes = writes
  BY DEF Call
<1> HIDE DEF call
<1>3. /\ \A q \in Clients \ {c} : op'[q] = op[q]
      /\ \A v \in Workers \ {w} : op'[c][v] = Idle
      /\ op'[c][w] = call
  BY <1>1 DEF MutexFree
<1>4. Gapless(c, db[c], sent)
  BY <1>1 DEF NoGaps
<1>5. Gapless(c, After4(db[c], writes), sent)
  BY <1>1, <1>4, GaplessOn
<1>6. Extends(sent, sent')
  BY <1>1 DEF Extends
<1> QED
  BY <1>1, <1>2, <1>3, <1>4, <1>5, <1>6, GapsStay

LEMMA CallsGapless ==
    ASSUME IInv, Secrets, Delivery, NoGaps, NEW c \in Clients, NEW w \in Workers,
           NEW p \in Clients, p # c \/ getNextMessage(c, w),
           \/ aliceAddContact(c, w, p)
           \/ bobAcceptContact(c, w, p)
           \/ doDeleteContact(c, w, p)
           \/ \E size \in Sizes :
                 \/ sendNewThread(c, w, p, size)
                 \/ \E id \in Draws : sendInConvo(c, w, id, p, size)
           \/ getNextMessage(c, w)
    PROVE  NoGaps'
<1>0. PICK d \in Databases : d = db[c] /\ Homed(d)
  BY DeliveryTypes DEF Delivery, ReceiversOK, Received
<1>1. ASSUME Draw(c)
      PROVE  /\ Fresh(c) \in Draws /\ d.convos[Fresh(c)] = Null
             /\ \A size \in Sizes : Typed(c, size) \in Texts /\ Typed(c, size).by = c
  <2>1. Fresh(c) \in Draws /\ \A size \in Sizes : Typed(c, size) \in Texts
    BY <1>1, DrawType DEF IInv
  <2>2. ~Drawn(draws, Fresh(c))
    <3>1. draws[c] \in Nat
      BY DeliveryTypes
    <3> QED
      BY <3>1 DEF Drawn, Fresh
  <2>3. d.convos[Fresh(c)] = Null
    BY <1>0, <2>1, <2>2 DEF Secrets, DrawnOnly, RowsDrawn, DrawnRows
  <2> QED
    BY <2>1, <2>3 DEF Typed
<1>2. ASSUME NEW st \in Statements, st.do \in ContactStatements, NEW ask, NEW after,
             Begin(c, w, Call(<<st>>, ask, after))
      PROVE  NoGaps'
  <2>1. ReadsOn(c, d, After4(d, <<st>>), sent)
    BY <1>0, <1>2, ContactReads
  <2> QED
    BY <1>0, <1>2, <2>1, BeginGapless
<1>3. CASE aliceAddContact(c, w, p)
  <2>1. PICK x : Draw(c) /\ x = Fresh(c)
    BY <1>3 DEF aliceAddContact
  <2>2. PICK st \in Statements : st = addContact(p, x)
    BY <1>1, <2>1, StatementsType
  <2>3. st.do \in ContactStatements
    BY <2>2 DEF addContact, ContactStatements
  <2>4. \E ask, after : Begin(c, w, Call(<<st>>, ask, after))
    BY <1>3, <2>1, <2>2 DEF aliceAddContact
  <2> QED
    BY <1>2, <2>3, <2>4
<1>4. CASE bobAcceptContact(c, w, p)
  <2>1. PICK f \in Draws : f = Fresh(c)
    BY <1>1, <1>4 DEF bobAcceptContact
  <2>2. PICK e \in Draws : e = d.contacts[p].blob.init
    <3>1. getStateContact(d, p) = "waitingToAccept" /\ acceptContact(d.contacts[p].blob)
      BY <1>0, <1>4 DEF bobAcceptContact
    <3>2. d.contacts[p].blob \in Contents
      BY <3>1, WaitingBlobs
    <3> QED
      BY <3>1, <3>2, ContentsKinds DEF acceptContact
  <2>3. PICK st \in Statements : st = finalizeContact(p, ThreadState(e, f, "responder"),
                                                        ThreadState(e, f, "initiator"))
    BY KeysType, StatementsType
  <2>4. st.do \in ContactStatements
    BY <2>3 DEF finalizeContact, ContactStatements
  <2>5. \E ask, after : Begin(c, w, Call(<<st>>, ask, after))
    BY <1>0, <1>4, <2>1, <2>2, <2>3 DEF bobAcceptContact
  <2> QED
    BY <1>2, <2>4, <2>5
<1>5. CASE doDeleteContact(c, w, p)
  <2>1. PICK st \in Statements : st = deleteContact(p)
    BY StatementsType
  <2>2. st.do \in ContactStatements
    BY <2>1 DEF deleteContact, ContactStatements
  <2>3. \E ask, after : Begin(c, w, Call(<<st>>, ask, after))
    BY <1>5, <2>1 DEF doDeleteContact
  <2> QED
    BY <1>2, <2>2, <2>3
<1>6. ASSUME p # c, NEW size \in Sizes, sendNewThread(c, w, p, size) PROVE NoGaps'
  <2>1. PICK t1, s1, s2, t, x :
           /\ t1 = d.contacts[p].c1 /\ s1 = InitiatorThread(t1) /\ s2 = ResponderThread(t1)
           /\ t = Typed(c, size) /\ x = Fresh(c)
    OBVIOUS
  <2>2. PICK ws : ws = <<updateThreadRatchetStates(p, Ratchet(t1), Null),
                         createConvo(x, p, t, s1, s2),
                         updateSessionKeys(x, p, AfterAEAD(s1), Null)>>
    OBVIOUS
  <2>3. /\ Draw(c) /\ threadRatchetStatesReady(d, p)
        /\ \E ask, after : Begin(c, w, Call(ws, ask, after))
    BY <1>0, <1>6, <2>1, <2>2 DEF sendNewThread
  <2>4. ReadsOn(c, d, After4(d, ws), sent)
    BY <1>0, <1>1, <1>6, <2>1, <2>2, <2>3, ThreadReads
  <2> QED
    BY <1>0, <2>3, <2>4, BeginGapless
<1>7. ASSUME NEW size \in Sizes, NEW id \in Draws, sendInConvo(c, w, id, p, size)
      PROVE  NoGaps'
  <2>1. HasConvo(d, id, p)
    BY <1>0, <1>7 DEF sendInConvo, sessionKeysFound, HasConvo
  <2>2. PICK s \in SessionKeys : s = AfterAEAD(d.convos[id].c1)
    <3>1. d.convos[id] \in ConvoRows
      BY <2>1 DEF HasConvo, Databases
    <3> QED
      BY <3>1, KeysType DEF ConvoRows
  <2>3. PICK ws : ws = <<updateSessionKeys(id, p, s, Null)>>
    OBVIOUS
  <2>4. \E ask, after : Begin(c, w, Call(ws, ask, after))
    BY <1>0, <1>7, <2>2, <2>3 DEF sendInConvo
  <2>5. ReadsOn(c, d, After4(d, ws), sent)
    BY <1>0, <2>1, <2>3, InConvoReads
  <2> QED
    BY <1>0, <2>4, <2>5, BeginGapless
<1>8. CASE getNextMessage(c, w)
  <2>1. Begin(c, w, Call(<<>>, H!GetNextMessage, <<>>))
    BY <1>8 DEF getNextMessage
  <2> QED
    BY <2>1, NothingReads, BeginGapless
<1> QED
  BY <1>3, <1>4, <1>5, <1>6, <1>7, <1>8

\* A statement is executed: what its call will have shown stays.
LEMMA WriteGapless ==
    ASSUME IInv, Secrets, Keys, NoGaps, NEW c \in Clients, NEW w \in Workers, Write(c, w)
    PROVE  NoGaps'
<1>1. PICK d, call, ws, e :
         /\ d = db[c] /\ call = op[c][w] /\ ws = call.writes /\ e = Executed(d, Head(ws))
  OBVIOUS
<1>2. /\ db \in [Clients -> Databases] /\ op \in [Clients -> [Workers -> Calls]]
      /\ call \in Calls /\ ws \in Seq(Statements) /\ ws # <<>>
      /\ UNCHANGED sent
  BY <1>1, DeliveryTypes DEF Calls, Write
<1>3. call # Idle /\ \A v \in Workers \ {w} : op[c][v] = Idle
  BY <1>1, <1>2 DEF Secrets, OneCall, Idle, Call
<1>4. Len(ws) <= 4 /\ \A i \in DOMAIN ws : ~Violates(d, ws[i])
  BY <1>1, <1>3 DEF Keys, ClientKeys, CallsClean, Planned, Secrets, WritesSafe, SafeWrites
<1>5. ~Violates(d, Head(ws))
  <2>1. 1 \in DOMAIN ws /\ Head(ws) = ws[1]
    BY <1>2
  <2> QED
    BY <1>4, <2>1
<1>6. PICK new : new = [call EXCEPT !.writes = Tail(ws)]
  OBVIOUS
<1>7. /\ op' = [op EXCEPT ![c][w] = new] /\ db' = [db EXCEPT ![c] = e]
  BY <1>1, <1>2, <1>5, <1>6 DEF Write
<1>8. /\ \A q \in Clients \ {c} : op'[q] = op[q] /\ db'[q] = db[q]
      /\ \A v \in Workers \ {w} : op'[c][v] = Idle
      /\ op'[c][w] = new /\ db'[c] = e /\ new.writes = Tail(ws)
  BY <1>2, <1>3, <1>6, <1>7 DEF Calls
<1>9. After4(e, Tail(ws)) = After4(d, ws)
  BY <1>1, <1>2, <1>4, AfterTail
<1>10. Gapless(c, After4(e, Tail(ws)), sent)
  BY <1>1, <1>3, <1>9 DEF NoGaps
<1>11. MutexFree(c)' => Gapless(c, e, sent)
  <2>1. MutexFree(c)' => Tail(ws) = <<>>
    BY <1>8 DEF MutexFree, Idle, Call
  <2>2. After4(e, <<>>) = e
    BY AfterNone
  <2> QED
    BY <1>10, <2>1, <2>2
<1>12. Extends(sent, sent')
  BY <1>2 DEF Extends
<1> QED
  BY <1>8, <1>10, <1>11, <1>12, GapsStay

\* A text goes out.
LEMMA AskGapless ==
    ASSUME IInv, Secrets, Delivery, NoGaps, NEW c \in Clients, NEW w \in Workers, Ask(c, w)
    PROVE  NoGaps'
<1>1. UNCHANGED <<db, op>>
  BY DEF Ask
<1>2. Extends(sent, sent')
  <2>1. sent \in [Clients -> Seq(Ciphertexts)]
    BY DeliveryTypes DEF IInv, TypeOK
  <2>2. \/ UNCHANGED sent
        \/ \E ct \in Ciphertexts : sent' = [sent EXCEPT ![c] = Append(sent[c], ct)]
    BY AskSends
  <2>3. CASE UNCHANGED sent
    BY <2>3 DEF Extends
  <2>4. ASSUME NEW ct \in Ciphertexts, sent' = [sent EXCEPT ![c] = Append(sent[c], ct)]
        PROVE  Extends(sent, sent')
    <3>1. \A i \in DOMAIN sent[c] : i \in DOMAIN sent'[c] /\ sent'[c][i] = sent[c][i]
      BY <2>1, <2>4
    <3>2. \A q \in Clients \ {c} : sent'[q] = sent[q]
      BY <2>1, <2>4
    <3> QED
      BY <3>1, <3>2 DEF Extends
  <2> QED
    BY <2>2, <2>3, <2>4
<1>3. /\ MutexFree(c)' => Gapless(c, db'[c], sent)
      /\ \A w1 \in Workers :
            op'[c][w1] # Idle => Gapless(c, After4(db'[c], op'[c][w1].writes), sent)
  BY <1>1 DEF NoGaps, MutexFree
<1> QED
  BY <1>1, <1>2, <1>3, GapsStay

\* The exchange comes to its end: the answer is read, or given up.
LEMMA EndGapless ==
    ASSUME "roles" \in Mended, "title" \in Mended,
           IInv, Secrets, Keys, Delivery, NoGaps, NEW c \in Clients, NEW w \in Workers,
           Receive(c, w) \/ ConnError(c, w) \/ ConnReset(c, w)
    PROVE  NoGaps'
<1>1. PICK d \in Databases : d = db[c] /\ Homed(d)
  BY DeliveryTypes DEF Delivery, ReceiversOK, Received
<1>2. /\ op \in [Clients -> [Workers -> Calls]] /\ conn \in [Conns -> Wires]
      /\ hubConn \in [Clients -> Conns \cup {Null}]
      /\ AtHub(c, w) /\ UNCHANGED <<db, sent>>
  BY DeliveryTypes DEF Receive, ConnError, ConnReset, GiveUp
<1>3. PICK call \in Calls : call = op[c][w] /\ call.writes = <<>> /\ call # Idle
  BY <1>2 DEF AtHub, Idle, Call
<1>4. \A v \in Workers \ {w} : op[c][v] = Idle
  BY <1>3 DEF Secrets, OneCall
<1>5. Gapless(c, d, sent)
  <2>1. Gapless(c, After4(d, <<>>), sent)
    BY <1>1, <1>3 DEF NoGaps
  <2> QED
    BY <2>1, AfterNone
<1>6. Extends(sent, sent')
  BY <1>2 DEF Extends
<1>7. ASSUME NEW new, op' = [op EXCEPT ![c][w] = new],
             new = Idle \/ ReadsOn(c, d, After4(d, new.writes), sent)
      PROVE  NoGaps'
  <2>1. /\ \A q \in Clients \ {c} : op'[q] = op[q]
        /\ \A v \in Workers \ {w} : op'[c][v] = Idle
        /\ op'[c][w] = new
    BY <1>2, <1>4, <1>7
  <2>2. new # Idle => Gapless(c, After4(d, new.writes), sent)
    BY <1>5, <1>7, GaplessOn
  <2> QED
    BY <1>1, <1>2, <1>5, <1>6, <2>1, <2>2, GapsStay
<1>8. ASSUME NEW ws, op' = [op EXCEPT ![c][w] = Call(ws, Null, <<>>)],
             ReadsOn(c, d, After4(d, ws), sent)
      PROVE  NoGaps'
  <2>1. Call(ws, Null, <<>>).writes = ws
    BY DEF Call
  <2> QED
    BY <1>7, <1>8, <2>1
<1>9. CASE ConnError(c, w) \/ ConnReset(c, w)
  <2>1. op' = [op EXCEPT ![c][w] = Idle]
    BY <1>9 DEF ConnError, ConnReset, GiveUp
  <2> QED
    BY <1>7, <2>1
<1>10. CASE Receive(c, w)
  <2>1. PICK k \in Conns, res \in Resps :
           /\ k = hubConn[c] /\ res = conn[k].res
           /\ op' = [op EXCEPT ![c][w] =
                        IF res.type = "success"
                        THEN IF res.ok THEN Call(call.after, Null, <<>>) ELSE Idle
                        ELSE IF res.msg = Null THEN Idle
                        ELSE Call(Dispatch(d, c, res.msg), Null, <<>>)]
    <3>1. PICK k : k = hubConn[c] /\ k # Null
      BY <1>10 DEF Receive, Exchanging
    <3>2. PICK res : res = conn[k].res /\ res # Null
      BY <1>10, <3>1 DEF Receive
    <3>3. k \in Conns /\ res \in Resps
      BY <1>2, <3>1, <3>2 DEF Wires
    <3> QED
      BY <1>1, <1>3, <1>10, <3>1, <3>2, <3>3 DEF Receive
  <2>2. CASE res.type = "success" /\ res.ok
    <3>1. call.after \in Seq(Statements) /\ Stores(call.after)
      BY <1>3 DEF Calls, Secrets, AfterStores
    <3>2. \A i \in DOMAIN call.after : call.after[i].mine
      BY <1>3 DEF Delivery, CallsOK, CallOK
    <3>3. ReadsOn(c, d, After4(d, call.after), sent)
      BY <3>1, <3>2, StoreReads
    <3> QED
      BY <1>8, <2>1, <2>2, <3>3
  <2>3. CASE res.type # "success" /\ res.msg # Null
    <3>1. PICK m \in Msgs : m = res.msg /\ res.type = "message"
      BY <2>3 DEF Resps, H!Responses, Msgs
    <3>2. MailOK(sent, m.content)
      <4>1. ResOK(sent, res)
        BY <2>1 DEF Delivery, WiresOK
      <4>2. res # Null /\ res.msg # Null
        BY <2>3, WireAssumption
      <4> QED
        BY <3>1, <4>1, <4>2 DEF ResOK
    <3>3. ReadsOn(c, d, After4(d, Dispatch(d, c, m)), sent)
      BY <1>1, <3>2, SenderOrder, DispatchReads
    <3> QED
      BY <1>8, <2>1, <2>3, <3>1, <3>3
  <2>4. CASE (res.type = "success" /\ ~res.ok) \/ (res.type # "success" /\ res.msg = Null)
    BY <1>7, <2>1, <2>4
  <2> QED
    BY <2>2, <2>3, <2>4
<1> QED
  BY <1>9, <1>10

LEMMA GapsInvariant ==
    ASSUME "roles" \in Mended, "title" \in Mended, "address" \in Mended, "crash" \notin Faults
    PROVE  Spec => []NoGaps
<1>1. Init => NoGaps
  <2> SUFFICES ASSUME Init PROVE NoGaps
    OBVIOUS
  <2>1. ASSUME NEW c \in Clients PROVE Gapless(c, db[c], sent)
    <3>1. \A x \in Draws : db[c].convos[x] = Null
      BY DEF Init, EmptyDatabase
    <3>2. \A q \in Clients, x \in Draws : ShownIn(db[c], q, x) = <<>> /\ Got(db[c], q, x) = 0
      BY <3>1 DEF ShownIn, Got, HasConvo
    <3>3. Len(<<>>) = 0 /\ \A k \in DOMAIN <<>> : FALSE
      OBVIOUS
    <3> QED
      BY <3>2, <3>3 DEF Gapless
  <2>2. \A c \in Clients, w \in Workers : op[c][w] = Idle
    <3>1. op = [c \in Clients |-> [w \in Workers |-> Idle]]
      BY DEF Init
    <3> QED
      BY <3>1
  <2>3. \A c \in Clients, w \in Workers :
           op[c][w] # Idle => Gapless(c, After4(db[c], op[c][w].writes), sent)
    BY <2>2
  <2> QED
    BY <2>1, <2>3, ZenonT(30) DEF NoGaps
<1>2. IInv /\ Secrets /\ Keys /\ Delivery /\ NoGaps /\ [Next]_vars => NoGaps'
  <2> SUFFICES ASSUME IInv, Secrets, Keys, Delivery, NoGaps, [Next]_vars PROVE NoGaps'
    OBVIOUS
  <2>1. ASSUME UNCHANGED <<db, op, sent>> PROVE NoGaps'
    BY <2>1 DEF NoGaps, MutexFree
  <2>2. CASE Next
    <3>1. ASSUME NEW c \in Clients, NEW w \in Workers, getNextMessage(c, w) PROVE NoGaps'
      BY <3>1, CallsGapless
    <3>2. ASSUME NEW c \in Clients, NEW w \in Workers, NEW p \in Clients \ {c},
                 \/ aliceAddContact(c, w, p)
                 \/ bobAcceptContact(c, w, p)
                 \/ doDeleteContact(c, w, p)
                 \/ \E size \in Sizes :
                       \/ sendNewThread(c, w, p, size)
                       \/ \E id \in Draws : sendInConvo(c, w, id, p, size)
          PROVE  NoGaps'
      BY <3>2, CallsGapless
    <3>3. ASSUME NEW c \in Clients, NEW w \in Workers,
                 Receive(c, w) \/ ConnError(c, w) \/ ConnReset(c, w)
          PROVE  NoGaps'
      BY <3>3, EndGapless
    <3>4. ASSUME NEW c \in Clients, Crash(c) PROVE FALSE
      <4>1. Fault("crash")
        BY <3>4 DEF Crash
      <4> QED
        BY <4>1 DEF Fault
    <3>5. CASE (\E k \in Conns : handleClient(k) \/ hangUp(k)) \/ hubRestart
      <4>1. ASSUME NEW k \in Conns, handleClient(k) PROVE UNCHANGED <<db, op, sent>>
        BY <4>1, ZenonT(30) DEF handleClient
      <4>2. ASSUME NEW k \in Conns, hangUp(k) PROVE UNCHANGED <<db, op, sent>>
        BY <4>2, ZenonT(30) DEF hangUp
      <4>3. ASSUME hubRestart PROVE UNCHANGED <<db, op, sent>>
        BY <4>3, ZenonT(30) DEF hubRestart
      <4> QED
        BY <2>1, <3>5, <4>1, <4>2, <4>3, ZenonT(30)
    <3> QED
      BY <2>2, <3>1, <3>2, <3>3, <3>4, <3>5, WriteGapless, AskGapless DEF Next
  <2>3. CASE UNCHANGED vars
    BY <2>1, <2>3 DEF vars
  <2> QED
    BY <2>2, <2>3
<1> QED
  BY <1>1, <1>2, TypeInvariant, SecretsInvariant, KeysInvariant, DeliveryInvariant, PTL DEF Spec

-----------------------------------------------------------------------------
(* What is shown is what was sent first *)

\* The sequence t starts with s.
Starts(s, t) == \A k \in DOMAIN s : k \in DOMAIN t /\ s[k] = t[k]

\* A statement takes nothing back that was shown.
LEMMA StepStarts ==
    ASSUME NEW p, NEW S, NEW d \in Databases, NEW e \in Databases, StepOK(p, d, e, S),
           NEW q \in Clients, NEW x \in Draws
    PROVE  Starts(ShownIn(d, q, x), ShownIn(e, q, x))
<1>1. CASE SameShown(d, e)
  BY <1>1 DEF SameShown, Starts
<1>2. ASSUME NEW r \in Clients, NEW y \in Draws, NEW t \in Texts, Shows(p, d, e, r, y, t, S)
      PROVE  Starts(ShownIn(d, q, x), ShownIn(e, q, x))
  <2>1. PICK s \in Seq(Texts) : s = ShownIn(d, q, x)
    BY ShownType
  <2>2. CASE r = q /\ y = x
    <3>1. ShownIn(e, q, x) = Append(s, t)
      BY <1>2, <2>1, <2>2 DEF Shows
    <3>2. \A k \in DOMAIN s : k \in DOMAIN Append(s, t) /\ s[k] = Append(s, t)[k]
      OBVIOUS
    <3> QED
      BY <2>1, <3>1, <3>2 DEF Starts
  <2>3. CASE r # q \/ y # x
    BY <1>2, <2>3 DEF Shows, Starts
  <2> QED
    BY <2>2, <2>3
<1> QED
  BY <1>1, <1>2 DEF StepOK

LEMMA StartsTwice ==
    ASSUME NEW s, NEW t, NEW u, Starts(s, t), Starts(t, u)
    PROVE  Starts(s, u)
BY DEF Starts

\* What was sent on a link is what went out on it.
LEMMA TypedOnLink ==
    ASSUME NEW cts \in Seq(Ciphertexts), NEW x, NEW q
    PROVE  \A k \in DOMAIN TypedIn(cts, x, q) :
              \E i \in DOMAIN cts :
                 /\ cts[i].convo = x /\ cts[i].to = q
                 /\ TypedIn(cts, x, q)[k] = cts[i].text
<1> DEFINE I == {i \in DOMAIN cts : cts[i].convo = x /\ cts[i].to = q}
           T == TypedIn(cts, x, q)
<1>1. T = TextsAt(cts, I)
  BY DEF TypedIn
<1>2. \A e \in Ciphertexts : e.text \in Texts
  BY DEF Ciphertexts
<1>3. \A i \in DOMAIN cts : i \in I => cts[i].convo = x /\ cts[i].to = q
  OBVIOUS
<1> HIDE DEF I, T
<1>4. /\ TextsAt(cts, I) \in Seq(Texts)
      /\ \A k \in DOMAIN TextsAt(cts, I) :
            \E i \in DOMAIN cts : i \in I /\ TextsAt(cts, I)[k] = cts[i].text
      /\ \A i \in DOMAIN cts : i \in I =>
            \E k \in DOMAIN TextsAt(cts, I) : TextsAt(cts, I)[k] = cts[i].text
      /\ (\A i, j \in DOMAIN cts :
             i \in I /\ j \in I /\ i < j => cts[i].text.no < cts[j].text.no)
         => \A k, l \in DOMAIN TextsAt(cts, I) :
               k < l => TextsAt(cts, I)[k].no < TextsAt(cts, I)[l].no
  BY <1>2, TextsAtElements
<1>5. \A k \in DOMAIN T : \E i \in DOMAIN cts : i \in I /\ T[k] = cts[i].text
  BY <1>1, <1>4
<1> QED
  BY <1>3, <1>5 DEF T

\* A number below another stays within its range.
LEMMA NextInRange ==
    ASSUME NEW len \in Nat, NEW k \in 1 .. len, NEW t \in Nat, t < k - 1
    PROVE  t + 1 \in 1 .. len /\ t + 1 < k
OBVIOUS

\* A database without gaps shows the beginning of what was sent: the k-th text
\* shown has the turn k - 1, and the texts went out in the order of turns.
LEMMA GaplessStarts ==
    ASSUME NEW p, NEW q \in Clients, NEW n, NEW d, NEW S, NEW cts \in Seq(Ciphertexts),
           cts = S[q], SenderOK(q, n, d, cts),
           NEW e \in Databases, Gapless(p, e, S), NEW x \in Draws
    PROVE  Starts(ShownIn(e, q, x), TypedIn(cts, x, p))
<1>1. PICK I : I = {i \in DOMAIN cts : cts[i].convo = x /\ cts[i].to = p}
  OBVIOUS
<1>2. PICK shown \in Seq(Texts) : shown = ShownIn(e, q, x)
  BY ShownType
<1>3. ASSUME NEW i \in I
      PROVE  /\ i \in DOMAIN cts /\ i \in Nat
             /\ cts[i].text.no \in Nat /\ cts[i].key.turn \in Nat
  <2>1. i \in DOMAIN cts
    BY <1>1
  <2>2. i \in Nat /\ cts[i] \in Ciphertexts
    BY <2>1
  <2>3. cts[i].text \in Texts /\ cts[i].key \in SessionKeys
    BY <2>2 DEF Ciphertexts
  <2>4. cts[i].text.no \in Nat /\ cts[i].key.turn \in Nat
    BY <2>3 DEF Texts, SessionKeys
  <2> QED
    BY <2>1, <2>2, <2>4
<1>4. \A i, j \in I : i < j => /\ cts[i].text.no < cts[j].text.no
                               /\ cts[i].key.turn < cts[j].key.turn
  <2>1. \A i \in I : i \in DOMAIN cts /\ cts[i].convo = x
    BY <1>1
  <2> QED
    BY <2>1 DEF SenderOK, Follows
<1>5. PICK typed \in Seq(Texts) :
         /\ typed = TypedIn(cts, x, p)
         /\ \A k \in DOMAIN typed : \E i \in I : typed[k] = cts[i].text
         /\ \A i \in I : \E k \in DOMAIN typed : typed[k] = cts[i].text
         /\ \A k, l \in DOMAIN typed : k < l => typed[k].no < typed[l].no
  <2>1. PICK typed : typed = TypedIn(cts, x, p)
    OBVIOUS
  <2>2. typed \in Seq(Texts) /\ \A k, l \in DOMAIN typed : k < l => typed[k].no < typed[l].no
    BY <2>1, TypedOrder
  <2>3. \A k \in DOMAIN typed :
           \E i \in DOMAIN cts : cts[i].convo = x /\ cts[i].to = p /\ typed[k] = cts[i].text
    BY <2>1, TypedOnLink
  <2>4. \A i \in DOMAIN cts : cts[i].convo = x /\ cts[i].to = p =>
           \E k \in DOMAIN typed : typed[k] = cts[i].text
    BY <2>1, TypedOrder
  <2>5. \A k \in DOMAIN typed : \E i \in I : typed[k] = cts[i].text
    BY <1>1, <2>3
  <2>6. \A i \in I : \E k \in DOMAIN typed : typed[k] = cts[i].text
    BY <1>1, <2>4
  <2> QED
    BY <2>1, <2>2, <2>5, <2>6, ZenonT(30)
<1>6. \A k \in DOMAIN shown :
         \E i \in I : cts[i].text = shown[k] /\ cts[i].key.turn = k - 1
  <2>1. \A k \in DOMAIN shown : Numbered(S, p, q, x, k - 1, shown[k])
    BY <1>2, ZenonT(30) DEF Gapless
  <2>2. ASSUME NEW m, NEW t, Numbered(S, p, q, x, m, t)
        PROVE  \E i \in I : cts[i].text = t /\ cts[i].key.turn = m
    <3>1. PICK i \in DOMAIN cts : /\ cts[i].convo = x /\ cts[i].to = p
                                 /\ cts[i].text = t /\ cts[i].key.turn = m
      BY <2>2 DEF Numbered
    <3>2. i \in I
      BY <1>1, <3>1
    <3> QED
      BY <3>1, <3>2
  <2> QED
    BY <2>1, <2>2, ZenonT(30)
\* Neither two texts nor two turns are the same.
<1>7. ASSUME NEW i \in I, NEW j \in I,
             cts[i].text.no = cts[j].text.no \/ cts[i].key.turn = cts[j].key.turn
      PROVE  i = j
  <2>1. i \in Nat /\ j \in Nat
    BY <1>3
  <2>2. /\ cts[i].text.no \in Nat /\ cts[j].text.no \in Nat
        /\ cts[i].key.turn \in Nat /\ cts[j].key.turn \in Nat
    BY <1>3
  <2>3. ~(i < j)
    <3>1. i < j => cts[i].text.no < cts[j].text.no /\ cts[i].key.turn < cts[j].key.turn
      BY <1>4
    <3> QED
      BY <1>7, <2>2, <3>1
  <2>4. ~(j < i)
    <3>1. j < i => cts[j].text.no < cts[i].text.no /\ cts[j].key.turn < cts[i].key.turn
      BY <1>4
    <3> QED
      BY <1>7, <2>2, <3>1
  <2> QED
    BY <2>1, <2>3, <2>4
<1>8. PICK wrong : wrong = {k \in DOMAIN shown : ~(k \in DOMAIN typed /\ shown[k] = typed[k])}
  OBVIOUS
<1>9. ASSUME wrong # {} PROVE FALSE
  <2>1. DOMAIN shown = 1 .. Len(shown) /\ Len(shown) \in Nat
    BY <1>2
  <2>2. wrong \in SUBSET Nat
    BY <1>8, <2>1
  <2>3. PICK k \in wrong : \A l \in wrong : k <= l
    BY <1>9, <2>2, Least
  <2>4. k \in DOMAIN shown /\ k \in Nat /\ k >= 1
    BY <1>8, <2>1, <2>3
  <2>5. \A l \in DOMAIN shown : l < k => l \in DOMAIN typed /\ shown[l] = typed[l]
    <3>1. ASSUME NEW l \in DOMAIN shown, l < k PROVE l \notin wrong
      <4>1. ~(k <= l)
        BY <2>1, <2>4, <3>1
      <4> QED
        BY <2>3, <4>1
    <3> QED
      BY <1>8, <3>1
  <2>6. PICK i \in I : cts[i].text = shown[k] /\ cts[i].key.turn = k - 1
    BY <1>6, <2>4
  <2>7. PICK m \in DOMAIN typed : typed[m] = shown[k]
    BY <1>5, <2>6
  <2>8. DOMAIN typed = 1 .. Len(typed) /\ Len(typed) \in Nat /\ m \in Nat /\ m >= 1
    BY <1>5, <2>7
  <2>9. m # k
    BY <1>8, <2>3, <2>7
  <2>10. ASSUME m < k PROVE FALSE
    <3>1. m \in DOMAIN shown
      BY <2>1, <2>4, <2>8, <2>10
    <3>2. PICK j \in I : cts[j].text = shown[m] /\ cts[j].key.turn = m - 1
      BY <1>6, <3>1
    <3>3. cts[j].text = cts[i].text
      BY <2>5, <2>6, <2>7, <2>10, <3>1, <3>2
    <3>4. i = j
      BY <1>7, <3>3
    <3> QED
      BY <2>4, <2>6, <2>8, <2>9, <3>2, <3>4
  <2>11. ASSUME k < m PROVE FALSE
    <3>1. k \in DOMAIN typed
      BY <2>4, <2>8, <2>11
    <3>2. typed[k].no < typed[m].no
      BY <1>5, <2>11, <3>1
    <3>3. PICK j \in I : typed[k] = cts[j].text
      BY <1>5, <3>1
    <3>4. /\ i \in Nat /\ j \in Nat /\ cts[i].text.no \in Nat /\ cts[j].text.no \in Nat
          /\ cts[i].key.turn \in Nat /\ cts[j].key.turn \in Nat
      BY <1>3
    <3>5. cts[j].text.no < cts[i].text.no
      BY <2>6, <2>7, <3>2, <3>3
    <3>6. j < i
      <4>1. i < j => cts[i].text.no < cts[j].text.no
        BY <1>4
      <4>2. i # j
        BY <3>4, <3>5
      <4> QED
        BY <3>4, <3>5, <4>1, <4>2
    <3>7. PICK t \in Nat : t = cts[j].key.turn /\ t < k - 1
      <4>1. cts[j].key.turn < cts[i].key.turn
        BY <1>4, <3>6
      <4> QED
        BY <2>6, <3>4, <4>1
    <3>8. t + 1 \in DOMAIN shown /\ t + 1 < k
      <4>1. ASSUME NEW len \in Nat, DOMAIN shown = 1 .. len
            PROVE  t + 1 \in DOMAIN shown /\ t + 1 < k
        <5>1. k \in 1 .. len
          BY <2>4, <4>1, ZenonT(30)
        <5>2. t + 1 \in 1 .. len /\ t + 1 < k
          BY <3>7, <5>1, NextInRange
        <5> QED
          BY <4>1, <5>2, ZenonT(30)
      <4> QED
        BY <2>1, <4>1, ZenonT(30)
    <3>9. PICK h \in I : cts[h].text = shown[t + 1] /\ cts[h].key.turn = (t + 1) - 1
      BY <1>6, <3>8
    <3>10. h = j
      <4>1. cts[h].key.turn = cts[j].key.turn
        BY <3>7, <3>9
      <4> QED
        BY <1>7, <4>1
    <3>11. t + 1 \in DOMAIN typed /\ typed[t + 1] = typed[k]
      BY <2>5, <3>3, <3>8, <3>9, <3>10
    <3>12. typed[t + 1].no < typed[k].no
      BY <1>5, <3>1, <3>8, <3>11
    <3> QED
      BY <3>3, <3>4, <3>11, <3>12
  <2> QED
    BY <2>4, <2>8, <2>9, <2>10, <2>11
<1> QED
  BY <1>2, <1>5, <1>8, <1>9 DEF Starts

\* So does a database in the middle of a call: what the call has left to do
\* takes nothing back.
LEMMA ReaderStarts ==
    ASSUME IInv, Delivery, NoGaps, NEW p \in Clients, NEW q \in Clients, NEW x \in Draws
    PROVE  Starts(ShownIn(db[p], q, x), TypedIn(sent[q], x, p))
<1>1. PICK d \in Databases, cts \in Seq(Ciphertexts) : d = db[p] /\ cts = sent[q]
  BY DeliveryTypes
<1>2. SenderOK(q, draws[q], db[q], cts)
  BY <1>1 DEF Delivery, SendersOK
<1>3. \A e \in Databases : Gapless(p, e, sent) => Starts(ShownIn(e, q, x), TypedIn(cts, x, p))
  BY <1>1, <1>2, GaplessStarts
<1>4. CASE MutexFree(p)
  BY <1>1, <1>3, <1>4 DEF NoGaps
<1>5. ASSUME NEW w \in Workers, op[p][w] # Idle
      PROVE  Starts(ShownIn(d, q, x), TypedIn(cts, x, p))
  <2>1. PICK ws \in Seq(Statements) : ws = op[p][w].writes
    BY DeliveryTypes DEF Calls
  <2>2. PICK d1 \in Databases, d2 \in Databases, d3 \in Databases, d4 \in Databases :
           /\ d1 = After1(d, ws) /\ d2 = After2(d, ws)
           /\ d3 = After3(d, ws) /\ d4 = After4(d, ws)
    BY AfterType
  <2>3. /\ StepOK(p, d, d1, sent) /\ StepOK(p, d1, d2, sent)
        /\ StepOK(p, d2, d3, sent) /\ StepOK(p, d3, d4, sent)
    <3>1. StepsOK(p, d, ws, sent)
      BY <1>1, <1>5, <2>1 DEF Delivery, CallsOK, CallOK
    <3> QED
      BY <2>2, <3>1 DEF StepsOK
  <2>4. /\ Starts(ShownIn(d, q, x), ShownIn(d1, q, x)) /\ Starts(ShownIn(d1, q, x), ShownIn(d2, q, x))
        /\ Starts(ShownIn(d2, q, x), ShownIn(d3, q, x)) /\ Starts(ShownIn(d3, q, x), ShownIn(d4, q, x))
    BY <2>3, StepStarts
  <2>5. Gapless(p, d4, sent)
    BY <1>1, <1>5, <2>1, <2>2 DEF NoGaps
  <2> QED
    BY <1>3, <2>4, <2>5, StartsTwice
<1> QED
  BY <1>1, <1>4, <1>5 DEF MutexFree

\* On every link, what was shown is a prefix of what was sent.
Prefixed == \A l \in Links : Starts(shownOnLinks[l], typedOnLinks[l])

LEMMA ShownPrefixed ==
    ASSUME IInv, Delivery, NoGaps
    PROVE  Prefixed
<1>1. ASSUME NEW l \in Links PROVE Starts(shownOnLinks[l], typedOnLinks[l])
  <2>1. PICK c \in Clients, p \in Clients, x \in Draws :
           c = l.from /\ p = l.to /\ x = l.convo /\ c # p
    BY DEF Links
  <2>2. typedOnLinks[l] = TypedIn(sent[c], x, p) /\ shownOnLinks[l] = ShownIn(db[p], c, x)
    BY <2>1, LinkEnds
  <2> QED
    BY <2>2, ReaderStarts
<1> QED
  BY <1>1 DEF Prefixed

\* A step that shows a text behind others shows the next one.
LEMMA StepDelivers ==
    ASSUME "roles" \in Mended, "title" \in Mended,
           IInv, IInv', Secrets, Keys, Delivery, Prefixed, Prefixed', [Next]_vars
    PROVE  [Lossless!Next]_<<typedOnLinks, shownOnLinks>>
<1>1. [Lossy!Next]_<<typedOnLinks, shownOnLinks>>
  BY StepShows
<1>2. ASSUME NEW l \in Links, NEW t \in Texts, Lossy!Type(l, t),
             <<typedOnLinks, shownOnLinks>>' # <<typedOnLinks, shownOnLinks>>
      PROVE  Lossless!Next
  BY <1>2 DEF Lossy!Type, Lossless!Type, Lossless!Next, Lossy!Occurs, Lossless!Occurs
<1>3. ASSUME NEW l \in Links, NEW n \in DOMAIN typedOnLinks[l], Lossy!Show(l, n),
             <<typedOnLinks, shownOnLinks>>' # <<typedOnLinks, shownOnLinks>>
      PROVE  Lossless!Next
  <2>1. PICK c \in Clients, p \in Clients, x \in Draws :
           c = l.from /\ p = l.to /\ x = l.convo /\ c # p
    BY DEF Links
  <2>2. PICK shown \in Seq(Texts) : shown = shownOnLinks[l]
    <3>1. db[p] \in Databases
      BY DeliveryTypes
    <3> QED
      BY <2>1, <3>1, LinkEnds, ShownType
  <2>3. PICK typed \in Seq(Texts) :
           /\ typed = typedOnLinks[l]
           /\ \A j, k \in DOMAIN typed : j < k => typed[j].no < typed[k].no
    <3>1. PICK typed : typed = TypedIn(sent[c], x, p)
      OBVIOUS
    <3>2. SenderOK(c, draws[c], db[c], sent[c]) /\ sent[c] \in Seq(Ciphertexts)
      BY DeliveryTypes DEF Delivery, SendersOK
    <3>3. typed \in Seq(Texts) /\ \A j, k \in DOMAIN typed : j < k => typed[j].no < typed[k].no
      BY <3>1, <3>2, TypedOrder
    <3> QED
      BY <2>1, <3>1, <3>3, LinkEnds
  <2>4. PICK t \in Texts : t = typed[n]
    BY <2>3
  <2>5. shownOnLinks'[l] = Append(shown, t) /\ typedOnLinks'[l] = typed
    <3>1. shownOnLinks' = [shownOnLinks EXCEPT ![l] = Append(shownOnLinks[l], typedOnLinks[l][n])]
      BY <1>3 DEF Lossy!Show
    <3>2. DOMAIN shownOnLinks = Links
      BY DEF shownOnLinks
    <3>3. UNCHANGED typedOnLinks
      BY <1>3 DEF Lossy!Show
    <3> QED
      BY <2>2, <2>3, <2>4, <3>1, <3>2, <3>3
  <2>6. Starts(Append(shown, t), typed)
    BY <2>5 DEF Prefixed
  <2>7. PICK i : i = Len(shown) + 1
    OBVIOUS
  <2>8. i \in DOMAIN Append(shown, t) /\ Append(shown, t)[i] = t
    BY <2>7
  <2>9. i \in DOMAIN typed /\ typed[i] = t
    BY <2>6, <2>8 DEF Starts
  <2>10. n = i
    <3>1. n \in DOMAIN typed /\ typed[n] = t
      BY <2>3, <2>4
    <3>2. ~(n < i) /\ ~(i < n)
      <4>1. t.no \in Nat
        BY DEF Texts
      <4> QED
        BY <2>3, <2>9, <3>1, <4>1
    <3>3. n \in Nat /\ i \in Nat
      BY <2>9, <3>1
    <3> QED
      BY <3>2, <3>3
  <2>11. n = Len(shownOnLinks[l]) + 1
    BY <2>2, <2>7, <2>10
  <2>12. Lossless!Show(l, n)
    BY <1>3, <2>11 DEF Lossy!Show, Lossless!Show, Lossy!Occurs, Lossless!Occurs
  <2> QED
    BY <1>3, <2>12 DEF Lossless!Next
<1>4. CASE UNCHANGED <<typedOnLinks, shownOnLinks>>
  BY <1>4
<1>5. CASE Lossy!Next
  BY <1>2, <1>3, <1>5 DEF Lossy!Next
<1> QED
  BY <1>1, <1>4, <1>5

\* DeliversAll: whatever gets lost, every reader is shown a prefix of what was
\* sent to it, conversation by conversation (getNextMessage of sasayaki.go,
\* storeMessage and updateTitle of storage.go), as long as no client is killed
\* and each can tell its contact's texts from its own: a text behind a lost one
\* does not decrypt, for its turn is not the reader's.
THEOREM ShowsAll ==
    ASSUME "roles" \in Mended, "title" \in Mended, "address" \in Mended, "crash" \notin Faults
    PROVE  Spec => DeliversAll
<1>1. Init => Lossless!Init
  <2> SUFFICES ASSUME Init PROVE Lossless!Init
    OBVIOUS
  <2>1. \A l \in Links : l.from \in Clients /\ l.to \in Clients /\ l.convo \in Draws
    BY DEF Links
  <2>2. \A c \in Clients : sent[c] = <<>> /\ \A x \in Draws : db[c].convos[x] = Null
    <3>1. /\ db = [c \in Clients |-> EmptyDatabase]
          /\ sent = [c \in Clients |-> <<>>]
      BY DEF Init
    <3>2. ASSUME NEW c \in Clients PROVE sent[c] = <<>> /\ db[c] = EmptyDatabase
      BY <3>1
    <3>3. ASSUME NEW x \in Draws PROVE EmptyDatabase.convos[x] = Null
      BY DEF EmptyDatabase
    <3> QED
      BY <3>2, <3>3, ZenonT(30)
  <2>3. ASSUME NEW l \in Links PROVE shownOn(l) = <<>> /\ typedOn(l) = <<>>
    <3>1. shownOn(l) = <<>>
      BY <2>1, <2>2 DEF shownOn
    <3>2. typedOnLinks[l] = TypedIn(<<>>, l.convo, l.to)
      BY <2>1, <2>2, LinkEnds
    <3>3. typedOnLinks[l] = <<>>
      BY <3>2, NothingTyped
    <3> QED
      BY <3>1, <3>3 DEF typedOnLinks
  <2> QED
    BY <2>3 DEF Lossless!Init, typedOnLinks, shownOnLinks
<1>2. IInv /\ Delivery /\ NoGaps => Prefixed
  BY ShownPrefixed
<1>3. IInv /\ IInv' /\ Secrets /\ Keys /\ Delivery /\ Prefixed /\ Prefixed' /\ [Next]_vars
         => [Lossless!Next]_<<typedOnLinks, shownOnLinks>>
  BY StepDelivers
<1> QED
  BY <1>1, <1>2, <1>3, TypeInvariant, SecretsInvariant, KeysInvariant, DeliveryInvariant,
     GapsInvariant, PTL DEF Spec, DeliversAll, Lossless!Spec
=============================================================================
